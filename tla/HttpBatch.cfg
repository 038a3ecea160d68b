CONSTANTS
  Exchanges = {x1, x2}
  MaxBatch = 2
  MaxId = 3
  MaxItems = 3
  Bodies <- Likely
  NoCall = NoCall
SPECIFICATION Spec
SYMMETRY Symmetry
INVARIANTS
  TypeOK
  OwnAnswers
  LanguagesAgree
PROPERTIES
  BatchesAreFaithful
CHECK_DEADLOCK FALSE
