SPECIFICATION Spec
CONSTANTS
  Kinds = {"data", "release"}
  Automatic = {"data", "release"}
  Catalogs = {3}
  Polling = FALSE
  MaxWriters = 2
  MaxChaos = 2
INVARIANTS TypeOK VerifiedMerges WriterDelivers ReleaseDelivers TagsFollowMain
PROPERTY HumanWorkSurvives
CHECK_DEADLOCK FALSE
