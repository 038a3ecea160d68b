CONSTANTS
  Subscribes = {s1, s2}
  Unsubscribes = {u1}
  Conns = {n1, n2}
  Sids = {k1}
  MaxNotes = 2
  NoConn = NoConn
  NoCall = NoCall
  NoSid = NoSid
SPECIFICATION Spec
INVARIANTS
  TypeOK
  PendingIsWaiting
  OneReader
  ConnectionIsRead
  CutMeansOver
  ListenersAreLive
  StreamsAreFaithful
SYMMETRY Symmetry
CHECK_DEADLOCK FALSE
