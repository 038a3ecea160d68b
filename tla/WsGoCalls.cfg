CONSTANTS
  Raws = {r1, r2}
  Subscribes = {}
  Unsubscribes = {}
  Closers = {x1}
  Conns = {n1, n2, n3}
  Keys = {k1}
  MaxId = 3
  StreamCap = 1
  MaxNotes = 0
  NoConn = NoConn
  NoCall = NoCall
  NoKey = NoKey
  NoMsg = NoMsg
SPECIFICATION Spec
SYMMETRY Symmetry
INVARIANTS
  NoReplyPanic
  ClosedMeansClosed
  NoPendingLeak
PROPERTY ImplementsSession
CHECK_DEADLOCK FALSE
