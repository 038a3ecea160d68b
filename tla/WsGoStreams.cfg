CONSTANTS
  Raws = {}
  Subscribes = {s1, s2}
  Unsubscribes = {u1}
  Closers = {}
  Conns = {n1, n2}
  Keys = {k1}
  MaxId = 3
  StreamCap = 1
  MaxNotes = 2
  NoConn = NoConn
  NoCall = NoCall
  NoKey = NoKey
  NoMsg = NoMsg
SYMMETRY Symmetry
SPECIFICATION Spec
INVARIANTS
  TypeOK
  NoNoteLost
CHECK_DEADLOCK FALSE
