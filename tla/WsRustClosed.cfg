CONSTANTS
  Raws = {r1}
  Subscribes = {s1}
  Unsubscribes = {u1}
  Conns = {n1, n2}
  Keys = {k1}
  MaxId = 2
  BufferCap = 1
  MaxNotes = 2
  MaxCloses = 1
  Impatient = {r1}
  NoConn = NoConn
  NoCall = NoCall
  NoKey = NoKey
  NoMsg = NoMsg
SPECIFICATION Spec
SYMMETRY Symmetry
INVARIANT ClosedMeansClosed
CHECK_DEADLOCK FALSE
