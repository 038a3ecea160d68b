CONSTANTS
  Raws = {r1}
  Subscribes = {s1}
  Unsubscribes = {u1}
  Conns = {n1, n2, n3}
  MaxCloses = 2
  NoConn = NoConn
  NoCall = NoCall
SPECIFICATION Spec
INVARIANT ClosedMeansClosed
CHECK_DEADLOCK FALSE
