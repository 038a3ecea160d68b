CONSTANTS
  Raws = {}
  Subscribes = {s1}
  Unsubscribes = {u1, u2}
  Closers = {x1}
  Conns = {n1}
  Keys = {k1}
  MaxId = 3
  StreamCap = 1
  MaxNotes = 1
  NoConn = NoConn
  NoCall = NoCall
  NoKey = NoKey
  NoMsg = NoMsg
SPECIFICATION LiveSpec
INVARIANT NoStreamPanic
PROPERTIES
  CallsReturn
  UnsubscribedStreamsEnd
CHECK_DEADLOCK FALSE
