SPECIFICATION Spec
CONSTANTS
  c1 = c1
  c2 = c2
  Conns = {c1}
  NoConn = NoConn
  MaxMessages <- One
INVARIANTS StoppedSynchronously
