SPECIFICATION FairSpec
CONSTANTS
  c1 = c1
  c2 = c2
  Conns = {c1, c2}
  NoConn = NoConn
  MaxMessages <- OneBusy
INVARIANTS
  TypeOK
  NoOrphan
  AtMostOneMore
  CollectsOnlyClosed
PROPERTIES
  BusyWorkerStops
  PatientShutdown
