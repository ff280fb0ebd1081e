SPECIFICATION Spec
CONSTANTS
  Workers = {w1, w2}
  Commands <- ChannelCommands
  Names = {"master", "bob"}
  Passwords = {"pass"}
  ChanNames = {"general", "dev"}
  LongNames = {}
  Keys = {k1, k2}
  Master = "master"
  MasterPass = "pass"
  General = "general"
  SchemaOrder <- UserLast
  Expiries = {9}
  NowValues = {3}
  Collisions = FALSE
  MaxMessages = 1
  MaxCrashes = 0
SYMMETRY Symmetry
INVARIANTS
  TypeOK References SenderIsMember CreatorIsMember AcknowledgedIsStored
  
PROPERTIES ImplementsLedger
