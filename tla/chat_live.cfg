SPECIFICATION FairSpec
CONSTANTS
  Workers = {w1, w2}
  Commands <- LiveCommands
  Names = {"master"}
  Passwords = {"pass"}
  ChanNames = {"general", "dev"}
  LongNames = {"master"}
  Keys = {k1, k2}
  Master = "master"
  MasterPass = "pass"
  General = "general"
  SchemaOrder <- UserFirst
  Expiries = {9}
  NowValues = {3}
  Collisions = FALSE
  MaxMessages = 1
  MaxCrashes = 1
INVARIANTS References SenderIsMember
PROPERTIES RequestsEnd ImplementsLedger
