SPECIFICATION FairSpec
CONSTANTS
  Workers = {w1, w2}
  Commands <- LoginCommands
  Names = {"master"}
  Passwords = {"pass"}
  ChanNames = {"general"}
  LongNames = {}
  Keys = {k1, k2}
  Master = "master"
  MasterPass = "pass"
  General = "general"
  SchemaOrder <- UserLast
  Expiries = {9}
  NowValues = {3}
  Collisions = TRUE
  MaxMessages = 0
  MaxCrashes = 0
PROPERTIES RequestsEnd
