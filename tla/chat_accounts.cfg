SPECIFICATION Spec
CONSTANTS
  Workers = {w1, w2}
  Commands <- AccountCommands
  Names = {"master", "bob"}
  Passwords = {"pass", "word"}
  ChanNames = {"general"}
  LongNames = {}
  Keys = {k1, k2}
  Master = "master"
  MasterPass = "pass"
  General = "general"
  SchemaOrder <- UserLast
  Expiries = {9}
  NowValues = {3}
  Collisions = TRUE
  MaxMessages = 0
  MaxCrashes = 1
SYMMETRY Symmetry
INVARIANTS ServedAsTokenHolder
PROPERTIES ImplementsLedger
