SPECIFICATION Spec
CONSTANTS
  MaxString = 20
  MaxKeys = 5
  SanitizeAt = 10
  MaxRead = 42
  MaxRecord = 50
  Texts <- PlainTexts
  Ints <- SomeInts
  MaxItems = 2
  MaxBehind = 1
INVARIANTS TypeOK ReadsBack RequestsArrive AnswersArrive NobodyWaits
PROPERTIES ImplementsConnection
CHECK_DEADLOCK FALSE
