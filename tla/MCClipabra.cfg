SPECIFICATION ClipabraSpec
CHECK_DEADLOCK FALSE
CONSTANTS
  Values = {a, b}
  maxEntries = 2
  MaxCount = 4
  NoString = NoString
  WritesFail = TRUE
  Others = {"x"}
  MaxEvents = 5
  MaxDisables = 1
  Entries = {e1, e2}
  MaxQueue = 3
  SwitchesHolding = FALSE
INVARIANTS
  ConcealedStaysInMemory
  ExactlyOnce
  MembersInOrder
  DeadManSwitch
PROPERTIES
  NormalSurvivesRelaunch
  OwnWriteIsNotRecaptured
  ConcealedIsWiped
  FiresWhileHeld
  HeldIsReleased
  ReleaseMasks
