SPECIFICATION PanelSpec
CONSTANTS
  Entries = {e1, e2}
  MaxQueue = 3
  SwitchesHolding = TRUE
INVARIANT DeadManSwitch
