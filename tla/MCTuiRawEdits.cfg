CONSTANTS
  None = None
  Garbage = Garbage
  NoLimits = "none"
  Limits = {"none", "some"}
  Bodies = {"b1"}
  PolicyNames <- PolicyNameList
  NewPolicy = "new"
  Keys <- PressedKeys
  Projects <- ProjectSnapshots
  MaxPresses = 6
SPECIFICATION tuiSpec
PROPERTY RawEditsWin
CHECK_DEADLOCK FALSE
