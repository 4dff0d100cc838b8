SPECIFICATION KeySpec
CONSTANTS
  Groups <- CtrlAlt
  Trigger = "q"
  Other = {"x"}
  None = None
PROPERTY HotkeyModifiersComeUp
CHECK_DEADLOCK FALSE
