CONSTANTS
  Links <- PadButtons
  Mappings <- TwoMappings
  Default <- Usual
  RepeatEvery = 1
  RepeatDelay = 2
  ShuffleHold = 3
  ChordHold = 4
  IdleDelay = 5
SPECIFICATION Spec
PROPERTY WakeButtonStaysSilent
CHECK_DEADLOCK FALSE
