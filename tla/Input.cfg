CONSTANTS
  Links <- KeysAndPad
  Mappings <- TwoMappings
  Default <- Usual
  RepeatEvery = 1
  RepeatDelay = 2
  ShuffleHold = 3
  ChordHold = 4
  IdleDelay = 5
SPECIFICATION Spec
INVARIANTS TypeOK OneActionPerR2Press
PROPERTIES WakePressIsRemembered ChordRestores
CHECK_DEADLOCK FALSE
