SPECIFICATION Spec
CONSTANTS
  None = None
  Key <- MCKey
  Letter <- MCLetter
  LayerKey <- MCLayerKey
  Combo <- MCCombos
  Conf <- MCConf
  MaxPressed = 1
  MaxPerKey = 5
  Late = TRUE
  MaxEvents = 6
  MaxOthers = 1
  MaxTime = 4
CHECK_DEADLOCK FALSE
PROPERTIES
  Pipe
  StillApplies
  RaisingEnds
INVARIANTS
  ComboSound
