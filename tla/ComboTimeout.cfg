SPECIFICATION Spec
CONSTANTS
  None = None
  Key <- MCKey
  Letter <- MCLetter
  LayerKey <- MCLayerKey
  Combo <- MCCombos
  Conf <- MCConf
  MaxPressed = 1
  MaxPerKey = 5
  Late = FALSE
  MaxEvents = 7
  MaxOthers = 1
  MaxTime = 5
CHECK_DEADLOCK FALSE
INVARIANT
  CandidatesExpire
