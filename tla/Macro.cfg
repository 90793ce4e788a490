SPECIFICATION Spec
CONSTANTS
  None = None
  Setups <- MCSetups
  QueueSize = 5
  MaxNum = 2
  MaxKeys = 4
CHECK_DEADLOCK FALSE
INVARIANTS
  MacroSound
  AwakeToCount
  Restored
PROPERTIES
  StepsInOrder
  QueueDrains
