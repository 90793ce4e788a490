SPECIFICATION FairSpec
CONSTANTS
  None = None
  Key <- MCKey
  Setups <- MCSetups
  MaxHeld = 2
  MaxCaptured = 5
  MaxEvents = 6
  MaxTime = 3
CHECK_DEADLOCK FALSE
INVARIANTS HoldTapSound InOrder DecisionRight KeepsModifiers HeldBeforeKeys
PROPERTIES Delivers
