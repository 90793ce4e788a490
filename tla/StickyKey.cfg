SPECIFICATION FairSpec
CONSTANTS
  shift = shift
  ctrl = ctrl
  alt = alt
  a = a
  b = b
  None = None
  Sticky <- ThreeSticky
  Setup <- Three
  Key <- MCKey
  CodeOf <- MCCodeOf
  Modifier <- MCModifier
  MaxHeld = 2
  MayBeLate = TRUE
INVARIANTS StickySound NoStuckBinding NextKeyOnly
PROPERTIES ReleasedInTheEnd
