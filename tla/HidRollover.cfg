SPECIFICATION Spec
CONSTANTS
  ctrl = ctrl
  shift = shift
  A = A
  B = B
  C = C
  W = W
  vol = vol
  mute = mute
  button1 = button1
  usb = usb
  ble = ble
  None = None
  Mod <- MCMod
  Key <- MCKey
  Wide <- MCWide
  Media <- MCMedia
  Button = {button1}
  MaxClicks = 1
  KbSize = 2
  ConsumerSize = 1
  ByteSize = 2
  Source <- RolloverSources
  Event <- RolloverEvents
  Endpoint <- TwoEndpoints
  FirstEndpoint = usb
  Dropped = {ble}
INVARIANTS HidSound ReportExact HostInSync OldEndpointKeysReleased
