SPECIFICATION DirectFairSpec
CONSTANTS
  CounterMax = 3
  Pin = {1, 2}
  DirectConfig <- MCConfig
  DirectScanMs = 2
INVARIANTS DirectSound
PROPERTIES Quiesces
