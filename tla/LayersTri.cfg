SPECIFICATION FairSpec
CONSTANTS
  NumLayers <- MCNumLayers
  Position <- MCPosition
  Conds <- TriLayer
  Keymap0 <- MCKeymap
  Remaps <- MCRemaps
INVARIANTS ThenIff ReleaseReachesPresser NoLayerLeak
PROPERTIES LoopEnds
