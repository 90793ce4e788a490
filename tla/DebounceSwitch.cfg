SPECIFICATION SwitchSpec
CONSTANTS
  CounterMax = 7
  Times <- MCTimes
  Elapsed = {0, 1, 2, 5}
  Horizon = 9
PROPERTIES MinDwell StableDecides
