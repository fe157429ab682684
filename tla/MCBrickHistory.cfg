\* A brick does not end a jump.
CONSTANTS
  HalfSize = 2
  X_Min = 12
  Y_Min = 4
  Cols = 6
  Rows = 5
  Word = 104
  X_Step = 2
  Y_Step = 2
  JumpFrames = 6
  GoombaReach = 1
  GoombaStep = 1
  CoinSize = 2
  H_TOTAL = 3
  V_TOTAL = 1
  Depth = 8
  ScoreWrap = 1
  LevelMem <- MCLevelMem
  Keys <- MCKeys
  Buttons <- MCButtons
SPECIFICATION HistorySpec
PROPERTY BrickEndsJump
