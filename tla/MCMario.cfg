\* A window of 6 x 5 blocks of 4 pixels: every key, every poll.
CONSTANTS
  HalfSize = 2
  X_Min = 12
  Y_Min = 4
  Cols = 6
  Rows = 5
  Word = 104
  X_Step = 2
  Y_Step = 2
  JumpFrames = 6
  Keys <- MCKeys
  Polls <- MCPolls
SPECIFICATION SpriteFairSpec
INVARIANTS TypeOK InPicture FlagsAgree JumpHeight TimerSettles
PROPERTIES NoDoubleJump SmoothMotion JumpEnds
