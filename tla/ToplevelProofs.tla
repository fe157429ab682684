--------------------------- MODULE ToplevelProofs ---------------------------
(***************************************************************************)
(* What holds of the game as a whole, for every window, raster, level and  *)
(* step size the assumptions admit.                                        *)
(***************************************************************************)
EXTENDS Toplevel, FiniteSetTheorems, TLAPS

(* What is proved of Mario alone.                                          *)
MP == INSTANCE MarioProofs WITH Polls <- BlockId
-----------------------------------------------------------------------------
(* Types.                                                                  *)

(* Where the constants of the window lie in the coordinate registers.      *)
LEMMA Window ==
  /\ Word \in Nat /\ Word > 0
  /\ X_Max \in Int /\ Y_Max \in Int
  /\ X_Max + 2 * HalfSize < Word /\ Y_Max + 2 * HalfSize < Word
  /\ X_Max >= X_Min + 10 * HalfSize - 1 /\ Y_Max >= Y_Min + 4 * HalfSize - 1
  /\ X_Max = X_Min + Cols * BlockSize - 1 /\ Y_Max = Y_Min + Rows * BlockSize - 1
<1> DEFINE w == Cols * BlockSize
           h == Rows * BlockSize
<1>1. w \in Nat /\ h \in Nat
  BY PlayfieldAssumption DEF BlockSize
<1>2. w >= 5 * BlockSize /\ h >= 2 * BlockSize
  BY PlayfieldAssumption DEF BlockSize
<1>3. X_Max = X_Min + w - 1 /\ Y_Max = Y_Min + h - 1
  BY DEF X_Max, Y_Max
<1> HIDE DEF w, h
<1>4. /\ Word \in Nat /\ X_Max + BlockSize < Word /\ Y_Max + BlockSize < Word
      /\ BlockSize = 2 * HalfSize /\ HalfSize \in Nat \ {0} /\ X_Min \in Nat /\ Y_Min \in Nat
  BY PlayfieldAssumption DEF BlockSize
<1>5. /\ Word > 0 /\ X_Max \in Int /\ Y_Max \in Int
      /\ X_Max + 2 * HalfSize < Word /\ Y_Max + 2 * HalfSize < Word
      /\ X_Max >= X_Min + 10 * HalfSize - 1 /\ Y_Max >= Y_Min + 4 * HalfSize - 1
  BY <1>1, <1>2, <1>3, <1>4
<1> QED
  BY <1>3, <1>4, <1>5 DEF w, h

(* A register holds what fits in it.                                       *)
LEMMA Wraps ==
  ASSUME NEW n \in Int
  PROVE  n % Word \in 0..(Word - 1)
BY Window

LEMMA MarioFrameType ==
  ASSUME M!TypeOK, NEW key, NEW up, NEW down, NEW left, NEW right,
         M!Frame(key, up, down, left, right)
  PROVE  M!TypeOK'
<1>1. /\ Mario_Y_Pos' \in 0..(Word - 1)
      /\ Jump_Counter' \in 0..JumpFrames
      /\ Falling' \in BOOLEAN /\ is_jumping' \in BOOLEAN
  <2>1. Mario_Y_Pos \in 0..(Word - 1) /\ Jump_Counter \in 0..JumpFrames /\ JumpFrames \in Nat \ {0}
    BY MotionAssumption DEF M!TypeOK
  <2>2. (Mario_Y_Pos + Y_Step) % Word \in 0..(Word - 1) /\ (Mario_Y_Pos + (-Y_Step)) % Word \in 0..(Word - 1)
    BY <2>1, Wraps, MotionAssumption
  <2>3. CASE M!BeginJump(key, up)
    BY <2>1, <2>2, <2>3 DEF M!BeginJump, M!MoveY, M!W10, M!TypeOK
  <2>4. CASE M!TopOut(up)
    BY <2>1, <2>2, <2>4 DEF M!TopOut, M!MoveY, M!W10, M!TypeOK
  <2>5. CASE M!Rise(up)
    BY <2>1, <2>2, <2>5 DEF M!Rise, M!JumpStops, M!MoveY, M!W10, M!TypeOK
  <2>6. CASE M!Land(key, up, down)
    BY <2>1, <2>6 DEF M!Land, M!TypeOK
  <2>7. CASE M!Fall(key, up, down)
    BY <2>1, <2>2, <2>7 DEF M!Fall, M!MoveY, M!W10, M!TypeOK
  <2> QED
    BY <2>3, <2>4, <2>5, <2>6, <2>7 DEF M!Frame, M!Vertical
<1>2. Mario_X_Pos' \in 0..(Word - 1)
  <2>1. Mario_X_Pos \in 0..(Word - 1) /\ M!BlockSize \in Int /\ M!Stride \in Int
    BY PlayfieldAssumption, MotionAssumption DEF M!TypeOK, M!BlockSize, M!Stride
  <2>2. /\ (Mario_X_Pos - M!BlockSize) % Word \in 0..(Word - 1)
        /\ (Mario_X_Pos - M!Stride) % Word \in 0..(Word - 1)
        /\ (Mario_X_Pos + M!Stride) % Word \in 0..(Word - 1)
    BY <2>1, Wraps
  <2> QED
    BY <2>1, <2>2 DEF M!Frame, M!Horizontal, M!Scroll, M!MoveLeft, M!MoveRight, M!StandStill, M!W10
<1> QED
  BY <1>1, <1>2 DEF M!TypeOK

LEMMA MarioResetType ==
  ASSUME M!Reset
  PROVE  M!TypeOK'
<1>1. M!X_Max = X_Max /\ M!Y_Max = Y_Max
  BY DEF M!X_Max, M!Y_Max, X_Max, Y_Max, M!BlockSize, BlockSize
<1>2. X_Min + HalfSize \in 0..(Word - 1) /\ Y_Max - HalfSize \in 0..(Word - 1)
  BY Window, PlayfieldAssumption
<1>3. 0 \in 0..JumpFrames
  BY MotionAssumption
<1> QED
  BY <1>1, <1>2, <1>3 DEF M!Reset, M!TypeOK


LEMMA GoombaFrameType ==
  ASSUME G!GoombaTypeOK, NEW mx, NEW my, NEW left, NEW right, NEW shift \in BOOLEAN,
         G!FrameEdge(mx, my, left, right, shift)
  PROVE  G!GoombaTypeOK'
<1>1. CASE G!Walk(mx, my, left, right, shift)
  <2>1. Goomba_X_Motion' \in {-GoombaStep, 0, GoombaStep}
    <3>1. Goomba_X_Motion' = G!Turn(left, right)
      BY <1>1 DEF G!Walk
    <3>2. G!Turn(left, right) \in {GoombaStep, -GoombaStep, Goomba_X_Motion}
      BY DEF G!Turn
    <3> QED
      BY <3>1, <3>2 DEF G!GoombaTypeOK
  <2>2. Goomba_X_Pos' \in 0..(Word - 1)
    <3>1. G!BlockSize \in Int /\ Goomba_X_Pos \in Int /\ Goomba_X_Motion \in Int
      BY PlayfieldAssumption, ToplevelAssumption, Window DEF G!GoombaTypeOK, G!BlockSize
    <3>2. Goomba_X_Pos + Goomba_X_Motion - (IF shift THEN G!BlockSize ELSE 0) \in Int
      BY <3>1
    <3> QED
      BY <1>1, <3>2, Wraps DEF G!Walk, G!W10
  <2> QED
    BY <1>1, <2>1, <2>2 DEF G!Walk, G!GoombaTypeOK
<1>2. CASE G!LieDead
  <2>1. 0 \in 0..(Word - 1)
    BY Window
  <2> QED
    BY <1>2, <2>1 DEF G!LieDead, G!GoombaTypeOK
<1>3. CASE G!GetSquished(mx, my)
  BY <1>3 DEF G!GetSquished, G!GoombaTypeOK
<1>4. CASE G!KillMario(mx, my)
  BY <1>4 DEF G!KillMario, G!GoombaTypeOK
<1>5. CASE G!WalkOff(mx, my)
  BY <1>5 DEF G!WalkOff, G!GoombaTypeOK
<1> QED
  BY <1>1, <1>2, <1>3, <1>4, <1>5 DEF G!FrameEdge

LEMMA GoombaOtherType ==
  ASSUME G!GoombaTypeOK, G!Restart \/ G!Spawn \/ G!Hold
  PROVE  G!GoombaTypeOK'
<1>1. G!X_Max = X_Max /\ G!Y_Max = Y_Max
  BY DEF G!X_Max, G!Y_Max, X_Max, Y_Max, G!BlockSize, BlockSize
<1>2. G!SpawnX \in 0..(Word - 1) /\ 0 \in 0..(Word - 1)
  BY <1>1, Window, PlayfieldAssumption DEF G!SpawnX
<1>3. CASE G!Restart
  BY <1>2, <1>3 DEF G!Restart, G!GoombaTypeOK
<1>4. CASE G!Spawn
  BY <1>2, <1>4 DEF G!Spawn, G!GoombaTypeOK
<1>5. CASE G!Hold
  BY <1>5 DEF G!Hold, G!GoombaTypeOK
<1> QED
  BY <1>3, <1>4, <1>5

(* The records of the coins.                                               *)
CoinRecord == [x : 0..(Word - 1), y : 0..(Word - 1), running : BOOLEAN, taken : BOOLEAN]

LEMMA CoinRecords ==
  /\ C!Idle \in CoinRecord
  /\ \A row \in Int : C!Dropped(row) \in CoinRecord
<1>1. C!X_Max = X_Max /\ C!BlockSize = 2 * HalfSize
  BY DEF C!X_Max, X_Max, C!BlockSize, BlockSize
<1>2. 0 \in 0..(Word - 1) /\ C!CoinX \in 0..(Word - 1)
  BY <1>1, Window, PlayfieldAssumption DEF C!CoinX
<1>3. ASSUME NEW row \in Int
      PROVE  C!CoinY(row) \in 0..(Word - 1)
  <2>1. C!BlockSize * row - HalfSize + Y_Min + 3 * C!BlockSize \in Int
    BY <1>1, PlayfieldAssumption
  <2> QED
    BY <2>1, Wraps DEF C!CoinY, C!W10
<1> QED
  BY <1>2, <1>3 DEF C!Idle, C!Dropped, CoinRecord

LEMMA MovedRecord ==
  ASSUME NEW c \in CoinRecord, NEW frame \in BOOLEAN, NEW shift \in BOOLEAN, NEW mx, NEW my
  PROVE  /\ C!Moved(c, frame, shift, mx, my) \in CoinRecord
         /\ C!Moved(c, frame, shift, mx, my).x =
              IF frame /\ shift /\ c.x >= X_Min THEN (c.x - BlockSize) % Word ELSE c.x
         /\ C!Moved(c, frame, shift, mx, my).running <=> c.running /\ ~(frame /\ c.x < X_Min)
<1> DEFINE x == IF frame /\ shift /\ c.x >= X_Min THEN (c.x - BlockSize) % Word ELSE c.x
           running == c.running /\ ~(frame /\ c.x < X_Min)
           taken == C!Meets(c, mx, my)
<1>1. C!Moved(c, frame, shift, mx, my) = [c EXCEPT !.x = x, !.running = running, !.taken = taken]
  BY DEF C!Moved, C!W10, C!BlockSize, BlockSize
<1>2. x \in 0..(Word - 1)
  <2>1. c.x - BlockSize \in Int /\ c.x \in 0..(Word - 1)
    BY PlayfieldAssumption DEF CoinRecord, BlockSize
  <2> QED
    BY <2>1, Wraps
<1>3. running \in BOOLEAN /\ taken \in BOOLEAN
  BY DEF C!Meets
<1> HIDE DEF x, running, taken
<1>4. /\ [c EXCEPT !.x = x, !.running = running, !.taken = taken] \in CoinRecord
      /\ [c EXCEPT !.x = x, !.running = running, !.taken = taken].x = x
      /\ [c EXCEPT !.x = x, !.running = running, !.taken = taken].running = running
  BY <1>2, <1>3 DEF CoinRecord
<1> QED
  BY <1>1, <1>4 DEF x, running

LEMMA StepCoinsType ==
  ASSUME C!CoinTypeOK, NEW start, NEW row \in Int, NEW frame \in BOOLEAN, NEW shift \in BOOLEAN,
         NEW mx, NEW my, C!StepCoins(start, row, frame, shift, mx, my)
  PROVE  C!CoinTypeOK'
<1>1. coins \in [C!CoinIds -> CoinRecord]
  BY DEF C!CoinTypeOK, CoinRecord
<1>2. coins' = [i \in C!CoinIds |-> coins'[i]]
  BY DEF C!StepCoins
<1>3. ASSUME NEW i \in C!CoinIds
      PROVE  coins'[i] \in CoinRecord
  <2>1. CASE i \in start
    BY <2>1, CoinRecords DEF C!StepCoins
  <2>2. CASE i \notin start /\ coins[i].taken
    BY <2>2, CoinRecords DEF C!StepCoins
  <2>3. CASE i \notin start /\ ~coins[i].taken
    <3>1. coins'[i] = C!Moved(coins[i], frame, shift, mx, my)
      BY <2>3 DEF C!StepCoins
    <3> QED
      BY <1>1, <3>1, MovedRecord
  <2> QED
    BY <2>1, <2>2, <2>3
<1> QED
  BY <1>2, <1>3 DEF C!CoinTypeOK, CoinRecord

(* Columns and the three bits read from them.                              *)

Half(off) == 2 ^ (off % 3)

LEMMA Halves ==
  ASSUME NEW off \in Nat
  PROVE  /\ Half(off) \in {1, 2, 4}
         /\ (Half(off) = 1 <=> off % 3 = 0)
         /\ off % 3 \in {0, 1, 2} /\ off \div 3 \in Nat /\ off = 3 * (off \div 3) + (off % 3)
<1>1. off % 3 \in {0, 1, 2} /\ off \div 3 \in Nat /\ off = 3 * (off \div 3) + (off % 3)
  OBVIOUS
<1>2. 2 ^ 0 = 1 /\ 2 ^ 1 = 2 /\ 2 ^ 2 = 4
  OBVIOUS
<1>3. CASE off % 3 = 0
  <2>1. Half(off) = 2 ^ 0
    BY <1>3, Zenon DEF Half
  <2> QED
    BY <1>1, <1>2, <1>3, <2>1
<1>4. CASE off % 3 = 1
  <2>1. Half(off) = 2 ^ 1
    BY <1>4, Zenon DEF Half
  <2> QED
    BY <1>1, <1>2, <1>4, <2>1
<1>5. CASE off % 3 = 2
  <2>1. Half(off) = 2 ^ 2
    BY <1>5, Zenon DEF Half
  <2> QED
    BY <1>1, <1>2, <1>5, <2>1
<1> QED
  BY <1>1, <1>3, <1>4, <1>5

LEMMA Bits ==
  ASSUME NEW c \in 0..7, NEW h \in {1, 2, 4}
  PROVE  /\ c \div h \in 0..7 /\ c % h \in 0..(h - 1) /\ c % h \in 0..7
         /\ c - (c % h) \in 0..7
OBVIOUS

(* Both cells that a slice inside the column touches are in the column.    *)
LEMMA SliceCells ==
  ASSUME NEW off \in Nat, B!InColumn(off)
  PROVE  /\ off \div 3 \in 0..(Rows - 1)
         /\ Half(off) # 1 => off \div 3 + 1 \in 0..(Rows - 1)
<1>1. off + 2 < 3 * Rows /\ Rows \in Nat
  BY PlayfieldAssumption DEF B!InColumn
<1> QED
  BY <1>1, Halves

LEMMA SliceType ==
  ASSUME NEW c \in B!Column, NEW off \in Nat, B!InColumn(off)
  PROVE  B!Slice(c, off) \in 0..7
<1> DEFINE r == off \div 3
           h == Half(off)
<1>1. c[r] \in 0..7 /\ (h # 1 => c[r + 1] \in 0..7)
  BY SliceCells DEF B!Column, B!BlockId
<1>2. B!Slice(c, off) = IF h = 1 THEN c[r] ELSE (c[r] \div h) + (c[r + 1] % h) * (8 \div h)
  BY DEF B!Slice, Half
<1>3. h \in {1, 2, 4}
  BY Halves
<1> HIDE DEF r, h
<1>4. CASE h = 1
  BY <1>1, <1>2, <1>4
<1>5. CASE h = 2
  BY <1>1, <1>2, <1>5
<1>6. CASE h = 4
  BY <1>1, <1>2, <1>6
<1> QED
  BY <1>3, <1>4, <1>5, <1>6

LEMMA ClearSliceType ==
  ASSUME NEW c \in B!Column, NEW off \in Nat
  PROVE  B!ClearSlice(c, off) \in B!Column
<1>1. B!ClearSlice(c, off) = [i \in 0..(Rows - 1) |-> B!ClearSlice(c, off)[i]]
  BY DEF B!ClearSlice
<1>2. ASSUME NEW i \in 0..(Rows - 1)
      PROVE  B!ClearSlice(c, off)[i] \in 0..7
  <2>1. c[i] \in 0..7 /\ Half(off) \in {1, 2, 4}
    BY Halves DEF B!Column, B!BlockId
  <2>2. c[i] % Half(off) \in 0..7 /\ c[i] - (c[i] % Half(off)) \in 0..7
    BY <2>1, Bits
  <2>3. B!ClearSlice(c, off)[i] \in {c[i], c[i] % Half(off), c[i] - (c[i] % Half(off))}
    BY DEF B!ClearSlice, Half
  <2> QED
    BY <2>1, <2>2, <2>3
<1> QED
  BY <1>1, <1>2 DEF B!Column, B!BlockId

LEMMA BlockNumbers ==
  ASSUME NEW n \in Int
  PROVE  /\ B!ColOf(n) \in Nat /\ B!RowOf(n) \in Nat
         /\ B!Offset(n) \in 0..31
<1>1. \A m \in Int : B!W10(m) \in Nat
  BY Wraps, Window DEF B!W10
<1>2. B!BlockSize \in Nat \ {0}
  BY PlayfieldAssumption DEF B!BlockSize
<1>3. \A m \in Nat, b \in Nat \ {0} : m \div b \in Nat
  OBVIOUS
<1>4. B!ColOf(n) \in Nat /\ B!RowOf(n) \in Nat
  BY <1>1, <1>2, <1>3, PlayfieldAssumption DEF B!ColOf, B!RowOf
<1>5. B!Offset(n) \in 0..31
  BY <1>4 DEF B!Offset
<1> QED
  BY <1>4, <1>5

(* A lookup yields a block, whatever it reads.                             *)
LEMMA LookupType ==
  ASSUME B!BlockTypeOK, NEW c \in Nat, NEW off \in Nat
  PROVE  B!Lookup(c, off) \subseteq BlockId
<1>1. CASE c < Cols /\ B!InColumn(off)
  <2>1. c \in 0..(Cols - 1)
    BY <1>1, PlayfieldAssumption
  <2>2. B!Slice(blockCols[c], off) \in 0..7
    BY <1>1, <2>1, SliceType DEF B!BlockTypeOK
  <2> QED
    BY <1>1, <2>2 DEF B!Lookup, BlockId
<1>2. CASE ~(c < Cols /\ B!InColumn(off))
  BY <1>2 DEF B!Lookup, BlockId, B!Air, B!Brick
<1> QED
  BY <1>1, <1>2

LEMMA PollTypes ==
  ASSUME B!BlockTypeOK, NEW x \in Int, NEW y \in Int
  PROVE  /\ B!MarioUp(x, y) \subseteq BlockId /\ B!MarioDown(x, y) \subseteq BlockId
         /\ B!MarioLeft(x, y) \subseteq BlockId /\ B!MarioRight(x, y) \subseteq BlockId
<1>1. \A m, n \in Int : B!Lookup(B!ColOf(m), B!Offset(n)) \subseteq BlockId
  <2>1. ASSUME NEW m \in Int, NEW n \in Int
        PROVE  B!ColOf(m) \in Nat /\ B!Offset(n) \in Nat
    BY BlockNumbers
  <2> QED
    BY <2>1, LookupType
<1>2. /\ x - HalfSize \in Int /\ x + HalfSize \in Int
      /\ y - HalfSize \in Int /\ y + HalfSize - 1 \in Int
  BY PlayfieldAssumption
<1> QED
  BY <1>1, <1>2 DEF B!MarioUp, B!MarioDown, B!MarioLeft, B!MarioRight

LEMMA BreakBrickType ==
  ASSUME B!BlockTypeOK, NEW x \in Int, NEW y \in Int, NEW up, B!BreakBrick(x, y, up)
  PROVE  B!BlockTypeOK'
<1> DEFINE c == B!ColOf(x)
           off == B!Offset(y - HalfSize)
<1>1. c \in Nat /\ off \in Nat
  <2>1. y - HalfSize \in Int
    BY PlayfieldAssumption
  <2> QED
    BY <2>1, BlockNumbers
<1>2. CASE up = B!Brick /\ c < Cols /\ B!InColumn(off)
  <2>1. c \in 0..(Cols - 1) /\ blockCols' = [blockCols EXCEPT ![c] = B!ClearSlice(blockCols[c], off)]
    BY <1>1, <1>2, PlayfieldAssumption DEF B!BreakBrick
  <2>2. B!ClearSlice(blockCols[c], off) \in B!Column
    BY <1>1, <2>1, ClearSliceType DEF B!BlockTypeOK
  <2> QED
    BY <2>1, <2>2 DEF B!BlockTypeOK, B!BreakBrick
<1>3. CASE ~(up = B!Brick /\ c < Cols /\ B!InColumn(off))
  BY <1>3 DEF B!BlockTypeOK, B!BreakBrick
<1> QED
  BY <1>2, <1>3

LEMMA BoardOtherType ==
  ASSUME B!BlockTypeOK, NEW word \in B!Column, B!ResetBoard(word) \/ B!ShiftIn(word)
  PROVE  B!BlockTypeOK'
<1>1. \A m \in Int : m % Depth \in 0..(Depth - 1)
  BY ToplevelAssumption, PlayfieldAssumption
<1>2. Cols \in Int /\ current_block_col + 1 \in Int
  BY PlayfieldAssumption, ToplevelAssumption DEF B!BlockTypeOK
<1>3. CASE B!ResetBoard(word)
  BY <1>1, <1>2, <1>3 DEF B!ResetBoard, B!BlockTypeOK
<1>4. CASE B!ShiftIn(word)
  <2>1. \A i \in 0..(Cols - 1) : i < Cols - 1 => i + 1 \in 0..(Cols - 1)
    BY <1>2
  <2> QED
    BY <1>1, <1>2, <1>4, <2>1 DEF B!ShiftIn, B!BlockTypeOK
<1> QED
  BY <1>3, <1>4

(* A frame has at least three pixels, whatever its shape.                  *)
LEMMA Raster ==
  /\ H_TOTAL \in Nat \ {0} /\ V_TOTAL \in Nat \ {0}
  /\ H_TOTAL = 1 => V_TOTAL >= 3
  /\ H_TOTAL = 2 => V_TOTAL >= 2
<1>1. H_TOTAL \in Nat /\ V_TOTAL \in Nat /\ H_TOTAL * V_TOTAL >= 3
  BY ToplevelAssumption
<1>2. H_TOTAL = 0 \/ V_TOTAL = 0 => H_TOTAL * V_TOTAL = 0
  BY <1>1
<1>3. H_TOTAL = 1 => H_TOTAL * V_TOTAL = V_TOTAL
  BY <1>1
<1>4. H_TOTAL = 2 => H_TOTAL * V_TOTAL = 2 * V_TOTAL
  BY <1>1
<1> QED
  BY <1>1, <1>2, <1>3, <1>4

LEMMA WordType ==
  ASSUME rom_q \in Words
  PROVE  /\ new_block_id \in B!Column
         /\ new_col_control \in 0..63
         /\ StartBlock \in Int
         /\ CoinBit => CoinNumber \in C!CoinIds
<1>1. rom_q.control \in 0..63 /\ rom_q.blocks \in [0..(Rows - 1) -> BlockId]
  BY DEF Words
<1>2. \A n \in 0..63 : n \div 4 \in Nat /\ n \div 8 \in Nat
  OBVIOUS
<1>3. \A k \in Nat : k % 4 \in 0..3
  OBVIOUS
<1>4. StartBlock \in 0..3 /\ CoinNumber \in 0..3
  BY <1>1, <1>2, <1>3 DEF new_col_control, StartBlock, CoinNumber
<1>5. new_block_id \in B!Column /\ new_col_control \in 0..63
  BY <1>1 DEF new_block_id, new_col_control, B!Column, B!BlockId, BlockId
<1>6. StartBlock \in Int
  BY <1>4
<1>7. CoinNumber \in C!CoinIds
  BY <1>4 DEF C!CoinIds
<1> QED
  BY <1>5, <1>6, <1>7, Zenon

LEMMA CoinsTakenType == CoinsTaken \in Nat
<1>1. IsFiniteSet(C!CoinIds)
  <2>1. 0 \in Int /\ 3 \in Int
    OBVIOUS
  <2> QED
    BY <2>1, FS_Interval, Zenon DEF C!CoinIds
<1>2. {i \in C!CoinIds : coins[i].taken} \subseteq C!CoinIds
  OBVIOUS
<1> QED
  BY <1>1, <1>2, FS_Subset, FS_CardinalityType DEF CoinsTaken

LEMMA AlwaysType ==
  ASSUME TypeOK, NEW pressed \in BOOLEAN, Always(pressed)
  PROVE  /\ V!CountTypeOK'
         /\ vga_clk' \in BOOLEAN /\ frame_clk_delayed' \in BOOLEAN
         /\ frame_clk_rising_edge' \in BOOLEAN /\ Reset_h' \in BOOLEAN
         /\ rom_addr' \in 0..(Depth - 1) /\ rom_q' \in Words
         /\ start_coin' \subseteq C!CoinIds
         /\ score' \in 0..(ScoreWrap - 1)
<1>1. V!CountTypeOK'
  <2>1. CASE vga_clk /\ Reset_h
    <3>1. h_counter' = 0 /\ v_counter' = 0
      BY <2>1, Zenon DEF Always, StepVga, V!ResetCounters
    <3> QED
      BY <3>1, Raster DEF V!CountTypeOK
  <2>2. CASE vga_clk /\ ~Reset_h
    <3>1. V!Count
      BY <2>2, Zenon DEF Always, StepVga
    <3>2. V!CountTypeOK
      BY DEF TypeOK
    <3> QED
      BY <3>1, <3>2, Raster DEF V!CountTypeOK, V!Count, V!Next_h, V!Next_v
  <2>3. CASE ~vga_clk
    <3>1. UNCHANGED <<h_counter, v_counter>>
      BY <2>3, Zenon DEF Always, StepVga
    <3> QED
      BY <3>1 DEF V!CountTypeOK, TypeOK
  <2> QED
    BY <2>1, <2>2, <2>3
<1>2. /\ vga_clk' \in BOOLEAN /\ frame_clk_delayed' \in BOOLEAN
      /\ frame_clk_rising_edge' \in BOOLEAN /\ Reset_h' \in BOOLEAN
  BY Zenon DEF Always, StepVga, DetectFrame, SampleReset, TypeOK, G!GoombaTypeOK, V!frame_clk
<1>3. rom_addr' \in 0..(Depth - 1) /\ rom_q' \in Words
  BY ToplevelAssumption DEF Always, ReadLevel, TypeOK, B!BlockTypeOK
<1>4. start_coin' \subseteq C!CoinIds
  <2>1. CoinBit => CoinNumber \in C!CoinIds
    BY WordType DEF TypeOK
  <2> QED
    BY <2>1 DEF Always, DecodeCoin
<1>5. score' \in 0..(ScoreWrap - 1)
  <2> DEFINE n == score + CoinsTaken + (IF goomba_killed THEN 2 ELSE 0)
  <2>1. n \in Int
    BY CoinsTakenType, ToplevelAssumption DEF TypeOK
  <2>2. score' = n % ScoreWrap
    BY DEF Always, AddScore
  <2> HIDE DEF n
  <2> QED
    BY <2>1, <2>2, ToplevelAssumption
<1> QED
  BY <1>1, <1>2, <1>3, <1>4, <1>5

LEMMA InitType ==
  ASSUME Init
  PROVE  TypeOK
<1>1. M!TypeOK
  <2>1. M!X_Max = X_Max /\ M!Y_Max = Y_Max
    BY DEF M!X_Max, M!Y_Max, X_Max, Y_Max, M!BlockSize, BlockSize
  <2>2. X_Min + HalfSize \in 0..(Word - 1) /\ Y_Max - HalfSize \in 0..(Word - 1)
    BY Window, PlayfieldAssumption
  <2>3. 0 \in 0..JumpFrames
    BY MotionAssumption
  <2> QED
    BY <2>1, <2>2, <2>3 DEF Init, M!Init, M!AtStart, M!TypeOK
<1>2. 0 \in 0..(Word - 1)
  BY Window
<1>3. G!GoombaTypeOK
  BY <1>2 DEF Init, G!GoombaTypeOK
<1>4. C!CoinTypeOK
  BY CoinRecords DEF Init, C!CoinTypeOK, CoinRecord
<1>5. Cols % Depth = Cols /\ Cols \in 0..(Depth - 1)
  BY ToplevelAssumption, PlayfieldAssumption
<1>6. current_block_col \in 0..(Depth - 1) /\ rom_addr \in 0..(Depth - 1) /\ rom_q \in Words
  BY <1>5, ToplevelAssumption DEF Init
<1>7. B!BlockTypeOK
  BY <1>6, WordType DEF Init, B!BlockTypeOK
<1>8. V!CountTypeOK
  BY Raster DEF Init, V!CountTypeOK
<1>9. start_coin \subseteq C!CoinIds
  BY <1>6, WordType DEF Init
<1>10. score \in 0..(ScoreWrap - 1)
  BY ToplevelAssumption DEF Init
<1> QED
  BY <1>1, <1>3, <1>4, <1>6, <1>7, <1>8, <1>9, <1>10 DEF Init, TypeOK

(* What Mario's polls read are blocks, so a frame of the game is a frame   *)
(* of Mario.                                                               *)
LEMMA FrameIsMarios ==
  ASSUME TypeOK, NEW pressed, NEW key \in Keys, FrameTick(pressed, key)
  PROVE  \E up, down, left, right \in BlockId : M!Frame(key, up, down, left, right)
<1>1. Mario_X_Pos \in Int /\ Mario_Y_Pos \in Int /\ B!BlockTypeOK
  BY Window DEF TypeOK, M!TypeOK
<1> QED
  BY <1>1, PollTypes DEF FrameTick

LEMMA StepType ==
  ASSUME TypeOK, Next
  PROVE  TypeOK'
<1>1. Mario_X_Pos \in Int /\ Mario_Y_Pos \in Int /\ B!BlockTypeOK /\ M!TypeOK
      /\ G!GoombaTypeOK /\ C!CoinTypeOK
  BY Window DEF TypeOK, M!TypeOK
<1>2. new_block_id \in B!Column /\ StartBlock \in Int
  BY WordType DEF TypeOK
<1>3. ASSUME NEW pressed \in Buttons, ResetTick(pressed)
      PROVE  TypeOK'
  <2>1. M!TypeOK'
    BY <1>3, MarioResetType DEF ResetTick
  <2>2. G!GoombaTypeOK'
    BY <1>1, <1>3, GoombaOtherType DEF ResetTick
  <2>3. C!CoinTypeOK'
    BY <1>3, CoinRecords DEF ResetTick, C!ResetCoins, C!CoinTypeOK, CoinRecord
  <2>4. B!BlockTypeOK'
    BY <1>1, <1>2, <1>3, BoardOtherType DEF ResetTick
  <2> QED
    BY <1>3, <2>1, <2>2, <2>3, <2>4, AlwaysType, ToplevelAssumption DEF ResetTick, TypeOK
<1>4. ASSUME NEW pressed \in Buttons, NEW key \in Keys, FrameTick(pressed, key)
      PROVE  TypeOK'
  <2>1. M!TypeOK'
    BY <1>1, <1>4, FrameIsMarios, MarioFrameType
  <2>2. G!GoombaTypeOK'
    <3>1. CASE GoombaBit
      BY <1>1, <1>4, <3>1, GoombaOtherType DEF FrameTick, StepGoomba
    <3>2. CASE ~GoombaBit
      <4>1. Shift \in BOOLEAN
        BY DEF Shift, NewFrame, TypeOK, M!ScrollDue
      <4> QED
        BY <1>1, <1>4, <3>2, <4>1, GoombaFrameType DEF FrameTick, StepGoomba
    <3> QED
      BY <3>1, <3>2
  <2>3. C!CoinTypeOK'
    <3>1. Shift \in BOOLEAN
      BY DEF Shift, NewFrame, TypeOK, M!ScrollDue
    <3> QED
      BY <1>1, <1>2, <1>4, <3>1, StepCoinsType DEF FrameTick
  <2>4. B!BlockTypeOK'
    BY <1>1, <1>2, <1>4, BoardOtherType, BreakBrickType DEF FrameTick, StepBoard
  <2> QED
    BY <1>4, <2>1, <2>2, <2>3, <2>4, AlwaysType, ToplevelAssumption DEF FrameTick, TypeOK
<1>5. ASSUME NEW pressed \in Buttons, QuietTick(pressed)
      PROVE  TypeOK'
  <2>1. M!TypeOK'
    BY <1>1, <1>5 DEF QuietTick, M!TypeOK
  <2>2. G!GoombaTypeOK'
    BY <1>1, <1>5, GoombaOtherType DEF QuietTick
  <2>3. C!CoinTypeOK'
    BY <1>1, <1>2, <1>5, StepCoinsType DEF QuietTick
  <2>4. B!BlockTypeOK'
    BY <1>1, <1>5, BreakBrickType DEF QuietTick
  <2> QED
    BY <1>5, <2>1, <2>2, <2>3, <2>4, AlwaysType, ToplevelAssumption DEF QuietTick, TypeOK
<1> QED
  BY <1>3, <1>4, <1>5 DEF Next

LEMMA StutterType ==
  ASSUME TypeOK, UNCHANGED vars
  PROVE  TypeOK'
BY DEF vars, gameVars, clockVars, memVars, TypeOK, M!TypeOK, G!GoombaTypeOK, C!CoinTypeOK,
   B!BlockTypeOK, V!CountTypeOK

(* Every register of the game keeps to the values its width allows: the    *)
(* positions and flags, the board, the words of the level memory, the      *)
(* counters and the score.                                                 *)
THEOREM TypesHold == Spec => []TypeOK
<1>1. Init => TypeOK
  BY InitType
<1>2. TypeOK /\ [Next]_vars => TypeOK'
  BY StepType, StutterType
<1> QED
  BY <1>1, <1>2, PTL DEF Spec
-----------------------------------------------------------------------------
(* The clocks.                                                             *)

(* The pixel after the origin, where the counters are once a frame has     *)
(* been played.                                                            *)
Pixel1 == h_counter = (IF H_TOTAL = 1 THEN 0 ELSE 1) /\ v_counter = (IF H_TOTAL = 1 THEN 1 ELSE 0)

LEMMA Pixel1NotOrigin == ~(Pixel1 /\ V!frame_clk)
BY DEF Pixel1, V!frame_clk

LEMMA CountFromOrigin ==
  ASSUME V!frame_clk, V!Count
  PROVE  Pixel1'
BY Raster DEF V!frame_clk, V!Count, V!Next_h, V!Next_v, Pixel1

(* A new frame begins on a posedge of VGA_CLK, with the counters at the    *)
(* origin; and they have come there on the posedge of Clk before that.     *)
ClockInv ==
  /\ frame_clk_rising_edge => V!frame_clk /\ vga_clk /\ frame_clk_delayed
  /\ V!frame_clk /\ ~frame_clk_delayed => ~vga_clk

(* What one posedge of Clk does to the clocks.                             *)
LEMMA ClockTick ==
  ASSUME TypeOK, ClockInv, NEW pressed \in BOOLEAN, Always(pressed)
  PROVE  /\ ClockInv'
         /\ (vga_clk' <=> ~vga_clk)
         /\ (frame_clk_rising_edge' <=> V!frame_clk /\ ~frame_clk_delayed)
         /\ ~vga_clk => (V!frame_clk' <=> V!frame_clk) /\ (Pixel1' <=> Pixel1)
         /\ vga_clk /\ Reset_h => V!frame_clk'
         /\ frame_clk_rising_edge /\ ~Reset_h => Pixel1'
         /\ (Reset_h' <=> pressed \/ kill_Mario)
<1>1. /\ vga_clk' = ~vga_clk
      /\ frame_clk_delayed' = V!frame_clk
      /\ frame_clk_rising_edge' = (V!frame_clk /\ ~frame_clk_delayed)
      /\ Reset_h' = (pressed \/ kill_Mario)
  BY Zenon DEF Always, StepVga, DetectFrame, SampleReset
<1>2. ~vga_clk => UNCHANGED <<h_counter, v_counter>>
  BY Zenon DEF Always, StepVga
<1>3. ~vga_clk => (V!frame_clk' <=> V!frame_clk) /\ (Pixel1' <=> Pixel1)
  BY <1>2 DEF V!frame_clk, Pixel1
<1>4. vga_clk /\ Reset_h => V!frame_clk'
  <2>1. vga_clk /\ Reset_h => V!ResetCounters
    BY Zenon DEF Always, StepVga
  <2> QED
    BY <2>1 DEF V!ResetCounters, V!frame_clk
<1>5. frame_clk_rising_edge /\ ~Reset_h => Pixel1'
  <2>1. vga_clk /\ ~Reset_h => V!Count
    BY Zenon DEF Always, StepVga
  <2> QED
    BY <2>1, CountFromOrigin DEF ClockInv
<1>6. /\ vga_clk \in BOOLEAN /\ frame_clk_delayed \in BOOLEAN
      /\ frame_clk_rising_edge \in BOOLEAN /\ V!frame_clk \in BOOLEAN /\ kill_Mario \in BOOLEAN
  BY Zenon DEF TypeOK, G!GoombaTypeOK, V!frame_clk
<1>7. ClockInv'
  BY <1>1, <1>3, <1>6 DEF ClockInv
<1> QED
  BY <1>1, <1>3, <1>4, <1>5, <1>6, <1>7

(* The protocol of a death: between the frame that kills Mario and the     *)
(* posedge that puts everything back, the counters are past the origin,    *)
(* and Reset_h is up when the VGA counters look at it.                     *)
DeathInv ==
  kill_Mario =>
    /\ ~frame_clk_rising_edge /\ ~goomba_killed
    /\ ~V!frame_clk
    /\ vga_clk => Reset_h

(* A goomba that has been paid for is dead.                                *)
AwardInv == goomba_killed => ~isAlive

LEMMA GoombaTick ==
  ASSUME G!GoombaTypeOK, NEW mx, NEW my, NEW left, NEW right, NEW shift,
         G!FrameEdge(mx, my, left, right, shift)
  PROVE  /\ goomba_killed' => isAlive /\ ~isAlive' /\ (kill_Mario' <=> kill_Mario)
         /\ kill_Mario' => kill_Mario \/ (isAlive /\ ~goomba_killed')
BY DEF G!FrameEdge, G!GetSquished, G!KillMario, G!WalkOff, G!Walk, G!LieDead, G!GoombaTypeOK

LEMMA NextSplits ==
  ASSUME Next
  PROVE  \E pressed \in Buttons :
           \/ ResetTick(pressed)
           \/ \E key \in Keys : FrameTick(pressed, key)
           \/ QuietTick(pressed)
BY DEF Next

LEMMA DeathStep ==
  ASSUME TypeOK, ClockInv, DeathInv, AwardInv, Next
  PROVE  ClockInv' /\ DeathInv' /\ AwardInv'
<1>1. PICK pressed \in Buttons :
        \/ ResetTick(pressed)
        \/ \E key \in Keys : FrameTick(pressed, key)
        \/ QuietTick(pressed)
  BY NextSplits
<1>2. Always(pressed) /\ pressed \in BOOLEAN
  BY <1>1, ToplevelAssumption DEF ResetTick, FrameTick, QuietTick
<1>3. /\ ClockInv'
      /\ (vga_clk' <=> ~vga_clk)
      /\ (frame_clk_rising_edge' <=> V!frame_clk /\ ~frame_clk_delayed)
      /\ ~vga_clk => (V!frame_clk' <=> V!frame_clk)
      /\ frame_clk_rising_edge /\ ~Reset_h => Pixel1'
      /\ (Reset_h' <=> pressed \/ kill_Mario)
  BY <1>2, ClockTick
<1>4. DeathInv' /\ AwardInv'
  <2>1. CASE ResetTick(pressed)
    BY <2>1 DEF ResetTick, G!Restart, DeathInv, AwardInv
  <2>2. CASE \E key \in Keys : FrameTick(pressed, key)
    <3>1. ~Reset_h /\ frame_clk_rising_edge
      BY <2>2 DEF FrameTick, NewFrame
    <3>2. ~kill_Mario /\ Pixel1' /\ ~V!frame_clk'
      <4>1. ~(Pixel1 /\ V!frame_clk)'
        BY Pixel1NotOrigin, PTL
      <4> QED
        BY <1>3, <3>1, <4>1 DEF DeathInv
    <3>3. ~frame_clk_rising_edge' /\ ~vga_clk'
      BY <1>3, <3>1 DEF ClockInv
    <3>4. /\ kill_Mario' => ~goomba_killed'
          /\ goomba_killed' => ~isAlive'
      <4>1. CASE GoombaBit
        BY <2>2, <4>1 DEF FrameTick, StepGoomba, G!Spawn
      <4>2. CASE ~GoombaBit
        <5>1. G!GoombaTypeOK
          BY DEF TypeOK
        <5>2. \E left \in B!GoombaLeft(Goomba_X_Pos, Goomba_Y_Pos),
                 right \in B!GoombaRight(Goomba_X_Pos, Goomba_Y_Pos) :
                G!FrameEdge(Mario_X_Pos, Mario_Y_Pos, left, right, Shift)
          BY <2>2, <4>2 DEF FrameTick, StepGoomba
        <5> QED
          BY <3>2, <5>1, <5>2, GoombaTick
      <4> QED
        BY <4>1, <4>2
    <3> QED
      BY <3>2, <3>3, <3>4 DEF DeathInv, AwardInv
  <2>3. CASE QuietTick(pressed)
    <3>1. ~Reset_h
      BY <2>3 DEF QuietTick
    <3>2. CASE GoombaBit
      BY <2>3, <3>2 DEF QuietTick, G!Spawn, DeathInv, AwardInv
    <3>3. CASE ~GoombaBit
      <4>1. (goomba_killed' <=> FALSE) /\ kill_Mario' = kill_Mario
        BY <2>3, <3>3 DEF QuietTick, G!Hold
      <4> QED
        BY <1>3, <3>1, <4>1 DEF DeathInv, AwardInv
    <3> QED
      BY <3>2, <3>3
  <2> QED
    BY <1>1, <2>1, <2>2, <2>3
<1> QED
  BY <1>3, <1>4

(* The invariant the results below start from.                             *)
GameInv == TypeOK /\ ClockInv /\ DeathInv /\ AwardInv

LEMMA GameInductive == Spec => []GameInv
<1>1. Init => GameInv
  <2>1. Init => TypeOK
    BY InitType
  <2>2. Init => ClockInv /\ DeathInv /\ AwardInv
    BY DEF Init, ClockInv, DeathInv, AwardInv, V!frame_clk
  <2> QED
    BY <2>1, <2>2 DEF GameInv
<1>2. GameInv /\ [Next]_vars => GameInv'
  <2>1. CASE Next
    BY <2>1, StepType, DeathStep DEF GameInv
  <2>2. CASE UNCHANGED vars
    BY <2>2, StutterType
       DEF GameInv, vars, gameVars, clockVars, ClockInv, DeathInv, AwardInv, V!frame_clk
  <2> QED
    BY <2>1, <2>2
<1> QED
  BY <1>1, <1>2, PTL DEF Spec

(* No frame is played with a dead Mario and none pays for the goomba that  *)
(* killed him: the posedges a death takes to reset the game fall between   *)
(* two frames, wherever the reset button and the keys fall.                *)
THEOREM DeathsAreClean == Spec => []DeathIsClean
<1>1. GameInv => DeathIsClean
  BY DEF GameInv, DeathInv, DeathIsClean
<1> QED
  BY <1>1, GameInductive, PTL

(* Every coin and every goomba pays once: the pulse the score counts lasts *)
(* one posedge, and what was paid for is gone after it.                    *)
THEOREM AwardsPaidOnce == Spec => AwardsAreSingle
<1> DEFINE Single ==
      /\ goomba_killed => ~isAlive /\ ~goomba_killed'
      /\ \A i \in C!CoinIds :
           coins[i].taken =>
             ~coins'[i].taken /\ (coins'[i].running => i \in start_coin)
<1>1. ASSUME GameInv, [Next]_vars
      PROVE  [Single]_vars
  <2>1. CASE Next
    <3>1. PICK pressed \in Buttons :
            \/ ResetTick(pressed)
            \/ \E key \in Keys : FrameTick(pressed, key)
            \/ QuietTick(pressed)
      BY <2>1, NextSplits
    <3>2. goomba_killed => ~isAlive /\ ~goomba_killed'
      <4>1. CASE ResetTick(pressed)
        BY <1>1, <4>1 DEF ResetTick, G!Restart, GameInv, AwardInv
      <4>2. CASE \E key \in Keys : FrameTick(pressed, key)
        <5>1. CASE GoombaBit
          BY <1>1, <4>2, <5>1 DEF FrameTick, StepGoomba, G!Spawn, GameInv, AwardInv
        <5>2. CASE ~GoombaBit
          <6>1. \E left \in B!GoombaLeft(Goomba_X_Pos, Goomba_Y_Pos),
                   right \in B!GoombaRight(Goomba_X_Pos, Goomba_Y_Pos) :
                  G!FrameEdge(Mario_X_Pos, Mario_Y_Pos, left, right, Shift)
            BY <4>2, <5>2 DEF FrameTick, StepGoomba
          <6> QED
            BY <1>1, <6>1, GoombaTick DEF GameInv, TypeOK, AwardInv
        <5> QED
          BY <5>1, <5>2
      <4>3. CASE QuietTick(pressed)
        BY <1>1, <4>3 DEF QuietTick, G!Spawn, G!Hold, GameInv, AwardInv
      <4> QED
        BY <3>1, <4>1, <4>2, <4>3
    <3>3. ASSUME NEW i \in C!CoinIds, coins[i].taken
          PROVE  ~coins'[i].taken /\ (coins'[i].running => i \in start_coin)
      <4>1. CASE ResetTick(pressed)
        BY <4>1 DEF ResetTick, C!ResetCoins, C!Idle
      <4>2. ASSUME NEW frame, NEW shift, C!StepCoins(start_coin, StartBlock, frame, shift, Mario_X_Pos, Mario_Y_Pos)
            PROVE  ~coins'[i].taken /\ (coins'[i].running => i \in start_coin)
        <5>1. coins'[i] = IF i \in start_coin THEN C!Dropped(StartBlock) ELSE C!Idle
          BY <3>3, <4>2, Zenon DEF C!StepCoins
        <5> QED
          BY <5>1 DEF C!Dropped, C!Idle
      <4> QED
        BY <3>1, <4>1, <4>2 DEF FrameTick, QuietTick
    <3> QED
      BY <3>2, <3>3
  <2>2. CASE UNCHANGED vars
    BY <2>2
  <2> QED
    BY <1>1, <2>1, <2>2
<1>2. GameInv /\ [Next]_vars => [Single]_vars
  BY <1>1
<1> QED
  BY <1>2, GameInductive, PTL DEF Spec, AwardsAreSingle

(* Without the button Reset_h rises on a death only, and then it stays up  *)
(* until the VGA counters have seen it.                                    *)
ResetInv == Reset_h => vga_clk \/ V!frame_clk

LEMMA ResetInvInductive ==
  ASSUME Buttons = {FALSE}
  PROVE  Spec => []ResetInv
<1>1. Init => ResetInv
  BY DEF Init, ResetInv
<1>2. ASSUME GameInv, ResetInv, [Next]_vars
      PROVE  ResetInv'
  <2>1. CASE Next
    <3>1. PICK pressed \in Buttons : Always(pressed)
      BY <2>1 DEF Next, ResetTick, FrameTick, QuietTick
    <3>2. pressed = FALSE /\ pressed \in BOOLEAN
      BY <3>1
    <3>3. /\ (vga_clk' <=> ~vga_clk)
          /\ vga_clk /\ Reset_h => V!frame_clk'
          /\ (Reset_h' <=> pressed \/ kill_Mario)
      BY <1>2, <3>1, <3>2, ClockTick DEF GameInv
    <3> QED
      BY <1>2, <3>2, <3>3 DEF GameInv, DeathInv, ResetInv
  <2>2. CASE UNCHANGED vars
    BY <1>2, <2>2 DEF vars, clockVars, ResetInv, V!frame_clk
  <2> QED
    BY <1>2, <2>1, <2>2
<1> QED
  BY <1>1, <1>2, GameInductive, PTL DEF Spec

(* If nobody presses the button, then whenever Reset_h is let go, Mario,   *)
(* the goomba, the coins, the board and the VGA counters, which look at it *)
(* every second posedge only, have all seen it.                            *)
THEOREM DeathResetsAll ==
  ASSUME Buttons = {FALSE}
  PROVE  Spec => ResetComplete
<1> DEFINE Complete ==
      /\ M!AtStart'
      /\ ~isAlive' /\ ~kill_Mario'
      /\ \A i \in C!CoinIds : ~coins'[i].running
      /\ h_counter' = 0 /\ v_counter' = 0
      /\ current_block_col' = Cols % Depth
<1>1. ASSUME GameInv, ResetInv, [Next]_vars
      PROVE  [Reset_h /\ ~Reset_h' => Complete]_vars
  <2>1. ASSUME Next, Reset_h
        PROVE  Complete
    <3>1. PICK pressed \in Buttons : ResetTick(pressed)
      BY <2>1 DEF Next, FrameTick, QuietTick
    <3>2. M!AtStart' /\ ~isAlive' /\ ~kill_Mario' /\ current_block_col' = Cols % Depth
      BY <3>1 DEF ResetTick, M!Reset, M!AtStart, G!Restart, B!ResetBoard
    <3>3. \A i \in C!CoinIds : ~coins'[i].running
      BY <3>1 DEF ResetTick, C!ResetCoins, C!Idle
    <3>4. Always(pressed) /\ pressed \in BOOLEAN
      BY <3>1, ToplevelAssumption DEF ResetTick
    <3>5. V!frame_clk'
      BY <1>1, <2>1, <3>4, ClockTick DEF GameInv, ResetInv
    <3> QED
      BY <3>2, <3>3, <3>5 DEF V!frame_clk
  <2> QED
    BY <1>1, <2>1
<1>2. GameInv /\ ResetInv /\ [Next]_vars => [Reset_h /\ ~Reset_h' => Complete]_vars
  BY <1>1
<1> QED
  BY <1>2, GameInductive, ResetInvInductive, PTL DEF Spec, ResetComplete
-----------------------------------------------------------------------------
(* Mario in the game.                                                      *)

LEMMA SameFrame ==
  ASSUME NEW key, NEW up, NEW down, NEW left, NEW right
  PROVE  M!Frame(key, up, down, left, right) <=> MP!Frame(key, up, down, left, right)
<1>1. M!Vertical(key, up, down) <=> MP!Vertical(key, up, down)
  BY DEF M!Vertical, MP!Vertical, M!BeginJump, MP!BeginJump, M!TopOut, MP!TopOut, M!Rise, MP!Rise,
     M!Land, MP!Land, M!Fall, MP!Fall, M!CanJump, MP!CanJump, M!MoveY, MP!MoveY, M!JumpStops,
     MP!JumpStops, M!Grounded, MP!Grounded, M!W10, MP!W10, M!KeyW, MP!KeyW, M!Air, MP!Air,
     M!Y_Max, MP!Y_Max, M!BlockSize, MP!BlockSize
<1>2. M!Horizontal(key, left, right) <=> MP!Horizontal(key, left, right)
  BY DEF M!Horizontal, MP!Horizontal, M!Scroll, MP!Scroll, M!MoveLeft, MP!MoveLeft, M!MoveRight,
     MP!MoveRight, M!StandStill, MP!StandStill, M!ScrollDue, MP!ScrollDue, M!GoesLeft, MP!GoesLeft,
     M!GoesRight, MP!GoesRight, M!Stride, MP!Stride, M!X_Mid, MP!X_Mid, M!X_Max, MP!X_Max,
     M!BlockSize, MP!BlockSize, M!W10, MP!W10, M!KeyA, MP!KeyA, M!KeyD, MP!KeyD, M!Air, MP!Air
<1> QED
  BY <1>1, <1>2 DEF M!Frame, MP!Frame

LEMMA SameConstants ==
  /\ MP!PlayfieldAssumption /\ MP!MarioAssumption
  /\ MP!X_Max = X_Max /\ MP!Y_Max = Y_Max /\ MP!BlockSize = BlockSize /\ MP!X_Mid = M!X_Mid
  /\ M!X_Max = X_Max /\ M!Y_Max = Y_Max /\ M!BlockSize = BlockSize
<1>1. /\ MP!X_Max = X_Max /\ MP!Y_Max = Y_Max /\ MP!BlockSize = BlockSize
      /\ M!X_Max = X_Max /\ M!Y_Max = Y_Max /\ M!BlockSize = BlockSize
  BY DEF MP!X_Max, MP!Y_Max, MP!BlockSize, X_Max, Y_Max, BlockSize, M!X_Max, M!Y_Max, M!BlockSize
<1>2. MP!X_Mid = M!X_Mid
  BY <1>1 DEF MP!X_Mid, M!X_Mid
<1>3. MP!PlayfieldAssumption
  BY <1>1, PlayfieldAssumption DEF MP!PlayfieldAssumption
<1>4. MP!MarioAssumption
  BY MotionAssumption DEF MP!MarioAssumption, MP!BlockId, BlockId
<1> QED
  BY <1>1, <1>2, <1>3, <1>4

(* A posedge of the game is a reset of Mario, a frame of Mario, or nothing *)
(* to him.                                                                 *)
LEMMA GameStepsMario ==
  ASSUME TypeOK, [Next]_vars
  PROVE  [MP!Next]_(MP!marioVars)
<1>1. CASE Next
  <2>1. PICK pressed \in Buttons :
          \/ ResetTick(pressed)
          \/ \E key \in Keys : FrameTick(pressed, key)
          \/ QuietTick(pressed)
    BY <1>1, NextSplits
  <2>2. CASE ResetTick(pressed)
    BY <2>2, SameConstants DEF ResetTick, M!Reset, MP!Next, MP!Reset
  <2>3. ASSUME NEW key \in Keys, FrameTick(pressed, key)
        PROVE  MP!FrameStep
    BY <2>3, FrameIsMarios, SameFrame DEF MP!FrameStep
  <2>4. CASE QuietTick(pressed)
    BY <2>4 DEF QuietTick, MP!marioVars
  <2> QED
    BY <2>1, <2>2, <2>3, <2>4 DEF MP!Next
<1>2. CASE UNCHANGED vars
  BY <1>2 DEF vars, gameVars, MP!marioVars
<1> QED
  BY <1>1, <1>2

(* The game implements the specification of Mario alone, with every block  *)
(* a poll may report.                                                      *)
THEOREM GameRefinesMario == Spec => MP!Spec
<1>1. Init => MP!Init
  BY SameConstants DEF Init, M!Init, M!AtStart, MP!Init, MP!AtStart
<1>2. TypeOK /\ [Next]_vars => [MP!Next]_(MP!marioVars)
  BY GameStepsMario
<1> QED
  BY <1>1, <1>2, TypesHold, PTL DEF Spec, MP!Spec

(* The inductive invariant of Mario alone holds in the game.               *)
LEMMA MarioInductive == Spec => []MP!IInv
<1>1. Init => MP!IInv
  <2>1. Init => MP!AtStart
    BY SameConstants DEF Init, M!Init, M!AtStart, MP!AtStart
  <2> QED
    BY <2>1, MP!StartInv, SameConstants
<1>2. TypeOK /\ MP!IInv /\ [Next]_vars => MP!IInv'
  BY GameStepsMario, MP!StepInv, SameConstants
<1> QED
  BY <1>1, <1>2, TypesHold, PTL DEF Spec

(* So all that is proved of Mario alone holds in the game: he stays where  *)
(* no coordinate of Mario.sv wraps, his flags agree, his jumps are bounded *)
(* and never doubled, and he moves by a step or with the world.            *)
THEOREM MarioInGame ==
  Spec => /\ [](MP!InPicture /\ MP!FlagsAgree /\ MP!JumpHeight)
          /\ MP!NoDoubleJump /\ MP!SmoothMotion
<1>1. MP!IInv => MP!InPicture /\ MP!FlagsAgree /\ MP!JumpHeight
  BY DEF MP!IInv, MP!YInv, MP!XInv, MP!InPicture
<1>2. TypeOK /\ MP!IInv /\ [Next]_vars
        => [MP!NoDouble]_(MP!marioVars) /\ [MP!Smooth]_(MP!marioVars)
  BY GameStepsMario, MP!StepMoves, SameConstants
<1> QED
  BY <1>1, <1>2, MarioInductive, TypesHold, PTL
     DEF Spec, MP!NoDoubleJump, MP!SmoothMotion, MP!NoDouble, MP!Smooth

(* How a frame moves Mario along X.                                        *)
LEMMA FrameMovesX ==
  ASSUME TypeOK, MP!IInv, NEW pressed, NEW key \in Keys, FrameTick(pressed, key)
  PROVE  IF M!ScrollDue
           THEN Mario_X_Pos' = Mario_X_Pos - BlockSize
           ELSE Mario_X_Pos' - Mario_X_Pos \in (-X_Step)..X_Step
<1>1. PICK up, down, left, right \in BlockId : M!Frame(key, up, down, left, right)
  BY FrameIsMarios
<1>2. MP!Horizontal(key, left, right)
  BY <1>1, SameFrame DEF MP!Frame
<1>3. MP!XInv /\ is_jumping \in BOOLEAN
  BY DEF MP!IInv, MP!YInv
<1>4. MP!ScrollDue <=> M!ScrollDue
  BY SameConstants DEF MP!ScrollDue, M!ScrollDue
<1> QED
  BY <1>2, <1>3, <1>4, MP!HorizontalStep, SameConstants
-----------------------------------------------------------------------------
(* The level memory.                                                       *)

StartX == X_Min + HalfSize

(* The memory shows the word of the address it was given two posedges ago. *)
(* That is the word the next scroll needs, except on the two posedges      *)
(* after a scroll, when the next frame is far away, and on the two after a *)
(* reset, when Mario is too far left to scroll.                            *)
MemoryInv ==
  /\ \/ rom_addr = current_block_col
     \/ Mario_X_Pos = StartX
     \/ Pixel1 /\ ~vga_clk
  /\ \/ rom_q = LevelMem[current_block_col]
     \/ Mario_X_Pos - StartX \in (-X_Step)..X_Step
     \/ Pixel1

LEMMA NearStart ==
  ASSUME Mario_X_Pos \in Int, Mario_X_Pos - StartX \in (-X_Step)..X_Step
  PROVE  ~M!ScrollDue
<1>1. /\ M!X_Mid >= X_Min + 5 * HalfSize - 1 /\ M!X_Mid \in Int
      /\ HalfSize \in Nat \ {0} /\ X_Min \in Nat /\ X_Step \in Nat /\ X_Step <= HalfSize
  BY MP!Landmarks, SameConstants, PlayfieldAssumption, MotionAssumption
<1> QED
  BY <1>1 DEF M!ScrollDue, StartX

(* What a scroll shifts in is the next word of the level.                  *)
LEMMA ShiftsNextWord ==
  ASSUME GameInv, MemoryInv, Shift
  PROVE  rom_q = LevelMem[current_block_col]
<1>1. V!frame_clk
  BY DEF Shift, NewFrame, GameInv, ClockInv
<1>2. ~Pixel1
  BY <1>1, Pixel1NotOrigin
<1>3. Mario_X_Pos \in Int
  BY Window DEF GameInv, TypeOK, M!TypeOK
<1> QED
  BY <1>2, <1>3, NearStart DEF MemoryInv, Shift

LEMMA MemoryStep ==
  ASSUME GameInv, MP!IInv, MemoryInv, Next
  PROVE  MemoryInv'
<1>1. PICK pressed \in Buttons :
        \/ ResetTick(pressed)
        \/ \E key \in Keys : FrameTick(pressed, key)
        \/ QuietTick(pressed)
  BY NextSplits
<1>2. Always(pressed) /\ pressed \in BOOLEAN /\ TypeOK /\ ClockInv
  BY <1>1, ToplevelAssumption DEF ResetTick, FrameTick, QuietTick, GameInv
<1>3. rom_addr' = current_block_col /\ rom_q' = LevelMem[rom_addr]
  BY <1>2 DEF Always, ReadLevel
<1>4. StartX \in Int /\ Mario_X_Pos \in Int /\ X_Step \in Nat
  BY Window, PlayfieldAssumption, MotionAssumption DEF StartX, TypeOK, M!TypeOK, GameInv
<1>5. CASE ResetTick(pressed)
  <2>1. Mario_X_Pos' = StartX
    BY <1>5 DEF ResetTick, M!Reset, StartX
  <2> QED
    BY <1>4, <2>1 DEF MemoryInv
<1>6. ASSUME NEW key \in Keys, FrameTick(pressed, key)
      PROVE  MemoryInv'
  <2>1. ~Reset_h /\ frame_clk_rising_edge
    BY <1>6 DEF FrameTick, NewFrame
  <2>2. Pixel1' /\ ~vga_clk'
    BY <1>2, <2>1, ClockTick DEF ClockInv
  <2> QED
    BY <2>2 DEF MemoryInv
<1>7. CASE QuietTick(pressed)
  <2>1. current_block_col' = current_block_col /\ Mario_X_Pos' = Mario_X_Pos
    BY <1>7 DEF QuietTick, B!BreakBrick
  <2>2. ~vga_clk => (Pixel1' <=> Pixel1)
    BY <1>2, ClockTick
  <2>3. Mario_X_Pos = StartX => Mario_X_Pos' - StartX \in (-X_Step)..X_Step
    BY <1>4, <2>1
  <2> QED
    BY <1>3, <2>1, <2>2, <2>3 DEF MemoryInv
<1> QED
  BY <1>1, <1>5, <1>6, <1>7

LEMMA MemoryInductive == Spec => []MemoryInv
<1>1. Init => MemoryInv
  BY DEF Init, MemoryInv
<1>2. GameInv /\ MP!IInv /\ MemoryInv /\ [Next]_vars => MemoryInv'
  <2>1. ASSUME MemoryInv, UNCHANGED vars
        PROVE  MemoryInv'
    BY <2>1 DEF vars, gameVars, clockVars, memVars, MemoryInv, Pixel1
  <2> QED
    BY <2>1, MemoryStep
<1> QED
  BY <1>1, <1>2, GameInductive, MarioInductive, PTL DEF Spec
-----------------------------------------------------------------------------
(* The blocks.                                                             *)

(* Column c is column d but for bricks that are gone.                      *)
Worn(c, d) == \A r \in 0..(Rows - 1) : c[r] = d[r] \/ (c[r] = Air /\ d[r] = Brick)

LEMMA SliceBits ==
  ASSUME NEW a \in 0..7, NEW b \in 0..7, NEW h \in {2, 4}
  PROVE  (a \div h) + (b % h) * (8 \div h) = 2 <=>
           \/ h = 2 /\ a \in {4, 5} /\ b \in {0, 2, 4, 6}
           \/ h = 4 /\ a \in {0, 1, 2, 3} /\ b \in {1, 5}
<1>1. CASE h = 2
  BY <1>1
<1>2. CASE h = 4
  BY <1>2
<1> QED
  BY <1>1, <1>2

(* Broken bricks make no difference to where a brick is seen that is none. *)
LEMMA FalseBricksLast ==
  ASSUME NEW c \in B!Column, NEW d \in B!Column, Worn(c, d), NEW off \in Nat,
         B!FalseBrick(c, off)
  PROVE  B!FalseBrick(d, off)
<1> DEFINE r == off \div 3
           h == Half(off)
<1>1. off % 3 # 0 /\ B!InColumn(off) /\ B!Slice(c, off) = 2
  BY DEF B!FalseBrick, B!Brick
<1>2. h \in {2, 4} /\ h # 1 /\ r \in 0..(Rows - 1) /\ r + 1 \in 0..(Rows - 1)
  BY <1>1, Halves, SliceCells
<1>3. /\ B!Slice(c, off) = (c[r] \div h) + (c[r + 1] % h) * (8 \div h)
      /\ B!Slice(d, off) = (d[r] \div h) + (d[r + 1] % h) * (8 \div h)
  BY <1>2 DEF B!Slice, Half
<1> HIDE DEF r, h
<1>4. c[r] \in 0..7 /\ c[r + 1] \in 0..7 /\ d[r] \in 0..7 /\ d[r + 1] \in 0..7
  BY <1>2 DEF B!Column, B!BlockId
<1>5. /\ c[r] = d[r] \/ (c[r] = 0 /\ d[r] = 2)
      /\ c[r + 1] = d[r + 1] \/ (c[r + 1] = 0 /\ d[r + 1] = 2)
  BY <1>2 DEF Worn, Air, Brick
<1>6. \/ h = 2 /\ c[r] \in {4, 5} /\ c[r + 1] \in {0, 2, 4, 6}
      \/ h = 4 /\ c[r] \in {0, 1, 2, 3} /\ c[r + 1] \in {1, 5}
  BY <1>1, <1>2, <1>3, <1>4, SliceBits
<1>7. \/ h = 2 /\ d[r] \in {4, 5} /\ d[r + 1] \in {0, 2, 4, 6}
      \/ h = 4 /\ d[r] \in {0, 1, 2, 3} /\ d[r + 1] \in {1, 5}
  BY <1>5, <1>6
<1>8. B!Slice(d, off) = 2
  BY <1>2, <1>3, <1>4, <1>7, SliceBits
<1> QED
  BY <1>1, <1>8 DEF B!FalseBrick, B!Brick

(* At the offset of a row the lookup reads that cell, and clearing it      *)
(* touches no other.                                                       *)
LEMMA WholeCell ==
  ASSUME NEW c \in B!Column, NEW off \in Nat, off % 3 = 0, B!InColumn(off)
  PROVE  /\ off \div 3 \in 0..(Rows - 1)
         /\ B!Slice(c, off) = c[off \div 3]
         /\ \A i \in 0..(Rows - 1) :
              B!ClearSlice(c, off)[i] = IF i = off \div 3 THEN Air ELSE c[i]
<1>1. Half(off) = 1 /\ off \div 3 \in 0..(Rows - 1)
  BY Halves, SliceCells
<1>2. B!Slice(c, off) = c[off \div 3]
  BY <1>1 DEF B!Slice, Half
<1>3. ASSUME NEW i \in 0..(Rows - 1)
      PROVE  B!ClearSlice(c, off)[i] = IF i = off \div 3 THEN Air ELSE c[i]
  <2>1. c[i] % 1 = 0 /\ c[i] - 0 = c[i]
    BY DEF B!Column, B!BlockId
  <2>2. B!ClearSlice(c, off)[i] =
          CASE i = off \div 3     -> c[i] % Half(off)
            [] i = off \div 3 + 1 -> c[i] - (c[i] % Half(off))
            [] OTHER              -> c[i]
    BY Zenon DEF B!ClearSlice, Half
  <2>3. off \div 3 # off \div 3 + 1
    BY <1>1
  <2>4. B!ClearSlice(c, off)[i] =
          CASE i = off \div 3     -> 0
            [] i = off \div 3 + 1 -> c[i]
            [] OTHER              -> c[i]
    BY <1>1, <2>1, <2>2, Zenon
  <2> QED
    BY <2>3, <2>4, Zenon DEF Air
<1> QED
  BY <1>1, <1>2, <1>3

(* Every column on the screen is a column of the level but for bricks that *)
(* are gone.                                                               *)
FromLevel ==
  \A i \in 0..(Cols - 1) : \E a \in 0..(Depth - 1) : Worn(blockCols[i], LevelMem[a].blocks)

(* The only thing that happens to the blocks is that bricks go.            *)
BricksGo ==
  \A i \in 0..(Cols - 1), r \in 0..(Rows - 1) :
    \/ blockCols'[i][r] = blockCols[i][r]
    \/ blockCols[i][r] = Brick /\ blockCols'[i][r] = Air

LEMMA LevelColumn ==
  ASSUME NEW a \in 0..(Depth - 1)
  PROVE  LevelMem[a].blocks \in B!Column
BY ToplevelAssumption DEF Words, B!Column, B!BlockId, BlockId

(* Mario's head is looked up at one of HeadOffsets.                        *)
LEMMA HeadOffset ==
  ASSUME MP!IInv
  PROVE  Mario_X_Pos \in Int /\ Mario_Y_Pos \in Int /\ B!Offset(Mario_Y_Pos - HalfSize) \in HeadOffsets
<1>1. MP!Y_Ceiling = M!Y_Ceiling /\ MP!Y_Floor = M!Y_Floor
  BY SameConstants DEF MP!Y_Ceiling, M!Y_Ceiling, MP!Y_Floor, M!Y_Floor
<1>2. Mario_Y_Pos \in (M!Y_Ceiling - Y_Step)..M!Y_Floor
  BY <1>1 DEF MP!IInv, MP!YInv
<1>3. Mario_Y_Pos \in Int /\ Mario_X_Pos \in Int
  BY <1>2 DEF MP!IInv, MP!XInv
<1> QED
  BY <1>2, <1>3 DEF HeadOffsets

LEMMA BreakBrickStep ==
  ASSUME NoFalseBricks, MP!IInv, B!BlockTypeOK, FromLevel,
         NEW up \in B!MarioUp(Mario_X_Pos, Mario_Y_Pos),
         B!BreakBrick(Mario_X_Pos, Mario_Y_Pos, up)
  PROVE  /\ BricksGo
         /\ \A i \in 0..(Cols - 1), r \in 0..(Rows - 1) :
              \/ blockCols'[i][r] = blockCols[i][r]
              \/ i = B!ColOf(Mario_X_Pos) /\ 3 * r = B!Offset(Mario_Y_Pos - HalfSize)
<1> DEFINE c == B!ColOf(Mario_X_Pos)
           off == B!Offset(Mario_Y_Pos - HalfSize)
<1>1. c \in Nat /\ off \in Nat /\ off \in HeadOffsets
  <2>1. Mario_X_Pos \in Int /\ Mario_Y_Pos - HalfSize \in Int /\ off \in HeadOffsets
    BY HeadOffset, PlayfieldAssumption
  <2> QED
    BY <2>1, BlockNumbers
<1>2. /\ up \in B!Lookup(c, off)
      /\ blockCols' = IF up = B!Brick /\ c < Cols /\ B!InColumn(off)
                        THEN [blockCols EXCEPT ![c] = B!ClearSlice(blockCols[c], off)]
                        ELSE blockCols
  BY DEF B!MarioUp, B!BreakBrick
<1> HIDE DEF c, off
<1>3. CASE up = B!Brick /\ c < Cols /\ B!InColumn(off)
  <2>1. c \in 0..(Cols - 1) /\ blockCols[c] \in B!Column
    BY <1>1, <1>3, PlayfieldAssumption DEF B!BlockTypeOK
  <2>2. B!Slice(blockCols[c], off) = B!Brick
    BY <1>2, <1>3 DEF B!Lookup
  <2>3. off % 3 = 0
    <3>1. SUFFICES ASSUME off % 3 # 0
                   PROVE  FALSE
      OBVIOUS
    <3>2. PICK a \in 0..(Depth - 1) : Worn(blockCols[c], LevelMem[a].blocks)
      BY <2>1 DEF FromLevel
    <3>3. B!FalseBrick(blockCols[c], off)
      BY <1>3, <2>2, <3>1 DEF B!FalseBrick
    <3>4. B!FalseBrick(LevelMem[a].blocks, off)
      BY <1>1, <2>1, <3>2, <3>3, LevelColumn, FalseBricksLast
    <3> QED
      BY <1>1, <3>4 DEF NoFalseBricks
  <2>4. /\ off \div 3 \in 0..(Rows - 1)
        /\ blockCols[c][off \div 3] = Brick
        /\ \A r \in 0..(Rows - 1) :
             B!ClearSlice(blockCols[c], off)[r] = IF r = off \div 3 THEN Air ELSE blockCols[c][r]
    BY <1>1, <1>3, <2>1, <2>2, <2>3, WholeCell DEF B!Brick, Brick
  <2>5. \A i \in 0..(Cols - 1) :
          blockCols'[i] = IF i = c THEN B!ClearSlice(blockCols[c], off) ELSE blockCols[i]
    BY <1>2, <1>3, <2>1 DEF B!BlockTypeOK
  <2>6. 3 * (off \div 3) = off
    BY <1>1, <2>3
  <2> QED
    BY <2>4, <2>5, <2>6 DEF BricksGo, c, off
<1>4. CASE ~(up = B!Brick /\ c < Cols /\ B!InColumn(off))
  BY <1>2, <1>4 DEF BricksGo
<1> QED
  BY <1>3, <1>4

(* The word of an address, whatever multiple of Depth is added to it.      *)
LEMMA NextAddress ==
  ASSUME B!BlockTypeOK, NEW next, next = (current_block_col + 1) % Depth, NEW i \in 0..(Cols - 1)
  PROVE  /\ (next - Cols + i) % Depth = (current_block_col - Cols + (i + 1)) % Depth
         /\ i = Cols - 1 => (next - Cols + i) % Depth = current_block_col
<1> DEFINE n == current_block_col
<1>1. /\ n \in 0..(Depth - 1) /\ Cols \in Nat /\ Depth \in Nat /\ Depth > Cols
      /\ next = (n + 1) % Depth
  BY PlayfieldAssumption, ToplevelAssumption DEF B!BlockTypeOK
<1> HIDE DEF n
<1>2. CASE n + 1 < Depth
  <2>1. next = n + 1
    BY <1>1, <1>2
  <2>2. next - Cols + i = n - Cols + (i + 1)
    BY <1>1, <2>1
  <2>3. i = Cols - 1 => next - Cols + i = n /\ n % Depth = n
    BY <1>1, <2>1
  <2> QED
    BY <2>2, <2>3 DEF n
<1>3. CASE n + 1 = Depth
  <2>1. next = 0
    BY <1>1, <1>3
  <2>2. next - Cols + i = i - Cols /\ n - Cols + (i + 1) = Depth - Cols + i
    BY <1>1, <1>3, <2>1
  <2>3. (i - Cols) % Depth = Depth - Cols + i /\ (Depth - Cols + i) % Depth = Depth - Cols + i
    BY <1>1
  <2>4. i = Cols - 1 => Depth - Cols + i = n
    BY <1>1, <1>3
  <2> QED
    BY <2>2, <2>3, <2>4 DEF n
<1> QED
  BY <1>1, <1>2, <1>3

(* The board is the level: the n newest columns are the n words before     *)
(* current_block_col, the others are what the last reset put there.        *)
BoardFrom(n, fill) ==
  /\ n < Cols => current_block_col = Cols + n \/ current_block_col = Cols + n - Depth
  /\ \A i \in 0..(Cols - 1) :
       WornFrom(blockCols[i], IF i >= Cols - n THEN current_block_col - Cols + i ELSE fill)

BoardInv ==
  /\ \E n \in 0..Cols, fill \in 0..(Depth - 1) : BoardFrom(n, fill)
  /\ \E a \in 0..(Depth - 1) : rom_q = LevelMem[a]

LEMMA WornIsWorn ==
  ASSUME NEW c, NEW a
  PROVE  WornFrom(c, a) <=> Worn(c, LevelMem[a % Depth].blocks)
BY DEF WornFrom, Worn

LEMMA BoardIsFromLevel ==
  ASSUME B!BlockTypeOK, BoardInv
  PROVE  FromLevel
<1>1. PICK n \in 0..Cols, fill \in 0..(Depth - 1) : BoardFrom(n, fill)
  BY DEF BoardInv
<1>2. ASSUME NEW i \in 0..(Cols - 1)
      PROVE  \E a \in 0..(Depth - 1) : Worn(blockCols[i], LevelMem[a].blocks)
  <2> DEFINE m == IF i >= Cols - n THEN current_block_col - Cols + i ELSE fill
  <2>1. m \in Int /\ Depth \in Nat \ {0}
    BY PlayfieldAssumption, ToplevelAssumption DEF B!BlockTypeOK
  <2>2. Worn(blockCols[i], LevelMem[m % Depth].blocks)
    BY <1>1, WornIsWorn DEF BoardFrom
  <2> HIDE DEF m
  <2>3. m % Depth \in 0..(Depth - 1)
    BY <2>1
  <2> QED
    BY <2>2, <2>3
<1> QED
  BY <1>2 DEF FromLevel

LEMMA WearsOn ==
  ASSUME BricksGo, NEW i \in 0..(Cols - 1), NEW a, WornFrom(blockCols[i], a)
  PROVE  WornFrom(blockCols'[i], a)
BY DEF BricksGo, WornFrom, Air, Brick

(* Unless the board is shifted or reset, bricks go and nothing else.       *)
LEMMA BoardHolds ==
  ASSUME NoFalseBricks, MP!IInv, B!BlockTypeOK, BoardInv, Next, ~Reset_h, ~Shift
  PROVE  BricksGo /\ current_block_col' = current_block_col
<1>1. \E up \in B!MarioUp(Mario_X_Pos, Mario_Y_Pos) : B!BreakBrick(Mario_X_Pos, Mario_Y_Pos, up)
  BY DEF Next, ResetTick, FrameTick, QuietTick, StepBoard
<1>2. FromLevel
  BY BoardIsFromLevel
<1> QED
  BY <1>1, <1>2, BreakBrickStep DEF B!BreakBrick

LEMMA BoardShifts ==
  ASSUME GameInv, MemoryInv, BoardInv, Next, ~Reset_h, Shift
  PROVE  \E n \in 1..Cols, fill \in 0..(Depth - 1) : BoardFrom(n, fill)'
<1>1. B!BlockTypeOK /\ rom_q = LevelMem[current_block_col] /\ B!ShiftIn(new_block_id)
  BY ShiftsNextWord DEF GameInv, TypeOK, Next, ResetTick, FrameTick, QuietTick, StepBoard, Shift
<1>2. PICK n \in 0..Cols, fill \in 0..(Depth - 1) : BoardFrom(n, fill)
  BY DEF BoardInv
<1> DEFINE m == IF n < Cols THEN n + 1 ELSE Cols
           next == (current_block_col + 1) % Depth
<1>3. /\ Cols \in Nat /\ Cols >= 5 /\ Depth \in Nat /\ Depth > Cols
      /\ current_block_col \in 0..(Depth - 1)
  BY <1>1, PlayfieldAssumption, ToplevelAssumption DEF B!BlockTypeOK
<1>4. m \in 1..Cols
  BY <1>3
<1>5. /\ current_block_col' = next
      /\ \A i \in 0..(Cols - 1) :
           blockCols'[i] = IF i < Cols - 1 THEN blockCols[i + 1] ELSE LevelMem[current_block_col].blocks
  BY <1>1 DEF B!ShiftIn, new_block_id
<1>6. m < Cols => next = Cols + m \/ next = Cols + m - Depth
  <2>1. m < Cols => current_block_col = Cols + n \/ current_block_col = Cols + n - Depth
    BY <1>2, <1>3 DEF BoardFrom
  <2>2. next = IF current_block_col + 1 < Depth THEN current_block_col + 1 ELSE 0
    BY <1>3
  <2> HIDE DEF next
  <2> QED
    BY <1>3, <2>1, <2>2
<1>7. ASSUME NEW i \in 0..(Cols - 1)
      PROVE  WornFrom(blockCols'[i], IF i >= Cols - m THEN next - Cols + i ELSE fill)
  <2>1. /\ (next - Cols + i) % Depth = (current_block_col - Cols + (i + 1)) % Depth
        /\ i = Cols - 1 => (next - Cols + i) % Depth = current_block_col
    BY <1>1, NextAddress
  <2>2. CASE i = Cols - 1
    <3>1. i >= Cols - m
      BY <1>3, <2>2
    <3>2. blockCols'[i] = LevelMem[current_block_col].blocks
      BY <1>3, <1>5, <2>2
    <3>3. WornFrom(blockCols'[i], next - Cols + i)
      BY <2>1, <2>2, <3>2 DEF WornFrom
    <3> QED
      BY <3>1, <3>3
  <2>3. CASE i < Cols - 1
    <3>1. blockCols'[i] = blockCols[i + 1] /\ i + 1 \in 0..(Cols - 1)
      BY <1>3, <1>5, <2>3
    <3>2. WornFrom(blockCols[i + 1],
                   IF i + 1 >= Cols - n THEN current_block_col - Cols + (i + 1) ELSE fill)
      BY <1>2, <3>1 DEF BoardFrom
    <3>3. i >= Cols - m <=> i + 1 >= Cols - n
      BY <1>3
    <3> HIDE DEF m
    <3>4. CASE i >= Cols - m
      BY <2>1, <3>1, <3>2, <3>3, <3>4 DEF WornFrom
    <3>5. CASE ~(i >= Cols - m)
      BY <3>1, <3>2, <3>3, <3>5
    <3> QED
      BY <3>4, <3>5
  <2> QED
    BY <1>3, <2>2, <2>3
<1>8. BoardFrom(m, fill)'
  <2>1. current_block_col' = next
    BY <1>5
  <2> HIDE DEF m, next
  <2> QED
    BY <1>6, <1>7, <2>1 DEF BoardFrom, WornFrom
<1> HIDE DEF m
<1> QED
  BY <1>4, <1>8

LEMMA BoardStep ==
  ASSUME NoFalseBricks, GameInv, MP!IInv, MemoryInv, BoardInv, Next
  PROVE  BoardInv'
<1>1. TypeOK /\ B!BlockTypeOK
  BY DEF GameInv, TypeOK
<1>2. \E a \in 0..(Depth - 1) : rom_q' = LevelMem[a]
  BY <1>1 DEF Next, ResetTick, FrameTick, QuietTick, Always, ReadLevel, TypeOK
<1>3. CASE Reset_h
  <2>1. B!ResetBoard(new_block_id)
    BY <1>3 DEF Next, ResetTick, FrameTick, QuietTick
  <2>2. PICK a \in 0..(Depth - 1) : rom_q = LevelMem[a]
    BY DEF BoardInv
  <2>3. Cols % Depth = Cols /\ a % Depth = a /\ Cols \in Nat /\ 0 \in 0..Cols
    BY PlayfieldAssumption, ToplevelAssumption
  <2>4. current_block_col' = Cols /\ \A i \in 0..(Cols - 1) : blockCols'[i] = LevelMem[a].blocks
    BY <2>1, <2>2, <2>3 DEF B!ResetBoard, new_block_id
  <2>5. \A i \in 0..(Cols - 1) : WornFrom(blockCols'[i], a) /\ ~(i >= Cols - 0)
    BY <2>3, <2>4 DEF WornFrom
  <2>6. BoardFrom(0, a)'
    BY <2>3, <2>4, <2>5 DEF BoardFrom, WornFrom
  <2> QED
    BY <1>2, <2>3, <2>6 DEF BoardInv
<1>4. CASE ~Reset_h /\ Shift
  <2>1. PICK n \in 1..Cols, fill \in 0..(Depth - 1) : BoardFrom(n, fill)'
    BY <1>4, BoardShifts
  <2>2. n \in 0..Cols
    BY PlayfieldAssumption
  <2> QED
    BY <1>2, <2>1, <2>2 DEF BoardInv
<1>5. CASE ~Reset_h /\ ~Shift
  <2>1. BricksGo /\ current_block_col' = current_block_col
    BY <1>1, <1>5, BoardHolds
  <2>2. PICK n \in 0..Cols, fill \in 0..(Depth - 1) : BoardFrom(n, fill)
    BY DEF BoardInv
  <2>3. \A i \in 0..(Cols - 1) :
          WornFrom(blockCols'[i], IF i >= Cols - n THEN current_block_col - Cols + i ELSE fill)
    BY <2>1, <2>2, WearsOn DEF BoardFrom
  <2>4. BoardFrom(n, fill)'
    BY <2>1, <2>2, <2>3 DEF BoardFrom, WornFrom
  <2> QED
    BY <1>2, <2>4 DEF BoardInv
<1> QED
  BY <1>3, <1>4, <1>5

LEMMA BoardInductive ==
  ASSUME NoFalseBricks
  PROVE  Spec => []BoardInv
<1>1. Init => BoardInv
  <2> SUFFICES ASSUME Init
               PROVE  BoardInv
    OBVIOUS
  <2>1. Cols % Depth = Cols /\ Cols \in 0..(Depth - 1) /\ 0 \in 0..Cols /\ Cols \in Nat
    BY PlayfieldAssumption, ToplevelAssumption
  <2>2. /\ current_block_col = Cols /\ rom_q = LevelMem[Cols]
        /\ \A i \in 0..(Cols - 1) : blockCols[i] = LevelMem[Cols].blocks
    BY <2>1 DEF Init, new_block_id
  <2>3. \A i \in 0..(Cols - 1) : WornFrom(blockCols[i], Cols) /\ ~(i >= Cols - 0)
    BY <2>1, <2>2 DEF WornFrom
  <2>4. BoardFrom(0, Cols)
    BY <2>1, <2>2, <2>3 DEF BoardFrom
  <2> QED
    BY <2>1, <2>2, <2>4 DEF BoardInv
<1>2. GameInv /\ MP!IInv /\ MemoryInv /\ BoardInv /\ [Next]_vars => BoardInv'
  <2>1. ASSUME BoardInv, UNCHANGED vars
        PROVE  BoardInv'
    BY <2>1 DEF vars, gameVars, memVars, BoardInv, BoardFrom, WornFrom
  <2> QED
    BY <2>1, BoardStep
<1> QED
  BY <1>1, <1>2, GameInductive, MarioInductive, MemoryInductive, PTL DEF Spec

(* If the level hides no false bricks, the board is the level in order,    *)
(* none of its words skipped or shown twice, and blocks are missing only   *)
(* where the level has bricks: for every level, window and raster.         *)
THEOREM BoardShowsLevel ==
  ASSUME NoFalseBricks
  PROVE  Spec => []BoardIsLevel
<1>1. TypeOK /\ BoardInv => BoardIsLevel
  <2> SUFFICES ASSUME TypeOK, BoardInv
               PROVE  BoardIsLevel
    OBVIOUS
  <2>1. PICK n \in 0..Cols, fill \in 0..(Depth - 1) : BoardFrom(n, fill)
    BY DEF BoardInv
  <2>2. current_block_col \in Cols..(2 * Cols - 1) => n \in {current_block_col - Cols, Cols}
    BY <2>1, PlayfieldAssumption, ToplevelAssumption DEF BoardFrom, TypeOK, B!BlockTypeOK
  <2> QED
    BY <2>1, <2>2 DEF BoardFrom, BoardIsLevel
<1> QED
  BY <1>1, TypesHold, BoardInductive, PTL

(* Then, too, between scrolls and resets nothing happens to the blocks but *)
(* that bricks go, one cell at a time, whatever offset the lookups wrap to.*)
THEOREM BricksVanishWhole ==
  ASSUME NoFalseBricks
  PROVE  Spec => OnlyBricksVanish
<1>1. GameInv /\ MP!IInv /\ BoardInv /\ [Next]_vars
        => [~Reset_h /\ ~Shift => BricksGo]_vars
  BY BoardHolds DEF GameInv, TypeOK
<1> QED
  BY <1>1, GameInductive, MarioInductive, BoardInductive, PTL
     DEF Spec, OnlyBricksVanish, BricksGo
-----------------------------------------------------------------------------
(* The coins.                                                              *)

LEMMA DivUnique ==
  ASSUME NEW b \in Nat \ {0}, NEW q \in Int, NEW r \in 0..(b - 1), NEW n \in Int, n = b * q + r
  PROVE  n \div b = q
<1> DEFINE d == (n \div b) - q
<1>1. n = b * (n \div b) + (n % b) /\ n % b \in 0..(b - 1) /\ n \div b \in Int
  OBVIOUS
<1>2. d \in Int /\ b * d = r - (n % b)
  BY <1>1
<1>3. b * d < b /\ b * d > -b
  BY <1>1, <1>2
<1>4. d = 0
  <2> HIDE DEF d
  <2>1. d >= 1 => b * d >= b
    BY <1>2
  <2>2. d <= -1 => b * d <= -b
    BY <1>2
  <2> QED
    BY <1>2, <1>3, <2>1, <2>2
<1> QED
  BY <1>1, <1>4

LEMMA CoinPlaces ==
  /\ C!CoinX \in X_Min..(Word - 1) /\ B!ColOf(C!CoinX) = Cols - 1
  /\ C!BlockSize = BlockSize /\ B!BlockSize = BlockSize /\ BlockSize \in Nat \ {0}
  /\ BlockSize = 2 * HalfSize
<1>1. /\ C!BlockSize = BlockSize /\ B!BlockSize = BlockSize /\ BlockSize \in Nat \ {0}
      /\ BlockSize = 2 * HalfSize /\ C!X_Max = X_Max
  BY PlayfieldAssumption DEF C!BlockSize, B!BlockSize, BlockSize, C!X_Max, X_Max
<1>2. C!CoinX = X_Max + 1 - HalfSize /\ C!CoinX \in X_Min..(Word - 1)
  BY <1>1, Window, PlayfieldAssumption DEF C!CoinX
<1>3. C!CoinX - X_Min = BlockSize * (Cols - 1) + HalfSize
  <2>1. Cols * BlockSize = BlockSize * (Cols - 1) + BlockSize
    BY <1>1, PlayfieldAssumption
  <2>2. BlockSize * (Cols - 1) \in Int
    BY <1>1, PlayfieldAssumption
  <2> QED
    BY <1>1, <1>2, <2>1, <2>2, Window, PlayfieldAssumption
<1>4. (C!CoinX - X_Min) % Word = C!CoinX - X_Min
  BY <1>2, Window, PlayfieldAssumption
<1>5. (C!CoinX - X_Min) \div BlockSize = Cols - 1
  <2>1. HalfSize \in 0..(BlockSize - 1) /\ Cols - 1 \in Int /\ C!CoinX - X_Min \in Int
    BY <1>1, <1>2, PlayfieldAssumption
  <2> QED
    BY <1>1, <1>3, <2>1, DivUnique
<1> QED
  BY <1>1, <1>2, <1>4, <1>5 DEF B!ColOf, B!W10

(* A block to the left is the column before.                               *)
LEMMA ColumnBefore ==
  ASSUME NEW x \in 0..(Word - 1), x - BlockSize >= X_Min, x <= C!CoinX
  PROVE  /\ (x - BlockSize) % Word = x - BlockSize
         /\ B!ColOf(x - BlockSize) = B!ColOf(x) - 1
         /\ B!ColOf(x - BlockSize) \in 0..(Cols - 2)
<1> DEFINE b == BlockSize
           k == x - BlockSize - X_Min
<1>1. /\ b \in Nat \ {0} /\ X_Min \in Nat /\ Word \in Nat /\ Word > 0
      /\ B!BlockSize = b /\ Cols \in Nat /\ Cols >= 5 /\ x \in Nat /\ k \in Nat
      /\ k + b = x - X_Min /\ k < Word /\ k + b < Word
  BY CoinPlaces, Window, PlayfieldAssumption
<1>2. /\ (x - b) % Word = x - b /\ (x - b - X_Min) % Word = k /\ (x - X_Min) % Word = k + b
  BY <1>1
<1>3. k = b * (k \div b) + (k % b) /\ k % b \in 0..(b - 1) /\ k \div b \in Int
  BY <1>1
<1>4. k + b = b * ((k \div b) + 1) + (k % b)
  BY <1>1, <1>3
<1>5. (k + b) \div b = (k \div b) + 1
  BY <1>1, <1>3, <1>4, DivUnique
<1>6. B!ColOf(x - b) = k \div b /\ B!ColOf(x) = (k + b) \div b
  BY <1>1, <1>2 DEF B!ColOf, B!W10
<1>7. k \div b \in 0..(Cols - 2)
  <2>1. k <= C!CoinX - X_Min - b /\ C!CoinX - X_Min = b * (Cols - 1) + HalfSize /\ b = 2 * HalfSize
    <3>1. C!CoinX = X_Max + 1 - HalfSize
      BY DEF C!CoinX, C!X_Max, X_Max, C!BlockSize, BlockSize
    <3>2. Cols * b = b * (Cols - 1) + b /\ b * (Cols - 1) \in Int
      BY <1>1
    <3> QED
      BY <1>1, <3>1, <3>2, CoinPlaces, Window, PlayfieldAssumption
  <2>2. k < b * (Cols - 1)
    <3>1. b * (Cols - 1) \in Int
      BY <1>1
    <3> HIDE DEF k, b
    <3> QED
      BY <1>1, <2>1, <3>1, PlayfieldAssumption
  <2>3. k \div b >= 0
    BY <1>1
  <2>4. k \div b >= Cols - 1 => b * (k \div b) >= b * (Cols - 1)
    BY <1>1, <1>3
  <2> HIDE DEF k, b
  <2> QED
    BY <1>1, <1>3, <2>2, <2>3, <2>4
<1> QED
  BY <1>2, <1>5, <1>6, <1>7

(* Word a of the level announces coin i.                                   *)
Announces(a, i) ==
  LevelMem[a].control \div 32 = 1 /\ (LevelMem[a].control \div 8) % 4 = i

Announced(a) == {i \in C!CoinIds : Announces(a, i)}

LEMMA Decoded ==
  ASSUME NEW a \in 0..(Depth - 1), rom_q = LevelMem[a], DecodeCoin
  PROVE  start_coin' = Announced(a)
<1>1. rom_q \in Words
  BY ToplevelAssumption
<1>2. CoinBit => CoinNumber \in C!CoinIds
  BY <1>1, WordType
<1>3. start_coin' = IF CoinBit THEN {CoinNumber} ELSE {}
  BY DEF DecodeCoin
<1>4. CoinBit <=> LevelMem[a].control \div 32 = 1
  BY DEF CoinBit, new_col_control
<1>5. CoinNumber = (LevelMem[a].control \div 8) % 4
  BY DEF CoinNumber, new_col_control
<1> HIDE DEF CoinBit
<1> QED
  BY <1>2, <1>3, <1>4, <1>5, Zenon DEF Announced, Announces

Previous(p) == p \in 0..(Depth - 1) /\ current_block_col = (p + 1) % Depth

(* The word of the pending column on its way to the coins' start inputs:   *)
(* before a scroll it has arrived, and the three posedges after it are not *)
(* those of a new frame.                                                   *)
Settled ==
  /\ rom_addr = current_block_col /\ rom_q = LevelMem[current_block_col]
  /\ start_coin = Announced(current_block_col)

OnItsWay(p) ==
  /\ Previous(p) /\ start_coin = Announced(p)
  /\ \/ /\ Pixel1 /\ ~vga_clk
        /\ rom_addr = p /\ rom_q = LevelMem[p]
     \/ /\ Pixel1 /\ vga_clk
        /\ rom_addr = current_block_col /\ rom_q = LevelMem[p]
     \/ /\ ~V!frame_clk /\ ~vga_clk
        /\ rom_addr = current_block_col /\ rom_q = LevelMem[current_block_col]

PipeInv == Settled \/ \E p \in 0..(Depth - 1) : OnItsWay(p)

LEMMA CountFromPixel1 ==
  ASSUME Pixel1, V!Count
  PROVE  ~V!frame_clk'
BY Raster DEF V!frame_clk, V!Count, V!Next_h, V!Next_v, Pixel1

LEMMA PipeStep ==
  ASSUME GameInv, PipeInv, ~Reset_h, Next
  PROVE  /\ PipeInv'
         /\ Shift => Settled
         /\ ~Shift => current_block_col' = current_block_col
         /\ Shift => current_block_col' = (current_block_col + 1) % Depth
         /\ start_coin' = start_coin \/ \E p \in 0..(Depth - 1) : OnItsWay(p) /\ ~Shift
<1>1. PICK pressed \in Buttons :
        \/ \E key \in Keys : FrameTick(pressed, key)
        \/ QuietTick(pressed)
  BY DEF Next, ResetTick
<1>2. Always(pressed) /\ pressed \in BOOLEAN /\ TypeOK /\ ClockInv
  BY <1>1, ToplevelAssumption DEF FrameTick, QuietTick, GameInv
<1>3. rom_addr' = current_block_col /\ rom_q' = LevelMem[rom_addr] /\ DecodeCoin
  BY <1>2 DEF Always, ReadLevel
<1>4. /\ (vga_clk' <=> ~vga_clk)
      /\ (frame_clk_rising_edge' <=> V!frame_clk /\ ~frame_clk_delayed)
      /\ ~vga_clk => (V!frame_clk' <=> V!frame_clk) /\ (Pixel1' <=> Pixel1)
      /\ frame_clk_rising_edge /\ ~Reset_h => Pixel1'
  BY <1>2, ClockTick
<1>5. rom_addr \in 0..(Depth - 1) /\ current_block_col \in 0..(Depth - 1)
  BY <1>2 DEF TypeOK, B!BlockTypeOK
<1>6. ~Shift => current_block_col' = current_block_col
  BY <1>1 DEF FrameTick, QuietTick, StepBoard, B!BreakBrick
<1>7. Shift => current_block_col' = (current_block_col + 1) % Depth
  BY <1>1 DEF FrameTick, QuietTick, StepBoard, B!ShiftIn, Shift
<1>8. CASE Settled
  <2>1. start_coin' = Announced(current_block_col)
    BY <1>3, <1>5, <1>8, Decoded DEF Settled
  <2>2. rom_q' = LevelMem[current_block_col]
    BY <1>3, <1>8 DEF Settled
  <2>3. CASE ~Shift
    BY <1>3, <1>6, <1>8, <2>1, <2>2, <2>3 DEF PipeInv, Settled
  <2>4. CASE Shift
    <3>1. Pixel1' /\ ~vga_clk'
      BY <1>2, <1>4, <2>4 DEF Shift, NewFrame, ClockInv
    <3>2. PICK p \in 0..(Depth - 1) : p = current_block_col
      BY <1>5
    <3>3. Previous(p)'
      BY <1>7, <2>4, <3>2 DEF Previous
    <3>4. OnItsWay(p)'
      BY <1>3, <1>8, <2>1, <2>2, <3>1, <3>2, <3>3 DEF OnItsWay, Settled
    <3> QED
      BY <1>7, <1>8, <2>1, <2>4, <3>4 DEF PipeInv, Settled
  <2> QED
    BY <2>3, <2>4
<1>9. ASSUME NEW p \in 0..(Depth - 1), OnItsWay(p)
      PROVE  /\ PipeInv' /\ ~Shift
  <2>1. ~V!frame_clk /\ ~frame_clk_rising_edge /\ ~Shift
    BY <1>2, <1>9, Pixel1NotOrigin DEF OnItsWay, ClockInv, Shift, NewFrame
  <2>2. current_block_col' = current_block_col /\ Previous(p)'
    BY <1>6, <1>9, <2>1 DEF OnItsWay, Previous
  <2>3. CASE Pixel1 /\ ~vga_clk /\ rom_addr = p /\ rom_q = LevelMem[p]
    <3>1. start_coin' = Announced(p)
      BY <1>3, <2>3, Decoded
    <3>2. OnItsWay(p)'
      BY <1>3, <1>4, <2>2, <2>3, <3>1 DEF OnItsWay
    <3> QED
      BY <2>1, <3>2 DEF PipeInv
  <2>4. CASE Pixel1 /\ vga_clk /\ rom_addr = current_block_col /\ rom_q = LevelMem[p]
    <3>1. start_coin' = Announced(p)
      BY <1>3, <2>4, Decoded
    <3>2. ~V!frame_clk'
      <4>1. V!Count
        BY <1>2, <2>4, Zenon DEF Always, StepVga
      <4> QED
        BY <2>4, <4>1, CountFromPixel1
    <3>3. OnItsWay(p)'
      BY <1>3, <1>4, <2>2, <2>4, <3>1, <3>2 DEF OnItsWay
    <3> QED
      BY <2>1, <3>3 DEF PipeInv
  <2>5. CASE rom_addr = current_block_col /\ rom_q = LevelMem[current_block_col]
    <3>1. start_coin' = Announced(current_block_col)
      BY <1>3, <1>5, <2>5, Decoded
    <3>2. Settled'
      BY <1>3, <2>2, <2>5, <3>1 DEF Settled
    <3> QED
      BY <2>1, <3>2 DEF PipeInv
  <2> QED
    BY <1>9, <2>3, <2>4, <2>5 DEF OnItsWay
<1>10. start_coin' = start_coin \/ \E p \in 0..(Depth - 1) : OnItsWay(p) /\ ~Shift
  <2>1. Settled => start_coin' = start_coin
    BY <1>3, <1>5, Decoded DEF Settled
  <2> QED
    BY <1>9, <2>1 DEF PipeInv
<1> QED
  BY <1>6, <1>8, <1>9, <1>10, <1>5, <1>7 DEF PipeInv, Previous

(* The level address whose column is on the screen at x.                   *)
AddressAt(x) == (current_block_col - Cols + B!ColOf(x)) % Depth

CoinInv ==
  \A i \in C!CoinIds :
    /\ coins[i].x <= C!CoinX
    /\ i \notin start_coin /\ coins[i].running /\ coins[i].x >= X_Min
         => Announces(AddressAt(coins[i].x), i)

LEMMA CoinStep ==
  ASSUME GameInv, PipeInv, CoinInv, ~Reset_h, Next
  PROVE  CoinInv'
<1>1. PICK frame \in BOOLEAN :
        /\ Shift => frame
        /\ C!StepCoins(start_coin, StartBlock, frame, Shift, Mario_X_Pos, Mario_Y_Pos)
  <2>1. CASE NewFrame
    BY <2>1 DEF Next, ResetTick, FrameTick, QuietTick
  <2>2. CASE ~NewFrame
    <3>1. C!StepCoins(start_coin, StartBlock, FALSE, FALSE, Mario_X_Pos, Mario_Y_Pos)
      BY <2>2 DEF Next, ResetTick, FrameTick, QuietTick
    <3>2. Shift = FALSE
      BY <2>2 DEF Shift
    <3> QED
      BY <3>1, <3>2
  <2> QED
    BY <2>1, <2>2
<1>2. /\ Shift => Settled
      /\ ~Shift => current_block_col' = current_block_col
      /\ Shift => current_block_col' = (current_block_col + 1) % Depth
      /\ start_coin' = start_coin \/ \E p \in 0..(Depth - 1) : OnItsWay(p) /\ ~Shift
  BY PipeStep
<1>3. /\ B!BlockTypeOK /\ C!CoinTypeOK /\ Shift \in BOOLEAN /\ StartBlock \in Int
      /\ current_block_col \in 0..(Depth - 1)
  BY WordType DEF GameInv, TypeOK, B!BlockTypeOK, Shift, NewFrame, M!ScrollDue
<1>4. /\ C!CoinX \in Int /\ X_Min \in Nat /\ C!CoinX >= X_Min /\ X_Min >= BlockSize
      /\ BlockSize \in Nat /\ Word \in Nat /\ Word > 0 /\ Cols \in Nat /\ Depth \in Nat /\ Depth > Cols
  BY CoinPlaces, Window, PlayfieldAssumption, ToplevelAssumption
<1>5. ASSUME NEW i \in C!CoinIds
      PROVE  /\ coins'[i].x <= C!CoinX
             /\ i \notin start_coin' /\ coins'[i].running /\ coins'[i].x >= X_Min
                  => Announces(AddressAt(coins[i].x)', i)
  <2>1. CASE i \in start_coin
    <3>1. coins'[i] = C!Dropped(StartBlock)
      BY <1>1, <2>1, Zenon DEF C!StepCoins
    <3>2. coins'[i].x = C!CoinX
      BY <3>1 DEF C!Dropped
    <3>3. ASSUME i \notin start_coin'
          PROVE  Announces(AddressAt(coins[i].x)', i)
      <4>1. PICK p \in 0..(Depth - 1) : OnItsWay(p) /\ ~Shift
        BY <1>2, <2>1, <3>3
      <4>2. Announces(p, i) /\ current_block_col' = (p + 1) % Depth
        BY <1>2, <2>1, <4>1 DEF OnItsWay, Previous, Announced
      <4>3. (((p + 1) % Depth) - Cols + (Cols - 1)) % Depth = p
        <5>1. p \in Int /\ 0 <= p /\ p < Depth
          BY <1>4
        <5>2. CASE p + 1 < Depth
          <6>1. (p + 1) % Depth = p + 1
            BY <1>4, <5>1, <5>2
          <6> QED
            BY <1>4, <5>1, <6>1
        <5>3. CASE p + 1 = Depth
          <6>1. (p + 1) % Depth = 0
            BY <1>4, <5>3
          <6>2. (0 - Cols + (Cols - 1)) % Depth = Depth - 1
            BY <1>4
          <6> QED
            BY <5>1, <5>3, <6>1, <6>2
        <5> QED
          BY <5>1, <5>2, <5>3, <1>4
      <4>4. AddressAt(coins[i].x)' = p
        BY <3>2, <4>2, <4>3, CoinPlaces DEF AddressAt
      <4> QED
        BY <4>2, <4>4
    <3> QED
      BY <1>4, <3>2, <3>3
  <2>2. CASE i \notin start_coin /\ coins[i].taken
    <3>1. coins'[i] = C!Idle
      BY <1>1, <2>2, Zenon DEF C!StepCoins
    <3> QED
      BY <1>4, <3>1 DEF C!Idle
  <2>3. CASE i \notin start_coin /\ ~coins[i].taken
    <3> DEFINE x == coins[i].x
    <3>1. coins'[i] = C!Moved(coins[i], frame, Shift, Mario_X_Pos, Mario_Y_Pos)
      BY <1>1, <2>3, Zenon DEF C!StepCoins
    <3>2. coins[i] \in CoinRecord
      BY <1>3 DEF C!CoinTypeOK, CoinRecord
    <3>3. /\ coins'[i].x = IF Shift /\ x >= X_Min THEN (x - BlockSize) % Word ELSE x
          /\ coins'[i].running => coins[i].running
      BY <1>1, <1>3, <3>1, <3>2, MovedRecord
    <3>4. x \in 0..(Word - 1) /\ x <= C!CoinX
      BY <3>2 DEF CoinRecord, CoinInv
    <3>5. coins[i].running /\ x >= X_Min => Announces(AddressAt(x), i)
      BY <2>3 DEF CoinInv
    <3> HIDE DEF x
    <3>6. CASE ~Shift
      <4>1. coins'[i].x = x /\ AddressAt(coins[i].x)' = AddressAt(x)
        BY <1>2, <3>3, <3>6 DEF AddressAt
      <4> QED
        BY <3>3, <3>4, <3>5, <4>1
    <3>7. CASE Shift /\ x < X_Min
      <4>1. coins'[i].x = x
        BY <1>4, <3>3, <3>4, <3>7
      <4> QED
        BY <1>4, <3>4, <3>7, <4>1
    <3>8. CASE Shift /\ x >= X_Min
      <4>1. (x - BlockSize) % Word = x - BlockSize
        BY <1>4, <3>4, <3>8
      <4>2. coins'[i].x = x - BlockSize /\ coins'[i].x <= C!CoinX
        BY <1>4, <3>3, <3>4, <3>8, <4>1
      <4>3. ASSUME x - BlockSize >= X_Min
            PROVE  AddressAt(coins[i].x)' = AddressAt(x)
        <5>1. B!ColOf(x - BlockSize) = B!ColOf(x) - 1 /\ B!ColOf(x - BlockSize) \in 0..(Cols - 1)
          <6>1. B!ColOf(x - BlockSize) = B!ColOf(x) - 1 /\ B!ColOf(x - BlockSize) \in 0..(Cols - 2)
            BY <3>4, <4>3, ColumnBefore
          <6>2. 0..(Cols - 2) \subseteq 0..(Cols - 1)
            BY <1>4
          <6> QED
            BY <6>1, <6>2
        <5>2. PICK k \in 0..(Cols - 1) : k = B!ColOf(x - BlockSize)
          BY <5>1
        <5>3. B!ColOf(x) = k + 1
          <6>1. B!ColOf(x) \in Nat
            BY <3>4, BlockNumbers
          <6> QED
            BY <5>1, <5>2, <6>1
        <5>4. (current_block_col' - Cols + k) % Depth = (current_block_col - Cols + (k + 1)) % Depth
          BY <1>2, <1>3, <3>8, NextAddress
        <5> QED
          BY <4>2, <5>2, <5>3, <5>4 DEF AddressAt
      <4> QED
        BY <3>3, <3>5, <3>8, <4>2, <4>3
    <3> QED
      BY <1>3, <1>4, <3>4, <3>6, <3>7, <3>8
  <2> QED
    BY <2>1, <2>2, <2>3
<1>6. C!CoinX' = C!CoinX /\ X_Min' = X_Min
  BY DEF C!CoinX, C!X_Max, C!BlockSize
<1> QED
  BY <1>5, <1>6 DEF CoinInv, AddressAt

(* As long as nothing is reset, a coin that is loose on the screen lies in *)
(* the column whose control bits announced it, although those bits reach   *)
(* it three posedges late.  (A death while a coin is pending drops that    *)
(* coin into the new game, where nothing announces it.)                    *)
THEOREM CoinsStayInColumn == Spec /\ []~Reset_h => []CoinInOwnColumn
<1>1. Init => PipeInv /\ CoinInv
  <2> SUFFICES ASSUME Init
               PROVE  PipeInv /\ CoinInv
    OBVIOUS
  <2>1. current_block_col \in 0..(Depth - 1) /\ rom_addr = current_block_col
        /\ rom_q = LevelMem[current_block_col]
    BY PlayfieldAssumption, ToplevelAssumption DEF Init
  <2>2. rom_q \in Words
    BY <2>1, ToplevelAssumption
  <2>3. start_coin = Announced(current_block_col)
    <3>1. CoinBit => CoinNumber \in C!CoinIds
      BY <2>2, WordType
    <3>2. start_coin = IF CoinBit THEN {CoinNumber} ELSE {}
      BY DEF Init
    <3>3. CoinBit <=> LevelMem[current_block_col].control \div 32 = 1
      BY <2>1 DEF CoinBit, new_col_control
    <3>4. CoinNumber = (LevelMem[current_block_col].control \div 8) % 4
      BY <2>1 DEF CoinNumber, new_col_control
    <3> HIDE DEF CoinBit
    <3> QED
      BY <3>1, <3>2, <3>3, <3>4, Zenon DEF Announced, Announces
  <2>4. CoinInv
    <3>1. \A i \in C!CoinIds : coins[i] = C!Idle
      BY DEF Init
    <3>2. C!CoinX >= 0
      BY CoinPlaces, PlayfieldAssumption
    <3> QED
      BY <3>1, <3>2 DEF CoinInv, C!Idle
  <2> QED
    BY <2>1, <2>3, <2>4 DEF PipeInv, Settled
<1>2. GameInv /\ PipeInv /\ CoinInv /\ ~Reset_h /\ [Next]_vars => PipeInv' /\ CoinInv'
  <2>1. ASSUME PipeInv, CoinInv, UNCHANGED vars
        PROVE  PipeInv' /\ CoinInv'
    BY <2>1 DEF vars, gameVars, clockVars, memVars, PipeInv, Settled, OnItsWay, Previous, Pixel1,
       V!frame_clk, CoinInv, AddressAt
  <2> QED
    BY <2>1, PipeStep, CoinStep
<1>3. CoinInv => CoinInOwnColumn
  BY DEF CoinInv, AddressAt, Announces, CoinInOwnColumn
<1> QED
  BY <1>1, <1>2, <1>3, GameInductive, PTL DEF Spec
-----------------------------------------------------------------------------
(* The scroll.                                                             *)

(* The blocks Mario may touch are on the screen before and after a scroll. *)
LEMMA ScrollMovesBlocks ==
  ASSUME MP!IInv, M!ScrollDue, Mario_X_Pos' = Mario_X_Pos - BlockSize,
         NEW word, B!ShiftIn(word), NEW dx \in (-HalfSize)..HalfSize
  PROVE  blockCols'[B!ColOf(Mario_X_Pos' + dx)] = blockCols[B!ColOf(Mario_X_Pos + dx)]
<1> DEFINE x == Mario_X_Pos + dx
<1>1. /\ M!X_Mid >= X_Min + 5 * HalfSize - 1 /\ M!X_Mid + 5 * HalfSize <= X_Max
      /\ M!X_Mid \in Int /\ X_Max \in Int
      /\ HalfSize \in Nat \ {0} /\ X_Min \in Nat /\ X_Step \in Nat /\ X_Step <= HalfSize
      /\ BlockSize = 2 * HalfSize /\ Word \in Nat /\ X_Max + 2 * HalfSize < Word
  BY MP!Landmarks, SameConstants, PlayfieldAssumption, MotionAssumption, CoinPlaces
<1>2. C!CoinX = X_Max + 1 - HalfSize
  BY DEF C!CoinX, C!X_Max, X_Max, C!BlockSize, BlockSize
<1>3. /\ Mario_X_Pos \in Int /\ Mario_X_Pos <= M!X_Mid - HalfSize + X_Step - 1
      /\ Mario_X_Pos + HalfSize + 1 > M!X_Mid
  BY <1>1, SameConstants DEF MP!IInv, MP!XInv, M!ScrollDue
<1>4. /\ x \in 0..(Word - 1) /\ x - BlockSize >= X_Min /\ x <= C!CoinX
      /\ Mario_X_Pos' + dx = x - BlockSize
  BY <1>1, <1>2, <1>3
<1> HIDE DEF x
<1>5. B!ColOf(x - BlockSize) = B!ColOf(x) - 1 /\ B!ColOf(x - BlockSize) \in 0..(Cols - 2)
  BY <1>4, ColumnBefore
<1>6. B!ColOf(x) \in Nat
  BY <1>4, BlockNumbers
<1>7. PICK k \in 0..(Cols - 2) : k = B!ColOf(x - BlockSize)
  BY <1>5
<1>8. B!ColOf(x) = k + 1
  BY <1>5, <1>6, <1>7
<1> QED
  BY <1>4, <1>7, <1>8, PlayfieldAssumption DEF B!ShiftIn, x

LEMMA ScrollMovesGoomba ==
  ASSUME X_Min >= 3 * HalfSize + GoombaStep, G!GoombaTypeOK, GoombaOnScreen, isAlive, isAlive',
         ~kill_Mario', NEW mx, NEW my, NEW left, NEW right, G!FrameEdge(mx, my, left, right, TRUE)
  PROVE  Goomba_X_Pos' = Goomba_X_Pos + Goomba_X_Motion - BlockSize
<1> DEFINE x == Goomba_X_Pos
<1>1. G!Walk(mx, my, left, right, TRUE)
  BY DEF G!FrameEdge, G!GetSquished, G!KillMario, G!WalkOff, G!LieDead
<1>2. /\ HalfSize \in Nat \ {0} /\ X_Min \in Nat /\ Word \in Nat /\ GoombaStep \in 1..HalfSize
      /\ BlockSize = 2 * HalfSize /\ G!BlockSize = BlockSize /\ X_Max + 2 * HalfSize < Word
      /\ X_Max \in Int /\ G!X_Max = X_Max
  BY PlayfieldAssumption, ToplevelAssumption, Window DEF BlockSize, G!BlockSize, G!X_Max, X_Max
<1>3. x \in 0..(Word - 1) /\ x <= X_Max + 1 - HalfSize /\ Goomba_X_Motion \in (-GoombaStep)..GoombaStep
  BY <1>2 DEF GoombaOnScreen, G!GoombaTypeOK, G!SpawnX
<1>4. (x + HalfSize) % Word = x + HalfSize
  BY <1>2, <1>3
<1>5. x + HalfSize >= X_Min
  BY <1>1, <1>2, <1>3, <1>4 DEF G!Walk, G!OffScreen, G!W10
<1>6. (x + Goomba_X_Motion - BlockSize) % Word = x + Goomba_X_Motion - BlockSize
  BY <1>2, <1>3, <1>5
<1> QED
  BY <1>1, <1>2, <1>6 DEF G!Walk, G!W10

LEMMA ScrollMovesCoin ==
  ASSUME C!CoinTypeOK, NEW i \in C!CoinIds \ start_coin, NEW row, NEW mx, NEW my,
         C!StepCoins(start_coin, row, TRUE, TRUE, mx, my), coins'[i].running
  PROVE  coins'[i].x = coins[i].x - BlockSize
<1>1. coins[i] \in CoinRecord
  BY DEF C!CoinTypeOK, CoinRecord
<1>2. CASE coins[i].taken
  <2>1. coins'[i] = C!Idle
    BY <1>2, Zenon DEF C!StepCoins
  <2> QED
    BY <2>1 DEF C!Idle
<1>3. CASE ~coins[i].taken
  <2>1. coins'[i] = C!Moved(coins[i], TRUE, TRUE, mx, my)
    BY <1>3, Zenon DEF C!StepCoins
  <2>2. /\ coins'[i].x = IF coins[i].x >= X_Min THEN (coins[i].x - BlockSize) % Word ELSE coins[i].x
        /\ ~(coins[i].x < X_Min)
    <3>1. TRUE \in BOOLEAN
      OBVIOUS
    <3>2. \A frame, shift \in BOOLEAN :
            LET c == C!Moved(coins[i], frame, shift, mx, my) IN
            /\ c.x = IF frame /\ shift /\ coins[i].x >= X_Min
                       THEN (coins[i].x - BlockSize) % Word ELSE coins[i].x
            /\ c.running <=> coins[i].running /\ ~(frame /\ coins[i].x < X_Min)
      BY <1>1, MovedRecord
    <3>3. /\ coins'[i].x = IF TRUE /\ TRUE /\ coins[i].x >= X_Min
                             THEN (coins[i].x - BlockSize) % Word ELSE coins[i].x
          /\ coins'[i].running <=> coins[i].running /\ ~(TRUE /\ coins[i].x < X_Min)
      BY <2>1, <3>1, <3>2, Zenon
    <3> QED
      BY <3>3
  <2>3. /\ coins[i].x \in 0..(Word - 1) /\ X_Min \in Nat /\ BlockSize \in Nat /\ X_Min >= BlockSize
        /\ Word \in Nat
    BY <1>1, PlayfieldAssumption DEF CoinRecord, BlockSize
  <2>4. coins[i].x >= X_Min
    BY <2>2, <2>3
  <2>5. (coins[i].x - BlockSize) % Word = coins[i].x - BlockSize
    BY <2>3, <2>4
  <2> QED
    BY <2>2, <2>4, <2>5
<1> QED
  BY <1>2, <1>3

(* A scroll moves the blocks around Mario, the goomba and the coins with   *)
(* him, if there is room for the goomba to leave on the left (on the board *)
(* 120 pixels for 61) and while it is on the screen: this is where none of *)
(* their coordinates wraps around.                                         *)
LEMMA ScrollsWithGoomba ==
  ASSUME X_Min >= 3 * HalfSize + GoombaStep
  PROVE  Spec /\ []GoombaOnScreen => ScrollIsRigid
<1> DEFINE Rigid ==
      /\ \A dx \in (-HalfSize)..HalfSize :
           blockCols'[B!ColOf(Mario_X_Pos' + dx)] = blockCols[B!ColOf(Mario_X_Pos + dx)]
      /\ isAlive /\ isAlive' /\ ~GoombaBit /\ ~kill_Mario' =>
           Goomba_X_Pos' - Mario_X_Pos' = Goomba_X_Pos - Mario_X_Pos + Goomba_X_Motion
      /\ \A i \in C!CoinIds \ start_coin :
           coins[i].running /\ coins'[i].running =>
             coins'[i].x - Mario_X_Pos' = coins[i].x - Mario_X_Pos
<1>1. ASSUME GameInv, MP!IInv, GoombaOnScreen, Next, Shift, ~Reset_h
      PROVE  Rigid
  <2>1. PICK pressed \in Buttons, key \in Keys : FrameTick(pressed, key)
    BY <1>1 DEF Next, ResetTick, QuietTick, Shift
  <2>2. Mario_X_Pos' = Mario_X_Pos - BlockSize /\ M!ScrollDue
    BY <1>1, <2>1, FrameMovesX DEF GameInv, Shift
  <2>3. B!ShiftIn(new_block_id)
    BY <1>1, <2>1 DEF FrameTick, StepBoard
  <2>4. /\ Mario_X_Pos \in Int /\ Goomba_X_Pos \in Int /\ Goomba_X_Motion \in Int /\ BlockSize \in Int
        /\ TypeOK
    BY <1>1, Window, ToplevelAssumption, CoinPlaces DEF GameInv, TypeOK, M!TypeOK, G!GoombaTypeOK
  <2>5. ASSUME isAlive, isAlive', ~GoombaBit, ~kill_Mario'
        PROVE  Goomba_X_Pos' - Mario_X_Pos' = Goomba_X_Pos - Mario_X_Pos + Goomba_X_Motion
    <3>1. PICK left \in B!GoombaLeft(Goomba_X_Pos, Goomba_Y_Pos),
               right \in B!GoombaRight(Goomba_X_Pos, Goomba_Y_Pos) :
            G!FrameEdge(Mario_X_Pos, Mario_Y_Pos, left, right, Shift)
      BY <2>1, <2>5 DEF FrameTick, StepGoomba
    <3>2. Shift = TRUE
      BY <1>1, <2>4 DEF Shift, NewFrame, M!ScrollDue, TypeOK
    <3>3. Goomba_X_Pos' = Goomba_X_Pos + Goomba_X_Motion - BlockSize
      BY <1>1, <2>4, <2>5, <3>1, <3>2, ScrollMovesGoomba DEF TypeOK
    <3> QED
      BY <2>2, <2>4, <3>3
  <2>6. ASSUME NEW i \in C!CoinIds \ start_coin, coins'[i].running
        PROVE  coins'[i].x - Mario_X_Pos' = coins[i].x - Mario_X_Pos
    <3>1. C!StepCoins(start_coin, StartBlock, TRUE, TRUE, Mario_X_Pos, Mario_Y_Pos)
      <4>1. Shift = TRUE
        BY <1>1, <2>4 DEF Shift, NewFrame, M!ScrollDue, TypeOK
      <4> QED
        BY <2>1, <4>1 DEF FrameTick
    <3>2. coins'[i].x = coins[i].x - BlockSize
      BY <2>4, <2>6, <3>1, ScrollMovesCoin DEF TypeOK
    <3>3. coins[i].x \in Int
      BY <2>4, Window DEF TypeOK, C!CoinTypeOK
    <3> QED
      BY <2>2, <2>4, <3>2, <3>3
  <2> QED
    BY <1>1, <2>2, <2>3, <2>5, <2>6, ScrollMovesBlocks
<1>2. GameInv /\ MP!IInv /\ GoombaOnScreen /\ [Next]_vars => [Shift /\ ~Reset_h => Rigid]_vars
  BY <1>1
<1> QED
  BY <1>2, GameInductive, MarioInductive, PTL DEF Spec, ScrollIsRigid
-----------------------------------------------------------------------------
(* Places on the screen.                                                   *)

(* The first pixel of a column, and of the bottom row.                     *)
Left(c) == X_Min + c * BlockSize
GroundTop == Y_Max + 1 - BlockSize

LEMMA Columns ==
  /\ Left(0) = X_Min /\ Left(Cols) = X_Max + 1
  /\ \A c \in Int : Left(c) \in Int /\ Left(c + 1) = Left(c) + BlockSize
  /\ \A c, d \in Int : c < d => Left(c + 1) <= Left(d)
<1>1. X_Min \in Nat /\ BlockSize \in Nat \ {0} /\ Cols \in Nat
  BY CoinPlaces, PlayfieldAssumption
<1>2. Left(0) = X_Min /\ Left(Cols) = X_Max + 1
  <2>1. 0 * BlockSize = 0 /\ Cols * BlockSize \in Int
    BY <1>1
  <2> QED
    BY <1>1, <2>1, Window DEF Left
<1>3. \A c \in Int : Left(c) \in Int /\ Left(c + 1) = Left(c) + BlockSize
  BY <1>1 DEF Left
<1>4. ASSUME NEW c \in Int, NEW d \in Int, c < d
      PROVE  Left(c + 1) <= Left(d)
  <2>1. PICK k \in Nat : d = c + 1 + k
    <3>1. d - c - 1 \in Nat /\ d = c + 1 + (d - c - 1)
      BY <1>4
    <3> QED
      BY <3>1
  <2>2. d * BlockSize = (c + 1) * BlockSize + k * BlockSize /\ k * BlockSize >= 0
    BY <1>1, <2>1
  <2>3. k * BlockSize \in Int /\ (c + 1) * BlockSize \in Int
    BY <1>1
  <2> QED
    BY <1>1, <2>2, <2>3 DEF Left
<1> QED
  BY <1>2, <1>3, <1>4

LEMMA ColumnAt ==
  ASSUME NEW c \in 0..(Cols - 1), NEW n \in Int, Left(c) <= n, n < Left(c + 1)
  PROVE  B!ColOf(n) = c
<1> DEFINE k == n - Left(c)
<1>1. /\ BlockSize \in Nat \ {0} /\ B!BlockSize = BlockSize /\ Cols \in Nat /\ X_Min \in Nat
      /\ Word \in Nat /\ X_Max + 1 < Word /\ X_Max \in Int
  BY CoinPlaces, Window, PlayfieldAssumption
<1>2. Left(c) \in Int /\ Left(c + 1) = Left(c) + BlockSize /\ Left(c + 1) <= X_Max + 1 /\ Left(c) >= X_Min
  <2>1. c \in Int /\ Cols \in Int /\ c < Cols /\ 0 \in Int
    BY <1>1
  <2>2. Left(c + 1) <= Left(Cols)
    BY <2>1, Columns
  <2>3. Left(c) >= Left(0)
    <3>1. CASE c = 0
      BY <3>1, Columns
    <3>2. CASE c # 0
      <4>1. 0 < c /\ 0 + 1 = 1 /\ Left(0 + 1) = Left(0) + BlockSize
        BY <3>2, <2>1, Columns
      <4>2. Left(0 + 1) <= Left(c)
        BY <2>1, <4>1, Columns
      <4> QED
        BY <1>1, <2>1, <4>1, <4>2, Columns
    <3> QED
      BY <3>1, <3>2
  <2> QED
    BY <2>1, <2>2, <2>3, Columns
<1>3. k \in 0..(BlockSize - 1) /\ n - X_Min = BlockSize * c + k
  <2>1. Left(c) = X_Min + BlockSize * c
    BY <1>1 DEF Left
  <2>2. BlockSize * c \in Int
    BY <1>1
  <2> QED
    BY <1>1, <1>2, <2>1, <2>2
<1>4. (n - X_Min) % Word = n - X_Min /\ n - X_Min \in Int
  BY <1>1, <1>2
<1> HIDE DEF k
<1>5. (n - X_Min) \div BlockSize = c
  BY <1>1, <1>3, <1>4, DivUnique
<1> QED
  BY <1>1, <1>4, <1>5 DEF B!ColOf, B!W10

(* Every pixel of the window lies in a column.                             *)
LEMMA InSomeColumn ==
  ASSUME NEW n \in X_Min..X_Max
  PROVE  \E c \in 0..(Cols - 1) : Left(c) <= n /\ n < Left(c + 1)
<1> DEFINE k == n - X_Min
           c == k \div BlockSize
<1>1. /\ BlockSize \in Nat \ {0} /\ Cols \in Nat /\ X_Min \in Nat /\ X_Max \in Int
      /\ k \in Nat
  BY CoinPlaces, Window, PlayfieldAssumption
<1>2. k = BlockSize * c + (k % BlockSize) /\ k % BlockSize \in 0..(BlockSize - 1) /\ c \in Nat
  BY <1>1
<1>3. Left(c) = X_Min + BlockSize * c /\ Left(c) \in Int /\ Left(c + 1) = Left(c) + BlockSize
  BY <1>1, <1>2, Columns DEF Left
<1>4. n = X_Min + k
  BY <1>1
<1>5. BlockSize * c \in Int
  BY <1>1, <1>2
<1> HIDE DEF k, c
<1>6. Left(c) <= n /\ n < Left(c + 1)
  BY <1>1, <1>2, <1>3, <1>4, <1>5
<1>7. c < Cols
  <2>1. SUFFICES ASSUME Cols <= c
                 PROVE  FALSE
    BY <1>1, <1>2
  <2>2. Left(Cols) <= Left(c)
    <3>1. CASE Cols = c
      BY <3>1, <1>3
    <3>2. CASE Cols # c
      <4>1. Left(Cols + 1) <= Left(c) /\ Left(Cols + 1) = Left(Cols) + BlockSize /\ Left(Cols) \in Int
        BY <1>1, <1>2, <2>1, <3>2, Columns
      <4> QED
        BY <1>1, <1>3, <4>1
    <3> QED
      BY <3>1, <3>2
  <2> QED
    BY <1>1, <1>3, <1>6, <2>2, Columns
<1> QED
  BY <1>1, <1>2, <1>6, <1>7

(* The bottom row is read at its own offset, and the rows above it are not *)
(* read there.                                                             *)
LEMMA GroundOffset ==
  ASSUME GoombaFits, NEW m \in Y_Min..Y_Max
  PROVE  B!Offset(m) = 3 * (Rows - 1) <=> m >= GroundTop
<1> DEFINE k == m - Y_Min
           r == k \div BlockSize
           h == (Rows - 1) * BlockSize
<1>1. /\ BlockSize \in Nat \ {0} /\ B!BlockSize = BlockSize /\ Rows \in Nat /\ Rows >= 2
      /\ Y_Min \in Nat /\ Y_Max \in Int /\ Y_Max < Word /\ Word \in Nat /\ 3 * (Rows - 1) <= 31
      /\ m \in Int /\ k \in Nat /\ k < Word
  BY CoinPlaces, Window, PlayfieldAssumption DEF GoombaFits
<1>2. B!RowOf(m) = r
  <2>1. k % Word = k
    BY <1>1
  <2> QED
    BY <1>1, <2>1 DEF B!RowOf, B!W10
<1>3. k = BlockSize * r + (k % BlockSize) /\ k % BlockSize \in 0..(BlockSize - 1) /\ r \in Nat
  BY <1>1
<1>4. GroundTop = Y_Min + h /\ h \in Int /\ Y_Max = Y_Min + h + BlockSize - 1
  <2>1. Rows * BlockSize = h + BlockSize /\ h \in Int
    BY <1>1
  <2> QED
    BY <1>1, <2>1, Window DEF GroundTop
<1>5. m = Y_Min + k /\ BlockSize * r \in Int
  BY <1>1, <1>3
<1> HIDE DEF k, r
<1>6. CASE m >= GroundTop
  <2>1. k = BlockSize * (Rows - 1) + (k - h) /\ k - h \in 0..(BlockSize - 1)
    <3>1. h = BlockSize * (Rows - 1)
      BY <1>1
    <3> HIDE DEF h
    <3> QED
      BY <1>1, <1>4, <1>5, <1>6, <3>1
  <2>2. r = Rows - 1
    <3>1. k \div BlockSize = Rows - 1
      BY <1>1, <2>1, <1>4, DivUnique
    <3> QED
      BY <3>1 DEF r
  <2>3. (3 * r) % 32 = 3 * (Rows - 1)
    BY <1>1, <2>2
  <2> QED
    BY <1>2, <1>6, <2>3 DEF B!Offset
<1>7. CASE m < GroundTop
  <2>1. BlockSize * r < h
    <3> HIDE DEF h
    <3> QED
      BY <1>1, <1>3, <1>4, <1>5, <1>7
  <2>2. r < Rows - 1
    <3>1. r >= Rows - 1 => BlockSize * r >= BlockSize * (Rows - 1)
      BY <1>1, <1>3
    <3>2. h = BlockSize * (Rows - 1)
      BY <1>1
    <3> HIDE DEF h
    <3> QED
      BY <1>1, <1>3, <1>4, <1>5, <2>1, <3>1, <3>2
  <2>3. (3 * r) % 32 = 3 * r /\ 3 * r # 3 * (Rows - 1)
    BY <1>1, <1>3, <2>2
  <2>4. ~(m >= GroundTop)
    <3> HIDE DEF h
    <3> QED
      BY <1>1, <1>4, <1>7
  <2> QED
    BY <1>2, <2>3, <2>4 DEF B!Offset
<1> QED
  <2> HIDE DEF h
  <2> QED
    BY <1>1, <1>4, <1>6, <1>7

(* What a lookup in the bottom row of column c returns.                    *)
Bottom(c) == blockCols[c][Rows - 1]

LEMMA GroundLookup ==
  ASSUME GoombaFits, B!BlockTypeOK, NEW c \in 0..(Cols - 1), NEW n \in Int, NEW m \in GroundTop..Y_Max,
         Left(c) <= n, n < Left(c + 1)
  PROVE  B!Lookup(B!ColOf(n), B!Offset(m)) = {Bottom(c)}
<1>1. B!ColOf(n) = c
  BY ColumnAt
<1>2. /\ Rows \in Nat /\ Rows >= 2 /\ Cols \in Nat /\ Y_Min \in Nat /\ Y_Max \in Int
      /\ Y_Max >= Y_Min + 4 * HalfSize - 1 /\ HalfSize \in Nat \ {0} /\ BlockSize = 2 * HalfSize
  BY Window, CoinPlaces, PlayfieldAssumption
<1>3. GroundTop \in Int /\ GroundTop >= Y_Min
  BY <1>2 DEF GroundTop
<1>4. m \in Y_Min..Y_Max /\ m >= GroundTop
  BY <1>2, <1>3
<1>5. B!Offset(m) = 3 * (Rows - 1)
  BY <1>4, GroundOffset
<1>6. PICK off \in Nat : off = 3 * (Rows - 1) /\ off = B!Offset(m)
  BY <1>2, <1>5
<1>7. off % 3 = 0 /\ off \div 3 = Rows - 1 /\ off + 2 < 3 * Rows
  BY <1>2, <1>6
<1>8. B!InColumn(off) /\ blockCols[c] \in B!Column /\ c < Cols
  BY <1>2, <1>7 DEF B!InColumn, B!BlockTypeOK
<1>9. B!Slice(blockCols[c], off) = Bottom(c)
  BY <1>7, <1>8, WholeCell DEF Bottom
<1> QED
  BY <1>1, <1>6, <1>8, <1>9 DEF B!Lookup
-----------------------------------------------------------------------------
(* The ground.  Mario's head is looked up in the bottom row too, where he  *)
(* stands on the floor of the window; but no brick of the ground breaks,   *)
(* since he is never that deep in a column whose ground is not open.       *)

MarioAbove ==
  \A c \in 0..(Cols - 1) :
    Bottom(c) # Air /\ Left(c) <= Mario_X_Pos /\ Mario_X_Pos < Left(c + 1) =>
      /\ Mario_Y_Pos < GroundTop + HalfSize
      /\ Jump_Counter > 0 => Mario_Y_Pos + Y_Step < GroundTop + HalfSize

LEMMA MarioPlace ==
  ASSUME MP!IInv
  PROVE  /\ Mario_X_Pos \in X_Min..X_Max /\ Mario_X_Pos + BlockSize <= X_Max /\ Mario_X_Pos \in Int
         /\ Mario_Y_Pos \in (M!Y_Ceiling - Y_Step)..Y_Max /\ Mario_Y_Pos \in Int
         /\ M!Y_Ceiling \in Int
         /\ Jump_Counter \in Nat
         /\ GroundTop \in Int /\ GroundTop + 2 * HalfSize = Y_Max + 1 /\ GroundTop >= Y_Min
<1>1. /\ MP!Y_Ceiling = M!Y_Ceiling /\ MP!Y_Floor \in Int /\ MP!Y_Ceiling \in Int
      /\ MP!Y_Floor = Y_Max - HalfSize + Y_Step
  BY MP!YLandmarks, SameConstants DEF MP!Y_Ceiling, M!Y_Ceiling
<1>2. /\ M!X_Mid >= X_Min + 5 * HalfSize - 1 /\ M!X_Mid + 5 * HalfSize <= X_Max /\ M!X_Mid \in Int
      /\ HalfSize \in Nat \ {0} /\ X_Min \in Nat /\ X_Step \in Nat /\ X_Step <= HalfSize
      /\ Y_Step \in Nat /\ Y_Step <= HalfSize /\ X_Max \in Int /\ Y_Max \in Int /\ Y_Min \in Nat
      /\ BlockSize = 2 * HalfSize /\ Y_Max >= Y_Min + 4 * HalfSize - 1
  BY MP!Landmarks, SameConstants, PlayfieldAssumption, MotionAssumption, CoinPlaces, Window
<1>3. Mario_X_Pos \in (X_Min + HalfSize - X_Step)..(M!X_Mid - HalfSize + X_Step - 1)
  BY SameConstants DEF MP!IInv, MP!XInv
<1>4. Mario_Y_Pos \in (MP!Y_Ceiling - Y_Step)..MP!Y_Floor /\ Jump_Counter \in Nat
  BY DEF MP!IInv, MP!YInv
<1>5. GroundTop \in Int /\ GroundTop + 2 * HalfSize = Y_Max + 1 /\ GroundTop >= Y_Min
  BY <1>2 DEF GroundTop
<1> QED
  BY <1>1, <1>2, <1>3, <1>4, <1>5

(* While nothing is shifted or reset the ground stays as it is.            *)
LEMMA GroundHolds ==
  ASSUME NoFalseBricks, GoombaFits, MP!IInv, B!BlockTypeOK, BoardInv, MarioAbove,
         Next, ~Reset_h, ~Shift, NEW c \in 0..(Cols - 1)
  PROVE  Bottom(c)' = Bottom(c)
<1>1. PICK up \in B!MarioUp(Mario_X_Pos, Mario_Y_Pos) : B!BreakBrick(Mario_X_Pos, Mario_Y_Pos, up)
  BY DEF Next, ResetTick, FrameTick, QuietTick, StepBoard
<1>2. Rows - 1 \in 0..(Rows - 1)
  BY PlayfieldAssumption
<1>3. /\ \/ blockCols'[c][Rows - 1] = blockCols[c][Rows - 1]
         \/ blockCols[c][Rows - 1] = Brick /\ blockCols'[c][Rows - 1] = Air
      /\ \/ blockCols'[c][Rows - 1] = blockCols[c][Rows - 1]
         \/ c = B!ColOf(Mario_X_Pos) /\ 3 * (Rows - 1) = B!Offset(Mario_Y_Pos - HalfSize)
  BY <1>1, <1>2, BoardIsFromLevel, BreakBrickStep DEF BricksGo
<1>4. SUFFICES ASSUME Bottom(c) # Air, c = B!ColOf(Mario_X_Pos),
                      3 * (Rows - 1) = B!Offset(Mario_Y_Pos - HalfSize)
               PROVE  FALSE
  BY <1>3 DEF Bottom, Brick, Air
<1>5. PICK d \in 0..(Cols - 1) : Left(d) <= Mario_X_Pos /\ Mario_X_Pos < Left(d + 1)
  BY MarioPlace, InSomeColumn
<1>6. d = c
  BY <1>4, <1>5, MarioPlace, ColumnAt
<1>7. Mario_Y_Pos - HalfSize < GroundTop
  BY <1>4, <1>5, <1>6, MarioPlace, PlayfieldAssumption DEF MarioAbove
<1>8. CASE Mario_Y_Pos - HalfSize >= Y_Min
  <2>1. Mario_Y_Pos - HalfSize \in Y_Min..Y_Max
    BY <1>8, MarioPlace, Window, PlayfieldAssumption
  <2>2. Mario_Y_Pos - HalfSize >= GroundTop
    BY <1>4, <2>1, GroundOffset
  <2> QED
    BY <1>7, <2>2, MarioPlace, PlayfieldAssumption
<1>9. CASE Mario_Y_Pos - HalfSize < Y_Min
  <2>1. Mario_Y_Pos \in (M!Y_Ceiling - Y_Step)..(Y_Min + HalfSize - 1)
    BY <1>9, MarioPlace, PlayfieldAssumption, MotionAssumption
  <2> QED
    BY <1>4, <2>1 DEF GoombaFits
<1> QED
  BY <1>8, <1>9, MarioPlace, PlayfieldAssumption

(* A scroll moves the ground by one column.                                *)
LEMMA GroundShifts ==
  ASSUME NEW word, B!ShiftIn(word)
  PROVE  /\ \A c \in 0..(Cols - 2) : Bottom(c)' = Bottom(c + 1)
         /\ Bottom(Cols - 1)' = word[Rows - 1]
BY PlayfieldAssumption DEF B!ShiftIn, Bottom

LEMMA AboveInColumn ==
  ASSUME GoombaFits, MP!IInv, B!BlockTypeOK, MarioAbove, NEW c \in 0..(Cols - 1), Bottom(c) # Air,
         Left(c) <= Mario_X_Pos, Mario_X_Pos < Left(c + 1),
         NEW key, NEW up, NEW left, NEW right, NEW down \in B!MarioDown(Mario_X_Pos, Mario_Y_Pos),
         M!Frame(key, up, down, left, right)
  PROVE  /\ Mario_Y_Pos' < GroundTop + HalfSize
         /\ Jump_Counter' > 0 => Mario_Y_Pos' + Y_Step < GroundTop + HalfSize
<1> DEFINE t == GroundTop + HalfSize
<1>1. t \in Int /\ HalfSize \in Nat \ {0} /\ t - HalfSize = GroundTop
  BY MarioPlace, PlayfieldAssumption
<1>2. Mario_Y_Pos < t /\ (Jump_Counter > 0 => Mario_Y_Pos + Y_Step < t)
  BY DEF MarioAbove
<1>3. Mario_Y_Pos + HalfSize - 1 >= t - HalfSize => down # Air
  <2> SUFFICES ASSUME Mario_Y_Pos + HalfSize - 1 >= t - HalfSize
               PROVE  down # Air
    OBVIOUS
  <2>1. Mario_Y_Pos + HalfSize - 1 \in GroundTop..Y_Max
    BY <1>1, <1>2, MarioPlace, Window
  <2>2. B!MarioDown(Mario_X_Pos, Mario_Y_Pos) = {Bottom(c)}
    BY <2>1, MarioPlace, GroundLookup DEF B!MarioDown
  <2> QED
    BY <2>2
<1>4. MP!Vertical(key, up, down) /\ MP!YInv /\ MP!Air = Air
  BY SameFrame DEF MP!Frame, MP!IInv, MP!Air, Air
<1> HIDE DEF t
<1>5. /\ Mario_Y_Pos' < t
      /\ Jump_Counter' > 0 => Mario_Y_Pos' + Y_Step < t
  BY <1>1, <1>2, <1>3, <1>4, MP!VerticalAbove, SameConstants
<1> QED
  BY <1>5 DEF t

LEMMA AboveOnEntry ==
  ASSUME GoombaFits, MP!IInv, B!BlockTypeOK, NEW c \in 0..(Cols - 1), Bottom(c) # Air,
         ~M!ScrollDue, ~(Left(c) <= Mario_X_Pos /\ Mario_X_Pos < Left(c + 1)),
         Left(c) <= Mario_X_Pos', Mario_X_Pos' < Left(c + 1), Mario_X_Pos' \in Int,
         Mario_X_Pos' - Mario_X_Pos \in (-X_Step)..X_Step,
         NEW key, NEW up, NEW down, NEW left \in B!MarioLeft(Mario_X_Pos, Mario_Y_Pos),
         NEW right \in B!MarioRight(Mario_X_Pos, Mario_Y_Pos),
         M!Frame(key, up, down, left, right)
  PROVE  /\ Mario_Y_Pos' < GroundTop + HalfSize
         /\ Jump_Counter' > 0 => Mario_Y_Pos' + Y_Step < GroundTop + HalfSize
<1> DEFINE t == GroundTop + HalfSize
<1>1. /\ t \in Int /\ HalfSize \in Nat \ {0} /\ t - HalfSize = GroundTop /\ Mario_X_Pos \in Int
      /\ X_Step \in Nat /\ X_Step <= HalfSize /\ c \in Int
      /\ Left(c) \in Int /\ Left(c + 1) = Left(c) + 2 * HalfSize
  BY MarioPlace, PlayfieldAssumption, MotionAssumption, Columns, CoinPlaces
<1>2. /\ MP!Vertical(key, up, down) /\ MP!Horizontal(key, left, right)
      /\ MP!YInv /\ MP!XInv /\ is_jumping \in BOOLEAN /\ MP!Air = Air /\ ~MP!ScrollDue
  BY SameFrame, SameConstants
     DEF MP!Frame, MP!IInv, MP!YInv, MP!Air, Air, MP!ScrollDue, M!ScrollDue
<1>3. (Mario_X_Pos' > Mario_X_Pos => right = Air) /\ (Mario_X_Pos' < Mario_X_Pos => left = Air)
  BY <1>2, MP!HorizontalFree, SameConstants
<1>4. PICK k \in Int : k = Mario_X_Pos'
  OBVIOUS
<1>5. PICK a \in Int : a = Left(c)
  BY <1>1
<1>6. /\ a <= k /\ k < a + 2 * HalfSize /\ Left(c + 1) = a + 2 * HalfSize
      /\ k - Mario_X_Pos \in (-X_Step)..X_Step
  BY <1>1, <1>4, <1>5
<1>7. /\ k \in Int /\ Mario_X_Pos \in Int /\ X_Step \in Nat /\ X_Step <= HalfSize
      /\ HalfSize \in Nat \ {0} /\ a \in Int
  BY <1>1
<1>8. Mario_Y_Pos < GroundTop
  <2> HIDE DEF t
  <2>1. SUFFICES ASSUME Mario_Y_Pos \in GroundTop..Y_Max
                 PROVE  FALSE
    BY MarioPlace
  <2>2. CASE Mario_X_Pos < Left(c)
    <3>1. /\ k > Mario_X_Pos /\ Mario_X_Pos + HalfSize \in Int
          /\ a <= Mario_X_Pos + HalfSize /\ Mario_X_Pos + HalfSize < a + 2 * HalfSize
      BY <1>5, <1>6, <1>7, <2>2
    <3>2. B!MarioRight(Mario_X_Pos, Mario_Y_Pos) = {Bottom(c)}
      BY <1>5, <1>6, <2>1, <3>1, GroundLookup DEF B!MarioRight
    <3> QED
      BY <1>3, <1>4, <3>1, <3>2
  <2>3. CASE Mario_X_Pos >= Left(c + 1)
    <3>1. /\ k < Mario_X_Pos /\ Mario_X_Pos - HalfSize \in Int
          /\ a <= Mario_X_Pos - HalfSize /\ Mario_X_Pos - HalfSize < a + 2 * HalfSize
      BY <1>6, <1>7, <2>3
    <3>2. B!MarioLeft(Mario_X_Pos, Mario_Y_Pos) = {Bottom(c)}
      BY <1>5, <1>6, <2>1, <3>1, GroundLookup DEF B!MarioLeft
    <3> QED
      BY <1>3, <1>4, <3>1, <3>2
  <2> QED
    BY <1>1, <2>2, <2>3
<1> HIDE DEF t
<1>9. Mario_Y_Pos < t - HalfSize
  BY <1>1, <1>8
<1>10. /\ Mario_Y_Pos' < t
       /\ Jump_Counter' > 0 => Mario_Y_Pos' + Y_Step < t
  BY <1>1, <1>2, <1>9, MP!VerticalAbove, SameConstants
<1> QED
  BY <1>10 DEF t

LEMMA MarioAboveStep ==
  ASSUME NoFalseBricks, GoombaFits, GameInv, MP!IInv, MP!IInv', BoardInv, MarioAbove, Next
  PROVE  MarioAbove'
<1>1. B!BlockTypeOK /\ TypeOK
  BY DEF GameInv, TypeOK
<1>2. GroundTop' = GroundTop /\ \A c : Left(c)' = Left(c)
  BY DEF GroundTop, Left
<1>3. /\ HalfSize \in Nat \ {0} /\ BlockSize = 2 * HalfSize /\ Y_Step \in Nat /\ Cols \in Nat /\ Cols >= 5
      /\ GroundTop \in Int /\ GroundTop + 2 * HalfSize = Y_Max + 1 /\ Mario_X_Pos \in Int
      /\ Mario_X_Pos + BlockSize <= X_Max /\ X_Max \in Int
  BY MarioPlace, CoinPlaces, PlayfieldAssumption, MotionAssumption, Window
<1> SUFFICES ASSUME NEW c \in 0..(Cols - 1), Bottom(c)' # Air,
                    Left(c) <= Mario_X_Pos', Mario_X_Pos' < Left(c + 1)
             PROVE  /\ Mario_Y_Pos' < GroundTop + HalfSize
                    /\ Jump_Counter' > 0 => Mario_Y_Pos' + Y_Step < GroundTop + HalfSize
  BY <1>2 DEF MarioAbove
<1>4. CASE Reset_h
  <2>1. M!Reset
    BY <1>4 DEF Next, ResetTick, FrameTick, QuietTick
  <2> QED
    BY <1>3, <2>1, Window DEF M!Reset, M!Y_Max, Y_Max, M!BlockSize, BlockSize
<1>5. CASE ~Reset_h /\ ~NewFrame
  <2>1. UNCHANGED <<Mario_X_Pos, Mario_Y_Pos, Jump_Counter>>
    BY <1>5 DEF Next, ResetTick, FrameTick, QuietTick
  <2>2. Bottom(c)' = Bottom(c)
    BY <1>1, <1>5, GroundHolds DEF Shift
  <2> QED
    BY <2>1, <2>2 DEF MarioAbove
<1>6. CASE ~Reset_h /\ NewFrame
  <2>1. PICK pressed \in Buttons, key \in Keys : FrameTick(pressed, key)
    BY <1>6 DEF Next, ResetTick, QuietTick
  <2>2. PICK up \in B!MarioUp(Mario_X_Pos, Mario_Y_Pos),
             down \in B!MarioDown(Mario_X_Pos, Mario_Y_Pos),
             left \in B!MarioLeft(Mario_X_Pos, Mario_Y_Pos),
             right \in B!MarioRight(Mario_X_Pos, Mario_Y_Pos) :
               M!Frame(key, up, down, left, right)
    BY <2>1 DEF FrameTick
  <2>3. IF M!ScrollDue
          THEN Mario_X_Pos' = Mario_X_Pos - BlockSize
          ELSE Mario_X_Pos' - Mario_X_Pos \in (-X_Step)..X_Step
    BY <1>1, <2>1, FrameMovesX
  <2>4. Mario_X_Pos' \in Int
    BY <1>1, StepType, Window DEF TypeOK, M!TypeOK
  <2>5. CASE M!ScrollDue
    <3>1. B!ShiftIn(new_block_id)
      BY <1>6, <2>1, <2>5 DEF FrameTick, StepBoard, Shift
    <3>2. /\ c \in Int /\ Left(c) \in Int /\ Left(c + 1) = Left(c) + BlockSize /\ c + 1 \in Int
          /\ Left(c + 1 + 1) = Left(c + 1) + BlockSize
      <4>1. c \in Int /\ c + 1 \in Int
        BY <1>3
      <4> QED
        BY <4>1, Columns
    <3>3. Left(c + 1) <= Mario_X_Pos /\ Mario_X_Pos < Left(c + 1 + 1)
      BY <1>3, <2>3, <2>5, <3>2
    <3>4. c # Cols - 1
      <4>1. c = Cols - 1 => c + 1 = Cols
        BY <1>3
      <4> QED
        BY <1>3, <3>3, <4>1, Columns
    <3>5. c \in 0..(Cols - 2) /\ c + 1 \in 0..(Cols - 1)
      BY <1>3, <3>4
    <3>6. Bottom(c + 1) # Air
      BY <3>1, <3>5, GroundShifts
    <3>7. PICK d \in 0..(Cols - 1) : d = c + 1
      BY <3>5
    <3> QED
      BY <1>1, <2>2, <3>3, <3>6, <3>7, AboveInColumn
  <2>6. CASE ~M!ScrollDue
    <3>1. Bottom(c) # Air
      BY <1>1, <1>6, <2>6, GroundHolds DEF Shift
    <3>2. CASE Left(c) <= Mario_X_Pos /\ Mario_X_Pos < Left(c + 1)
      BY <1>1, <2>2, <3>1, <3>2, AboveInColumn
    <3>3. CASE ~(Left(c) <= Mario_X_Pos /\ Mario_X_Pos < Left(c + 1))
      BY <1>1, <2>2, <2>3, <2>4, <2>6, <3>1, <3>3, AboveOnEntry
    <3> QED
      BY <3>2, <3>3
  <2> QED
    BY <2>5, <2>6
<1> QED
  BY <1>4, <1>5, <1>6

LEMMA MarioAboveInductive ==
  ASSUME NoFalseBricks, GoombaFits
  PROVE  Spec => []MarioAbove
<1>1. Init => MarioAbove
  <2>1. HalfSize \in Nat \ {0} /\ Y_Max \in Int
    BY PlayfieldAssumption, Window
  <2> QED
    BY <2>1 DEF Init, M!Init, M!AtStart, M!Y_Max, Y_Max, M!BlockSize, BlockSize, MarioAbove, GroundTop
<1>2. GameInv /\ MP!IInv /\ MP!IInv' /\ BoardInv /\ MarioAbove /\ [Next]_vars => MarioAbove'
  <2>1. ASSUME MarioAbove, UNCHANGED vars
        PROVE  MarioAbove'
    BY <2>1 DEF vars, gameVars, MarioAbove, Bottom, Left, GroundTop
  <2> QED
    BY <2>1, MarioAboveStep
<1> QED
  BY <1>1, <1>2, GameInductive, MarioInductive, BoardInductive, PTL DEF Spec

(* So the ground never breaks, not even where the level builds it of       *)
(* bricks: Mario, who stands on it, has no place from which to hit it.     *)
THEOREM GroundNeverBreaks ==
  ASSUME NoFalseBricks, GoombaFits
  PROVE  Spec => [][~Reset_h /\ ~Shift =>
                      \A c \in 0..(Cols - 1) : Bottom(c)' = Bottom(c)]_vars
<1>1. GameInv /\ MP!IInv /\ BoardInv /\ MarioAbove /\ [Next]_vars
        => [~Reset_h /\ ~Shift => \A c \in 0..(Cols - 1) : Bottom(c)' = Bottom(c)]_vars
  BY GroundHolds DEF GameInv, TypeOK
<1> QED
  BY <1>1, GameInductive, MarioInductive, BoardInductive, MarioAboveInductive, PTL DEF Spec

-----------------------------------------------------------------------------
(* A goomba between the blocks of the ground: x is where it is, m where it *)
(* goes, blocked the columns whose ground is not open.                     *)

(* What its left lookup reads.                                             *)
LeftProbe(x) == x - GoombaReach - 1

(* It turns one step before it would leave on the right.                   *)
InRange(x, m) ==
  /\ m \in {-1, 1}
  /\ x <= X_Max + 1 - HalfSize
  /\ m = 1 => x < X_Max + 1 - HalfSize

(* A column at or right of its left lookup is open: a goomba inside a wall *)
(* walks right until it is out of it.                                      *)
WayOut(x, blocked) ==
  \E c \in (0..(Cols - 1)) \ blocked : LeftProbe(x) < Left(c + 1)

(* In open ground, with its right side across the edge of a block, it goes *)
(* left.                                                                   *)
TurnedBefore(x, m, blocked) ==
  \A c \in (0..(Cols - 2)) \ blocked :
    c + 1 \in blocked /\ LeftProbe(x) < Left(c + 1) /\ x + GoombaReach > Left(c + 1) => m = -1

(* Going left it has not come further into a block than one pixel.         *)
TurnedInside(x, m, blocked) ==
  \A c \in blocked \ {0} :
    Left(c) <= LeftProbe(x) /\ LeftProbe(x) < Left(c + 1) /\ m = -1
      => LeftProbe(x) = Left(c + 1) - 1

GoombaAt(x, m, blocked) ==
  /\ InRange(x, m)
  /\ x + HalfSize >= X_Min => WayOut(x, blocked)
  /\ TurnedBefore(x, m, blocked)
  /\ TurnedInside(x, m, blocked)

LEMMA GoombaNumbers ==
  ASSUME GoombaFits
  PROVE  /\ HalfSize \in Nat \ {0} /\ X_Min \in Nat /\ X_Max \in Int /\ GoombaReach \in Int
         /\ GoombaReach >= 1 /\ GoombaReach <= HalfSize - 2 /\ Cols \in Nat /\ Cols >= 5
         /\ X_Max >= X_Min + 10 * HalfSize - 1 /\ BlockSize = 2 * HalfSize
         /\ Left(0) = X_Min /\ Left(Cols) = X_Max + 1
         /\ \A c \in 0..Cols : c \in Int /\ Left(c) \in Int /\ Left(c + 1) = Left(c) + 2 * HalfSize
         /\ \A c, d \in 0..Cols : c < d => Left(c + 1) <= Left(d)
<1>1. /\ HalfSize \in Nat \ {0} /\ X_Min \in Nat /\ X_Max \in Int /\ GoombaReach \in Int
      /\ GoombaReach >= 1 /\ GoombaReach <= HalfSize - 2 /\ Cols \in Nat /\ Cols >= 5
      /\ X_Max >= X_Min + 10 * HalfSize - 1 /\ BlockSize = 2 * HalfSize
  BY Window, CoinPlaces, PlayfieldAssumption DEF GoombaFits
<1>2. 0..Cols \subseteq Int
  BY <1>1
<1> QED
  BY <1>1, <1>2, Columns

LEMMA GoombaEnters ==
  ASSUME GoombaFits, NEW blocked \in SUBSET (0..(Cols - 1)), Cols - 1 \notin blocked
  PROVE  GoombaAt(X_Max + 1 - HalfSize, -1, blocked)
<1> USE GoombaNumbers
<1> DEFINE x == X_Max + 1 - HalfSize
<1>1. InRange(x, -1)
  BY DEF InRange
<1>2. /\ Cols - 1 \in 0..(Cols - 1) /\ Cols - 1 \in 0..Cols /\ Left(Cols - 1 + 1) = X_Max + 1
      /\ Left(Cols - 1) = X_Max + 1 - 2 * HalfSize
  <2>1. PICK d \in 0..(Cols - 1) : d = Cols - 1 /\ d + 1 = Cols /\ d \in 0..Cols /\ Cols - 1 + 1 = Cols
    OBVIOUS
  <2>2. Left(d + 1) = X_Max + 1 /\ Left(d + 1) = Left(d) + 2 * HalfSize /\ Left(d) \in Int
    BY <2>1
  <2>3. Left(d) = X_Max + 1 - 2 * HalfSize
    BY <2>2
  <2> QED
    BY <2>1, <2>2, <2>3
<1>3. WayOut(x, blocked)
  BY <1>2 DEF WayOut, LeftProbe
<1>4. TurnedBefore(x, -1, blocked)
  BY DEF TurnedBefore
<1>5. ASSUME NEW c \in blocked
      PROVE  ~(LeftProbe(x) < Left(c + 1))
  <2>1. c \in 0..Cols /\ c < Cols - 1
    OBVIOUS
  <2>2. Left(c + 1) <= Left(Cols - 1)
    BY <1>2, <2>1
  <2> QED
    BY <1>2, <2>1, <2>2 DEF LeftProbe
<1>6. TurnedInside(x, -1, blocked)
  BY <1>5 DEF TurnedInside
<1> QED
  BY <1>1, <1>3, <1>4, <1>6 DEF GoombaAt

(* A scroll carries the goomba and the ground along.                       *)
LEMMA GoombaCarried ==
  ASSUME GoombaFits, NEW blocked \in SUBSET (0..(Cols - 1)), NEW after \in SUBSET (0..(Cols - 1)),
         NEW x \in Int, NEW m, GoombaAt(x, m, blocked),
         \A c \in 0..(Cols - 2) : c \in after <=> c + 1 \in blocked,
         \E c \in 0..(Cols - 1) : c \notin after
  PROVE  GoombaAt(x - BlockSize, m, after)
<1> USE GoombaNumbers
<1> DEFINE y == x - BlockSize
           l == LeftProbe(x)
<1>1. /\ l \in Int /\ y \in Int /\ LeftProbe(y) = l - 2 * HalfSize /\ l = x - GoombaReach - 1
      /\ y = x - 2 * HalfSize
  BY DEF LeftProbe
<1>2. x <= X_Max + 1 - HalfSize /\ l < X_Max + 1
  BY <1>1 DEF GoombaAt, InRange
<1> HIDE DEF y, l
<1>3. InRange(y, m)
  BY <1>1 DEF GoombaAt, InRange
<1>4. y + HalfSize >= X_Min => WayOut(y, after)
  <2> SUFFICES ASSUME y + HalfSize >= X_Min
               PROVE  WayOut(y, after)
    OBVIOUS
  <2>1. PICK d \in (0..(Cols - 1)) \ blocked : l < Left(d + 1)
    <3>1. x + HalfSize >= X_Min
      BY <1>1
    <3> QED
      BY <3>1 DEF GoombaAt, WayOut, l
  <2>2. CASE d > 0
    <3>1. d - 1 \in 0..(Cols - 2) /\ d - 1 + 1 = d /\ d - 1 \in 0..(Cols - 1) /\ d \in 0..Cols
      BY <2>2
    <3>2. d - 1 \notin after
      BY <3>1
    <3>3. LeftProbe(y) < Left(d - 1 + 1)
      BY <1>1, <2>1, <3>1
    <3> QED
      BY <3>1, <3>2, <3>3 DEF WayOut
  <2>3. CASE d = 0
    <3>1. PICK e \in 0..(Cols - 1) : e \notin after
      OBVIOUS
    <3>2. Left(1) = X_Min + 2 * HalfSize
      <4>1. 0 \in 0..Cols /\ 0 + 1 = 1
        OBVIOUS
      <4> QED
        BY <4>1
    <3>3. LeftProbe(y) < X_Min
      BY <1>1, <2>1, <2>3, <3>2
    <3>4. X_Min < Left(e + 1) /\ Left(e + 1) \in Int
      <4>1. e \in 0..Cols /\ e + 1 \in 0..Cols /\ 0 \in 0..Cols /\ 0 < e + 1
        OBVIOUS
      <4>2. Left(0 + 1) <= Left(e + 1) /\ 0 + 1 = 1
        BY <4>1
      <4> QED
        BY <3>2, <4>1, <4>2
    <3>5. LeftProbe(y) < Left(e + 1)
      BY <1>1, <3>3, <3>4
    <3> QED
      BY <3>1, <3>5 DEF WayOut
  <2> QED
    BY <2>2, <2>3
<1>5. TurnedBefore(y, m, after)
  <2> SUFFICES ASSUME NEW c \in (0..(Cols - 2)) \ after, c + 1 \in after,
                      LeftProbe(y) < Left(c + 1), y + GoombaReach > Left(c + 1)
               PROVE  m = -1
    BY DEF TurnedBefore
  <2>1. c \in 0..Cols /\ c + 1 \in 0..Cols /\ Left(c + 1) \in Int /\ Left(c + 1 + 1) = Left(c + 1) + 2 * HalfSize
    OBVIOUS
  <2>2. l < Left(c + 1 + 1) /\ x + GoombaReach > Left(c + 1 + 1)
    BY <1>1, <2>1
  <2>3. c + 1 # Cols - 1
    <3>1. c + 1 = Cols - 1 => c + 1 + 1 = Cols
      OBVIOUS
    <3> QED
      BY <1>2, <2>2, <3>1
  <2>4. c + 1 \in 0..(Cols - 2) /\ c + 1 \notin blocked /\ c + 1 + 1 \in blocked
    BY <2>3
  <2> QED
    BY <2>2, <2>4 DEF GoombaAt, TurnedBefore, l
<1>6. TurnedInside(y, m, after)
  <2> SUFFICES ASSUME NEW c \in after \ {0}, Left(c) <= LeftProbe(y), LeftProbe(y) < Left(c + 1), m = -1
               PROVE  LeftProbe(y) = Left(c + 1) - 1
    BY DEF TurnedInside
  <2>1. /\ c \in 0..Cols /\ c + 1 \in 0..Cols /\ Left(c) \in Int /\ Left(c + 1) = Left(c) + 2 * HalfSize
        /\ Left(c + 1 + 1) = Left(c + 1) + 2 * HalfSize
    OBVIOUS
  <2>2. Left(c + 1) <= l /\ l < Left(c + 1 + 1)
    BY <1>1, <2>1
  <2>3. c # Cols - 1
    <3>1. c = Cols - 1 => c + 1 = Cols
      OBVIOUS
    <3> QED
      BY <1>1, <1>2, <2>2, <3>1
  <2>4. c \in 0..(Cols - 2) /\ c + 1 \in blocked \ {0}
    BY <2>3
  <2>5. l = Left(c + 1 + 1) - 1
    BY <2>2, <2>4 DEF GoombaAt, TurnedInside, l
  <2> QED
    BY <1>1, <2>1, <2>5
<1> QED
  BY <1>3, <1>4, <1>5, <1>6 DEF GoombaAt, y

(* The direction it takes, from the blocks beside it.                      *)
NextMotion(x, m, left, right) ==
  IF left # Air THEN 1 ELSE IF right # Air \/ x + HalfSize >= X_Max THEN -1 ELSE m

(* Its lookups see the columns they are in.                                *)
Sees(n, block, blocked) ==
  \A c \in 0..(Cols - 1) : Left(c) <= n /\ n < Left(c + 1) => (block # Air <=> c \in blocked)

LEMMA ColumnsBeside ==
  ASSUME GoombaFits, NEW c \in 0..(Cols - 1), NEW d \in 0..(Cols - 1)
  PROVE  /\ c \in 0..Cols /\ c + 1 \in 0..Cols
         /\ Left(c) \in Int /\ Left(c + 1) \in Int /\ Left(c + 1) = Left(c) + 2 * HalfSize
         /\ Left(d) \in Int /\ Left(d + 1) \in Int /\ Left(d + 1) = Left(d) + 2 * HalfSize
         /\ c < d => Left(c + 1) <= Left(d)
         /\ d < c => Left(d + 1) <= Left(c)
         /\ Left(c) >= X_Min /\ Left(c + 1) >= X_Min + 2 * HalfSize
         /\ c # 0 => Left(c) >= X_Min + 2 * HalfSize
<1>1. /\ c \in 0..Cols /\ d \in 0..Cols /\ c + 1 \in 0..Cols /\ d + 1 \in 0..Cols /\ 0 \in 0..Cols
      /\ Cols \in Nat /\ HalfSize \in Nat \ {0} /\ X_Min \in Nat
  BY GoombaNumbers
<1>2. /\ Left(c) \in Int /\ Left(c + 1) \in Int /\ Left(c + 1) = Left(c) + 2 * HalfSize
      /\ Left(d) \in Int /\ Left(d + 1) \in Int /\ Left(d + 1) = Left(d) + 2 * HalfSize
      /\ Left(0) = X_Min /\ Left(0 + 1) = Left(0) + 2 * HalfSize
  BY <1>1, GoombaNumbers
<1>3. (c < d => Left(c + 1) <= Left(d)) /\ (d < c => Left(d + 1) <= Left(c))
  BY <1>1, GoombaNumbers
<1>4. c # 0 => Left(0 + 1) <= Left(c)
  <2>1. c # 0 => 0 < c
    OBVIOUS
  <2> QED
    BY <1>1, <2>1, GoombaNumbers
<1>5. Left(c) >= X_Min /\ (c # 0 => Left(c) >= X_Min + 2 * HalfSize)
  <2>1. CASE c = 0
    BY <1>1, <1>2, <2>1
  <2>2. CASE c # 0
    BY <1>1, <1>2, <1>4, <2>2
  <2> QED
    BY <2>1, <2>2
<1> QED
  BY <1>1, <1>2, <1>3, <1>5

(* Where its left lookup is.                                               *)
LEMMA Probe ==
  ASSUME GoombaFits, NEW x \in Int, NEW m, InRange(x, m)
  PROVE  /\ LeftProbe(x) \in Int /\ x + GoombaReach = LeftProbe(x) + 2 * GoombaReach + 1
         /\ LeftProbe(x + m) = LeftProbe(x) + m
         /\ x + m + GoombaReach = LeftProbe(x) + m + 2 * GoombaReach + 1
         /\ LeftProbe(x) < X_Max /\ (m = 1 => LeftProbe(x) + 1 < X_Max)
         /\ m \in Int /\ (m = 1 \/ m = -1)
         /\ HalfSize \in Nat \ {0} /\ GoombaReach \in Nat /\ GoombaReach >= 1 /\ GoombaReach + 2 <= HalfSize
         /\ X_Min \in Nat /\ X_Max \in Int
<1>1. m \in Int /\ (m = 1 \/ m = -1)
  BY DEF InRange
<1>2. /\ HalfSize \in Nat \ {0} /\ GoombaReach \in Nat /\ GoombaReach >= 1 /\ GoombaReach + 2 <= HalfSize
      /\ X_Min \in Nat /\ X_Max \in Int
  BY GoombaNumbers
<1>3. x <= X_Max + 1 - HalfSize /\ (m = 1 => x < X_Max + 1 - HalfSize)
  BY DEF InRange
<1> QED
  BY <1>1, <1>2, <1>3 DEF LeftProbe

LEMMA WalksInRange ==
  ASSUME GoombaFits, NEW blocked \in SUBSET (0..(Cols - 1)), NEW x \in Int, NEW m, NEW left, NEW right,
         GoombaAt(x, m, blocked), x + HalfSize >= X_Min, Sees(LeftProbe(x), left, blocked)
  PROVE  InRange(x + m, NextMotion(x, m, left, right))
<1>1. InRange(x, m) /\ WayOut(x, blocked)
  BY DEF GoombaAt
<1>2. /\ m \in Int /\ (m = 1 \/ m = -1) /\ X_Max \in Int /\ HalfSize \in Nat \ {0}
      /\ GoombaReach \in Nat /\ GoombaReach >= 1 /\ GoombaReach + 2 <= HalfSize
  BY <1>1, Probe
<1>3. NextMotion(x, m, left, right) \in {-1, 1}
  BY <1>2 DEF NextMotion
<1>4. x + m <= X_Max + 1 - HalfSize
  BY <1>1, <1>2 DEF InRange
<1>5. ASSUME NextMotion(x, m, left, right) = 1, x + m >= X_Max + 1 - HalfSize
      PROVE  FALSE
  <2>1. m = 1 /\ x = X_Max - HalfSize
    BY <1>1, <1>2, <1>5 DEF InRange
  <2>2. left # Air
    <3>1. x + HalfSize >= X_Max
      BY <1>2, <2>1
    <3> QED
      BY <1>5, <3>1 DEF NextMotion
  <2>3. PICK d \in 0..(Cols - 1) : d = Cols - 1 /\ d + 1 = Cols
    BY GoombaNumbers
  <2>4. Left(d + 1) = X_Max + 1 /\ Left(d + 1) = Left(d) + 2 * HalfSize /\ Left(d) \in Int
    BY <2>3, GoombaNumbers, ColumnsBeside
  <2>5. LeftProbe(x) = X_Max - HalfSize - GoombaReach - 1
    BY <2>1 DEF LeftProbe
  <2>6. Left(d) <= LeftProbe(x) /\ LeftProbe(x) < Left(d + 1)
    BY <1>2, <2>4, <2>5
  <2>7. d \in blocked
    BY <2>2, <2>6 DEF Sees
  <2>8. PICK e \in (0..(Cols - 1)) \ blocked : LeftProbe(x) < Left(e + 1)
    BY <1>1 DEF WayOut
  <2>9. e < d
    BY <2>3, <2>7, GoombaNumbers
  <2>10. Left(e + 1) <= Left(d) /\ Left(e + 1) \in Int
    BY <2>9, ColumnsBeside
  <2>11. LeftProbe(x) \in Int
    BY <1>1, Probe
  <2> QED
    BY <2>4, <2>6, <2>8, <2>10, <2>11
<1>6. NextMotion(x, m, left, right) = 1 => x + m < X_Max + 1 - HalfSize
  BY <1>2, <1>5
<1> QED
  BY <1>3, <1>4, <1>6 DEF InRange

(* With its left lookup left of the window it meets no block.              *)
LEMMA WalksOutside ==
  ASSUME GoombaFits, NEW blocked \in SUBSET (0..(Cols - 1)), NEW x \in Int, NEW m, NEW m2,
         InRange(x, m), WayOut(x, blocked), LeftProbe(x) < X_Min
  PROVE  WayOut(x + m, blocked) /\ TurnedBefore(x + m, m2, blocked) /\ TurnedInside(x + m, m2, blocked)
<1> PICK l \in Int : l = LeftProbe(x)
  BY Probe
<1>1. /\ LeftProbe(x + m) = l + m /\ x + m + GoombaReach = l + m + 2 * GoombaReach + 1
      /\ m \in Int /\ (m = 1 \/ m = -1) /\ l < X_Min /\ X_Min \in Nat
      /\ HalfSize \in Nat \ {0} /\ GoombaReach \in Nat /\ GoombaReach + 2 <= HalfSize
  BY Probe
<1>2. WayOut(x + m, blocked)
  <2>1. PICK d \in (0..(Cols - 1)) \ blocked : LeftProbe(x) < Left(d + 1)
    BY DEF WayOut
  <2>2. Left(d + 1) >= X_Min + 2 * HalfSize /\ Left(d + 1) \in Int
    BY ColumnsBeside
  <2>3. LeftProbe(x + m) < Left(d + 1)
    BY <1>1, <2>2
  <2> QED
    BY <2>3 DEF WayOut
<1>3. ASSUME NEW c \in 0..(Cols - 2)
      PROVE  ~(x + m + GoombaReach > Left(c + 1))
  <2>1. c \in 0..(Cols - 1)
    BY GoombaNumbers
  <2>2. Left(c + 1) >= X_Min + 2 * HalfSize /\ Left(c + 1) \in Int
    BY <2>1, ColumnsBeside
  <2> QED
    BY <1>1, <2>2
<1>4. ASSUME NEW c \in blocked \ {0}
      PROVE  ~(Left(c) <= LeftProbe(x + m))
  <2>1. Left(c) >= X_Min + 2 * HalfSize /\ Left(c) \in Int
    BY ColumnsBeside
  <2> QED
    BY <1>1, <2>1
<1> QED
  BY <1>2, <1>3, <1>4 DEF TurnedBefore, TurnedInside

(* With it in a blocked column it goes right.                              *)
LEMMA WalksOutOfBlock ==
  ASSUME GoombaFits, NEW blocked \in SUBSET (0..(Cols - 1)), NEW x \in Int, NEW m,
         InRange(x, m), WayOut(x, blocked), TurnedInside(x, m, blocked),
         NEW c \in blocked, Left(c) <= LeftProbe(x), LeftProbe(x) < Left(c + 1)
  PROVE  WayOut(x + m, blocked) /\ TurnedBefore(x + m, 1, blocked) /\ TurnedInside(x + m, 1, blocked)
<1> PICK l \in Int : l = LeftProbe(x)
  BY Probe
<1>1. /\ LeftProbe(x + m) = l + m /\ x + m + GoombaReach = l + m + 2 * GoombaReach + 1
      /\ m \in Int /\ (m = 1 \/ m = -1)
      /\ HalfSize \in Nat \ {0} /\ GoombaReach \in Nat /\ GoombaReach + 2 <= HalfSize
  BY Probe
<1>2. WayOut(x + m, blocked)
  <2>1. PICK d \in (0..(Cols - 1)) \ blocked : LeftProbe(x) < Left(d + 1)
    BY DEF WayOut
  <2>2. /\ c < d => Left(c + 1) <= Left(d)
        /\ d < c => Left(d + 1) <= Left(c)
        /\ Left(c) \in Int /\ Left(c + 1) \in Int /\ Left(d) \in Int /\ Left(d + 1) = Left(d) + 2 * HalfSize
    BY ColumnsBeside
  <2>3. c < d
    <3>1. ~(d < c)
      BY <1>1, <2>1, <2>2
    <3> QED
      BY <3>1
  <2>4. LeftProbe(x + m) < Left(d + 1)
    BY <1>1, <2>2, <2>3
  <2> QED
    BY <2>4 DEF WayOut
<1>3. ASSUME NEW e \in (0..(Cols - 2)) \ blocked, LeftProbe(x + m) < Left(e + 1),
             x + m + GoombaReach > Left(e + 1)
      PROVE  FALSE
  <2>1. e \in 0..(Cols - 1) /\ e # c
    BY GoombaNumbers
  <2>2. /\ c < e => Left(c + 1) <= Left(e)
        /\ e < c => Left(e + 1) <= Left(c)
        /\ Left(c) \in Int /\ Left(c + 1) = Left(c) + 2 * HalfSize
        /\ Left(e) \in Int /\ Left(e + 1) = Left(e) + 2 * HalfSize
    BY <2>1, ColumnsBeside
  <2>3. CASE e < c
    <3>1. Left(e + 1) <= Left(c) /\ Left(c) <= l /\ l + m < Left(e + 1)
      BY <1>1, <1>3, <2>2, <2>3
    <3>2. m = -1 /\ l = Left(c)
      BY <1>1, <2>2, <3>1
    <3>3. c # 0
      BY <2>1, <2>3
    <3>4. LeftProbe(x) = Left(c + 1) - 1
      BY <3>2, <3>3 DEF TurnedInside
    <3>5. Left(c + 1) = l + 2 * HalfSize
      BY <2>2, <3>2
    <3>6. l = Left(c + 1) - 1
      BY <3>4
    <3>7. HalfSize \in Nat /\ HalfSize >= 1
      BY <1>1
    <3>8. PICK k \in Int : k = Left(c + 1)
      BY <3>5, <3>7
    <3> QED
      BY <3>5, <3>6, <3>7, <3>8
  <2>4. CASE c < e
    BY <1>1, <1>3, <2>2, <2>4
  <2> QED
    BY <2>1, <2>3, <2>4
<1> QED
  BY <1>2, <1>3 DEF TurnedBefore, TurnedInside

(* With it in an open column it goes on until it sees a block.             *)
LEMMA WalksInOpen ==
  ASSUME GoombaFits, NEW blocked \in SUBSET (0..(Cols - 1)), NEW x \in Int, NEW m, NEW m2, NEW right,
         InRange(x, m), TurnedBefore(x, m, blocked), Sees(x + GoombaReach, right, blocked),
         NEW c \in (0..(Cols - 1)) \ blocked, Left(c) <= LeftProbe(x), LeftProbe(x) < Left(c + 1),
         m2 = IF right # Air \/ x + HalfSize >= X_Max THEN -1 ELSE m
  PROVE  WayOut(x + m, blocked) /\ TurnedBefore(x + m, m2, blocked) /\ TurnedInside(x + m, m2, blocked)
<1> PICK l \in Int : l = LeftProbe(x)
  BY Probe
<1>1. /\ LeftProbe(x + m) = l + m /\ x + m + GoombaReach = l + m + 2 * GoombaReach + 1
      /\ x + GoombaReach = l + 2 * GoombaReach + 1
      /\ m \in Int /\ (m = 1 \/ m = -1) /\ (m = 1 => l + 1 < X_Max) /\ X_Max \in Int
      /\ HalfSize \in Nat \ {0} /\ GoombaReach \in Nat /\ GoombaReach >= 1 /\ GoombaReach + 2 <= HalfSize
  BY Probe
<1>2. Left(c) \in Int /\ Left(c + 1) = Left(c) + 2 * HalfSize
  BY ColumnsBeside
<1>3. ASSUME m = 1, l + 1 = Left(c + 1)
      PROVE  c + 1 \in (0..(Cols - 1)) \ blocked
  <2>1. c + 1 \in 0..(Cols - 1)
    <3>1. c = Cols - 1 => c + 1 = Cols /\ Left(Cols) = X_Max + 1
      BY GoombaNumbers
    <3>2. c # Cols - 1
      BY <1>1, <1>2, <1>3, <3>1
    <3> QED
      BY <3>2, GoombaNumbers
  <2>2. x + GoombaReach > Left(c + 1)
    BY <1>1, <1>2, <1>3
  <2>3. c \in (0..(Cols - 2)) \ blocked
    BY <2>1, GoombaNumbers
  <2>4. c + 1 \notin blocked
    BY <1>3, <2>2, <2>3 DEF TurnedBefore
  <2> QED
    BY <2>1, <2>4
<1>4. WayOut(x + m, blocked)
  <2>1. CASE l + m < Left(c + 1)
    BY <1>1, <2>1 DEF WayOut
  <2>2. CASE ~(l + m < Left(c + 1))
    <3>1. m = 1 /\ l + 1 = Left(c + 1)
      BY <1>1, <1>2, <2>2
    <3>2. PICK d \in (0..(Cols - 1)) \ blocked : d = c + 1
      BY <1>3, <3>1
    <3>3. Left(d + 1) = Left(d) + 2 * HalfSize
      BY ColumnsBeside
    <3>4. LeftProbe(x + m) < Left(d + 1)
      BY <1>1, <1>2, <3>1, <3>2, <3>3
    <3> QED
      BY <3>4 DEF WayOut
  <2> QED
    BY <2>1, <2>2
<1>5. ASSUME NEW e \in (0..(Cols - 2)) \ blocked, e + 1 \in blocked, LeftProbe(x + m) < Left(e + 1),
             x + m + GoombaReach > Left(e + 1), m = 1
      PROVE  right # Air
  <2>1. e \in 0..(Cols - 1)
    BY GoombaNumbers
  <2>2. /\ c < e => Left(c + 1) <= Left(e)
        /\ e < c => Left(e + 1) <= Left(c)
        /\ Left(e) \in Int /\ Left(e + 1) = Left(e) + 2 * HalfSize
    BY <2>1, ColumnsBeside
  <2>3. ~(c < e) /\ ~(e < c)
    BY <1>1, <1>2, <1>5, <2>2
  <2>4. PICK d \in blocked : d = c + 1
    BY <1>5, <2>1, <2>3
  <2>5. Left(d + 1) = Left(d) + 2 * HalfSize /\ Left(d) \in Int
    BY ColumnsBeside
  <2>6. e = c
    BY <2>1, <2>3
  <2>7. Left(d) <= x + GoombaReach /\ x + GoombaReach < Left(d + 1)
    BY <1>1, <1>2, <1>5, <2>4, <2>5, <2>6
  <2> QED
    BY <2>7 DEF Sees
<1>6. TurnedBefore(x + m, m2, blocked)
  BY <1>1, <1>5 DEF TurnedBefore
<1>7. ASSUME NEW e \in blocked, Left(e) <= LeftProbe(x + m), LeftProbe(x + m) < Left(e + 1)
      PROVE  LeftProbe(x + m) = Left(e + 1) - 1
  <2>1. /\ c < e => Left(c + 1) <= Left(e)
        /\ e < c => Left(e + 1) <= Left(c)
        /\ Left(e) \in Int /\ Left(e + 1) = Left(e) + 2 * HalfSize
    BY ColumnsBeside
  <2>2. CASE e < c
    BY <1>1, <1>2, <1>7, <2>1, <2>2
  <2>3. CASE c < e
    <3>1. m = 1 /\ l + 1 = Left(c + 1) /\ Left(e) = Left(c + 1)
      BY <1>1, <1>2, <1>7, <2>1, <2>3
    <3>2. PICK d \in (0..(Cols - 1)) \ blocked : d = c + 1
      BY <1>3, <3>1
    <3>3. /\ d < e => Left(d + 1) <= Left(e)
          /\ Left(d + 1) = Left(d) + 2 * HalfSize /\ Left(d) \in Int
      BY ColumnsBeside
    <3>4. ~(d < e)
      BY <1>1, <3>1, <3>2, <3>3
    <3>5. e = d
      BY <2>3, <3>2, <3>4
    <3> QED
      BY <3>5
  <2>4. e # c
    OBVIOUS
  <2> QED
    BY <2>2, <2>3, <2>4
<1>8. TurnedInside(x + m, m2, blocked)
  BY <1>7 DEF TurnedInside
<1> QED
  BY <1>4, <1>6, <1>8

(* So a frame takes a goomba from one such place to the next.              *)
LEMMA WalksOn ==
  ASSUME GoombaFits, NEW blocked \in SUBSET (0..(Cols - 1)), NEW x \in Int, NEW m, NEW left, NEW right,
         GoombaAt(x, m, blocked), x + HalfSize >= X_Min,
         Sees(LeftProbe(x), left, blocked), Sees(x + GoombaReach, right, blocked)
  PROVE  GoombaAt(x + m, NextMotion(x, m, left, right), blocked)
<1> PICK m2 : m2 = NextMotion(x, m, left, right)
  OBVIOUS
<1>1. InRange(x, m) /\ WayOut(x, blocked) /\ TurnedBefore(x, m, blocked) /\ TurnedInside(x, m, blocked)
  BY DEF GoombaAt
<1>2. InRange(x + m, m2)
  BY WalksInRange
<1>3. CASE LeftProbe(x) < X_Min
  BY <1>1, <1>2, <1>3, WalksOutside DEF GoombaAt
<1>4. CASE LeftProbe(x) >= X_Min
  <2>1. LeftProbe(x) \in X_Min..X_Max
    BY <1>1, <1>4, Probe
  <2>2. PICK c \in 0..(Cols - 1) : Left(c) <= LeftProbe(x) /\ LeftProbe(x) < Left(c + 1)
    BY <2>1, InSomeColumn
  <2>3. left # Air <=> c \in blocked
    BY <2>2 DEF Sees
  <2>4. CASE c \in blocked
    <3>1. m2 = 1
      BY <2>3, <2>4 DEF NextMotion
    <3> QED
      BY <1>1, <1>2, <2>2, <2>4, <3>1, WalksOutOfBlock DEF GoombaAt
  <2>5. CASE c \notin blocked
    <3>1. m2 = IF right # Air \/ x + HalfSize >= X_Max THEN -1 ELSE m
      BY <2>3, <2>5 DEF NextMotion
    <3> QED
      BY <1>1, <1>2, <2>2, <2>5, <3>1, WalksInOpen DEF GoombaAt
  <2> QED
    BY <2>4, <2>5
<1> QED
  <2>1. LeftProbe(x) \in Int /\ X_Min \in Nat
    BY <1>1, Probe
  <2> QED
    BY <1>3, <1>4, <2>1

-----------------------------------------------------------------------------
(* Where the ground is open.                                               *)

LEMMA WornAir ==
  ASSUME NEW c, NEW a, WornFrom(c, a), Ground(a) = Air
  PROVE  c[Rows - 1] = Air
<1>1. Rows - 1 \in 0..(Rows - 1)
  BY PlayfieldAssumption
<1> QED
  BY <1>1 DEF WornFrom, Ground, Air, Brick

(* After a scroll the window shows the word a game starts at, or nothing   *)
(* but consecutive words of the level; so there is a gap in its ground.    *)
LEMMA OpenAfterShift ==
  ASSUME OpenGround, GameInv, MemoryInv, BoardInv, Next, ~Reset_h, Shift
  PROVE  \E c \in 0..(Cols - 1) : Bottom(c)' = Air
<1>1. PICK n \in 1..Cols, fill \in 0..(Depth - 1) : BoardFrom(n, fill)'
  BY BoardShifts
<1>2. /\ Cols \in Nat /\ Cols >= 5 /\ Depth \in Nat /\ Depth > Cols
  BY PlayfieldAssumption, ToplevelAssumption
<1>3. PICK k \in 0..(Depth - 1) : k = current_block_col'
  BY StepType DEF GameInv, TypeOK, B!BlockTypeOK
<1>4. /\ n < Cols => k = Cols + n \/ k = Cols + n - Depth
      /\ \A i \in 0..(Cols - 1) :
           i >= Cols - n => WornFrom(blockCols'[i], k - Cols + i)
  BY <1>1, <1>3 DEF BoardFrom, WornFrom
<1>5. CASE n < Cols
  <2>1. PICK i \in 0..(Cols - 1) : i = Cols - n
    BY <1>2, <1>5
  <2>2. k - Cols + i = Cols \/ k - Cols + i = Cols - Depth
    BY <1>2, <1>4, <1>5, <2>1
  <2>3. (k - Cols + i) % Depth = Cols % Depth
    <3>1. Cols % Depth = Cols /\ (Cols - Depth) % Depth = Cols
      BY <1>2
    <3> QED
      BY <2>2, <3>1
  <2>4. Ground(k - Cols + i) = Air
    BY <2>3 DEF OpenGround, Ground
  <2>5. i >= Cols - n
    BY <1>2, <2>1
  <2>6. blockCols'[i][Rows - 1] = Air
    BY <1>4, <2>4, <2>5, WornAir
  <2> QED
    BY <2>6 DEF Bottom
<1>6. CASE n = Cols
  <2>1. PICK a \in 0..(Depth - 1) : a = (k - Cols) % Depth
    BY <1>2
  <2>2. PICK i \in 0..(Cols - 1) : Ground(a + i) = Air
    BY DEF OpenGround
  <2>3. (k - Cols + i) % Depth = (a + i) % Depth
    <3>1. CASE k >= Cols
      <4>1. a = k - Cols
        BY <1>2, <2>1, <3>1
      <4>2. a + i = k - Cols + i
        BY <1>2, <4>1
      <4> QED
        BY <4>2
    <3>2. CASE k < Cols
      <4>1. a = k - Cols + Depth
        BY <1>2, <2>1, <3>2
      <4>2. CASE k - Cols + i >= 0
        <5>1. (k - Cols + i) % Depth = k - Cols + i
          BY <1>2, <3>2, <4>2
        <5>2. (a + i) % Depth = k - Cols + i
          BY <1>2, <3>2, <4>1, <4>2
        <5> QED
          BY <5>1, <5>2
      <4>3. CASE k - Cols + i < 0
        <5>1. (k - Cols + i) % Depth = k - Cols + i + Depth
          BY <1>2, <4>3
        <5>2. (a + i) % Depth = k - Cols + i + Depth
          BY <1>2, <4>1, <4>3
        <5> QED
          BY <5>1, <5>2
      <4> QED
        BY <1>2, <4>2, <4>3
    <3> QED
      BY <1>2, <3>1, <3>2
  <2>4. Ground(k - Cols + i) = Air
    BY <2>2, <2>3 DEF Ground
  <2>5. i >= Cols - n
    BY <1>2, <1>6
  <2>6. blockCols'[i][Rows - 1] = Air
    BY <1>4, <2>4, <2>5, WornAir
  <2> QED
    BY <2>6 DEF Bottom
<1> QED
  BY <1>2, <1>5, <1>6

(* The word of a goomba.                                                   *)
Walker(a) == LevelMem[a].control % 2 = 1

(* The address after b in the memory's two registers: the same, the next   *)
(* one, or where a reset starts.                                           *)
Follows(a, b) == a \in {b, (b + 1) % Depth, Cols}

LEMMA OpenBeforeWalker ==
  ASSUME OpenGround, NEW a \in 0..(Depth - 1), NEW b \in 0..(Depth - 1), Follows(a, b), Walker(a)
  PROVE  LevelMem[b].blocks[Rows - 1] = Air
<1>1. a # Cols /\ Ground(a) = Air /\ Ground(a - 1) = Air
  BY DEF OpenGround, Walker
<1>2. Depth \in Nat \ {0}
  BY PlayfieldAssumption, ToplevelAssumption
<1>3. CASE a = b
  <2>1. a % Depth = b
    BY <1>2, <1>3
  <2> QED
    BY <1>1, <2>1 DEF Ground
<1>4. CASE a = (b + 1) % Depth
  <2>1. (a - 1) % Depth = b
    <3>1. CASE b + 1 < Depth
      <4>1. a = b + 1
        BY <1>2, <1>4, <3>1
      <4>2. a - 1 = b /\ b % Depth = b
        BY <1>2, <4>1
      <4> QED
        BY <4>2
    <3>2. CASE b + 1 = Depth
      <4>1. a = 0
        BY <1>2, <1>4, <3>2
      <4>2. a - 1 = -1 /\ (-1) % Depth = Depth - 1 /\ b = Depth - 1
        BY <1>2, <3>2, <4>1
      <4> QED
        BY <4>2
    <3> QED
      BY <1>2, <3>1, <3>2
  <2> QED
    BY <1>1, <2>1 DEF Ground
<1> QED
  BY <1>1, <1>3, <1>4 DEF Follows

(* A goomba whose word is shown, or will be, comes in on open ground:      *)
(* while the memory catches up with a scroll or a reset it shows words     *)
(* that are not the newest column's.                                       *)
SafeAt(a) == Walker(a) => Bottom(Cols - 1) = Air

SpawnFrom(q) ==
  /\ rom_q = LevelMem[q]
  /\ Follows(rom_addr, q) /\ Follows(current_block_col, q) /\ Follows(current_block_col, rom_addr)
  /\ SafeAt(q) /\ SafeAt(rom_addr) /\ SafeAt(current_block_col)

SpawnInv == \E q \in 0..(Depth - 1) : SpawnFrom(q)

(* At a scroll the memory has caught up.                                   *)
LEMMA SettledAtShift ==
  ASSUME GameInv, MemoryInv, Shift
  PROVE  rom_addr = current_block_col /\ rom_q = LevelMem[current_block_col]
<1>1. V!frame_clk
  BY DEF Shift, NewFrame, GameInv, ClockInv
<1>2. ~Pixel1
  BY <1>1, Pixel1NotOrigin
<1>3. Mario_X_Pos \in Int
  BY Window DEF GameInv, TypeOK, M!TypeOK
<1>4. Mario_X_Pos # StartX
  <2>1. Mario_X_Pos = StartX => Mario_X_Pos - StartX \in (-X_Step)..X_Step
    BY <1>3, MotionAssumption
  <2> QED
    BY <1>3, <2>1, NearStart DEF Shift
<1> QED
  BY <1>2, <1>4, ShiftsNextWord DEF MemoryInv

LEMMA SpawnStep ==
  ASSUME NoFalseBricks, GoombaFits, OpenGround, GameInv, MP!IInv, MemoryInv, BoardInv, MarioAbove,
         SpawnInv, Next
  PROVE  SpawnInv'
<1>1. PICK q \in 0..(Depth - 1) : SpawnFrom(q)
  BY DEF SpawnInv
<1>2. /\ TypeOK /\ B!BlockTypeOK /\ rom_addr \in 0..(Depth - 1)
      /\ current_block_col \in 0..(Depth - 1) /\ Cols \in 0..(Depth - 1) /\ Cols % Depth = Cols
      /\ Cols - 1 \in 0..(Cols - 1)
  BY PlayfieldAssumption, ToplevelAssumption DEF GameInv, TypeOK, B!BlockTypeOK
<1>3. PICK a \in 0..(Depth - 1) : a = rom_addr
  BY <1>2
<1>4. rom_q' = LevelMem[a] /\ rom_addr' = current_block_col
  BY <1>3 DEF Next, ResetTick, FrameTick, QuietTick, Always, ReadLevel
<1>5. ~Walker(Cols)
  BY <1>2 DEF OpenGround, Walker
<1>6. CASE Reset_h
  <2>1. B!ResetBoard(new_block_id)
    BY <1>6 DEF Next, ResetTick, FrameTick, QuietTick
  <2>2. current_block_col' = Cols /\ Bottom(Cols - 1)' = LevelMem[q].blocks[Rows - 1]
    BY <1>1, <1>2, <2>1 DEF B!ResetBoard, SpawnFrom, new_block_id, Bottom
  <2>3. Walker(rom_addr) \/ Walker(current_block_col) => Bottom(Cols - 1)' = Air
    BY <1>1, <1>2, <2>2, OpenBeforeWalker DEF SpawnFrom
  <2>4. SpawnFrom(a)'
    BY <1>1, <1>3, <1>4, <1>5, <2>2, <2>3 DEF SpawnFrom, Follows, SafeAt, Walker
  <2> QED
    BY <1>2, <2>4 DEF SpawnInv
<1>7. CASE ~Reset_h /\ Shift
  <2>1. B!ShiftIn(new_block_id)
    BY <1>7 DEF Next, ResetTick, FrameTick, QuietTick, StepBoard, Shift
  <2>2. rom_addr = current_block_col /\ rom_q = LevelMem[current_block_col]
    BY <1>7, SettledAtShift
  <2> DEFINE next == (current_block_col + 1) % Depth
  <2>3. current_block_col' = next /\ next \in 0..(Depth - 1)
    BY <1>2, <2>1, ToplevelAssumption, PlayfieldAssumption DEF B!ShiftIn
  <2>4. Bottom(Cols - 1)' = LevelMem[current_block_col].blocks[Rows - 1]
    BY <2>1, <2>2, GroundShifts DEF new_block_id
  <2>5. Follows(next, current_block_col) /\ Follows(current_block_col, current_block_col)
    BY DEF Follows
  <2> HIDE DEF next
  <2>6. Walker(next) \/ Walker(current_block_col) => Bottom(Cols - 1)' = Air
    BY <1>2, <2>3, <2>4, <2>5, OpenBeforeWalker
  <2>7. SpawnFrom(a)'
    BY <1>3, <1>4, <2>2, <2>3, <2>5, <2>6 DEF SpawnFrom, Follows, SafeAt, Walker
  <2> QED
    BY <1>2, <2>7 DEF SpawnInv
<1>8. CASE ~Reset_h /\ ~Shift
  <2>1. current_block_col' = current_block_col
    BY <1>2, <1>8, BoardHolds
  <2>2. Bottom(Cols - 1)' = Bottom(Cols - 1)
    BY <1>2, <1>8, GroundHolds
  <2>3. SpawnFrom(a)'
    BY <1>1, <1>3, <1>4, <2>1, <2>2 DEF SpawnFrom, Follows, SafeAt, Walker
  <2> QED
    BY <1>2, <2>3 DEF SpawnInv
<1> QED
  BY <1>6, <1>7, <1>8

LEMMA SpawnInductive ==
  ASSUME NoFalseBricks, GoombaFits, OpenGround
  PROVE  Spec => []SpawnInv
<1>1. Init => SpawnInv
  <2> SUFFICES ASSUME Init
               PROVE  SpawnInv
    OBVIOUS
  <2>1. Cols % Depth = Cols /\ Cols \in 0..(Depth - 1)
    BY PlayfieldAssumption, ToplevelAssumption
  <2>2. current_block_col = Cols /\ rom_addr = Cols /\ rom_q = LevelMem[Cols]
    BY <2>1 DEF Init
  <2>3. ~Walker(Cols)
    BY <2>1 DEF OpenGround, Walker
  <2>4. SpawnFrom(Cols)
    BY <2>2, <2>3 DEF SpawnFrom, Follows, SafeAt
  <2> QED
    BY <2>1, <2>4 DEF SpawnInv
<1>2. GameInv /\ MP!IInv /\ MemoryInv /\ BoardInv /\ MarioAbove /\ SpawnInv /\ [Next]_vars => SpawnInv'
  <2>1. ASSUME SpawnInv, UNCHANGED vars
        PROVE  SpawnInv'
    BY <2>1 DEF vars, gameVars, memVars, SpawnInv, SpawnFrom, Follows, SafeAt, Walker, Bottom
  <2> QED
    BY <2>1, SpawnStep
<1> QED
  BY <1>1, <1>2, GameInductive, MarioInductive, MemoryInductive, BoardInductive, MarioAboveInductive, PTL
     DEF Spec

-----------------------------------------------------------------------------
(* The goomba of the game.                                                 *)

Blocked == {c \in 0..(Cols - 1) : Bottom(c) # Air}

(* While it lives it stands on the ground of the screen; while the game is *)
(* not about to be reset it is where the blocks let it be.                 *)
WalkInv ==
  isAlive =>
    /\ Goomba_Y_Pos = GroundTop + HalfSize
    /\ Goomba_X_Pos \in (X_Min - HalfSize - BlockSize - GoombaStep)..G!SpawnX
    /\ ~kill_Mario => GoombaAt(Goomba_X_Pos, Goomba_X_Motion, Blocked)

LEMMA GoombaPlaces ==
  ASSUME GoombaFits
  PROVE  /\ G!BlockSize = BlockSize /\ G!X_Max = X_Max /\ G!Air = Air
         /\ G!SpawnX = X_Max + 1 - HalfSize /\ G!SpawnY - HalfSize = GroundTop + HalfSize
         /\ GoombaStep = 1 /\ X_Min >= 3 * HalfSize + 1 /\ X_Max + 2 * HalfSize < Word
         /\ GroundTop \in Int /\ GroundTop + 2 * HalfSize = Y_Max + 1 /\ Y_Max \in Int
         /\ Word \in Nat
<1>1. /\ G!BlockSize = BlockSize /\ G!X_Max = X_Max /\ G!Y_Max = Y_Max /\ G!Air = Air
  BY DEF G!BlockSize, BlockSize, G!X_Max, X_Max, G!Y_Max, Y_Max, G!Air, Air
<1>2. G!SpawnX = X_Max + 1 - HalfSize
  BY <1>1 DEF G!SpawnX
<1>3. HalfSize \in Nat \ {0} /\ BlockSize = 2 * HalfSize /\ Y_Max \in Int
  BY GoombaNumbers, Window
<1>4. GroundTop \in Int /\ GroundTop + 2 * HalfSize = Y_Max + 1
  BY <1>3 DEF GroundTop
<1>5. G!SpawnY - HalfSize = GroundTop + HalfSize
  BY <1>1, <1>3, <1>4 DEF G!SpawnY
<1>6. GoombaStep = 1 /\ X_Min >= 3 * HalfSize + 1
  BY DEF GoombaFits
<1> QED
  BY <1>1, <1>2, <1>3, <1>4, <1>5, <1>6, Window

(* What the goomba's lookups return.                                       *)
LEMMA GoombaSees ==
  ASSUME GoombaFits, B!BlockTypeOK, NEW n \in Int,
         NEW block \in B!Lookup(B!ColOf(n), B!Offset(GroundTop + HalfSize))
  PROVE  Sees(n, block, Blocked)
<1>1. GroundTop + HalfSize \in GroundTop..Y_Max
  <2>1. HalfSize \in Nat \ {0}
    BY GoombaNumbers
  <2> QED
    BY <2>1, GoombaPlaces
<1>2. ASSUME NEW c \in 0..(Cols - 1), Left(c) <= n, n < Left(c + 1)
      PROVE  block # Air <=> c \in Blocked
  <2>1. B!Lookup(B!ColOf(n), B!Offset(GroundTop + HalfSize)) = {Bottom(c)}
    BY <1>1, <1>2, GroundLookup
  <2>2. block = Bottom(c)
    BY <2>1
  <2> QED
    BY <2>2 DEF Blocked
<1> QED
  BY <1>2 DEF Sees

LEMMA SpawnsInOpen ==
  ASSUME NoFalseBricks, GoombaFits, OpenGround, GameInv, MP!IInv, MemoryInv, BoardInv, MarioAbove,
         SpawnInv, Next, ~Reset_h, GoombaBit
  PROVE  Bottom(Cols - 1)' = Air
<1>1. PICK q \in 0..(Depth - 1) : SpawnFrom(q)
  BY DEF SpawnInv
<1>2. B!BlockTypeOK /\ Cols - 1 \in 0..(Cols - 1) /\ current_block_col \in 0..(Depth - 1)
  BY PlayfieldAssumption DEF GameInv, TypeOK, B!BlockTypeOK
<1>3. CASE ~Shift
  <2>1. Walker(q)
    BY <1>1 DEF SpawnFrom, Walker, GoombaBit, new_col_control
  <2> QED
    BY <1>1, <1>2, <1>3, <2>1, GroundHolds DEF SpawnFrom, SafeAt
<1>4. CASE Shift
  <2>1. rom_q = LevelMem[current_block_col] /\ B!ShiftIn(new_block_id)
    BY <1>4, SettledAtShift DEF Next, ResetTick, FrameTick, QuietTick, StepBoard, Shift
  <2>2. Walker(current_block_col)
    BY <2>1 DEF Walker, GoombaBit, new_col_control
  <2>3. LevelMem[current_block_col].blocks[Rows - 1] = Air
    BY <1>2, <2>2, OpenBeforeWalker DEF Follows
  <2> QED
    BY <2>1, <2>3, GroundShifts DEF new_block_id
<1> QED
  BY <1>3, <1>4

(* One step of the goomba's walk, before the world is scrolled.            *)
LEMMA WalkMoves ==
  ASSUME GoombaFits, B!BlockTypeOK, isAlive, ~kill_Mario, WalkInv,
         NEW mx, NEW my, NEW shift \in BOOLEAN,
         NEW left \in B!GoombaLeft(Goomba_X_Pos, Goomba_Y_Pos),
         NEW right \in B!GoombaRight(Goomba_X_Pos, Goomba_Y_Pos),
         G!Walk(mx, my, left, right, shift)
  PROVE  /\ Goomba_X_Pos + Goomba_X_Motion \in Int
         /\ Goomba_X_Pos' = IF shift THEN (Goomba_X_Pos + Goomba_X_Motion) - BlockSize
                                     ELSE Goomba_X_Pos + Goomba_X_Motion
         /\ Goomba_X_Pos' \in (X_Min - HalfSize - BlockSize - GoombaStep)..G!SpawnX
         /\ GoombaAt(Goomba_X_Pos + Goomba_X_Motion, Goomba_X_Motion', Blocked)
<1> DEFINE x == Goomba_X_Pos
           m == Goomba_X_Motion
           low == X_Min - HalfSize - BlockSize - GoombaStep
<1>1. /\ HalfSize \in Nat \ {0} /\ X_Min \in Nat /\ X_Max \in Int /\ BlockSize = 2 * HalfSize
      /\ GoombaStep = 1 /\ X_Min >= 3 * HalfSize + 1 /\ X_Max + 2 * HalfSize < Word /\ Word \in Nat
      /\ G!SpawnX = X_Max + 1 - HalfSize /\ G!BlockSize = BlockSize /\ G!X_Max = X_Max /\ G!Air = Air
      /\ X_Max >= X_Min + 10 * HalfSize - 1
  BY GoombaNumbers, GoombaPlaces
<1>2. x \in low..G!SpawnX /\ Goomba_Y_Pos = GroundTop + HalfSize /\ GoombaAt(x, m, Blocked)
  BY DEF WalkInv
<1>3. x \in Int /\ x >= X_Min - 3 * HalfSize - 1 /\ x <= X_Max + 1 - HalfSize
  BY <1>1, <1>2
<1>4. m \in Int /\ (m = 1 \/ m = -1) /\ (m = 1 => x < X_Max + 1 - HalfSize)
  BY <1>2 DEF GoombaAt, InRange
<1> HIDE DEF x, m, low
<1>5. (x + HalfSize) % Word = x + HalfSize
  BY <1>1, <1>3
<1>6. x + HalfSize >= X_Min
  <2>1. ~((x + HalfSize) % Word < X_Min)
    BY DEF G!Walk, G!OffScreen, G!W10, x
  <2> QED
    BY <1>1, <1>3, <1>5, <2>1
<1>7. /\ Goomba_X_Pos' = IF shift THEN (x + m) - BlockSize ELSE x + m
      /\ Goomba_X_Pos' \in low..G!SpawnX
  <2> DEFINE d == IF shift THEN BlockSize ELSE 0
  <2>1. Goomba_X_Pos' = ((x + m) - d) % Word
    BY <1>1, <1>3, <1>4 DEF G!Walk, G!W10, x, m
  <2>2. d \in {0, 2 * HalfSize}
    BY <1>1
  <2>3. d = IF shift THEN BlockSize ELSE 0
    OBVIOUS
  <2> HIDE DEF d
  <2>4. /\ ((x + m) - d) % Word = (x + m) - d
        /\ (x + m) - d >= X_Min - 3 * HalfSize - 1 /\ (x + m) - d <= X_Max + 1 - HalfSize
    BY <1>1, <1>3, <1>4, <1>6, <2>2
  <2>5. Goomba_X_Pos' = IF shift THEN (x + m) - BlockSize ELSE x + m
    <3>1. CASE shift
      BY <1>3, <1>4, <2>1, <2>3, <2>4, <3>1
    <3>2. CASE ~shift
      BY <1>3, <1>4, <2>1, <2>3, <2>4, <3>2
    <3> QED
      BY <3>1, <3>2
  <2>6. (x + m) - d \in low..G!SpawnX
    BY <1>1, <1>3, <1>4, <2>2, <2>4 DEF low
  <2> QED
    BY <2>1, <2>4, <2>5, <2>6
<1>8. Goomba_X_Motion' = NextMotion(x, m, left, right)
  <2>1. G!W10(Goomba_X_Pos + HalfSize) = x + HalfSize
    BY <1>5 DEF G!W10, x
  <2>2. Goomba_X_Motion' = G!Turn(left, right)
    BY DEF G!Walk
  <2>3. CASE left # Air
    <3>1. G!Turn(left, right) = GoombaStep
      BY <1>1, <2>3, Zenon DEF G!Turn
    <3> QED
      BY <1>1, <2>2, <2>3, <3>1 DEF NextMotion
  <2>4. CASE left = Air /\ (right # Air \/ x + HalfSize >= X_Max)
    <3>1. G!Turn(left, right) = -GoombaStep
      BY <1>1, <2>1, <2>4, Zenon DEF G!Turn
    <3> QED
      BY <1>1, <2>2, <2>4, <3>1 DEF NextMotion
  <2>5. CASE left = Air /\ ~(right # Air \/ x + HalfSize >= X_Max)
    <3>1. G!Turn(left, right) = m
      BY <1>1, <2>1, <2>5, Zenon DEF G!Turn, m
    <3> QED
      BY <2>2, <2>5, <3>1 DEF NextMotion
  <2> QED
    BY <2>3, <2>4, <2>5
<1>9. Sees(LeftProbe(x), left, Blocked) /\ Sees(x + GoombaReach, right, Blocked)
  <2>1. x - GoombaReach - 1 \in Int /\ x + GoombaReach \in Int /\ LeftProbe(x) = x - GoombaReach - 1
    BY <1>3, GoombaNumbers DEF LeftProbe
  <2>2. /\ left \in B!Lookup(B!ColOf(x - GoombaReach - 1), B!Offset(GroundTop + HalfSize))
        /\ right \in B!Lookup(B!ColOf(x + GoombaReach), B!Offset(GroundTop + HalfSize))
    BY <1>2 DEF B!GoombaLeft, B!GoombaRight, x
  <2> QED
    BY <2>1, <2>2, GoombaSees
<1>10. GoombaAt(x + m, NextMotion(x, m, left, right), Blocked)
  <2>1. Blocked \in SUBSET (0..(Cols - 1))
    BY DEF Blocked
  <2> QED
    BY <1>2, <1>3, <1>6, <1>9, <2>1, WalksOn
<1> QED
  BY <1>3, <1>4, <1>7, <1>8, <1>10 DEF x, m, low

LEMMA WalkStep ==
  ASSUME NoFalseBricks, GoombaFits, OpenGround, GameInv, MP!IInv, MemoryInv, BoardInv, MarioAbove,
         SpawnInv, WalkInv, Next
  PROVE  WalkInv'
<1>1. B!BlockTypeOK /\ TypeOK /\ G!GoombaTypeOK /\ Shift \in BOOLEAN
  BY DEF GameInv, TypeOK, Shift, NewFrame, M!ScrollDue
<1>2. /\ Blocked \in SUBSET (0..(Cols - 1))
      /\ Blocked' = {c \in 0..(Cols - 1) : Bottom(c)' # Air}
      /\ Cols - 1 \in 0..(Cols - 1)
  BY PlayfieldAssumption DEF Blocked
<1>3. /\ GroundTop' = GroundTop
      /\ GoombaAt(Goomba_X_Pos, Goomba_X_Motion, Blocked)'
           <=> GoombaAt(Goomba_X_Pos', Goomba_X_Motion', Blocked')
  BY DEF GroundTop, GoombaAt, InRange, WayOut, TurnedBefore, TurnedInside, LeftProbe, Left
<1>4. ~Reset_h /\ ~Shift => Blocked' = Blocked
  BY <1>1, <1>2, GroundHolds DEF Blocked
<1>5. CASE Reset_h
  BY <1>5 DEF Next, ResetTick, FrameTick, QuietTick, G!Restart, WalkInv
<1>6. CASE ~Reset_h /\ GoombaBit
  <2>1. G!Spawn
    BY <1>6 DEF Next, ResetTick, FrameTick, QuietTick, StepGoomba
  <2>2. Cols - 1 \notin Blocked'
    BY <1>2, <1>6, SpawnsInOpen
  <2>3. GoombaAt(X_Max + 1 - HalfSize, -1, Blocked')
    BY <1>2, <2>2, GoombaEnters
  <2>4. /\ Goomba_X_Pos' = X_Max + 1 - HalfSize /\ Goomba_X_Motion' = -1
        /\ Goomba_Y_Pos' = GroundTop + HalfSize
    BY <2>1, GoombaPlaces DEF G!Spawn
  <2>5. X_Max + 1 - HalfSize \in (X_Min - HalfSize - BlockSize - GoombaStep)..G!SpawnX
    BY GoombaPlaces, GoombaNumbers
  <2> QED
    BY <1>3, <2>3, <2>4, <2>5, GoombaPlaces DEF WalkInv
<1>7. CASE ~Reset_h /\ ~GoombaBit /\ ~NewFrame
  <2>1. G!Hold /\ ~Shift
    BY <1>7 DEF Next, ResetTick, FrameTick, QuietTick, Shift
  <2> QED
    BY <1>3, <1>4, <1>7, <2>1 DEF G!Hold, WalkInv
<1>8. CASE ~Reset_h /\ ~GoombaBit /\ NewFrame
  <2>1. ~kill_Mario
    BY <1>8 DEF GameInv, DeathInv, NewFrame
  <2>2. PICK left \in B!GoombaLeft(Goomba_X_Pos, Goomba_Y_Pos),
             right \in B!GoombaRight(Goomba_X_Pos, Goomba_Y_Pos) :
               G!FrameEdge(Mario_X_Pos, Mario_Y_Pos, left, right, Shift)
    BY <1>8 DEF Next, ResetTick, FrameTick, QuietTick, StepGoomba
  <2>3. CASE \/ G!GetSquished(Mario_X_Pos, Mario_Y_Pos) \/ G!WalkOff(Mario_X_Pos, Mario_Y_Pos)
             \/ G!LieDead
    BY <2>3 DEF G!GetSquished, G!WalkOff, G!LieDead, WalkInv
  <2>4. CASE G!KillMario(Mario_X_Pos, Mario_Y_Pos)
    BY <1>3, <2>4 DEF G!KillMario, WalkInv
  <2>5. CASE G!Walk(Mario_X_Pos, Mario_Y_Pos, left, right, Shift)
    <3>1. isAlive /\ isAlive' /\ Goomba_Y_Pos' = Goomba_Y_Pos
      BY <2>5 DEF G!Walk
    <3>2. /\ Goomba_X_Pos + Goomba_X_Motion \in Int
          /\ Goomba_X_Pos' = IF Shift THEN (Goomba_X_Pos + Goomba_X_Motion) - BlockSize
                                      ELSE Goomba_X_Pos + Goomba_X_Motion
          /\ Goomba_X_Pos' \in (X_Min - HalfSize - BlockSize - GoombaStep)..G!SpawnX
          /\ GoombaAt(Goomba_X_Pos + Goomba_X_Motion, Goomba_X_Motion', Blocked)
      BY <1>1, <2>1, <2>5, <3>1, WalkMoves
    <3>3. GoombaAt(Goomba_X_Pos', Goomba_X_Motion', Blocked')
      <4>1. CASE ~Shift
        BY <1>4, <1>8, <3>2, <4>1
      <4>2. CASE Shift
        <5>1. B!ShiftIn(new_block_id)
          BY <1>8, <4>2 DEF Next, ResetTick, FrameTick, QuietTick, StepBoard
        <5>2. \A c \in 0..(Cols - 2) : c \in Blocked' <=> c + 1 \in Blocked
          <6>1. \A c \in 0..(Cols - 2) : c \in 0..(Cols - 1) /\ c + 1 \in 0..(Cols - 1)
            BY PlayfieldAssumption
          <6> QED
            BY <1>2, <5>1, <6>1, GroundShifts DEF Blocked
        <5>3. \E c \in 0..(Cols - 1) : c \notin Blocked'
          BY <1>2, <1>8, <4>2, OpenAfterShift
        <5>4. Blocked' \in SUBSET (0..(Cols - 1))
          BY <1>2
        <5>5. PICK x \in Int : x = Goomba_X_Pos + Goomba_X_Motion
          BY <3>2
        <5>6. PICK m, after : m = Goomba_X_Motion' /\ after = Blocked'
          OBVIOUS
        <5>7. Goomba_X_Pos' = x - BlockSize
          BY <3>2, <4>2, <5>5
        <5>8. GoombaAt(x - BlockSize, m, after)
          BY <1>2, <3>2, <5>2, <5>3, <5>4, <5>5, <5>6, GoombaCarried
        <5> QED
          BY <5>7, <5>8, <5>6
      <4> QED
        BY <1>1, <4>1, <4>2
    <3> QED
      BY <1>3, <3>1, <3>2, <3>3 DEF WalkInv
  <2> QED
    BY <2>2, <2>3, <2>4, <2>5 DEF G!FrameEdge
<1> QED
  BY <1>5, <1>6, <1>7, <1>8

LEMMA WalkInductive ==
  ASSUME NoFalseBricks, GoombaFits, OpenGround
  PROVE  Spec => []WalkInv
<1>1. Init => WalkInv
  BY DEF Init, WalkInv
<1>2. /\ GameInv /\ MP!IInv /\ MemoryInv /\ BoardInv /\ MarioAbove /\ SpawnInv /\ WalkInv
      /\ [Next]_vars
      => WalkInv'
  <2>1. ASSUME WalkInv, UNCHANGED vars
        PROVE  WalkInv'
    <3>1. /\ GroundTop' = GroundTop /\ Blocked' = Blocked
          /\ Goomba_X_Pos' = Goomba_X_Pos /\ Goomba_Y_Pos' = Goomba_Y_Pos
          /\ Goomba_X_Motion' = Goomba_X_Motion /\ isAlive' = isAlive /\ kill_Mario' = kill_Mario
      BY <2>1 DEF vars, gameVars, Blocked, Bottom, GroundTop
    <3>2. GoombaAt(Goomba_X_Pos, Goomba_X_Motion, Blocked)'
            <=> GoombaAt(Goomba_X_Pos', Goomba_X_Motion', Blocked')
      BY DEF GoombaAt, InRange, WayOut, TurnedBefore, TurnedInside, LeftProbe, Left
    <3> QED
      BY <2>1, <3>1, <3>2 DEF WalkInv
  <2> QED
    BY <2>1, WalkStep
<1> QED
  BY <1>1, <1>2, GameInductive, MarioInductive, MemoryInductive, BoardInductive, MarioAboveInductive,
     SpawnInductive, PTL DEF Spec

(* A live goomba is never right of where it is spawned and leaves the      *)
(* screen by less than a scroll before it is taken off: for every level    *)
(* whose ground is open where OpenGround wants it and hides no false       *)
(* bricks, every key and every press of the button.                        *)
THEOREM GoombaStaysOnScreen ==
  ASSUME NoFalseBricks, GoombaFits, OpenGround
  PROVE  Spec => []GoombaOnScreen
<1>1. WalkInv => GoombaOnScreen
  BY DEF WalkInv, GoombaOnScreen
<1> QED
  BY <1>1, WalkInductive, PTL

(* So a scroll moves the blocks around Mario, the goomba and the coins with*)
(* him, and none of their coordinates wraps around.                        *)
THEOREM ScrollsRigidly ==
  ASSUME NoFalseBricks, GoombaFits, OpenGround
  PROVE  Spec => ScrollIsRigid
<1>1. X_Min >= 3 * HalfSize + GoombaStep
  BY DEF GoombaFits
<1> QED
  BY <1>1, GoombaStaysOnScreen, ScrollsWithGoomba, PTL
=============================================================================
