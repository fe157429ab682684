----------------------------- MODULE MarioProofs -----------------------------
(***************************************************************************)
(* What holds of Mario's motion for every window, step size and jump       *)
(* length the assumptions admit, and for any polls.                        *)
(***************************************************************************)
EXTENDS Mario, TLAPS

(* Arithmetic the prover is given once.                                    *)

(* A sum that stays inside the register is not changed by it.              *)
LEMMA W10Id ==
  ASSUME NEW n \in Int, 0 <= n, n < Word
  PROVE  W10(n) = n
BY PlayfieldAssumption DEF W10

(* A register never holds a value outside its range.                       *)
LEMMA W10Range ==
  ASSUME NEW n \in Int
  PROVE  W10(n) \in 0..(Word - 1)
<1>1. Word \in Nat /\ Word > 0
  BY PlayfieldAssumption DEF X_Max, BlockSize
<1>2. QED
  BY <1>1 DEF W10

(* The inequalities between the landmarks of the window that the proofs    *)
(* below need.                                                             *)
LEMMA Landmarks ==
  /\ X_Max \in Int /\ Y_Max \in Int /\ X_Mid \in Int
  /\ X_Mid >= X_Min + 5 * HalfSize - 1
  /\ X_Mid <= X_Max /\ X_Mid + 5 * HalfSize <= X_Max
  /\ Y_Max >= Y_Min + 4 * HalfSize - 1
  /\ X_Max + 2 * HalfSize < Word
  /\ Y_Max + 2 * HalfSize < Word
  /\ X_Min >= 2 * HalfSize
<1> DEFINE w == Cols * HalfSize
           h == Rows * HalfSize
<1>1. w \in Nat /\ h \in Nat
  BY PlayfieldAssumption
<1>2. w >= 5 * HalfSize /\ h >= 2 * HalfSize
  BY PlayfieldAssumption
<1>3. Cols * BlockSize = 2 * w /\ Rows * BlockSize = 2 * h
  BY PlayfieldAssumption DEF BlockSize
<1>4. X_Max = X_Min + 2 * w - 1 /\ Y_Max = Y_Min + 2 * h - 1
  BY <1>3, PlayfieldAssumption DEF X_Max, Y_Max
<1>5. X_Mid = X_Min + w - 1
  <2> HIDE DEF w
  <2> QED
    BY <1>1, <1>4, PlayfieldAssumption DEF X_Mid
<1> HIDE DEF w, h
<1>6. QED
  BY <1>1, <1>2, <1>4, <1>5, PlayfieldAssumption DEF BlockSize
-----------------------------------------------------------------------------
(***************************************************************************)
(* The inductive invariant, split along the axes: the vertical half of a   *)
(* frame reads and writes only what YInv speaks of, the horizontal half    *)
(* only Mario_X_Pos (and is_jumping, for the stride).                      *)
(***************************************************************************)
YInv ==
  /\ Jump_Counter \in 0..JumpFrames
  /\ Falling \in BOOLEAN
  /\ is_jumping \in BOOLEAN
  /\ Mario_Y_Pos \in (Y_Ceiling - Y_Step)..Y_Floor
  /\ Mario_Y_Pos < Y_Ceiling => Jump_Counter > 0
  /\ FlagsAgree
  /\ JumpHeight

XInv ==
  Mario_X_Pos \in (X_Min + HalfSize - X_Step)..(X_Mid - HalfSize + X_Step - 1)

IInv == YInv /\ XInv

(* Where the vertical landmarks lie in the register's range.               *)
LEMMA YLandmarks ==
  /\ Y_Ceiling \in Int /\ Y_Floor \in Int
  /\ Y_Ceiling - Y_Step - HalfSize >= 0
  /\ Y_Ceiling <= Y_Max - HalfSize
  /\ Y_Floor = Y_Max - HalfSize + Y_Step
  /\ Y_Floor + HalfSize + Y_Step < Word
  /\ Y_Ceiling = Y_Min + HalfSize + 1 - Y_Step
BY Landmarks, PlayfieldAssumption, MarioAssumption DEF Y_Ceiling, Y_Floor

(* One more frame of a jump is one more step of height.                    *)
LEMMA StepHeight ==
  ASSUME NEW j \in Nat
  PROVE  /\ Y_Step * (j + 1) = Y_Step * j + Y_Step
         /\ Y_Step * j \in Nat
         /\ j >= 1 => Y_Step * j >= Y_Step
BY MarioAssumption

(* Inside the invariant the vertical sums of Mario.sv do not wrap.         *)
LEMMA YExact ==
  ASSUME YInv
  PROVE  /\ Mario_Y_Pos \in Int
         /\ W10(Mario_Y_Pos - HalfSize) = Mario_Y_Pos - HalfSize
         /\ W10(Mario_Y_Pos + HalfSize - 1) = Mario_Y_Pos + HalfSize - 1
         /\ W10(Mario_Y_Pos + Y_Step) = Mario_Y_Pos + Y_Step
         /\ W10(Mario_Y_Pos - Y_Step) = Mario_Y_Pos - Y_Step
<1>1. /\ Mario_Y_Pos \in Int
      /\ 0 <= Mario_Y_Pos - HalfSize
      /\ Y_Step <= HalfSize
      /\ Mario_Y_Pos + HalfSize + Y_Step < Word
  BY YLandmarks, PlayfieldAssumption, MarioAssumption DEF YInv
<1>2. HalfSize \in Nat \ {0} /\ Y_Step \in Nat
  BY PlayfieldAssumption, MarioAssumption
<1>3. W10(Mario_Y_Pos - HalfSize) = Mario_Y_Pos - HalfSize
  BY <1>1, <1>2, W10Id, PlayfieldAssumption
<1>4. W10(Mario_Y_Pos + HalfSize - 1) = Mario_Y_Pos + HalfSize - 1
  BY <1>1, <1>2, W10Id, PlayfieldAssumption
<1>5. W10(Mario_Y_Pos + Y_Step) = Mario_Y_Pos + Y_Step
  BY <1>1, <1>2, W10Id, PlayfieldAssumption
<1>6. W10(Mario_Y_Pos - Y_Step) = Mario_Y_Pos - Y_Step
  BY <1>1, <1>2, W10Id, PlayfieldAssumption
<1>7. QED
  BY <1>1, <1>3, <1>4, <1>5, <1>6

(* The vertical half of a frame keeps YInv, moves Mario by at most one     *)
(* step, and starts a jump only when is_jumping is clear.                  *)
LEMMA VerticalStep ==
  ASSUME YInv, NEW key, NEW up, NEW down, Vertical(key, up, down)
  PROVE  /\ YInv'
         /\ Mario_Y_Pos' - Mario_Y_Pos \in {-Y_Step, 0, Y_Step}
         /\ Jump_Counter = 0 /\ Jump_Counter' = 1 => ~is_jumping
<1> USE YExact, YLandmarks, Landmarks, PlayfieldAssumption, MarioAssumption
<1>1. CASE BeginJump(key, up)
  <2>1. Mario_Y_Pos' = Mario_Y_Pos - Y_Step /\ Jump_Counter = 0 /\ ~Falling
    BY <1>1 DEF BeginJump, CanJump, MoveY
  <2>2. Mario_Y_Pos >= Y_Ceiling
    BY <2>1 DEF YInv
  <2>3. QED
    BY <1>1, <2>1, <2>2, StepHeight DEF BeginJump, YInv, FlagsAgree, JumpHeight
<1>2. CASE TopOut(up)
  <2>1. Mario_Y_Pos' = Mario_Y_Pos + Y_Step /\ Jump_Counter >= 1
    BY <1>2 DEF TopOut, MoveY
  <2>2. Mario_Y_Pos + Y_Step <= Y_Floor
    BY <2>1, StepHeight DEF YInv, JumpHeight
  <2>3. QED
    BY <1>2, <2>1, <2>2 DEF TopOut, YInv, FlagsAgree, JumpHeight
<1>3. CASE Rise(up)
  <2>1. Mario_Y_Pos' = Mario_Y_Pos - Y_Step /\ Jump_Counter' = Jump_Counter + 1
    BY <1>3 DEF Rise, MoveY
  <2>2. Jump_Counter' \in 1..JumpFrames /\ Mario_Y_Pos' >= Y_Ceiling
    BY <1>3, <2>1 DEF Rise, JumpStops, YInv
  <2>3. JumpHeight'
    BY <1>3, <2>1, StepHeight DEF Rise, YInv, JumpHeight
  <2>4. QED
    BY <1>3, <2>1, <2>2, <2>3 DEF Rise, YInv, FlagsAgree
<1>4. CASE Land(key, up, down)
  <2>1. /\ Mario_Y_Pos' = Mario_Y_Pos
        /\ Jump_Counter = 0 /\ Jump_Counter' = 0
        /\ Falling' = FALSE /\ is_jumping' = FALSE
    BY <1>4 DEF Land
  <2>2. FlagsAgree' /\ JumpHeight'
    BY <2>1 DEF FlagsAgree, JumpHeight
  <2>3. Falling' \in BOOLEAN /\ is_jumping' \in BOOLEAN
    BY <2>1, Zenon
  <2>4. YInv'
    BY <2>1, <2>2, <2>3 DEF YInv
  <2>5. QED
    BY <2>1, <2>4
<1>5. CASE Fall(key, up, down)
  <2>1. Mario_Y_Pos' = Mario_Y_Pos + Y_Step /\ Mario_Y_Pos + HalfSize - 1 < Y_Max
    BY <1>5 DEF Fall, MoveY, Grounded
  <2>2. QED
    BY <1>5, <2>1 DEF Fall, YInv, FlagsAgree, JumpHeight
<1>6. QED
  BY <1>1, <1>2, <1>3, <1>4, <1>5 DEF Vertical

(* The horizontal half keeps XInv, moves Mario by at most one step, and    *)
(* never scrolls twice in a row.                                           *)
LEMMA HorizontalStep ==
  ASSUME XInv, is_jumping \in BOOLEAN,
         NEW key, NEW left, NEW right, Horizontal(key, left, right)
  PROVE  /\ XInv'
         /\ IF ScrollDue
              THEN Mario_X_Pos' = Mario_X_Pos - BlockSize /\ ~ScrollDue'
              ELSE Mario_X_Pos' - Mario_X_Pos \in (-X_Step)..X_Step
<1> USE Landmarks, PlayfieldAssumption, MarioAssumption
<1>1. /\ Mario_X_Pos \in Int
      /\ X_Step <= Mario_X_Pos
      /\ Mario_X_Pos + HalfSize + X_Step < Word
      /\ Stride \in 1..X_Step
  BY DEF XInv, Stride
<1>2. CASE Scroll
  <2>1. Mario_X_Pos + HalfSize + 1 > X_Mid
    BY <1>2 DEF Scroll, ScrollDue
  <2>2. W10(Mario_X_Pos - BlockSize) = Mario_X_Pos - BlockSize
    BY <1>1, <2>1, W10Id DEF BlockSize
  <2>3. Mario_X_Pos' = Mario_X_Pos - BlockSize
    BY <1>2, <2>2 DEF Scroll
  <2>4. QED
    BY <1>1, <2>1, <2>3 DEF XInv, ScrollDue, BlockSize
<1>3. CASE MoveLeft(key, left)
  <2>1. Mario_X_Pos >= X_Min + HalfSize
    BY <1>3 DEF MoveLeft, GoesLeft
  <2>2. W10(Mario_X_Pos - Stride) = Mario_X_Pos - Stride
    BY <1>1, <2>1, W10Id
  <2>3. Mario_X_Pos' = Mario_X_Pos - Stride
    BY <1>3, <2>2 DEF MoveLeft
  <2>4. QED
    BY <1>1, <1>3, <2>1, <2>3 DEF MoveLeft, XInv
<1>4. CASE MoveRight(key, right)
  <2>1. Mario_X_Pos + HalfSize + 1 <= X_Mid
    BY <1>1, <1>4 DEF MoveRight, ScrollDue
  <2>2. W10(Mario_X_Pos + Stride) = Mario_X_Pos + Stride
    BY <1>1, <2>1, W10Id
  <2>3. Mario_X_Pos' = Mario_X_Pos + Stride
    BY <1>4, <2>2 DEF MoveRight
  <2>4. QED
    BY <1>1, <1>4, <2>1, <2>3 DEF MoveRight, XInv
<1>5. CASE StandStill(key, left, right)
  BY <1>1, <1>5 DEF StandStill, XInv
<1>6. QED
  BY <1>2, <1>3, <1>4, <1>5 DEF Horizontal
(* If Mario's centre is above height t, and half a block more or he is     *)
(* held by what his feet are in, then the vertical half of a frame leaves  *)
(* it above t; so does the step down that ends a jump.                     *)
LEMMA VerticalAbove ==
  ASSUME YInv, NEW key, NEW up, NEW down, Vertical(key, up, down), NEW t \in Int,
         \/ Mario_Y_Pos < t - HalfSize
         \/ /\ Mario_Y_Pos < t
            /\ Jump_Counter > 0 => Mario_Y_Pos + Y_Step < t
            /\ Mario_Y_Pos + HalfSize - 1 >= t - HalfSize => down # Air
  PROVE  /\ Mario_Y_Pos' < t
         /\ Jump_Counter' > 0 => Mario_Y_Pos' + Y_Step < t
<1>1. /\ Mario_Y_Pos \in Int /\ HalfSize \in Nat \ {0} /\ Y_Step \in 1..HalfSize
      /\ Jump_Counter \in Nat
      /\ W10(Mario_Y_Pos + Y_Step) = Mario_Y_Pos + Y_Step
      /\ W10(Mario_Y_Pos - Y_Step) = Mario_Y_Pos - Y_Step
  BY YExact, PlayfieldAssumption, MarioAssumption DEF YInv
<1>2. W10(Mario_Y_Pos + (-Y_Step)) = Mario_Y_Pos - Y_Step
  BY <1>1
<1>3. CASE BeginJump(key, up)
  <2>1. Mario_Y_Pos' = Mario_Y_Pos - Y_Step
    BY <1>2, <1>3 DEF BeginJump, MoveY
  <2> QED
    BY <1>1, <2>1
<1>4. CASE TopOut(up)
  <2>1. Mario_Y_Pos' = Mario_Y_Pos + Y_Step /\ Jump_Counter > 0 /\ Jump_Counter' = 0
    BY <1>1, <1>4 DEF TopOut, MoveY
  <2> QED
    BY <1>1, <2>1
<1>5. CASE Rise(up)
  <2>1. Mario_Y_Pos' = Mario_Y_Pos - Y_Step
    BY <1>2, <1>5 DEF Rise, MoveY
  <2> QED
    BY <1>1, <2>1
<1>6. CASE Land(key, up, down)
  BY <1>1, <1>6 DEF Land
<1>7. CASE Fall(key, up, down)
  <2>1. Mario_Y_Pos' = Mario_Y_Pos + Y_Step /\ Jump_Counter' = 0 /\ down = Air
    BY <1>1, <1>7 DEF Fall, MoveY, Grounded
  <2> QED
    BY <1>1, <2>1
<1> QED
  BY <1>3, <1>4, <1>5, <1>6, <1>7 DEF Vertical

(* Outside a scroll Mario moves only towards a side that is free.          *)
LEMMA HorizontalFree ==
  ASSUME XInv, is_jumping \in BOOLEAN,
         NEW key, NEW left, NEW right, Horizontal(key, left, right), ~ScrollDue
  PROVE  /\ Mario_X_Pos' > Mario_X_Pos => right = Air
         /\ Mario_X_Pos' < Mario_X_Pos => left = Air
<1> USE Landmarks, PlayfieldAssumption, MarioAssumption
<1>1. /\ Mario_X_Pos \in Int
      /\ X_Step <= Mario_X_Pos
      /\ Mario_X_Pos + HalfSize + X_Step < Word
      /\ Stride \in 1..X_Step
  BY DEF XInv, Stride
<1>2. CASE MoveLeft(key, left)
  <2>1. Mario_X_Pos >= X_Min + HalfSize
    BY <1>2 DEF MoveLeft, GoesLeft
  <2>2. W10(Mario_X_Pos - Stride) = Mario_X_Pos - Stride
    BY <1>1, <2>1, W10Id
  <2>3. Mario_X_Pos' = Mario_X_Pos - Stride /\ left = Air
    BY <1>2, <2>2 DEF MoveLeft, GoesLeft
  <2> QED
    BY <1>1, <2>3
<1>3. CASE MoveRight(key, right)
  <2>1. Mario_X_Pos + HalfSize + 1 <= X_Mid
    BY <1>1, <1>3 DEF MoveRight, ScrollDue
  <2>2. W10(Mario_X_Pos + Stride) = Mario_X_Pos + Stride
    BY <1>1, <2>1, W10Id
  <2>3. Mario_X_Pos' = Mario_X_Pos + Stride /\ right = Air
    BY <1>3, <2>2 DEF MoveRight, GoesRight
  <2> QED
    BY <1>1, <2>3
<1>4. CASE StandStill(key, left, right)
  BY <1>1, <1>4 DEF StandStill
<1> QED
  BY <1>2, <1>3, <1>4 DEF Horizontal, Scroll
-----------------------------------------------------------------------------
(* The position and flags after a reset satisfy the invariant.             *)
LEMMA StartInv ==
  ASSUME AtStart
  PROVE  IInv
<1>1. YInv
  <2>1. Falling = FALSE /\ is_jumping = FALSE /\ Jump_Counter = 0
    BY DEF AtStart
  <2>2. FlagsAgree /\ JumpHeight
    BY <2>1 DEF FlagsAgree, JumpHeight
  <2>3. Mario_Y_Pos \in Y_Ceiling..Y_Floor
    BY YLandmarks, Landmarks, MarioAssumption, PlayfieldAssumption DEF AtStart
  <2>4. Falling \in BOOLEAN /\ is_jumping \in BOOLEAN
    BY <2>1, Zenon
  <2>5. Mario_Y_Pos \in (Y_Ceiling - Y_Step)..Y_Floor /\ ~(Mario_Y_Pos < Y_Ceiling)
    BY <2>3, YLandmarks, MarioAssumption
  <2>6. Jump_Counter \in 0..JumpFrames
    BY <2>1, MarioAssumption
  <2>7. QED
    BY <2>2, <2>4, <2>5, <2>6, Zenon DEF YInv
<1>2. XInv
  BY Landmarks, PlayfieldAssumption, MarioAssumption DEF AtStart, XInv
<1>3. QED
  BY <1>1, <1>2 DEF IInv

(* The invariant is inductive.                                             *)
LEMMA StepInv ==
  ASSUME IInv, [Next]_marioVars
  PROVE  IInv'
<1>1. CASE Reset
  <2>1. AtStart'
    BY <1>1 DEF Reset, AtStart
  <2>2. AtStart' => IInv'
    BY StartInv, PTL
  <2>3. QED
    BY <2>1, <2>2
<1>2. CASE FrameStep
  <2>1. PICK key \in Keys, up \in Polls, down \in Polls, left \in Polls, right \in Polls :
          Frame(key, up, down, left, right)
    BY <1>2 DEF FrameStep
  <2>2. YInv'
    BY <2>1, VerticalStep DEF Frame, IInv
  <2>3. XInv'
    BY <2>1, HorizontalStep DEF Frame, IInv, YInv
  <2>4. QED
    BY <2>2, <2>3 DEF IInv
<1>3. CASE UNCHANGED marioVars
  BY <1>3 DEF marioVars, IInv, YInv, XInv, FlagsAgree, JumpHeight
<1>4. QED
  BY <1>1, <1>2, <1>3 DEF Next

(* The inductive invariant holds of every behaviour of Mario.sv.           *)
THEOREM Inductive == Spec => []IInv
<1>1. Init => IInv
  BY StartInv DEF Init
<1>2. IInv /\ [Next]_marioVars => IInv'
  BY StepInv
<1>3. QED
  BY <1>1, <1>2, PTL DEF Spec

(* The registers keep to their widths.                                     *)
THEOREM TypeCorrect == Spec => []TypeOK
<1>1. IInv => TypeOK
  BY Landmarks, YLandmarks, PlayfieldAssumption, MarioAssumption
     DEF IInv, YInv, XInv, TypeOK
<1>2. QED
  BY <1>1, Inductive, PTL

(* Mario stays in the picture, so no coordinate of Mario.sv ever wraps.    *)
THEOREM StaysInPicture == Spec => []InPicture
<1>1. IInv => InPicture
  BY DEF IInv, YInv, XInv, InPicture
<1>2. QED
  BY <1>1, Inductive, PTL

(* The motion flags never contradict each other.                           *)
THEOREM FlagsNeverDisagree == Spec => []FlagsAgree
<1>1. IInv => FlagsAgree
  BY DEF IInv, YInv
<1>2. QED
  BY <1>1, Inductive, PTL

(* A jump is never higher than its counter says.                           *)
THEOREM JumpHeightBounded == Spec => []JumpHeight
<1>1. IInv => JumpHeight
  BY DEF IInv, YInv
<1>2. QED
  BY <1>1, Inductive, PTL

(* What the invariant gives each step: no jump begins in a jump, Mario     *)
(* moves by steps and the world by blocks.                                 *)
NoDouble == Jump_Counter = 0 /\ Jump_Counter' = 1 => ~is_jumping

Smooth ==
  \/ AtStart'
  \/ /\ Mario_Y_Pos' - Mario_Y_Pos \in {-Y_Step, 0, Y_Step}
     /\ IF ScrollDue
          THEN Mario_X_Pos' = Mario_X_Pos - BlockSize /\ ~ScrollDue'
          ELSE Mario_X_Pos' - Mario_X_Pos \in (-X_Step)..X_Step

LEMMA StepMoves ==
  ASSUME IInv, [Next]_marioVars
  PROVE  [NoDouble]_marioVars /\ [Smooth]_marioVars
<1>1. CASE Reset
  BY <1>1 DEF Reset, AtStart, NoDouble, Smooth
<1>2. CASE FrameStep
  <2>1. PICK key \in Keys, up \in Polls, down \in Polls, left \in Polls, right \in Polls :
          Frame(key, up, down, left, right)
    BY <1>2 DEF FrameStep
  <2>2. NoDouble /\ Mario_Y_Pos' - Mario_Y_Pos \in {-Y_Step, 0, Y_Step}
    BY <2>1, VerticalStep DEF Frame, IInv, NoDouble
  <2>3. IF ScrollDue
          THEN Mario_X_Pos' = Mario_X_Pos - BlockSize /\ ~ScrollDue'
          ELSE Mario_X_Pos' - Mario_X_Pos \in (-X_Step)..X_Step
    BY <2>1, HorizontalStep DEF Frame, IInv, YInv
  <2>4. QED
    BY <2>2, <2>3 DEF Smooth
<1>3. CASE UNCHANGED marioVars
  BY <1>3
<1>4. QED
  BY <1>1, <1>2, <1>3 DEF Next

(* There is no double jump.                                                *)
THEOREM NeverDoubleJumps == Spec => NoDoubleJump
<1>1. IInv /\ [Next]_marioVars => [NoDouble]_marioVars
  BY StepMoves
<1>2. QED
  BY <1>1, Inductive, PTL DEF Spec, NoDoubleJump, NoDouble

(* Mario moves by steps and the world by blocks, and two scrolls are never *)
(* adjacent.                                                               *)
THEOREM MovesSmoothly == Spec => SmoothMotion
<1>1. IInv /\ [Next]_marioVars => [Smooth]_marioVars
  BY StepMoves
<1>2. QED
  BY <1>1, Inductive, PTL DEF Spec, SmoothMotion, Smooth
=============================================================================
