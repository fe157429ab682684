-------------------------------- MODULE Mario --------------------------------
(***************************************************************************)
(* Mario's motion (Mario.sv).  The registers change on every posedge of    *)
(* Clk, but to anything new only on a reset and on the one posedge per     *)
(* video frame on which frame_clk_rising_edge is high: a step here is one  *)
(* of those two, every other posedge holds the registers (a stutter).      *)
(*                                                                         *)
(* The polls are the blocks block_array reports next to Mario; Mario.sv    *)
(* assumes nothing of them, so neither does this module: each frame brings *)
(* any keycode and any four polls.                                         *)
(*                                                                         *)
(* Left out here: direction, run_counter and run_sprite_timer, which       *)
(* nothing below reads (module MarioSprite adds them), and the registers   *)
(* Mario_X_Motion and Mario_Y_Motion, which nothing in the design reads.   *)
(***************************************************************************)
EXTENDS Playfield

CONSTANTS
  X_Step,      \* pixels per frame along X on the ground, one less in a jump
  Y_Step,      \* pixels per frame along Y
  JumpFrames,  \* the frame of a jump on which it has reached its height
  Keys,        \* keycodes the USB software may show
  Polls        \* blocks a poll may report

ASSUME MarioAssumption ==
  /\ X_Step \in Nat /\ X_Step >= 2 /\ X_Step <= HalfSize
  /\ Y_Step \in Nat /\ Y_Step >= 1 /\ Y_Step <= HalfSize
  /\ 2 * Y_Step <= Y_Min
  /\ JumpFrames \in Nat \ {0}
  /\ Keys \subseteq Nat
  /\ Polls \subseteq BlockId

VARIABLES
  Mario_X_Pos, Mario_Y_Pos,  \* centre of the figure
  Jump_Counter,              \* frames of the present jump, 0 outside a jump
  Falling,
  is_jumping                 \* a jump began and has not ended on ground

marioVars == <<Mario_X_Pos, Mario_Y_Pos, Jump_Counter, Falling, is_jumping>>
-----------------------------------------------------------------------------
(* The vertical half of a frame.  Exactly one of these is enabled.         *)

(* Names with a Bug suffix are deliberate mutations of the definition that *)
(* follows them; the properties below are seen to fail with them.          *)
CanJump_InAirBug(key, up) ==
  key = KeyW /\ Jump_Counter = 0 /\ up = Air

CanJump(key, up) ==
  key = KeyW /\ ~Falling /\ Jump_Counter = 0 /\ up = Air

MoveY(dy) == Mario_Y_Pos' = W10(Mario_Y_Pos + dy)

BeginJump_LateBug(key, up) ==
  /\ CanJump(key, up)
  /\ Jump_Counter' = 1
  /\ is_jumping' = TRUE
  /\ UNCHANGED <<Mario_Y_Pos, Falling>>

BeginJump(key, up) ==
  /\ CanJump(key, up)
  /\ MoveY(-Y_Step)
  /\ Jump_Counter' = 1
  /\ is_jumping' = TRUE
  /\ UNCHANGED Falling

JumpStops_NoLimitBug(up) ==
  W10(Mario_Y_Pos - HalfSize) <= Y_Min \/ up # Air

(* The jump is over: full height, top of the screen, or a block above.     *)
JumpStops(up) ==
  \/ Jump_Counter = JumpFrames
  \/ W10(Mario_Y_Pos - HalfSize) <= Y_Min
  \/ up # Air

TopOut_KeepsCounterBug(up) ==
  /\ Jump_Counter >= 1
  /\ JumpStops(up)
  /\ MoveY(Y_Step)
  /\ Falling' = TRUE
  /\ is_jumping' = TRUE
  /\ UNCHANGED Jump_Counter

TopOut(up) ==
  /\ Jump_Counter >= 1
  /\ JumpStops(up)
  /\ MoveY(Y_Step)
  /\ Jump_Counter' = 0
  /\ Falling' = TRUE
  /\ is_jumping' = TRUE

Rise(up) ==
  /\ Jump_Counter >= 1
  /\ ~JumpStops(up)
  /\ MoveY(-Y_Step)
  /\ Jump_Counter' = Jump_Counter + 1
  /\ is_jumping' = TRUE
  /\ UNCHANGED Falling

Grounded(down) ==
  W10(Mario_Y_Pos + HalfSize - 1) >= Y_Max \/ down # Air

Land_KeepsFlagBug(key, up, down) ==
  /\ Jump_Counter = 0 /\ ~CanJump(key, up)
  /\ Grounded(down)
  /\ Falling' = FALSE
  /\ UNCHANGED <<Mario_Y_Pos, Jump_Counter, is_jumping>>

Land(key, up, down) ==
  /\ Jump_Counter = 0 /\ ~CanJump(key, up)
  /\ Grounded(down)
  /\ Falling' = FALSE
  /\ Jump_Counter' = 0
  /\ is_jumping' = FALSE
  /\ UNCHANGED Mario_Y_Pos

Fall(key, up, down) ==
  /\ Jump_Counter = 0 /\ ~CanJump(key, up)
  /\ ~Grounded(down)
  /\ MoveY(Y_Step)
  /\ Falling' = TRUE
  /\ UNCHANGED <<Jump_Counter, is_jumping>>

Vertical(key, up, down) ==
  \/ BeginJump(key, up)
  \/ TopOut(up)
  \/ Rise(up)
  \/ Land(key, up, down)
  \/ Fall(key, up, down)
-----------------------------------------------------------------------------
(* The horizontal half.  At the middle of the screen the world scrolls by  *)
(* one block instead, whatever key is down; the jump's slower step uses    *)
(* the is_jumping of the previous frame.                                   *)

X_Mid == (X_Max + X_Min) \div 2

ScrollDue == Mario_X_Pos + HalfSize + 1 > X_Mid

Scroll_ShortBug ==
  /\ ScrollDue
  /\ Mario_X_Pos' = W10(Mario_X_Pos - X_Step)

Scroll ==
  /\ ScrollDue
  /\ Mario_X_Pos' = W10(Mario_X_Pos - BlockSize)

Stride == IF is_jumping THEN X_Step - 1 ELSE X_Step

GoesLeft_NoBoundBug(key, left) ==
  key = KeyA /\ left = Air

GoesLeft(key, left) ==
  key = KeyA /\ left = Air /\ Mario_X_Pos >= X_Min + HalfSize

GoesRight(key, right) ==
  key = KeyD /\ right = Air /\ W10(Mario_X_Pos + HalfSize) <= X_Max

MoveLeft(key, left) ==
  /\ ~ScrollDue
  /\ GoesLeft(key, left)
  /\ Mario_X_Pos' = W10(Mario_X_Pos - Stride)

MoveRight(key, right) ==
  /\ ~ScrollDue
  /\ GoesRight(key, right)
  /\ Mario_X_Pos' = W10(Mario_X_Pos + Stride)

StandStill(key, left, right) ==
  /\ ~ScrollDue
  /\ ~GoesLeft(key, left) /\ ~GoesRight(key, right)
  /\ UNCHANGED Mario_X_Pos

Horizontal(key, left, right) ==
  \/ Scroll
  \/ MoveLeft(key, left)
  \/ MoveRight(key, right)
  \/ StandStill(key, left, right)
-----------------------------------------------------------------------------
AtStart ==
  /\ Mario_X_Pos = X_Min + HalfSize
  /\ Mario_Y_Pos = Y_Max - HalfSize
  /\ Jump_Counter = 0
  /\ Falling = FALSE
  /\ is_jumping = FALSE

Init == AtStart

Reset ==
  /\ Mario_X_Pos' = X_Min + HalfSize
  /\ Mario_Y_Pos' = Y_Max - HalfSize
  /\ Jump_Counter' = 0
  /\ Falling' = FALSE
  /\ is_jumping' = FALSE

Frame(key, up, down, left, right) ==
  /\ Vertical(key, up, down)
  /\ Horizontal(key, left, right)

FrameStep ==
  \E key \in Keys, up, down, left, right \in Polls :
    Frame(key, up, down, left, right)

Next == Reset \/ FrameStep

Spec == Init /\ [][Next]_marioVars
-----------------------------------------------------------------------------
(* Mario standing on the bottom row; one step below the position he is     *)
(* reset to, because he falls one more frame before he is on the ground.   *)
Y_Floor == Y_Max - HalfSize + Y_Step

(* The first height at which the top of the screen turns him back.         *)
Y_Ceiling == Y_Min + HalfSize + 1 - Y_Step

TypeOK ==
  /\ Mario_X_Pos \in 0..(Word - 1)
  /\ Mario_Y_Pos \in 0..(Word - 1)
  /\ Jump_Counter \in 0..JumpFrames
  /\ Falling \in BOOLEAN
  /\ is_jumping \in BOOLEAN

(* Whatever the polls and the keys, Mario stays where the window and the   *)
(* scroll leave him: he overlaps the left border by less than a step, does *)
(* not pass the middle by a step, and never sinks below the bottom row.    *)
(* He can top the ceiling by a step, but only while a jump carries him.    *)
(* None of the 10-bit sums of Mario.sv wraps around inside these bounds.   *)
InPicture ==
  /\ Mario_X_Pos \in (X_Min + HalfSize - X_Step)..(X_Mid - HalfSize + X_Step - 1)
  /\ Mario_Y_Pos \in (Y_Ceiling - Y_Step)..Y_Floor
  /\ Mario_Y_Pos < Y_Ceiling => Jump_Counter > 0

(* The three registers that say what Mario is doing never contradict each  *)
(* other: a rising Mario is jumping and not falling, and a jump that has   *)
(* begun is either still rising or falling.                                *)
FlagsAgree ==
  /\ Jump_Counter > 0 => is_jumping /\ ~Falling
  /\ is_jumping => Jump_Counter > 0 \/ Falling

(* A jump never lifts Mario more than Jump_Counter steps above the floor:  *)
(* the counter and the position, two registers updated in different        *)
(* branches, stay in step from take-off to the top.                        *)
JumpHeight ==
  Jump_Counter > 0 => Mario_Y_Pos + Y_Step * Jump_Counter <= Y_Floor

(* A jump begins only when the previous one has ended on ground: there is  *)
(* no double jump, although BeginJump never looks at is_jumping.           *)
NoDoubleJump ==
  [][Jump_Counter = 0 /\ Jump_Counter' = 1 => ~is_jumping]_marioVars

(* Outside a reset Mario moves by at most one step along each axis, or by  *)
(* exactly one block to the left when the world scrolls; the frame after a *)
(* scroll is never another scroll.                                         *)
SmoothMotion ==
  [][\/ AtStart'
     \/ /\ Mario_Y_Pos' - Mario_Y_Pos \in {-Y_Step, 0, Y_Step}
        /\ IF ScrollDue
             THEN Mario_X_Pos' = Mario_X_Pos - BlockSize /\ ~ScrollDue'
             ELSE Mario_X_Pos' - Mario_X_Pos \in (-X_Step)..X_Step]_marioVars

(* Every jump ends: he comes to stand again, or the game is reset.         *)
JumpEnds == is_jumping ~> ~is_jumping
=============================================================================
