------------------------------- MODULE Toplevel -------------------------------
(***************************************************************************)
(* The game as it is wired in FPGAMario_toplevel.sv: Mario, the goomba,    *)
(* the coins, the block array, the level memory, the VGA counters and the  *)
(* score, all clocked by Clk.  A step is one posedge of Clk, on which      *)
(* every register takes its next value from the old values of the others.  *)
(* What differs from one posedge to the next is whether Reset_h is high    *)
(* (ResetTick), else whether it is the posedge of a new frame (FrameTick), *)
(* else neither (QuietTick).                                               *)
(*                                                                         *)
(* The keycode is written by the NIOS II at any time; the game reads it on *)
(* frame edges only, so a FrameTick picks it.  The reset button KEY[0] is  *)
(* not synchronised to anything: any posedge may find it pressed.          *)
(*                                                                         *)
(* Left out: the picture (is_mario, is_coin, draw_is_goomba, block_id_out, *)
(* color_mapper), the hex displays and the USB interface, none of which    *)
(* feeds back into the game but for the keycode.                           *)
(***************************************************************************)
EXTENDS Playfield, FiniteSets

CONSTANTS
  X_Step, Y_Step, JumpFrames, Keys,   \* Mario
  GoombaReach, GoombaStep, CoinSize,  \* the goomba and the coins
  H_TOTAL, V_TOTAL,                   \* the video frame
  LevelMem,     \* address -> [control : 0..63, blocks : Column]
  Depth,        \* words of level memory, and values of current_block_col
  ScoreWrap,    \* values of the score register (8 bits: 256)
  Buttons       \* what KEY[0] may show: {FALSE}, or BOOLEAN with presses

Words == [control : 0..63, blocks : [0..(Rows - 1) -> BlockId]]

(* A frame lasts longer than the level memory takes to answer and than a   *)
(* reset takes to go round.                                                *)
ASSUME ToplevelAssumption ==
  /\ GoombaReach \in 0..HalfSize
  /\ GoombaStep \in 1..HalfSize
  /\ CoinSize \in 0..HalfSize
  /\ H_TOTAL \in Nat /\ V_TOTAL \in Nat /\ H_TOTAL * V_TOTAL >= 3
  /\ Depth \in Nat /\ Depth > Cols
  /\ LevelMem \in [0..(Depth - 1) -> Words]
  /\ ScoreWrap \in Nat \ {0}
  /\ Buttons \subseteq BOOLEAN /\ FALSE \in Buttons

(* The steps and the height of Mario's jump, as in module Mario.           *)
ASSUME MotionAssumption ==
  /\ X_Step \in Nat /\ X_Step >= 2 /\ X_Step <= HalfSize
  /\ Y_Step \in Nat /\ Y_Step >= 1 /\ Y_Step <= HalfSize
  /\ 2 * Y_Step <= Y_Min
  /\ JumpFrames \in Nat \ {0}
  /\ Keys \subseteq Nat

VARIABLES
  Mario_X_Pos, Mario_Y_Pos, Jump_Counter, Falling, is_jumping,
  Goomba_X_Pos, Goomba_Y_Pos, Goomba_X_Motion, isAlive, kill_Mario, goomba_killed,
  coins,
  blockCols, current_block_col,
  h_counter, v_counter,
  vga_clk,                 \* the next posedge of Clk is one of VGA_CLK too
  frame_clk_delayed, frame_clk_rising_edge,
  Reset_h,
  rom_addr, rom_q,         \* the two registers inside the level memory
  start_coin,              \* the instances whose start input is high
  score

M  == INSTANCE Mario WITH Polls <- BlockId
G  == INSTANCE Goomba
C  == INSTANCE Coin
B  == INSTANCE BlockArray WITH ColumnWrap <- Depth
V  == INSTANCE VgaCounters

clockVars == <<h_counter, v_counter, vga_clk, frame_clk_delayed, frame_clk_rising_edge, Reset_h>>
memVars   == <<rom_addr, rom_q, start_coin, score>>
gameVars  == <<Mario_X_Pos, Mario_Y_Pos, Jump_Counter, Falling, is_jumping,
               Goomba_X_Pos, Goomba_Y_Pos, Goomba_X_Motion, isAlive, kill_Mario,
               goomba_killed, coins, blockCols, current_block_col>>
vars      == <<gameVars, clockVars, memVars>>
-----------------------------------------------------------------------------
(* The word the level memory shows: a block column and six control bits.   *)

new_block_id    == rom_q.blocks
new_col_control == rom_q.control

GoombaBit  == new_col_control % 2 = 1            \* new_col_control[0]
StartBlock == (new_col_control \div 4) % 4       \* new_col_control[3:2]
CoinBit    == new_col_control \div 32 = 1        \* new_col_control[5]
CoinNumber == (new_col_control \div 8) % 4       \* new_col_control[4:3]

NewFrame == frame_clk_rising_edge
Shift    == NewFrame /\ M!ScrollDue
-----------------------------------------------------------------------------
(* Registers that step the same way on every posedge.  Names with a Bug    *)
(* suffix are deliberate mutations of the definition that follows them.    *)

ReadLevel_EveryAddressBug ==
  /\ rom_addr' = current_block_col
  /\ rom_q' = LevelMem[(rom_addr + 1) % Depth]

(* The level memory registers its address and its output: the word shown   *)
(* is that of current_block_col two posedges ago.                          *)
ReadLevel ==
  /\ rom_addr' = current_block_col
  /\ rom_q' = LevelMem[rom_addr]

DecodeCoin == start_coin' = IF CoinBit THEN {CoinNumber} ELSE {}

CoinsTaken == Cardinality({i \in C!CoinIds : coins[i].taken})

AddScore_WidthBug ==
  score' = score + CoinsTaken + (IF goomba_killed THEN 2 ELSE 0)

AddScore ==
  score' = (score + CoinsTaken + (IF goomba_killed THEN 2 ELSE 0)) % ScoreWrap

SampleReset_NoKillBug(pressed) == Reset_h' = pressed

SampleReset(pressed) == Reset_h' = (pressed \/ kill_Mario)

StepVga_NoResetBug ==
  /\ vga_clk' = ~vga_clk
  /\ IF vga_clk THEN V!Count ELSE UNCHANGED <<h_counter, v_counter>>

(* VGA_CLK runs at half the rate of Clk.                                   *)
StepVga ==
  /\ vga_clk' = ~vga_clk
  /\ CASE vga_clk /\ Reset_h  -> V!ResetCounters
       [] vga_clk /\ ~Reset_h -> V!Count
       [] OTHER               -> UNCHANGED <<h_counter, v_counter>>

DetectFrame_StickyBug ==
  /\ frame_clk_delayed' = (V!frame_clk \/ frame_clk_delayed)
  /\ frame_clk_rising_edge' = (V!frame_clk /\ ~frame_clk_delayed)

DetectFrame_LevelBug ==
  /\ frame_clk_delayed' = V!frame_clk
  /\ frame_clk_rising_edge' = V!frame_clk

(* Mario, the goomba and the coins each have this edge detector; the three *)
(* copies have the same inputs and no reset, so one stands for all.        *)
DetectFrame ==
  /\ frame_clk_delayed' = V!frame_clk
  /\ frame_clk_rising_edge' = (V!frame_clk /\ ~frame_clk_delayed)

Always(pressed) ==
  /\ ReadLevel
  /\ DecodeCoin
  /\ AddScore
  /\ SampleReset(pressed)
  /\ StepVga
  /\ DetectFrame
-----------------------------------------------------------------------------
(* Every register with a reset takes its reset value.                      *)
ResetTick(pressed) ==
  /\ Reset_h
  /\ Always(pressed)
  /\ M!Reset
  /\ G!Restart
  /\ C!ResetCoins
  /\ B!ResetBoard(new_block_id)

StepGoomba ==
  IF GoombaBit
    THEN G!Spawn
    ELSE \E left \in B!GoombaLeft(Goomba_X_Pos, Goomba_Y_Pos),
            right \in B!GoombaRight(Goomba_X_Pos, Goomba_Y_Pos) :
           G!FrameEdge(Mario_X_Pos, Mario_Y_Pos, left, right, Shift)

StepBoard(up) ==
  IF Shift THEN B!ShiftIn(new_block_id)
           ELSE B!BreakBrick(Mario_X_Pos, Mario_Y_Pos, up)

FrameTick(pressed, key) ==
  /\ ~Reset_h /\ NewFrame
  /\ Always(pressed)
  /\ \E up \in B!MarioUp(Mario_X_Pos, Mario_Y_Pos) :
       /\ StepBoard(up)
       /\ \E down \in B!MarioDown(Mario_X_Pos, Mario_Y_Pos),
             left \in B!MarioLeft(Mario_X_Pos, Mario_Y_Pos),
             right \in B!MarioRight(Mario_X_Pos, Mario_Y_Pos) :
            M!Frame(key, up, down, left, right)
  /\ StepGoomba
  /\ C!StepCoins(start_coin, StartBlock, TRUE, Shift, Mario_X_Pos, Mario_Y_Pos)

QuietTick(pressed) ==
  /\ ~Reset_h /\ ~NewFrame
  /\ Always(pressed)
  /\ \E up \in B!MarioUp(Mario_X_Pos, Mario_Y_Pos) :
       B!BreakBrick(Mario_X_Pos, Mario_Y_Pos, up)
  /\ UNCHANGED <<Mario_X_Pos, Mario_Y_Pos, Jump_Counter, Falling, is_jumping>>
  /\ IF GoombaBit THEN G!Spawn ELSE G!Hold
  /\ C!StepCoins(start_coin, StartBlock, FALSE, FALSE, Mario_X_Pos, Mario_Y_Pos)
-----------------------------------------------------------------------------
(* Power-up with KEY[0] held until every register is at its reset value    *)
(* and the level memory shows the word of address Cols; the registers the  *)
(* reset does not touch start at 0.  The button has just been let go.      *)
Init ==
  /\ M!Init
  /\ Goomba_X_Pos = 0 /\ Goomba_Y_Pos = 0 /\ Goomba_X_Motion = 0
  /\ isAlive = FALSE /\ kill_Mario = FALSE /\ goomba_killed = FALSE
  /\ coins = [i \in C!CoinIds |-> C!Idle]
  /\ current_block_col = Cols % Depth
  /\ rom_addr = current_block_col
  /\ rom_q = LevelMem[rom_addr]
  /\ blockCols = [i \in 0..(Cols - 1) |-> new_block_id]
  /\ h_counter = 0 /\ v_counter = 0 /\ vga_clk \in BOOLEAN
  /\ frame_clk_delayed = TRUE /\ frame_clk_rising_edge = FALSE
  /\ Reset_h = FALSE
  /\ start_coin = IF CoinBit THEN {CoinNumber} ELSE {}
  /\ score = 0

Next ==
  \/ \E pressed \in Buttons : ResetTick(pressed)
  \/ \E pressed \in Buttons, key \in Keys : FrameTick(pressed, key)
  \/ \E pressed \in Buttons : QuietTick(pressed)

Spec == Init /\ [][Next]_vars

(* CLOCK_50 never stops.                                                   *)
FairSpec == Spec /\ WF_vars(Next)
-----------------------------------------------------------------------------
TypeOK ==
  /\ M!TypeOK
  /\ G!GoombaTypeOK
  /\ C!CoinTypeOK
  /\ B!BlockTypeOK
  /\ V!CountTypeOK
  /\ vga_clk \in BOOLEAN /\ frame_clk_delayed \in BOOLEAN
  /\ frame_clk_rising_edge \in BOOLEAN /\ Reset_h \in BOOLEAN
  /\ rom_addr \in 0..(Depth - 1) /\ rom_q \in Words
  /\ start_coin \subseteq C!CoinIds
  /\ score \in 0..(ScoreWrap - 1)

(* The offsets at which the block above Mario's head is looked up.  Above  *)
(* the window the row number wraps around, and the offset may not be that  *)
(* of a row any more: 11 on the board.                                     *)
HeadOffsets == {B!Offset(y - HalfSize) : y \in (M!Y_Ceiling - Y_Step)..M!Y_Floor}

(* What the data of the level has to see to: that Mario's head finds no    *)
(* brick where there is none.                                              *)
NoFalseBricks ==
  \A a \in 0..(Depth - 1), off \in HeadOffsets :
    ~B!FalseBrick(LevelMem[a].blocks, off)

(* What keeps a goomba on the screen: the numbers of the screen, and that  *)
(* the ground of the level has a gap in every window and lies open where a *)
(* goomba comes in.                                                        *)
GoombaFits ==
  /\ X_Min >= 3 * HalfSize + GoombaStep /\ GoombaStep = 1
  /\ GoombaReach \in 1..(HalfSize - 2)
  /\ 3 * (Rows - 1) <= 31
  /\ \A y \in (M!Y_Ceiling - Y_Step)..(Y_Min + HalfSize - 1) :
       B!Offset(y - HalfSize) # 3 * (Rows - 1)

Ground(a) == LevelMem[a % Depth].blocks[Rows - 1]

OpenGround ==
  /\ Ground(Cols) = Air
  /\ \A a \in 0..(Depth - 1) : \E i \in 0..(Cols - 1) : Ground(a + i) = Air
  /\ \A a \in 0..(Depth - 1) :
       LevelMem[a].control % 2 = 1 => a # Cols /\ Ground(a) = Air /\ Ground(a - 1) = Air

(* Column c as the level memory holds it but for bricks Mario has broken.  *)
WornFrom(c, address) ==
  \A r \in 0..(Rows - 1) :
    LET was == LevelMem[address % Depth].blocks[r]
    IN  c[r] = was \/ (c[r] = Air /\ was = Brick)

(* The board is the level, in order: its n newest columns are the n words  *)
(* before current_block_col, none skipped and none twice, although the     *)
(* memory answers two posedges late; what a reset put there is older than  *)
(* all of them and is one word, copied.  Blocks are missing only where the *)
(* level has a brick.                                                      *)
BoardIsLevel ==
  \E n \in 0..Cols, fill \in 0..(Depth - 1) :
    /\ current_block_col \in Cols..(2 * Cols - 1) => n \in {current_block_col - Cols, Cols}
    /\ \A i \in 0..(Cols - 1) :
         WornFrom(blockCols[i],
                  IF i >= Cols - n THEN current_block_col - Cols + i ELSE fill)

(* Between scrolls and resets the only thing that happens to a block is    *)
(* that a brick disappears, whatever offset the lookups wrap to.           *)
OnlyBricksVanish ==
  [][~Reset_h /\ ~Shift =>
       \A i \in 0..(Cols - 1), r \in 0..(Rows - 1) :
         \/ blockCols'[i][r] = blockCols[i][r]
         \/ blockCols[i][r] = Brick /\ blockCols'[i][r] = Air]_vars

(* A scroll moves Mario, the blocks around him, the goomba and the coins   *)
(* together: nothing is displaced against anything else but by its own     *)
(* step.  (A goomba or a coin held at the right edge by its start input    *)
(* has not entered the world yet; one that has just killed Mario is about  *)
(* to be reset.)                                                           *)
ScrollIsRigid ==
  [][Shift /\ ~Reset_h =>
       /\ \A dx \in (-HalfSize)..HalfSize :
            blockCols'[B!ColOf(Mario_X_Pos' + dx)] = blockCols[B!ColOf(Mario_X_Pos + dx)]
       /\ isAlive /\ isAlive' /\ ~GoombaBit /\ ~kill_Mario' =>
            Goomba_X_Pos' - Mario_X_Pos' = Goomba_X_Pos - Mario_X_Pos + Goomba_X_Motion
       /\ \A i \in C!CoinIds \ start_coin :
            coins[i].running /\ coins'[i].running =>
              coins'[i].x - Mario_X_Pos' = coins[i].x - Mario_X_Pos]_vars

(* A coin that is loose on the screen lies in the column whose control     *)
(* bits announced it, although those bits are decoded one posedge late     *)
(* and the start input is held until the next column is pending.           *)
CoinInOwnColumn ==
  \A i \in C!CoinIds \ start_coin :
    coins[i].running /\ coins[i].x >= X_Min =>
      LET control == LevelMem[(current_block_col - Cols + B!ColOf(coins[i].x)) % Depth].control
      IN  control \div 32 = 1 /\ (control \div 8) % 4 = i

(* The pulses the score counts last one posedge each, and what was paid    *)
(* for is gone after it: no coin and no goomba pays twice.                 *)
AwardsAreSingle ==
  [][/\ goomba_killed => ~isAlive /\ ~goomba_killed'
     /\ \A i \in C!CoinIds :
          coins[i].taken =>
            ~coins'[i].taken /\ (coins'[i].running => i \in start_coin)]_vars

(* The posedges a death takes to reset the game fall between two           *)
(* frames: no frame is played with a dead Mario, who could otherwise still *)
(* squish his killer.                                                      *)
DeathIsClean == kill_Mario => ~frame_clk_rising_edge /\ ~goomba_killed

(* When Reset_h is let go, everything that has a reset has seen it, the    *)
(* VGA counters included, which look at it only every second posedge.      *)
ResetComplete ==
  [][Reset_h /\ ~Reset_h' =>
       /\ M!AtStart'
       /\ ~isAlive' /\ ~kill_Mario'
       /\ \A i \in C!CoinIds : ~coins'[i].running
       /\ h_counter' = 0 /\ v_counter' = 0
       /\ current_block_col' = Cols % Depth]_vars

(* A live goomba is never right of where it is spawned, and leaves the     *)
(* screen by less than a scroll before it is taken off.                    *)
GoombaOnScreen ==
  isAlive => Goomba_X_Pos \in (X_Min - HalfSize - BlockSize - GoombaStep)..G!SpawnX

(* A death leads back to the start of the game.                            *)
DeathRestarts == kill_Mario ~> (M!AtStart /\ ~kill_Mario)

(* However often resets zero the VGA counters, frames keep coming.         *)
FramesForEver == []<>frame_clk_rising_edge
-----------------------------------------------------------------------------
(***************************************************************************)
(* Something a comment of the source says that the code does not do (what  *)
(* needs a history variable is in module BrickHistory).                    *)
(***************************************************************************)

(* goomba.sv, "Kill Mario; reset game": the reset a death causes leaves    *)
(* the screen the game began with.                                         *)
DeathRestoresBoard ==
  [][Reset_h /\ ~Reset_h' =>
       blockCols' = [i \in 0..(Cols - 1) |-> LevelMem[Cols % Depth].blocks]]_vars
=============================================================================
