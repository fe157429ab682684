------------------------------ MODULE LevelData ------------------------------
(***************************************************************************)
(* The level that is burnt into the board (LevelMem.mif), and the board's  *)
(* numbers: what the theorems about the game assume of both holds of them. *)
(* A word lists its control bits and its blocks from the top row down.     *)
(***************************************************************************)
LOCAL INSTANCE Integers
LOCAL INSTANCE TLC

LOCAL Word36(control, rows) ==
  [control |-> control, blocks |-> [r \in 0..9 |-> rows[r + 1]]]

LOCAL Sky == <<0, 0, 0, 0, 0, 0, 0, 0, 0, 0>>

(* Two pipes, two cages with a goomba, bricks in mid-air, coins, stairs,   *)
(* coins above a row of bricks, and the wall one sees when leaving the     *)
(* level at the end.                                                       *)
LOCAL Scenery ==
  12 :> Word36(0, <<0, 0, 0, 0, 0, 0, 0, 4, 6, 6>>) @@
  13 :> Word36(0, <<0, 0, 0, 0, 0, 0, 0, 5, 7, 7>>) @@
  15 :> Word36(0, <<0, 0, 0, 0, 0, 0, 0, 0, 0, 1>>) @@
  17 :> Word36(1, Sky) @@
  20 :> Word36(0, <<0, 0, 0, 0, 0, 0, 0, 0, 0, 1>>) @@
  25 :> Word36(0, <<0, 0, 0, 0, 0, 0, 2, 0, 0, 0>>) @@
  26 :> Word36(0, <<0, 0, 0, 0, 2, 0, 2, 0, 0, 0>>) @@
  27 :> Word36(0, <<0, 0, 3, 0, 2, 0, 2, 0, 0, 0>>) @@
  28 :> Word36(0, <<0, 0, 0, 0, 2, 0, 2, 0, 0, 0>>) @@
  29 :> Word36(0, <<0, 0, 0, 0, 0, 0, 2, 0, 0, 0>>) @@
  31 :> Word36(32, Sky) @@
  32 :> Word36(42, Sky) @@
  33 :> Word36(52, Sky) @@
  34 :> Word36(62, Sky) @@
  40 :> Word36(0, <<0, 0, 0, 0, 0, 0, 0, 0, 0, 1>>) @@
  43 :> Word36(1, Sky) @@
  45 :> Word36(0, <<0, 0, 0, 0, 0, 0, 0, 0, 0, 1>>) @@
  50 :> Word36(0, <<0, 0, 0, 0, 0, 0, 0, 0, 0, 2>>) @@
  51 :> Word36(0, <<0, 0, 0, 0, 0, 0, 0, 0, 2, 2>>) @@
  52 :> Word36(0, <<0, 0, 0, 0, 0, 0, 0, 2, 2, 2>>) @@
  53 :> Word36(0, <<0, 0, 0, 0, 0, 0, 2, 2, 2, 2>>) @@
  54 :> Word36(0, <<0, 0, 0, 0, 0, 2, 2, 2, 2, 2>>) @@
  55 :> Word36(0, <<0, 0, 0, 0, 2, 2, 2, 2, 2, 2>>) @@
  57 :> Word36(32, Sky) @@
  58 :> Word36(62, Sky) @@
  59 :> Word36(43, Sky) @@
  60 :> Word36(52, Sky) @@
  65 :> Word36(0, <<0, 0, 0, 0, 0, 0, 4, 6, 6, 6>>) @@
  66 :> Word36(0, <<0, 0, 0, 0, 0, 0, 5, 7, 7, 7>>) @@
  72 :> Word36(36, <<0, 0, 0, 0, 0, 0, 0, 0, 2, 0>>) @@
  73 :> Word36(61, <<0, 0, 0, 0, 0, 0, 0, 0, 2, 0>>) @@
  74 :> Word36(44, <<0, 0, 0, 0, 0, 0, 0, 0, 2, 0>>) @@
  75 :> Word36(52, <<0, 0, 0, 0, 0, 0, 0, 0, 2, 0>>) @@
  255 :> Word36(0, <<4, 5, 6, 7, 6, 5, 4, 3, 2, 1>>)

BoardLevel ==
  [a \in 0..255 |-> IF a \in DOMAIN Scenery THEN Scenery[a] ELSE Word36(0, Sky)]

(* The game at the size it is built; only constants of it are looked at.   *)
Board == INSTANCE Toplevel WITH
  HalfSize <- 20, X_Min <- 120, Y_Min <- 40, Cols <- 10, Rows <- 10, Word <- 1024,
  X_Step <- 2, Y_Step <- 2, JumpFrames <- 95, Keys <- 0..65535,
  GoombaReach <- 18, GoombaStep <- 1, CoinSize <- 19, H_TOTAL <- 800, V_TOTAL <- 525,
  LevelMem <- BoardLevel, Depth <- 256, ScoreWrap <- 256, Buttons <- BOOLEAN,
  Mario_X_Pos <- 0, Mario_Y_Pos <- 0, Jump_Counter <- 0, Falling <- 0, is_jumping <- 0,
  Goomba_X_Pos <- 0, Goomba_Y_Pos <- 0, Goomba_X_Motion <- 0, isAlive <- 0,
  kill_Mario <- 0, goomba_killed <- 0, coins <- 0, blockCols <- 0,
  current_block_col <- 0, h_counter <- 0, v_counter <- 0, vga_clk <- 0,
  frame_clk_delayed <- 0, frame_clk_rising_edge <- 0, Reset_h <- 0,
  rom_addr <- 0, rom_q <- 0, start_coin <- 0, score <- 0

(* The level hides no brick where Mario's head looks for one: with the     *)
(* offsets his head reaches, three bits across two cells never read as 2.  *)
(* The tip of a pipe and the block below it would, if he could look there. *)
(* Its ground has a gap in every window and is open where a goomba comes   *)
(* in, so that no goomba walks off the screen.                             *)
ASSUME BoardFits ==
  /\ Board!PlayfieldAssumption
  /\ Board!ToplevelAssumption
  /\ Board!MotionAssumption
  /\ Board!NoFalseBricks
  /\ Board!GoombaFits
  /\ Board!OpenGround
=============================================================================
