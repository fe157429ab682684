------------------------------ MODULE MCToplevel ------------------------------
(***************************************************************************)
(* Small levels for the whole game: a window of 6 x 5 blocks of 4 pixels,  *)
(* and a level memory of 8 words that starts again where it ends.  Play    *)
(* begins with word 6 on the screen and word 7 next.  The rows of a column *)
(* are listed from the top.                                                *)
(***************************************************************************)
EXTENDS Toplevel, LevelData, TLC

Blocks(a, b, c, d, e) ==
  0 :> a @@ 1 :> b @@ 2 :> c @@ 3 :> d @@ 4 :> e

Col(control, blocks) == [control |-> control, blocks |-> blocks]

Open == Blocks(0, 0, 0, 0, 0)

\* Control bits: 1 a goomba; 32 + 8 * number + 4 * row a coin.
Walker == 1
CoinNo(number) == 32 + 8 * number

\* Bricks in mid-air and high up, a pipe of two blocks, two coins.
BrickLevel ==
  6 :> Col(0, Open) @@
  7 :> Col(CoinNo(0), Open) @@
  0 :> Col(0, Blocks(0, 0, 2, 0, 0)) @@
  1 :> Col(0, Blocks(0, 0, 0, 0, 6)) @@
  2 :> Col(0, Blocks(0, 0, 0, 5, 7)) @@
  3 :> Col(CoinNo(1), Open) @@
  4 :> Col(0, Blocks(0, 2, 0, 0, 0)) @@
  5 :> Col(0, Open)

\* A goomba on open ground and one before a wall.
GoombaLevel ==
  6 :> Col(0, Open) @@
  7 :> Col(Walker, Open) @@
  0 :> Col(0, Blocks(0, 0, 0, 0, 1)) @@
  1 :> Col(0, Open) @@
  2 :> Col(Walker, Open) @@
  3 :> Col(0, Open) @@
  4 :> Col(0, Open) @@
  5 :> Col(0, Open)

AllKeys == {KeyA, KeyD, KeyW}
Forward == {KeyD, KeyW}
NoPress == {FALSE}
AnyPress == BOOLEAN
=============================================================================
