------------------------------ MODULE Playfield ------------------------------
(***************************************************************************)
(* The geometry every part of the game shares: a window of Cols x Rows     *)
(* square blocks on the screen, the size of the two figures that move in   *)
(* it, and the width of the coordinate registers.  The hardware repeats    *)
(* these numbers in every module as parameters and literals (10'd20,       *)
(* 10'd21, 8'h28, 8'h78); here they are constants, so that one             *)
(* specification serves the real screen and the small ones TLC explores.   *)
(*                                                                         *)
(* On the board: BlockSize 40, HalfSize 20, X_Min 120, Y_Min 40, Cols 10,  *)
(* Rows 10, Word 1024 (10-bit registers), hence X_Max 519 and Y_Max 439.   *)
(***************************************************************************)
EXTENDS Integers

CONSTANTS
  HalfSize,   \* half the side of a figure; a block's side is twice that
  X_Min,      \* leftmost pixel of the window
  Y_Min,      \* topmost pixel of the window
  Cols,       \* block columns on the screen
  Rows,       \* block rows on the screen
  Word        \* number of values of a coordinate register

BlockSize == 2 * HalfSize

X_Max == X_Min + Cols * BlockSize - 1
Y_Max == Y_Min + Rows * BlockSize - 1

ASSUME PlayfieldAssumption ==
  /\ HalfSize \in Nat \ {0}
  /\ X_Min \in Nat
  /\ Y_Min \in Nat
  /\ Cols \in Nat /\ Cols >= 5
  /\ Rows \in Nat /\ Rows >= 2
  /\ Word \in Nat
  /\ X_Min >= BlockSize
  /\ X_Max + BlockSize < Word
  /\ Y_Max + BlockSize < Word

(***************************************************************************)
(* What a coordinate register holds after n is assigned to it: additions   *)
(* and subtractions wrap around.                                           *)
(***************************************************************************)
W10(n) == n % Word

(* The three-bit contents of a cell: 0 is open air, 2 a breakable brick,   *)
(* every other value a block that stays.                                   *)
BlockId == 0..7
Air     == 0
Brick   == 2

(* The USB keycodes the game reacts to.                                    *)
KeyA == 4      \* 16'h0004
KeyD == 7      \* 16'h0007
KeyW == 26     \* 16'h001A
=============================================================================
