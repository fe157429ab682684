------------------------------ MODULE BlockArray ------------------------------
(***************************************************************************)
(* The blocks on the screen (block_array.sv): Cols columns read from the   *)
(* level memory, the newest on the right, and the lookups that tell Mario  *)
(* and the goomba what is next to them.                                    *)
(*                                                                         *)
(* A column is one 3*Rows-bit word; a cell is read at bit offset 3*row     *)
(* kept in five bits, so a row number too large wraps to an offset that    *)
(* may straddle two cells.  Reading outside the word or the array is       *)
(* undefined: a lookup therefore returns the set of values it can yield.   *)
(***************************************************************************)
EXTENDS Playfield

CONSTANTS
  GoombaReach,  \* how far from its centre the goomba probes (10'd18)
  ColumnWrap    \* number of values of current_block_col (8 bits: 256)

VARIABLES
  blockCols,         \* column number -> row number -> block id
  current_block_col  \* address of the column that comes in next

blockVars == <<blockCols, current_block_col>>

Column == [0..(Rows - 1) -> BlockId]
-----------------------------------------------------------------------------
(* Coordinates to block numbers, in 10-bit arithmetic.                     *)

ColOf(x)  == W10(x - X_Min) \div BlockSize
RowOf(y)  == W10(y - Y_Min) \div BlockSize
Offset(y) == (3 * RowOf(y)) % 32

InColumn(off) == off + 2 < 3 * Rows

(* The three bits of a column from bit off on: the top of the cell they    *)
(* begin in and the bottom of the one after.                               *)
Slice(column, off) ==
  LET r    == off \div 3
      half == 2 ^ (off % 3)
  IN  IF half = 1
        THEN column[r]
        ELSE (column[r] \div half) + (column[r + 1] % half) * (8 \div half)

(* Three bits that read as a brick although no cell holds one: they belong *)
(* to two cells.                                                           *)
FalseBrick(column, off) ==
  off % 3 # 0 /\ InColumn(off) /\ Slice(column, off) = Brick

(* The column with those three bits cleared.                               *)
ClearSlice(column, off) ==
  LET r    == off \div 3
      half == 2 ^ (off % 3)
  IN  [i \in 0..(Rows - 1) |->
         CASE i = r     -> column[i] % half
           [] i = r + 1 -> column[i] - (column[i] % half)
           [] OTHER     -> column[i]]

(* What a read of column number c at bit offset off can return.  Outside   *)
(* the array it can be anything; Air, Brick and one other block stand for  *)
(* the eight values, since no reader tells more of them apart.             *)
Lookup(c, off) ==
  IF c < Cols /\ InColumn(off) THEN {Slice(blockCols[c], off)} ELSE {Air, 1, Brick}

MarioUp(x, y)    == Lookup(ColOf(x), Offset(y - HalfSize))
MarioDown(x, y)  == Lookup(ColOf(x), Offset(y + HalfSize - 1))
MarioLeft(x, y)  == Lookup(ColOf(x - HalfSize), Offset(y))
MarioRight(x, y) == Lookup(ColOf(x + HalfSize), Offset(y))

GoombaLeft(x, y)  == Lookup(ColOf(x - GoombaReach - 1), Offset(y))
GoombaRight(x, y) == Lookup(ColOf(x + GoombaReach), Offset(y))
-----------------------------------------------------------------------------
(* On a reset all columns become the word the level memory shows at that   *)
(* moment; they are not read from the level one by one.                    *)
ResetBoard(new_block_id) ==
  /\ blockCols' = [i \in 0..(Cols - 1) |-> new_block_id]
  /\ current_block_col' = Cols % ColumnWrap

ShiftIn(new_block_id) ==
  /\ blockCols' = [i \in 0..(Cols - 1) |->
                     IF i < Cols - 1 THEN blockCols[i + 1] ELSE new_block_id]
  /\ current_block_col' = (current_block_col + 1) % ColumnWrap

(* Names with a Bug suffix are deliberate mutations of the definition that *)
(* follows them.                                                           *)
BreakBrick_AnyBlockBug(x, y, up) ==
  LET c == ColOf(x)
      off == Offset(y - HalfSize)
  IN  /\ blockCols' = IF up # Air /\ c < Cols /\ InColumn(off)
                        THEN [blockCols EXCEPT ![c] = ClearSlice(@, off)]
                        ELSE blockCols
      /\ UNCHANGED current_block_col

(* On any other posedge the block above Mario goes if it is a brick.       *)
BreakBrick(x, y, up) ==
  LET c == ColOf(x)
      off == Offset(y - HalfSize)
  IN  /\ blockCols' = IF up = Brick /\ c < Cols /\ InColumn(off)
                        THEN [blockCols EXCEPT ![c] = ClearSlice(@, off)]
                        ELSE blockCols
      /\ UNCHANGED current_block_col

BlockTypeOK ==
  /\ blockCols \in [0..(Cols - 1) -> Column]
  /\ current_block_col \in 0..(ColumnWrap - 1)
=============================================================================
