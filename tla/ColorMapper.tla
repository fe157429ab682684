----------------------------- MODULE ColorMapper -----------------------------
(***************************************************************************)
(* What Color_Mapper.sv reads from the sprite sheet for a pixel of the     *)
(* screen, and the comparisons by which Mario, goomba, coins and block     *)
(* array say what lies there.  All of it is combinational: functions of    *)
(* the pixel (x, y) and of a scene s, the registers of the game that are   *)
(* drawn.  The numbers are those of the board, since the offsets are right *)
(* for these numbers only.                                                 *)
(*                                                                         *)
(* A scene is a record: Mario's and the goomba's centres (mx, my, gx, gy), *)
(* what chooses their sprites (is_jumping, direction, run_counter,         *)
(* isAlive, goomba_sprite), the centres of the running coins and the cells *)
(* of the window, column by column.                                        *)
(***************************************************************************)
EXTENDS Integers

SSWidth      == 200     \* the sheet is five by five sprites
SSHeight     == 200
SpriteLength == 40
AddressWord  == 65536   \* values of pixelAddress
FigureSize   == 20      \* Mario_X_Size and the like: half a sprite
CoinRadius   == 19

Bits10(n) == n % 1024

(* Whether a figure centred on (px, py) covers the pixel.                  *)
Covers(px, py, x, y) ==
  /\ Bits10(px - FigureSize) <= x /\ x < Bits10(px + FigureSize)
  /\ Bits10(py - FigureSize) <= y /\ y < Bits10(py + FigureSize)

is_mario(s, x, y) == Covers(s.mx, s.my, x, y)

draw_is_goomba(s, x, y) == s.isAlive /\ Covers(s.gx, s.gy, x, y)

InCoin(c, x, y) ==
  (x - c.x) * (x - c.x) + (y - c.y) * (y - c.y) <= CoinRadius * CoinRadius

is_coin(s, x, y) == \E c \in s.coins : InCoin(c, x, y)

block_id_out(s, x, y) ==
  s.blockCols[Bits10(x - 120) \div SpriteLength][Bits10(y - 40) \div SpriteLength]

(* What is drawn at the pixel: the first of these that lies there.         *)
Layer(s, x, y) ==
  IF x < 120 \/ x >= 520 \/ y < 40 THEN "wall"
  ELSE IF y >= 440 THEN "floor"
  ELSE IF is_mario(s, x, y) THEN "mario"
  ELSE IF draw_is_goomba(s, x, y) THEN "goomba"
  ELSE IF is_coin(s, x, y) THEN "coin"
  ELSE "block"
-----------------------------------------------------------------------------
(* Sprites, as <<column, row>> of the sheet.                               *)
MarioSprite(s) ==
  IF s.is_jumping THEN <<2 + s.direction, 0>>
  ELSE IF s.direction = 0 THEN <<1 + s.run_counter, IF s.run_counter = 0 THEN 0 ELSE 1>>
  ELSE <<<<0, 0>>, <<4, 0>>, <<0, 1>>, <<1, 1>>>>[s.run_counter + 1]

BlockSprite(id) ==
  <<<<4, 4>>, <<2, 3>>, <<0, 2>>, <<1, 3>>, <<1, 2>>, <<2, 2>>, <<3, 3>>, <<4, 3>>>>[id + 1]

(* layer is Layer(s, x, y), here and below.                                *)
Sprite(layer, s, x, y) ==
  IF layer = "wall" THEN <<0, 4>>
  ELSE IF layer = "floor" THEN <<2, 3>>
  ELSE IF layer = "mario" THEN MarioSprite(s)
  ELSE IF layer = "goomba" THEN <<3 + s.goomba_sprite, 2>>
  ELSE IF layer = "coin" THEN <<0, 3>>
  ELSE BlockSprite(block_id_out(s, x, y))

(* PixelX or PixelY: the distance d from the corner of the window or, for  *)
(* a figure, from its centre.  Names with a Bug suffix are deliberate      *)
(* mutations of the definition that follows them.                          *)
FromFigure_CentreBug(d, centre) == Bits10(d - centre)

FromFigure(d, centre) == Bits10(d - centre - 4)

PixelX(layer, s, x) ==
  IF layer = "mario" THEN FromFigure(x - 120, s.mx)
  ELSE IF layer = "goomba" THEN FromFigure(x - 120, s.gx)
  ELSE Bits10(x - 120)

PixelY(layer, s, y) ==
  IF layer = "mario" THEN FromFigure(y - 40, s.my)
  ELSE IF layer = "goomba" THEN FromFigure(y - 40, s.gy)
  ELSE Bits10(y - 40)

(* px and py are PixelX and PixelY.                                        *)
pixelAddress(sprite, px, py) ==
  LET sum == SSWidth * SpriteLength * sprite[2] + SpriteLength * sprite[1]
             + (px % SpriteLength) + (py % SpriteLength) * SSWidth
  IN  sum % AddressWord
=============================================================================
