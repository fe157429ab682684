------------------------------- MODULE Picture -------------------------------
(***************************************************************************)
(* The picture as the monitor scans it: the VGA controller walks through   *)
(* the pixels and the colour mapper reads the sprite sheet for each of     *)
(* them, while the game stands in one of the given Scenes.                 *)
(***************************************************************************)
EXTENDS VgaController, ColorMapper

CONSTANT Scenes

(* The scenes the game can show: Mario inside the window and the goomba    *)
(* not yet off it (InPicture and GoombaOnScreen with the board's numbers), *)
(* every running coin in the middle of a cell, where coin.sv drops it and  *)
(* the scrolls leave it.                                                   *)
LegalScene(s) ==
  /\ s.mx \in 138..300 /\ s.my \in 57..421
  /\ s.is_jumping \in BOOLEAN /\ s.direction \in 0..1 /\ s.run_counter \in 0..3
  /\ s.isAlive \in BOOLEAN /\ s.goomba_sprite \in 0..1
  /\ s.gx \in 0..500 /\ s.gy \in 0..420
  /\ s.isAlive => s.gx >= 59 /\ s.gy = 420
  /\ \A c \in s.coins : /\ c.x \in 100..500 /\ (c.x - 100) % 40 = 0
                        /\ c.y \in 140..260 /\ (c.y - 140) % 40 = 0
  /\ s.blockCols \in [0..9 -> [0..9 -> 0..7]]

ASSUME PictureAssumption == \A s \in Scenes : LegalScene(s)
-----------------------------------------------------------------------------
(* The address of the pixel that lies x - left and y - top inside a        *)
(* sprite, rows of the sheet one after the other.                          *)
Reads(address, sprite, left, top, x, y) ==
  /\ left <= x /\ x < left + SpriteLength
  /\ top <= y /\ y < top + SpriteLength
  /\ address = (SpriteLength * sprite[2] + y - top) * SSWidth
               + SpriteLength * sprite[1] + x - left

(* What RightPixel says of one scene and one pixel.                        *)
RightPixelOf(s, x, y) ==
  LET layer == Layer(s, x, y)
      sprite == Sprite(layer, s, x, y)
      address == pixelAddress(sprite, PixelX(layer, s, x), PixelY(layer, s, y))
      At(left, top) == Reads(address, sprite, left, top, x, y)
      i == (x - 120) \div SpriteLength
      j == (y - 40) \div SpriteLength
  IN  /\ address < SSWidth * SSHeight
      /\ layer = "mario" => At(s.mx - FigureSize, s.my - FigureSize)
      /\ layer = "goomba" => At(s.gx - FigureSize, s.gy - FigureSize)
      /\ layer = "coin" =>
           \E c \in s.coins : InCoin(c, x, y) /\ At(c.x - FigureSize, c.y - FigureSize)
      /\ layer = "block" =>
           /\ sprite = BlockSprite(s.blockCols[i][j])
           /\ At(120 + SpriteLength * i, 40 + SpriteLength * j)

(* The address of every pixel is inside the sheet, and inside the window   *)
(* it is the pixel of the chosen sprite at the same distance from its      *)
(* corner as the pixel on the screen from the corner of Mario, of the      *)
(* goomba, of the coin or of the cell, though all the code adds is 4 and a *)
(* wrap of ten bits (Color_Mapper.sv, PixelX and pixelAddress).            *)
RightPixel == \A s \in Scenes : RightPixelOf(s, h_counter, v_counter)
=============================================================================
