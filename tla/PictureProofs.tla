---------------------------- MODULE PictureProofs ----------------------------
(***************************************************************************)
(* Every pixel of every legal scene shows the right pixel of its sprite.   *)
(* The offsets of Color_Mapper.sv are an argument about remainders: the    *)
(* wrap of ten bits turns a small negative distance from a figure's centre *)
(* into one that is again counted from the figure's corner.                *)
(***************************************************************************)
EXTENDS Picture, VgaProofs, TLAPS

(* The distance from the corner of a cell.                                 *)
LEMMA CellOffset ==
  ASSUME NEW d \in 0..399
  PROVE  /\ Bits10(d) = d
         /\ d % 40 = d - 40 * (d \div 40)
         /\ d \div 40 \in 0..9
BY DEF Bits10

(* What is chosen for a pixel is one of the 25 sprites of the sheet.       *)
LEMMA SpriteInSheet ==
  ASSUME NEW s, LegalScene(s), NEW x \in Nat, NEW y \in Nat,
         NEW layer, layer = Layer(s, x, y)
  PROVE  /\ Sprite(layer, s, x, y)[1] \in 0..4
         /\ Sprite(layer, s, x, y)[2] \in 0..4
<1>1. /\ MarioSprite(s)[1] \in 0..4
      /\ MarioSprite(s)[2] \in 0..4
  BY DEF MarioSprite, LegalScene
<1>2. ASSUME NEW id \in 0..7
      PROVE  /\ BlockSprite(id)[1] \in 0..4
             /\ BlockSprite(id)[2] \in 0..4
  BY <1>2 DEF BlockSprite
<1>3. layer = "block" => block_id_out(s, x, y) \in 0..7
  <2> SUFFICES ASSUME layer = "block" PROVE block_id_out(s, x, y) \in 0..7
    OBVIOUS
  <2>1. x - 120 \in 0..399 /\ y - 40 \in 0..399
    BY DEF Layer
  <2>2. /\ Bits10(x - 120) \div SpriteLength \in 0..9
        /\ Bits10(y - 40) \div SpriteLength \in 0..9
    BY <2>1, CellOffset DEF SpriteLength
  <2>3. s.blockCols \in [0..9 -> [0..9 -> 0..7]]
    BY ZenonT(60) DEF LegalScene
  <2> QED
    BY <2>2, <2>3 DEF block_id_out
<1>4. layer \in {"wall", "floor", "mario", "goomba", "coin", "block"}
  BY DEF Layer
<1> QED
  <2>1. s.goomba_sprite \in 0..1
    BY Zenon DEF LegalScene
  <2> QED
    BY <1>1, <1>2, <1>3, <1>4, <2>1 DEF Sprite

(* What pixelAddress adds up, from the sprite and the place inside it.     *)
Sum(sx, sy, dx, dy) == SSWidth * SpriteLength * sy + SpriteLength * sx + dx + dy * SSWidth

(* Inside the sheet sixteen bits are enough.                               *)
LEMMA SumExact ==
  ASSUME NEW sx \in 0..4, NEW sy \in 0..4, NEW dx \in 0..39, NEW dy \in 0..39
  PROVE  /\ Sum(sx, sy, dx, dy) % AddressWord = Sum(sx, sy, dx, dy)
         /\ Sum(sx, sy, dx, dy) < SSWidth * SSHeight
BY DEF Sum, AddressWord, SSWidth, SSHeight, SpriteLength

(* A distance of less than a sprite from a corner lies inside the sprite.  *)
LEMMA Along ==
  ASSUME NEW n \in Nat, NEW corner \in Int, n - corner \in 0..39
  PROVE  corner <= n /\ n < corner + SpriteLength
BY DEF SpriteLength

(* An address is inside the sheet, and reads the pixel whose distances     *)
(* from a corner are the remainders of PixelX and PixelY.                  *)
LEMMA AddressExact ==
  ASSUME NEW sprite, sprite[1] \in 0..4, sprite[2] \in 0..4, NEW px, NEW py,
         px % SpriteLength \in 0..39, py % SpriteLength \in 0..39
  PROVE  /\ pixelAddress(sprite, px, py) < SSWidth * SSHeight
         /\ \A x, y \in Nat, left, top \in Int :
              px % SpriteLength = x - left /\ py % SpriteLength = y - top
                => Reads(pixelAddress(sprite, px, py), sprite, left, top, x, y)
<1> DEFINE dx == px % SpriteLength
           dy == py % SpriteLength
<1>1. pixelAddress(sprite, px, py) = Sum(sprite[1], sprite[2], dx, dy) % AddressWord
  BY Zenon DEF pixelAddress, Sum
<1>2. dx \in 0..39 /\ dy \in 0..39
  BY Zenon
<1> HIDE DEF dx, dy
<1>3. /\ pixelAddress(sprite, px, py) = Sum(sprite[1], sprite[2], dx, dy)
      /\ pixelAddress(sprite, px, py) < SSWidth * SSHeight
  <2>1. /\ Sum(sprite[1], sprite[2], dx, dy) % AddressWord = Sum(sprite[1], sprite[2], dx, dy)
        /\ Sum(sprite[1], sprite[2], dx, dy) < SSWidth * SSHeight
    BY <1>2, SumExact, Zenon
  <2> QED
    BY <1>1, <2>1, Zenon
<1>4. ASSUME NEW x \in Nat, NEW y \in Nat, NEW left \in Int, NEW top \in Int,
             dx = x - left, dy = y - top
      PROVE  Reads(pixelAddress(sprite, px, py), sprite, left, top, x, y)
  <2>1. /\ left <= x /\ x < left + SpriteLength
        /\ top <= y /\ y < top + SpriteLength
        /\ Sum(sprite[1], sprite[2], x - left, y - top)
             = (SpriteLength * sprite[2] + y - top) * SSWidth
               + SpriteLength * sprite[1] + x - left
    <3>1. x - left \in 0..39 /\ y - top \in 0..39
      BY <1>2, <1>4, Zenon
    <3>2. /\ left <= x /\ x < left + SpriteLength
          /\ top <= y /\ y < top + SpriteLength
      BY <3>1, Along
    <3>3. Sum(sprite[1], sprite[2], x - left, y - top)
            = (SpriteLength * sprite[2] + y - top) * SSWidth
              + SpriteLength * sprite[1] + x - left
      <4>1. PICK sx \in 0..4, sy \in 0..4 : sx = sprite[1] /\ sy = sprite[2]
        OBVIOUS
      <4>2. Sum(sx, sy, x - left, y - top)
              = (SpriteLength * sy + y - top) * SSWidth + SpriteLength * sx + x - left
        BY DEF Sum, SpriteLength, SSWidth
      <4> QED
        BY <4>1, <4>2, Zenon
    <3> QED
      BY <3>2, <3>3, Zenon
  <2> QED
    BY <1>3, <1>4, <2>1, Zenon DEF Reads
<1> QED
  BY <1>3, <1>4, Zenon DEF dx, dy

(* The distance from the left or upper edge of a figure that covers the    *)
(* pixel, along X and along Y.                                             *)
LEMMA FigureOffset ==
  ASSUME NEW n \in Nat, NEW centre \in Nat, centre - 20 <= n, n < centre + 20
  PROVE  /\ FromFigure(n - 120, centre) % 40 = n - (centre - 20)
         /\ FromFigure(n - 40, centre) % 40 = n - (centre - 20)
         /\ FromFigure(n - 120, centre) \in Nat
         /\ FromFigure(n - 40, centre) \in Nat
<1>1. PICK d \in 0..39 : n = centre - 20 + d
  BY centre - 20 <= n, n < centre + 20, n - (centre - 20) \in 0..39
<1>2. n - 120 - centre - 4 = d - 144 /\ n - 40 - centre - 4 = d - 64
  BY <1>1
<1>3. (d - 144) % 1024 = d + 880 /\ (d - 64) % 1024 = d + 960
  OBVIOUS
<1>4. (d + 880) % 40 = d /\ (d + 960) % 40 = d
  OBVIOUS
<1>5. n - (centre - 20) = d
  BY <1>1
<1> QED
  BY <1>2, <1>3, <1>4, <1>5 DEF FromFigure, Bits10

(* A figure of a legal scene covers what its position says, since its      *)
(* edges do not wrap; inside it the remainders count from its corner.      *)
LEMMA FigureCorner ==
  ASSUME NEW px \in 20..500, NEW py \in 20..500, NEW x \in Nat, NEW y \in Nat,
         Covers(px, py, x, y)
  PROVE  /\ FromFigure(x - 120, px) % SpriteLength = x - (px - FigureSize)
         /\ FromFigure(y - 40, py) % SpriteLength = y - (py - FigureSize)
         /\ px - FigureSize \in Int /\ py - FigureSize \in Int
<1>1. px - 20 <= x /\ x < px + 20 /\ py - 20 <= y /\ y < py + 20
  BY DEF Covers, Bits10, FigureSize
<1> QED
  BY <1>1, FigureOffset DEF FigureSize, SpriteLength

(* A pixel of a coin's disc is less than half a sprite from its centre.    *)
LEMMA NearCentre ==
  ASSUME NEW dx \in Int, NEW dy \in Int, dx * dx + dy * dy <= 361
  PROVE  dx \in -19..19 /\ dy \in -19..19
<1>1. ASSUME NEW n \in Int, n >= 20 \/ n <= -20
      PROVE  n * n >= 400
  BY <1>1
<1>2. dx * dx >= 0 /\ dy * dy >= 0
  OBVIOUS
<1>3. dx * dx \in Int /\ dy * dy \in Int
  OBVIOUS
<1>4. dx * dx < 400 /\ dy * dy < 400
  BY <1>2, <1>3
<1> QED
  BY <1>1, <1>4, <1>3

(* The disc of a coin in the middle of a cell lies inside that cell.       *)
LEMMA CoinCorner ==
  ASSUME NEW n \in Nat, NEW centre \in 100..500, n - centre \in -19..19
  PROVE  /\ (centre - 100) % 40 = 0 =>
              (n - 120) % SpriteLength = n - (centre - FigureSize)
         /\ (centre - 140) % 40 = 0 =>
              (n - 40) % SpriteLength = n - (centre - FigureSize)
         /\ centre - FigureSize \in Int
<1> PICK d \in -19..19 : d = n - centre
  OBVIOUS
<1>1. ASSUME (centre - 100) % 40 = 0
      PROVE  (n - 120) % 40 = n - (centre - 20)
  <2>1. PICK k \in Int : centre - 100 = 40 * k
    BY <1>1, centre - 100 = 40 * ((centre - 100) \div 40)
  <2>2. n - 120 = 40 * (k - 1) + (d + 20) /\ d + 20 \in 0..39
    BY <2>1
  <2>3. (n - 120) % 40 = d + 20
    BY <2>2
  <2> QED
    BY <2>3
<1>2. ASSUME (centre - 140) % 40 = 0
      PROVE  (n - 40) % 40 = n - (centre - 20)
  <2>1. PICK k \in Int : centre - 140 = 40 * k
    BY <1>2, centre - 140 = 40 * ((centre - 140) \div 40)
  <2>2. n - 40 = 40 * (k + 2) + (d + 20) /\ d + 20 \in 0..39
    BY <2>1
  <2>3. (n - 40) % 40 = d + 20
    BY <2>2
  <2> QED
    BY <2>3
<1> QED
  BY <1>1, <1>2 DEF FigureSize, SpriteLength

(* PixelX and PixelY are natural numbers, so that their remainders are     *)
(* distances inside a sprite.                                              *)
LEMMA Remainders ==
  ASSUME NEW s, LegalScene(s), NEW x \in Nat, NEW y \in Nat, NEW layer
  PROVE  /\ PixelX(layer, s, x) % SpriteLength \in 0..39
         /\ PixelY(layer, s, y) % SpriteLength \in 0..39
<1>1. ASSUME NEW n \in Int, NEW centre \in Int
      PROVE  FromFigure(n, centre) % SpriteLength \in 0..39 /\ Bits10(n) % SpriteLength \in 0..39
  BY DEF FromFigure, Bits10, SpriteLength
<1>2. s.mx \in Int /\ s.my \in Int /\ s.gx \in Int /\ s.gy \in Int
  <2>1. s.mx \in 138..300 /\ s.my \in 57..421 /\ s.gx \in 0..500 /\ s.gy \in 0..420
    BY Zenon DEF LegalScene
  <2> QED
    BY <2>1, SMTT(60)
<1>3. x - 120 \in Int /\ y - 40 \in Int
  OBVIOUS
<1> QED
  BY <1>1, <1>2, <1>3, Zenon DEF PixelX, PixelY

(* Inside the window a cell of the board or a coin is read without a wrap. *)
LEMMA InsideWindow ==
  ASSUME NEW s, NEW x \in Nat, NEW y \in Nat, Layer(s, x, y) \in {"coin", "block"},
         NEW layer, layer = Layer(s, x, y)
  PROVE  /\ x - 120 \in 0..399 /\ y - 40 \in 0..399
         /\ PixelX(layer, s, x) = x - 120 /\ PixelY(layer, s, y) = y - 40
<1>1. x - 120 \in 0..399 /\ y - 40 \in 0..399
  BY DEF Layer
<1>2. Bits10(x - 120) = x - 120 /\ Bits10(y - 40) = y - 40
  BY <1>1, CellOffset
<1> QED
  BY <1>1, <1>2 DEF PixelX, PixelY

(* The claim for one pixel of one legal scene.                             *)
LEMMA LegalPixel ==
  ASSUME NEW s, LegalScene(s), NEW x \in Nat, NEW y \in Nat
  PROVE  RightPixelOf(s, x, y)
<1> DEFINE layer == Layer(s, x, y)
           sprite == Sprite(layer, s, x, y)
           px == PixelX(layer, s, x)
           py == PixelY(layer, s, y)
           address == pixelAddress(sprite, px, py)
           i == (x - 120) \div SpriteLength
           j == (y - 40) \div SpriteLength
           At(left, top) == Reads(address, sprite, left, top, x, y)
<1>1. /\ address < SSWidth * SSHeight
      /\ \A left, top \in Int :
           px % SpriteLength = x - left /\ py % SpriteLength = y - top => At(left, top)
  BY SpriteInSheet, Remainders, AddressExact, Zenon
<1>2. layer = "mario" => At(s.mx - FigureSize, s.my - FigureSize)
  <2> SUFFICES ASSUME layer = "mario" PROVE At(s.mx - FigureSize, s.my - FigureSize)
    OBVIOUS
  <2>1. Covers(s.mx, s.my, x, y)
    BY DEF Layer, is_mario
  <2>2. s.mx \in 20..500 /\ s.my \in 20..500
    BY DEF LegalScene
  <2>3. px = FromFigure(x - 120, s.mx) /\ py = FromFigure(y - 40, s.my)
    BY Zenon DEF PixelX, PixelY
  <2>4. /\ FromFigure(x - 120, s.mx) % SpriteLength = x - (s.mx - FigureSize)
        /\ FromFigure(y - 40, s.my) % SpriteLength = y - (s.my - FigureSize)
        /\ s.mx - FigureSize \in Int /\ s.my - FigureSize \in Int
    BY <2>1, <2>2, FigureCorner, Zenon
  <2> HIDE DEF layer, sprite, px, py, address
  <2> QED
    BY <1>1, <2>3, <2>4, Zenon
<1>3. layer = "goomba" => At(s.gx - FigureSize, s.gy - FigureSize)
  <2> SUFFICES ASSUME layer = "goomba" PROVE At(s.gx - FigureSize, s.gy - FigureSize)
    OBVIOUS
  <2>1. s.isAlive /\ Covers(s.gx, s.gy, x, y)
    BY DEF Layer, draw_is_goomba
  <2>2. s.gx \in 20..500 /\ s.gy \in 20..500
    BY <2>1 DEF LegalScene
  <2>3. px = FromFigure(x - 120, s.gx) /\ py = FromFigure(y - 40, s.gy)
    BY DEF PixelX, PixelY
  <2>4. /\ FromFigure(x - 120, s.gx) % SpriteLength = x - (s.gx - FigureSize)
        /\ FromFigure(y - 40, s.gy) % SpriteLength = y - (s.gy - FigureSize)
        /\ s.gx - FigureSize \in Int /\ s.gy - FigureSize \in Int
    BY <2>1, <2>2, FigureCorner, Zenon
  <2> HIDE DEF layer, sprite, px, py, address
  <2> QED
    BY <1>1, <2>3, <2>4, Zenon
<1>4. layer = "coin" =>
        \E c \in s.coins : InCoin(c, x, y) /\ At(c.x - FigureSize, c.y - FigureSize)
  <2> SUFFICES ASSUME layer = "coin"
               PROVE  \E c \in s.coins :
                        InCoin(c, x, y) /\ At(c.x - FigureSize, c.y - FigureSize)
    OBVIOUS
  <2>1. PICK c \in s.coins : InCoin(c, x, y)
    BY DEF Layer, is_coin
  <2>2. PICK cx \in 100..500, cy \in 140..260 :
          /\ cx = c.x /\ (cx - 100) % 40 = 0
          /\ cy = c.y /\ (cy - 140) % 40 = 0
    BY ZenonT(60) DEF LegalScene
  <2>3. (x - cx) * (x - cx) + (y - cy) * (y - cy) <= 361
    <3>1. (x - cx) * (x - cx) + (y - cy) * (y - cy) <= CoinRadius * CoinRadius
      BY <2>1, <2>2, Zenon DEF InCoin
    <3> QED
      BY <3>1 DEF CoinRadius
  <2>4. x - cx \in -19..19 /\ y - cy \in -19..19
    BY <2>3, NearCentre
  <2>5. /\ (x - 120) % SpriteLength = x - (cx - FigureSize)
        /\ (y - 40) % SpriteLength = y - (cy - FigureSize)
        /\ cx - FigureSize \in Int /\ cy - FigureSize \in Int
    <3>1. /\ (x - 120) % SpriteLength = x - (cx - FigureSize)
          /\ cx - FigureSize \in Int
      BY <2>2, <2>4, CoinCorner, ZenonT(60)
    <3>2. cy \in 100..500
      OBVIOUS
    <3>3. /\ (y - 40) % SpriteLength = y - (cy - FigureSize)
          /\ cy - FigureSize \in Int
      BY <2>2, <2>4, <3>2, CoinCorner, ZenonT(60)
    <3> QED
      BY <3>1, <3>3, Zenon
  <2>6. px = x - 120 /\ py = y - 40
    BY InsideWindow
  <2> QED
    BY <1>1, <2>1, <2>2, <2>5, <2>6, ZenonT(60)
<1>5. layer = "block" =>
        /\ sprite = BlockSprite(s.blockCols[i][j])
        /\ At(120 + SpriteLength * i, 40 + SpriteLength * j)
  <2> SUFFICES ASSUME layer = "block"
               PROVE  /\ sprite = BlockSprite(s.blockCols[i][j])
                      /\ At(120 + SpriteLength * i, 40 + SpriteLength * j)
    OBVIOUS
  <2>1. /\ x - 120 \in 0..399 /\ y - 40 \in 0..399
        /\ px = x - 120 /\ py = y - 40
    BY InsideWindow
  <2>2. Bits10(x - 120) = x - 120 /\ Bits10(y - 40) = y - 40
    BY <2>1, CellOffset
  <2>3. sprite = BlockSprite(s.blockCols[i][j])
    BY <2>2, Zenon DEF Sprite, block_id_out
  <2>4. /\ (x - 120) % SpriteLength = x - (120 + SpriteLength * i)
        /\ (y - 40) % SpriteLength = y - (40 + SpriteLength * j)
        /\ 120 + SpriteLength * i \in Int /\ 40 + SpriteLength * j \in Int
    BY <2>1 DEF SpriteLength
  <2> QED
    BY <1>1, <2>1, <2>3, <2>4, ZenonT(60)
<1> QED
  BY <1>1, <1>2, <1>3, <1>4, <1>5, Zenon DEF RightPixelOf

(* While the raster is scanned, resets included, each pixel shows the      *)
(* pixel of its sprite that belongs there, whatever legal scene is drawn.  *)
THEOREM PictureIsRight == Spec => []RightPixel
<1>1. TypeOK => RightPixel
  <2> SUFFICES ASSUME TypeOK, NEW s \in Scenes
               PROVE  RightPixelOf(s, h_counter, v_counter)
    BY DEF RightPixel
  <2>1. h_counter \in Nat /\ v_counter \in Nat
    BY VgaAssumption DEF TypeOK, CountTypeOK, VgaAssumption
  <2>2. LegalScene(s)
    BY PictureAssumption DEF PictureAssumption
  <2> QED
    BY <2>1, <2>2, LegalPixel
<1> QED
  BY <1>1, VgaTypeCorrect, PTL
=============================================================================
