--------------------------------- MODULE Coin ---------------------------------
(***************************************************************************)
(* The four coins (coin.sv, four instances): each is dropped on the right  *)
(* edge of the screen, scrolls with the world and is taken when Mario's    *)
(* centre comes within CoinSize of it.  The instances share every input    *)
(* but start, so the module keeps them as one function of records and a    *)
(* posedge of Clk steps all of them.                                       *)
(***************************************************************************)
EXTENDS Playfield

CONSTANT CoinSize

VARIABLE coins  \* instance -> Coin_X_Pos, Coin_Y_Pos, is_running, coin_taken

CoinIds == 0..3

CoinX == X_Max + 1 - HalfSize                 \* 10'd500

(* The height a coin is dropped at: one of four rows in mid-air.           *)
CoinY(start_block) == W10(BlockSize * start_block - HalfSize + Y_Min + 3 * BlockSize)

Idle == [x |-> 0, y |-> 0, running |-> FALSE, taken |-> FALSE]

Dropped(start_block) ==
  [x |-> CoinX, y |-> CoinY(start_block), running |-> TRUE, taken |-> FALSE]

Meets(coin, mx, my) ==
  /\ coin.running
  /\ (mx - coin.x) * (mx - coin.x) + (my - coin.y) * (my - coin.y) <= CoinSize * CoinSize

(* Names with a Bug suffix are deliberate mutations of the definition that *)
(* follows them.                                                           *)
(* A coin that is neither reset, dropped nor paid out: on a frame edge it  *)
(* leaves the screen or scrolls, and on every posedge it looks for Mario.  *)
Moved_IgnoresShiftBug(coin, frame, Shift, mx, my) ==
  [coin EXCEPT
     !.x       = @,
     !.running = @ /\ ~(frame /\ coin.x < X_Min),
     !.taken   = Meets(coin, mx, my)]

Moved(coin, frame, Shift, mx, my) ==
  [coin EXCEPT
     !.x       = IF frame /\ Shift /\ @ >= X_Min THEN W10(@ - BlockSize) ELSE @,
     !.running = @ /\ ~(frame /\ coin.x < X_Min),
     !.taken   = Meets(coin, mx, my)]

ResetCoins == coins' = [i \in CoinIds |-> Idle]

StepCoins_NotClearedBug(start, start_block, frame, Shift, mx, my) ==
  coins' = [i \in CoinIds |->
              CASE i \in start -> Dropped(start_block)
                [] OTHER -> Moved(coins[i], frame, Shift, mx, my)]

StepCoins(start, start_block, frame, Shift, mx, my) ==
  coins' = [i \in CoinIds |->
              CASE i \in start -> Dropped(start_block)
                [] i \notin start /\ coins[i].taken -> Idle
                [] OTHER -> Moved(coins[i], frame, Shift, mx, my)]

CoinTypeOK ==
  coins \in [CoinIds -> [x : 0..(Word - 1), y : 0..(Word - 1),
                         running : BOOLEAN, taken : BOOLEAN]]
=============================================================================
