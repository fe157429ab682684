-------------------------------- MODULE MCVga --------------------------------
(* The VGA controller at the timing of the board, and three scenes: Mario  *)
(* running into the goomba, Mario above the ceiling with a coin beside him *)
(* and a goomba half off the screen, Mario on the floor in front of a pipe *)
(* and a dead goomba.  Every block occurs.                                 *)
EXTENDS Picture

Running ==
  [mx |-> 141, my |-> 420, is_jumping |-> FALSE, direction |-> 0, run_counter |-> 3,
   isAlive |-> TRUE, goomba_sprite |-> 1, gx |-> 176, gy |-> 420,
   coins |-> {[x |-> 300, y |-> 180], [x |-> 500, y |-> 260]},
   blockCols |-> [i \in 0..9 |-> [j \in 0..9 |-> (i + j) % 4]]]

Jumping ==
  [mx |-> 138, my |-> 57, is_jumping |-> TRUE, direction |-> 1, run_counter |-> 0,
   isAlive |-> TRUE, goomba_sprite |-> 0, gx |-> 112, gy |-> 420,
   coins |-> {[x |-> 100, y |-> 140], [x |-> 140, y |-> 140]},
   blockCols |-> [i \in 0..9 |-> [j \in 0..9 |-> (3 * i + j) % 8]]]

AtPipe ==
  [mx |-> 300, my |-> 421, is_jumping |-> FALSE, direction |-> 1, run_counter |-> 2,
   isAlive |-> FALSE, goomba_sprite |-> 0, gx |-> 0, gy |-> 0, coins |-> {},
   blockCols |-> [i \in 0..9 |-> [j \in 0..9 |-> IF j < 7 THEN 0 ELSE 4 + (i % 2) + 2 * (j % 2)]]]

MCScenes == {Running, Jumping, AtPipe}
=============================================================================
