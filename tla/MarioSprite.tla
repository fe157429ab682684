----------------------------- MODULE MarioSprite -----------------------------
(***************************************************************************)
(* The registers of Mario.sv that choose his picture: which way he faces   *)
(* and which of the four positions his legs are in.  They read the motion  *)
(* of module Mario and nothing in it reads them, so this module adds them  *)
(* to its steps.                                                           *)
(***************************************************************************)
EXTENDS Mario

VARIABLES
  direction,        \* TRUE: facing left
  run_counter,      \* 0 standing, 1 to 3 running
  run_sprite_timer  \* 4 bits

spriteVars == <<marioVars, direction, run_counter, run_sprite_timer>>

(* The legs go 0, 1, 2, 3, 2, 3, ... while he runs.                        *)
NextLegs == [legs \in 0..3 |-> IF legs = 3 THEN 2 ELSE legs + 1]

(* Names with a Bug suffix are deliberate mutations of the definition that *)
(* follows them.                                                           *)
Animate_SlowBug ==
  IF run_sprite_timer > 9
    THEN run_counter' = NextLegs[run_counter] /\ run_sprite_timer' = 0
    ELSE run_sprite_timer' = (run_sprite_timer + 1) % 16 /\ UNCHANGED run_counter

Animate ==
  IF run_sprite_timer = 9
    THEN run_counter' = NextLegs[run_counter] /\ run_sprite_timer' = 0
    ELSE run_sprite_timer' = (run_sprite_timer + 1) % 16 /\ UNCHANGED run_counter

(* The sprite's share of a frame; a key that is blocked counts as no key,  *)
(* a scroll does not matter.                                               *)
FaceLeft(key, left)   == GoesLeft(key, left) /\ direction' = TRUE /\ Animate

FaceRight(key, right) == GoesRight(key, right) /\ direction' = FALSE /\ Animate

Stand(key, left, right) ==
  /\ ~GoesLeft(key, left) /\ ~GoesRight(key, right)
  /\ run_counter' = 0
  /\ UNCHANGED <<direction, run_sprite_timer>>

SpriteReset ==
  /\ Reset
  /\ direction' = FALSE /\ run_counter' = 0 /\ run_sprite_timer' = 15

SpriteFrame ==
  \E key \in Keys, up, down, left, right \in Polls :
    /\ Frame(key, up, down, left, right)
    /\ \/ FaceLeft(key, left)
       \/ FaceRight(key, right)
       \/ Stand(key, left, right)

SpriteInit ==
  /\ Init
  /\ direction = FALSE /\ run_counter = 0 /\ run_sprite_timer = 15

SpriteNext == SpriteReset \/ SpriteFrame

SpriteSpec == SpriteInit /\ [][SpriteNext]_spriteVars

(* The VGA counters run for ever, so frames keep coming; nothing makes the *)
(* player press the reset button.                                          *)
SpriteFairSpec == SpriteSpec /\ WF_spriteVars(SpriteFrame)
-----------------------------------------------------------------------------
(* The timer starts at 15 and is compared with 9 by equality: it wraps to  *)
(* 0 before it can miss the 9, never counts 10 to 14, and his legs do not  *)
(* move before it has wrapped.                                             *)
TimerSettles ==
  /\ run_sprite_timer \in 0..9 \union {15}
  /\ run_sprite_timer = 15 => run_counter = 0
=============================================================================
