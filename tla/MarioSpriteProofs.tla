-------------------------- MODULE MarioSpriteProofs --------------------------
(***************************************************************************)
(* A proof about the registers that choose Mario's picture, for any window *)
(* and any motion.                                                         *)
(***************************************************************************)
EXTENDS MarioSprite, TLAPS

(* One step of the timer, when it animates.                                *)
LEMMA AnimateSettles ==
  ASSUME TimerSettles, Animate
  PROVE  TimerSettles'
<1>1. CASE run_sprite_timer = 9
  BY <1>1 DEF TimerSettles, Animate
<1>2. CASE run_sprite_timer # 9
  <2>1. run_sprite_timer' = (run_sprite_timer + 1) % 16
    BY <1>2 DEF Animate
  <2>2. run_sprite_timer \in 0..8 \/ run_sprite_timer = 15
    BY <1>2 DEF TimerSettles
  <2>3. run_sprite_timer' \in 0..9
    BY <2>1, <2>2
  <2> QED
    BY <2>3 DEF TimerSettles
<1> QED
  BY <1>1, <1>2

(* The sprite timer never misses the 9 it is compared with, and Mario's    *)
(* legs are still until it has wrapped from 15 to 0.                       *)
THEOREM TimerAlwaysSettles == SpriteSpec => []TimerSettles
<1>1. SpriteInit => TimerSettles
  BY DEF SpriteInit, TimerSettles
<1>2. TimerSettles /\ [SpriteNext]_spriteVars => TimerSettles'
  <2> SUFFICES ASSUME TimerSettles, [SpriteNext]_spriteVars PROVE TimerSettles'
    OBVIOUS
  <2>1. CASE SpriteReset
    BY <2>1 DEF SpriteReset, TimerSettles
  <2>2. CASE SpriteFrame
    <3>1. PICK key \in Keys, left \in Polls, right \in Polls :
            FaceLeft(key, left) \/ FaceRight(key, right) \/ Stand(key, left, right)
      BY <2>2 DEF SpriteFrame
    <3>2. CASE Animate
      BY <3>2, AnimateSettles
    <3>3. CASE Stand(key, left, right)
      BY <3>3 DEF Stand, TimerSettles
    <3> QED
      BY <3>1, <3>2, <3>3 DEF FaceLeft, FaceRight
  <2>3. CASE UNCHANGED spriteVars
    BY <2>3 DEF spriteVars, TimerSettles
  <2> QED
    BY <2>1, <2>2, <2>3 DEF SpriteNext
<1> QED
  BY <1>1, <1>2, PTL DEF SpriteSpec
=============================================================================
