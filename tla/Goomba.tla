-------------------------------- MODULE Goomba --------------------------------
(***************************************************************************)
(* The goomba (goomba.sv): it walks along the bottom row, turns at blocks, *)
(* dies when Mario's centre comes over its body and kills him when the two *)
(* figures touch side to side.  Each posedge of Clk is one of the actions  *)
(* below, in this order of priority: Restart, Spawn, FrameEdge, Hold.      *)
(*                                                                         *)
(* Goomba_Y_Motion and Falling are always 0 in the code and have no        *)
(* variable here; goomba_sprite and sprite_timer only choose a picture.    *)
(***************************************************************************)
EXTENDS Playfield

CONSTANT GoombaStep  \* Goomba_X_Step

VARIABLES
  Goomba_X_Pos, Goomba_Y_Pos,
  Goomba_X_Motion,  \* signed, -GoombaStep, 0 or GoombaStep
  isAlive,
  kill_Mario,       \* held until a reset or a spawn
  goomba_killed     \* high for one posedge: two points

goombaVars == <<Goomba_X_Pos, Goomba_Y_Pos, Goomba_X_Motion, isAlive,
                kill_Mario, goomba_killed>>

SpawnX == X_Max + 1 - HalfSize     \* 10'd500
SpawnY == Y_Max + 1                \* 10'd440
-----------------------------------------------------------------------------
Restart ==
  /\ Goomba_X_Pos' = 0
  /\ Goomba_Y_Pos' = 0
  /\ Goomba_X_Motion' = 0
  /\ isAlive' = FALSE
  /\ kill_Mario' = FALSE
  /\ goomba_killed' = FALSE

Spawn ==
  /\ Goomba_X_Pos' = SpawnX
  /\ Goomba_Y_Pos' = SpawnY - HalfSize
  /\ Goomba_X_Motion' = -GoombaStep
  /\ isAlive' = TRUE
  /\ kill_Mario' = FALSE
  /\ goomba_killed' = FALSE

(* Names with a Bug suffix are deliberate mutations of the definition that *)
(* follows them.                                                           *)
(* Between frames everything holds but goomba_killed, a one-Clk pulse.     *)
Hold_StickyAwardBug == UNCHANGED goombaVars

Hold ==
  /\ goomba_killed' = FALSE
  /\ UNCHANGED <<Goomba_X_Pos, Goomba_Y_Pos, Goomba_X_Motion, isAlive, kill_Mario>>
-----------------------------------------------------------------------------
(* The frame of a live goomba; mx, my is Mario's position.                 *)

Under(mx, my) ==
  /\ W10(Goomba_X_Pos - HalfSize) <= mx
  /\ mx < W10(Goomba_X_Pos + HalfSize)
  /\ W10(Goomba_Y_Pos - HalfSize) <= W10(my + HalfSize)

Touches(mx, my) ==
  /\ \/ W10(Goomba_X_Pos - HalfSize) = W10(mx + HalfSize)
     \/ W10(Goomba_X_Pos + HalfSize) = W10(mx - HalfSize)
  /\ W10(my + HalfSize) > W10(Goomba_Y_Pos - HalfSize)

OffScreen == W10(Goomba_X_Pos + HalfSize) < X_Min

GetSquished(mx, my) ==
  /\ isAlive /\ Under(mx, my)
  /\ isAlive' = FALSE
  /\ goomba_killed' = TRUE
  /\ UNCHANGED <<Goomba_X_Pos, Goomba_Y_Pos, Goomba_X_Motion, kill_Mario>>

KillMario(mx, my) ==
  /\ isAlive /\ ~Under(mx, my) /\ Touches(mx, my)
  /\ kill_Mario' = TRUE
  /\ goomba_killed' = FALSE
  /\ UNCHANGED <<Goomba_X_Pos, Goomba_Y_Pos, Goomba_X_Motion, isAlive>>

WalkOff(mx, my) ==
  /\ isAlive /\ ~Under(mx, my) /\ ~Touches(mx, my)
  /\ OffScreen
  /\ isAlive' = FALSE
  /\ goomba_killed' = FALSE
  /\ UNCHANGED <<Goomba_X_Pos, Goomba_Y_Pos, Goomba_X_Motion, kill_Mario>>

(* The direction it turns to, from the blocks beside it.                   *)
Turn_NoEdgeBug(left, right) ==
  CASE left # Air  -> GoombaStep
    [] left = Air /\ right # Air -> -GoombaStep
    [] OTHER -> Goomba_X_Motion

Turn(left, right) ==
  CASE left # Air -> GoombaStep
    [] left = Air /\ (right # Air \/ W10(Goomba_X_Pos + HalfSize) >= X_Max) -> -GoombaStep
    [] OTHER -> Goomba_X_Motion

(* One step in the old direction, and with the world when it scrolls.      *)
Walk_IgnoresShiftBug(mx, my, left, right, Shift) ==
  /\ isAlive /\ ~Under(mx, my) /\ ~Touches(mx, my) /\ ~OffScreen
  /\ Goomba_X_Motion' = Turn(left, right)
  /\ Goomba_X_Pos' = W10(Goomba_X_Pos + Goomba_X_Motion)
  /\ goomba_killed' = FALSE
  /\ UNCHANGED <<Goomba_Y_Pos, isAlive, kill_Mario>>

Walk(mx, my, left, right, Shift) ==
  /\ isAlive /\ ~Under(mx, my) /\ ~Touches(mx, my) /\ ~OffScreen
  /\ Goomba_X_Motion' = Turn(left, right)
  /\ Goomba_X_Pos' = W10(Goomba_X_Pos + Goomba_X_Motion - (IF Shift THEN BlockSize ELSE 0))
  /\ goomba_killed' = FALSE
  /\ UNCHANGED <<Goomba_Y_Pos, isAlive, kill_Mario>>

LieDead ==
  /\ ~isAlive
  /\ Goomba_X_Pos' = 0
  /\ Goomba_Y_Pos' = 0
  /\ Goomba_X_Motion' = 0
  /\ goomba_killed' = FALSE
  /\ UNCHANGED <<isAlive, kill_Mario>>

FrameEdge(mx, my, left, right, Shift) ==
  \/ GetSquished(mx, my)
  \/ KillMario(mx, my)
  \/ WalkOff(mx, my)
  \/ Walk(mx, my, left, right, Shift)
  \/ LieDead

GoombaTypeOK ==
  /\ Goomba_X_Pos \in 0..(Word - 1)
  /\ Goomba_Y_Pos \in {0, SpawnY - HalfSize}
  /\ Goomba_X_Motion \in {-GoombaStep, 0, GoombaStep}
  /\ isAlive \in BOOLEAN /\ kill_Mario \in BOOLEAN /\ goomba_killed \in BOOLEAN
=============================================================================
