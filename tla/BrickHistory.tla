----------------------------- MODULE BrickHistory -----------------------------
(***************************************************************************)
(* The game with one history variable, which remembers from frame to frame *)
(* what the jump of Mario.sv cannot see: that since the last frame a brick *)
(* was right above Mario while he was rising.                              *)
(***************************************************************************)
EXTENDS Toplevel

VARIABLE hit

BrickAbove == B!MarioUp(Mario_X_Pos, Mario_Y_Pos) = {Brick}

HistoryInit == Init /\ hit = FALSE

HistoryNext ==
  /\ Next
  /\ hit' = (~NewFrame /\ ~Reset_h /\ (hit \/ (Jump_Counter > 0 /\ BrickAbove)))

HistorySpec == HistoryInit /\ [][HistoryNext]_<<vars, hit>> /\ WF_<<vars, hit>>(HistoryNext)

(* Mario.sv, "If he's hit a ceiling or he's jumped max height, start       *)
(* falling": a rising Mario who was against a brick when the frame began   *)
(* falls on that frame.                                                    *)
BrickEndsJump ==
  [][NewFrame /\ ~Reset_h /\ hit /\ Jump_Counter > 0 =>
       Falling' /\ Jump_Counter' = 0]_<<vars, hit>>
=============================================================================
