----------------------------- MODULE VgaCounters -----------------------------
(***************************************************************************)
(* The pixel position of VGA_controller.sv: DrawX and DrawY count through  *)
(* the lines and the frame, one pixel per posedge of VGA_CLK.  The frame   *)
(* clock of the game is the moment they are both zero.                     *)
(***************************************************************************)
EXTENDS Integers

CONSTANTS H_TOTAL, V_TOTAL  \* pixels per line, lines per frame (800, 525)

VARIABLES h_counter, v_counter

countVars == <<h_counter, v_counter>>

Next_h == IF h_counter + 1 = H_TOTAL THEN 0 ELSE h_counter + 1

(* Names with a Bug suffix are deliberate mutations of the definition that *)
(* follows them.                                                           *)
Next_v_StuckBug ==
  IF h_counter + 1 = H_TOTAL /\ v_counter + 1 # V_TOTAL THEN v_counter + 1 ELSE v_counter

Next_v ==
  IF h_counter + 1 = H_TOTAL
    THEN IF v_counter + 1 = V_TOTAL THEN 0 ELSE v_counter + 1
    ELSE v_counter

ResetCounters == h_counter' = 0 /\ v_counter' = 0

Count == h_counter' = Next_h /\ v_counter' = Next_v

frame_clk == h_counter = 0 /\ v_counter = 0

CountTypeOK == h_counter \in 0..(H_TOTAL - 1) /\ v_counter \in 0..(V_TOTAL - 1)
=============================================================================
