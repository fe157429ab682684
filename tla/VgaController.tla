---------------------------- MODULE VgaController ----------------------------
(***************************************************************************)
(* The whole of VGA_controller.sv: the pixel counters and the three        *)
(* registered signals that drive the monitor.  A step is a posedge of      *)
(* VGA_CLK, with Reset high or low.  VGA_SYNC_N is tied to 0.              *)
(***************************************************************************)
EXTENDS VgaCounters

CONSTANTS
  H_Visible, H_SyncFirst, H_SyncEnd,  \* 640, 656, 752
  V_Visible, V_SyncFirst, V_SyncEnd   \* 480, 490, 492

ASSUME VgaAssumption ==
  /\ H_TOTAL \in Nat /\ V_TOTAL \in Nat
  /\ H_Visible \in Nat /\ H_SyncFirst \in Nat /\ H_SyncEnd \in Nat
  /\ V_Visible \in Nat /\ V_SyncFirst \in Nat /\ V_SyncEnd \in Nat
  /\ 0 < H_Visible /\ H_Visible <= H_SyncFirst /\ H_SyncFirst < H_SyncEnd
  /\ 0 < V_Visible /\ V_Visible <= V_SyncFirst /\ V_SyncFirst < V_SyncEnd
  /\ H_SyncEnd <= H_TOTAL /\ V_SyncEnd <= V_TOTAL

VARIABLES VGA_HS, VGA_VS, VGA_BLANK_N

vgaVars == <<h_counter, v_counter, VGA_HS, VGA_VS, VGA_BLANK_N>>

InHSync(h)    == H_SyncFirst <= h /\ h < H_SyncEnd
InVSync(v)    == V_SyncFirst <= v /\ v < V_SyncEnd
Visible(h, v) == h < H_Visible /\ v < V_Visible

Reset ==
  /\ ResetCounters
  /\ VGA_HS' = FALSE /\ VGA_VS' = FALSE /\ VGA_BLANK_N' = FALSE

Pixel_LateBug ==
  /\ Count
  /\ VGA_HS' = ~InHSync(h_counter)
  /\ VGA_VS' = ~InVSync(v_counter)
  /\ VGA_BLANK_N' = Visible(h_counter, v_counter)

(* The signals are computed from the next counters, so that after the      *)
(* posedge they belong to the pixel the counters show.                     *)
Pixel ==
  /\ Count
  /\ VGA_HS' = ~InHSync(Next_h)
  /\ VGA_VS' = ~InVSync(Next_v)
  /\ VGA_BLANK_N' = Visible(Next_h, Next_v)

Init ==
  /\ h_counter = 0 /\ v_counter = 0
  /\ VGA_HS = FALSE /\ VGA_VS = FALSE /\ VGA_BLANK_N = FALSE

Next == Reset \/ Pixel

Spec == Init /\ [][Next]_vgaVars

(* The PLL runs for ever; a reset may come at any time, and as often.      *)
FairSpec == Spec /\ WF_vgaVars(Next)
-----------------------------------------------------------------------------
TypeOK ==
  /\ CountTypeOK
  /\ VGA_HS \in BOOLEAN /\ VGA_VS \in BOOLEAN /\ VGA_BLANK_N \in BOOLEAN

(* Though registered, the signals are those of the pixel the colour mapper *)
(* is drawing, at every pixel but the first after a reset; and nothing is  *)
(* drawn inside a sync pulse.                                              *)
SignalsMatchPixel ==
  \/ frame_clk /\ ~VGA_HS /\ ~VGA_VS /\ ~VGA_BLANK_N
  \/ /\ VGA_HS = ~InHSync(h_counter)
     /\ VGA_VS = ~InVSync(v_counter)
     /\ VGA_BLANK_N = Visible(h_counter, v_counter)
     /\ VGA_BLANK_N => VGA_HS /\ VGA_VS

(* The picture begins again for ever, and with it the game's frame clock.  *)
FrameComes == []<>frame_clk
=============================================================================
