------------------------------ MODULE VgaProofs ------------------------------
(***************************************************************************)
(* Proofs about the VGA controller, for every raster whose sync pulses lie *)
(* behind its visible part.                                                *)
(***************************************************************************)
EXTENDS VgaController, TLAPS

(* The counters stay inside the raster.                                    *)
LEMMA NextPixel ==
  ASSUME CountTypeOK
  PROVE  /\ Next_h \in 0..(H_TOTAL - 1)
         /\ Next_v \in 0..(V_TOTAL - 1)
BY VgaAssumption DEF Next_h, Next_v, VgaAssumption, CountTypeOK

(* A reset starts them inside it.                                          *)
LEMMA FirstPixel == 0 \in 0..(H_TOTAL - 1) /\ 0 \in 0..(V_TOTAL - 1)
BY VgaAssumption DEF VgaAssumption

(* Nothing is drawn inside a sync pulse.                                   *)
LEMMA VisibleOutsideSync ==
  ASSUME NEW h \in Nat, NEW v \in Nat, Visible(h, v)
  PROVE  ~InHSync(h) /\ ~InVSync(v)
BY VgaAssumption DEF Visible, InHSync, InVSync, VgaAssumption

(* The registers keep to their ranges, whatever the timing and the resets. *)
THEOREM VgaTypeCorrect == Spec => []TypeOK
<1>1. Init => TypeOK
  BY FirstPixel, Zenon DEF Init, TypeOK, CountTypeOK
<1>2. TypeOK /\ [Next]_vgaVars => TypeOK'
  <2> SUFFICES ASSUME TypeOK, [Next]_vgaVars PROVE TypeOK'
    OBVIOUS
  <2>1. CASE Reset
    BY <2>1, FirstPixel, Zenon DEF TypeOK, Reset, ResetCounters, CountTypeOK
  <2>2. CASE Pixel
    <3>1. CountTypeOK'
      BY <2>2, NextPixel DEF TypeOK, Pixel, Count, CountTypeOK
    <3>2. VGA_HS' \in BOOLEAN /\ VGA_VS' \in BOOLEAN /\ VGA_BLANK_N' \in BOOLEAN
      BY <2>2, Zenon DEF Pixel, InHSync, InVSync, Visible
    <3> QED
      BY <3>1, <3>2 DEF TypeOK
  <2>3. CASE UNCHANGED vgaVars
    BY <2>3 DEF TypeOK, vgaVars, CountTypeOK
  <2> QED
    BY <2>1, <2>2, <2>3 DEF Next
<1> QED
  BY <1>1, <1>2, PTL DEF Spec

(* The signals belong to the pixel the counters show, at every pixel but   *)
(* the first after a reset.                                                *)
THEOREM SignalsInStep == Spec => []SignalsMatchPixel
<1>1. Init => SignalsMatchPixel
  BY DEF Init, SignalsMatchPixel, frame_clk
<1>2. TypeOK /\ SignalsMatchPixel /\ [Next]_vgaVars => SignalsMatchPixel'
  <2> SUFFICES ASSUME TypeOK, SignalsMatchPixel, [Next]_vgaVars
               PROVE  SignalsMatchPixel'
    OBVIOUS
  <2>1. CASE Reset
    BY <2>1 DEF Reset, ResetCounters, SignalsMatchPixel, frame_clk
  <2>2. CASE Pixel
    <3>1. /\ VGA_HS' = ~InHSync(h_counter)'
          /\ VGA_VS' = ~InVSync(v_counter)'
          /\ VGA_BLANK_N' = Visible(h_counter, v_counter)'
      BY <2>2, Zenon DEF Pixel, Count, InHSync, InVSync, Visible
    <3>2. h_counter' \in Nat /\ v_counter' \in Nat
      BY <2>2, NextPixel, VgaAssumption DEF TypeOK, Pixel, Count, VgaAssumption, CountTypeOK
    <3>3. Visible(h_counter', v_counter') => ~InHSync(h_counter') /\ ~InVSync(v_counter')
      BY <3>2, VisibleOutsideSync
    <3>4. VGA_BLANK_N' => VGA_HS' /\ VGA_VS'
      BY <3>1, <3>3, Zenon DEF InHSync, InVSync, Visible
    <3> QED
      BY <3>1, <3>4, Zenon DEF SignalsMatchPixel
  <2>3. CASE UNCHANGED vgaVars
    BY <2>3 DEF SignalsMatchPixel, vgaVars, frame_clk, InHSync, InVSync, Visible
  <2> QED
    BY <2>1, <2>2, <2>3 DEF Next
<1> QED
  BY <1>1, <1>2, VgaTypeCorrect, PTL DEF Spec
=============================================================================
