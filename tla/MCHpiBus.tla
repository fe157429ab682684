------------------------------- MODULE MCHpiBus -------------------------------
(***************************************************************************)
(* A chip with two words of memory that answers one posedge after its      *)
(* strobe, and two kinds of Reset_h: the button on any posedge; deaths of  *)
(* Mario, two posedges long and farther apart than a call is long.         *)
(***************************************************************************)
EXTENDS HpiBus

AnyTime == 0..Cap
Deaths  == {Cap}
=============================================================================
