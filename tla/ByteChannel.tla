----------------------------- MODULE ByteChannel -----------------------------
(***************************************************************************)
(* What either direction of the JTAG UART promises: bytes arrive as they   *)
(* were sent, each once and in order, and no more than Capacity of them    *)
(* are under way.  Bytes are numbered from 1.                              *)
(***************************************************************************)
EXTENDS Integers

CONSTANT Capacity

VARIABLES sent, received   \* the last byte put in, the last one taken out

Init == sent = 0 /\ received = 0

Send ==
  /\ sent' \in (sent + 1)..(received + Capacity)
  /\ UNCHANGED received

Receive ==
  /\ received < sent /\ received' = received + 1
  /\ UNCHANGED sent

Next == Send \/ Receive

Spec == Init /\ [][Next]_<<sent, received>>

(* Nothing stays under way for ever.                                       *)
FairSpec == Spec /\ WF_<<sent, received>>(Receive)
=============================================================================
