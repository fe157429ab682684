---------------------------- MODULE JtagUartProofs ----------------------------
(***************************************************************************)
(* Proofs about the JTAG UART's driver for buffers and FIFOs of any size:  *)
(* the two rings never mix up a byte, whatever the interleaving of the     *)
(* program, the interrupt routine, the hardware and the terminal.          *)
(***************************************************************************)
EXTENDS JtagUart, SequenceTheorems, TLAPS

(* The bytes between the indices of a ring, and the slot of the k-th.      *)
Used(in, out) == IF in >= out THEN in - out ELSE BufLen + in - out
Slot(out, k)  == IF out + k >= BufLen THEN out + k - BufLen ELSE out + k

(* The last byte whose slot the read has given back.                       *)
Released == IF at = "copy" THEN taken - (seen - rx_out) ELSE taken

Types ==
  /\ tx_in \in Indices /\ tx_out \in Indices /\ rx_in \in Indices /\ rx_out \in Indices
  /\ tx_buf \in [Indices -> Nat] /\ rx_buf \in [Indices -> Nat]
  /\ count \in Nat /\ chunk \in Nat /\ seen \in 0..BufLen /\ space \in Nat
  /\ written \in Nat /\ taken \in Nat /\ received \in Nat /\ sent \in Nat
  /\ fifo \in Seq(Nat) /\ typed \in Seq(Nat)
  /\ isr \in {"off", "on", "receive", "send"}

(* What was written is with the terminal, in the FIFO and in the ring, one *)
(* behind the other.                                                       *)
OutputOK ==
  /\ Len(fifo) <= Depth
  /\ isr = "send" => space <= Depth - Len(fifo)
  /\ isr = "receive" /\ wi => space <= Depth - Len(fifo)
  /\ written = received + Len(fifo) + Used(tx_in, tx_out)
  /\ \A j \in 1..Len(fifo) : fifo[j] = received + j
  /\ \A k \in 0..(Used(tx_in, tx_out) - 1) :
        tx_buf[Slot(tx_out, k)] = received + Len(fifo) + 1 + k

(* The bytes copied behind tx_in, and not yet committed, have room there.  *)
ChunkOK ==
  at = "commit" =>
    /\ chunk > 0 /\ chunk <= count
    /\ tx_in + chunk <= BufLen /\ Used(tx_in, tx_out) + chunk <= BufLen - 1
    /\ \A i \in 0..(chunk - 1) : tx_buf[tx_in + i] = written + 1 + i

InputOK ==
  /\ Len(typed) <= Depth
  /\ Released \in Nat
  /\ sent = Released + Used(rx_in, rx_out) + Len(typed)
  /\ \A k \in 0..(Used(rx_in, rx_out) - 1) : rx_buf[Slot(rx_out, k)] = Released + 1 + k
  /\ \A j \in 1..Len(typed) : typed[j] = Released + Used(rx_in, rx_out) + j

CopyOK ==
  at = "copy" => /\ rx_out <= seen /\ seen + chunk <= BufLen
                 /\ seen + chunk - rx_out <= Used(rx_in, rx_out)
                 /\ moved

IInv == Types /\ OutputOK /\ ChunkOK /\ InputOK /\ CopyOK /\ NoByteForgotten /\ NeverDeaf
-----------------------------------------------------------------------------
(* An index moves to the next slot, or to the first one behind the last.   *)
LEMMA FollowingWraps ==
  ASSUME NEW i \in Indices, NEW n \in Nat, i + n <= BufLen
  PROVE  /\ Following(i, n) = IF i + n = BufLen THEN 0 ELSE i + n
         /\ Following(i, n) \in Indices
  BY UartAssumption DEF UartAssumption, Indices, Following

(* A ring has at most one byte fewer than slots, in different slots, and   *)
(* the first free slot is the one the next byte goes to.                   *)
LEMMA RingShape ==
  ASSUME NEW in \in Indices, NEW out \in Indices
  PROVE  /\ Used(in, out) \in 0..(BufLen - 1)
         /\ in # out => Used(in, out) > 0
         /\ Slot(out, 0) = out
         /\ \A k \in 0..(BufLen - 1) : Slot(out, k) \in Indices
         /\ \A k \in 0..(Used(in, out) - 1) : Slot(out, k) # in
  BY UartAssumption DEF UartAssumption, Indices, Used, Slot

(* n bytes put behind the index in, without passing the end of the buffer, *)
(* are the ring's last ones.                                               *)
LEMMA RingPut ==
  ASSUME NEW in \in Indices, NEW out \in Indices, NEW n \in Nat,
         in + n <= BufLen, Used(in, out) + n <= BufLen - 1
  PROVE  /\ Used(Following(in, n), out) = Used(in, out) + n
         /\ \A k \in 0..(Used(in, out) - 1) : Slot(out, k) \notin in..(in + n - 1)
         /\ \A i \in 0..(n - 1) : Slot(out, Used(in, out) + i) = in + i
<1>1. Following(in, n) = IF in + n = BufLen THEN 0 ELSE in + n
  BY FollowingWraps
<1>2. QED
  BY <1>1, UartAssumption DEF UartAssumption, Indices, Used, Slot

(* The first n bytes taken out, those behind them keep their slots.        *)
LEMMA RingGet ==
  ASSUME NEW in \in Indices, NEW out \in Indices, NEW n \in Nat,
         out + n <= BufLen, n <= Used(in, out)
  PROVE  /\ Used(in, Following(out, n)) = Used(in, out) - n
         /\ \A k \in 0..(Used(in, out) - n - 1) : Slot(Following(out, n), k) = Slot(out, n + k)
         /\ \A k \in 0..(n - 1) : Slot(out, k) = out + k
<1>1. Following(out, n) = IF out + n = BufLen THEN 0 ELSE out + n
  BY FollowingWraps
<1>2. QED
  BY <1>1, UartAssumption DEF UartAssumption, Indices, Used, Slot

(* The index one behind in is out only if there is no room.                *)
LEMMA RingFull ==
  ASSUME NEW in \in Indices, NEW out \in Indices, Following(in, 1) # out
  PROVE  Used(in, out) + 1 <= BufLen - 1
<1>1. Following(in, 1) = IF in + 1 = BufLen THEN 0 ELSE in + 1
  <2>1. 1 \in Nat /\ in + 1 <= BufLen
    BY UartAssumption DEF UartAssumption, Indices
  <2>2. QED
    BY <2>1, FollowingWraps
<1>2. QED
  BY <1>1, UartAssumption DEF UartAssumption, Indices, Used

(* The stretch that a write fills is free, the one a read empties is in    *)
(* use, and neither passes the end of the buffer.                          *)
LEMMA Stretches ==
  ASSUME Types
  PROVE  /\ Room \in Int /\ tx_in + Room <= BufLen /\ Used(tx_in, tx_out) + Room <= BufLen - 1
         /\ Available \in Nat /\ rx_out + Available <= BufLen
         /\ Available <= Used(rx_in, rx_out)
<1>1. tx_in \in Int /\ tx_out \in Int /\ rx_in \in Int /\ rx_out \in Int /\ BufLen \in Int
  BY UartAssumption DEF UartAssumption, Types, Indices
<1>2. /\ tx_in >= 0 /\ tx_in < BufLen /\ tx_out >= 0 /\ tx_out < BufLen
      /\ rx_in >= 0 /\ rx_in < BufLen /\ rx_out >= 0 /\ rx_out < BufLen
  BY UartAssumption DEF UartAssumption, Types, Indices
<1>3. Room \in Int /\ tx_in + Room <= BufLen /\ Used(tx_in, tx_out) + Room <= BufLen - 1
  BY <1>1, <1>2 DEF Room, Used
<1>4. Available \in Nat /\ rx_out + Available <= BufLen /\ Available <= Used(rx_in, rx_out)
  BY <1>1, <1>2 DEF Available, Used
<1>5. QED
  BY <1>3, <1>4
-----------------------------------------------------------------------------
(* Every step keeps the indices inside their rings.                        *)
LEMMA TypesFrame ==
  ASSUME Types,
         UNCHANGED <<tx_in, tx_out, tx_buf, rx_in, rx_out, rx_buf>>,
         UNCHANGED <<written, taken, received, sent, fifo, typed>>,
         count' \in Nat, chunk' \in Nat, seen' \in 0..BufLen, space' \in Nat,
         isr' \in {"off", "on", "receive", "send"}
  PROVE  Types'
  BY DEF Types

LEMMA TypesStep ==
  ASSUME Types, OutputOK, ChunkOK, CopyOK, Next
  PROVE  Types'
<1>1. CASE Write
  BY <1>1, TypesFrame, UartAssumption DEF UartAssumption, Types, Write, driver, routine, hardware
<1>2. CASE Fill
  <2>1. chunk' \in Nat /\ chunk' > 0 /\ chunk' <= count /\ tx_in + chunk' <= BufLen
    <3>1. count \in Nat /\ count > 0 /\ Room > 0 /\ chunk' = IF Room < count THEN Room ELSE count
      BY <1>2 DEF Fill, Least, Types
    <3>2. tx_in \in Int /\ BufLen \in Int /\ Room \in Int /\ tx_in + Room <= BufLen
      BY Stretches, UartAssumption, SMTT(30) DEF UartAssumption, Types, Indices
    <3>3. QED
      BY <3>1, <3>2
  <2>2. tx_buf' \in [Indices -> Nat]
    <3>1. \A i \in Indices : i \in tx_in..(tx_in + chunk' - 1) => written + 1 + i - tx_in \in Nat
      BY <2>1 DEF Types, Indices
    <3>2. \A i \in Indices : tx_buf[i] \in Nat
      BY DEF Types
    <3>3. QED
      BY <1>2, <3>1, <3>2 DEF Fill
  <2>3. QED
    BY <1>2, <2>1, <2>2 DEF Fill, Types, routine, hardware
<1>3. CASE Commit
  <2>1. tx_in' \in Indices
    BY <1>3, FollowingWraps DEF Types, ChunkOK, Commit
  <2>2. count' \in Nat /\ chunk' \in Nat /\ written' \in Nat
    BY <1>3 DEF Types, ChunkOK, Commit
  <2>3. QED
    BY <1>3, <2>1, <2>2, SMTT(30) DEF Types, Commit, routine, hardware
<1>4. CASE Full
  <2>1. seen' \in 0..BufLen
    BY <1>4, UartAssumption DEF UartAssumption, Types, Indices, Full
  <2>2. QED
    BY <1>4, <2>1, TypesFrame DEF Types, Full, driver, routine, hardware
<1>5. CASE Kick
  <2>1. 0 \in Nat /\ 0 \in 0..BufLen
    BY UartAssumption DEF UartAssumption
  <2>2. QED
    BY <1>5, <2>1, TypesFrame DEF Types, Kick, Return, routine, hardware
<1>6. CASE Spin
  <2>1. 0 \in Nat /\ 0 \in 0..BufLen
    BY UartAssumption DEF UartAssumption
  <2>2. QED
    BY <1>6, <2>1, TypesFrame DEF Types, Spin, Return, driver, routine, hardware
<1>7. CASE Read
  <2>1. count' \in Nat
    BY <1>7, UartAssumption DEF UartAssumption, Read
  <2>2. UNCHANGED <<driver, chunk, seen, written, taken, routine, hardware>>
    BY <1>7 DEF Read
  <2>3. QED
    BY <2>1, <2>2, TypesFrame DEF Types, driver, routine, hardware
<1>8. CASE Take
  <2>1. chunk' \in Nat /\ count' \in Nat
    BY <1>8, Stretches, SMTT(30) DEF Take, Least, Types
  <2>2. rx_out \in 0..BufLen
    BY UartAssumption DEF UartAssumption, Types, Indices
  <2>3. QED
    BY <1>8, <2>1, <2>2, TypesFrame DEF Types, Take, driver, routine, hardware
<1>9. CASE CopyByte
  <2>1. seen \in Indices
    BY <1>9, UartAssumption DEF UartAssumption, Types, Indices, CopyOK, CopyByte
  <2>2. seen + 1 \in 0..BufLen /\ chunk - 1 \in Nat
    BY <1>9, <2>1, UartAssumption DEF UartAssumption, Types, Indices, CopyByte
  <2>3. QED
    <3>1. rx_buf[seen] \in Nat
      BY <2>1 DEF Types
    <3>2. QED
      BY <1>9, <2>2, <3>1 DEF Types, CopyByte, driver, routine, hardware
<1>10. CASE Release
  <2>1. seen - rx_out \in Nat /\ rx_out + (seen - rx_out) <= BufLen
    BY <1>10, UartAssumption DEF UartAssumption, Types, Indices, CopyOK, Release
  <2>2. rx_out' \in Indices
    BY <1>10, <2>1, FollowingWraps DEF Types, Release
  <2>3. QED
    <3>1. 0 \in 0..BufLen
      BY UartAssumption DEF UartAssumption
    <3>2. QED
      BY <1>10, <2>2, <3>1 DEF Types, Release, routine, hardware
<1>11. CASE Empty
  <2>1. 0 \in Nat /\ rx_in \in 0..BufLen
    BY UartAssumption DEF UartAssumption, Types, Indices
  <2>2. QED
    BY <1>11, <2>1, TypesFrame DEF Types, Empty, Return, driver, routine, hardware
<1>12. CASE Await
  <2>1. 0 \in Nat /\ 0 \in 0..BufLen
    BY UartAssumption DEF UartAssumption
  <2>2. QED
    BY <1>12, <2>1, TypesFrame DEF Types, Await, Return, driver, routine, hardware
<1>13. CASE Reenable
  <2>1. 0 \in Nat /\ 0 \in 0..BufLen
    BY UartAssumption DEF UartAssumption
  <2>2. QED
    BY <1>13, <2>1, TypesFrame, SMTT(30) DEF Types, Reenable, Return, routine, hardware
<1>14. CASE Close \/ Drain
  <2>1. UNCHANGED <<driver, chunk, seen, written, taken, routine, hardware>> /\ count' \in Nat
    BY <1>14, SMTT(30) DEF Types, Close, Drain, Return
  <2>2. QED
    BY <2>1, TypesFrame DEF Types, driver, routine, hardware
<1>15. CASE \E t \in {0, 2} : SetTimeout(t)
  <2>1. /\ UNCHANGED <<tx_in, tx_out, tx_buf, rx_in, rx_out, rx_buf>>
        /\ UNCHANGED <<program, routine, hardware>>
    BY <1>15 DEF SetTimeout
  <2>2. QED
    BY <2>1, TypesFrame DEF Types, program, routine, hardware
<1>16. CASE ReadControl
  <2>1. Depth - Len(fifo) \in Nat /\ 0 \in Nat
    BY UartAssumption DEF UartAssumption, Types, OutputOK
  <2>2. QED
    BY <1>16, <2>1, TypesFrame DEF Types, ReadControl, driver, program, hardware
<1>17. CASE ReceiveByte
  <2>1. rx_in' \in Indices
    BY <1>17, FollowingWraps, UartAssumption DEF UartAssumption, Types, Indices, ReceiveByte, Next_rx
  <2>2. Head(typed) \in Nat /\ Tail(typed) \in Seq(Nat)
    BY <1>17, HeadTailProperties DEF Types, ReceiveByte
  <2>3. QED
    BY <1>17, <2>1, <2>2 DEF Types, ReceiveByte, program
<1>18. CASE EndReceive
  BY <1>18, TypesFrame DEF Types, EndReceive, program, hardware
<1>19. CASE SendByte
  <2>1. tx_out' \in Indices
    BY <1>19, FollowingWraps, UartAssumption DEF UartAssumption, Types, Indices, SendByte
  <2>2. tx_buf[tx_out] \in Nat /\ Append(fifo, tx_buf[tx_out]) \in Seq(Nat)
    BY DEF Types
  <2>3. QED
    BY <1>19, <2>1, <2>2, SMTT(30) DEF Types, SendByte, program
<1>20. CASE EndSend
  BY <1>20, TypesFrame DEF Types, EndSend, program, hardware
<1>21. CASE Timeout
  BY <1>21, TypesFrame DEF Types, Timeout, program, routine
<1>22. CASE HostReceives
  <2>1. Head(fifo) \in Nat /\ Tail(fifo) \in Seq(Nat)
    BY <1>22, HeadTailProperties DEF Types, HostReceives
  <2>2. QED
    BY <1>22, <2>1 DEF Types, HostReceives, driver, program, routine
<1>23. CASE HostTypes
  <2>1. sent' \in Nat /\ Append(typed, sent') \in Seq(Nat)
    BY <1>23 DEF Types, HostTypes
  <2>2. QED
    BY <1>23, <2>1 DEF Types, HostTypes, driver, program, routine
<1>24. QED
  BY <1>1, <1>2, <1>3, <1>4, <1>5, <1>6, <1>7, <1>8, <1>9, <1>10, <1>11, <1>12, <1>13, <1>14,
     <1>15, <1>16, <1>17, <1>18, <1>19, <1>20, <1>21, <1>22, <1>23
  DEF Next, Program, Running, Isr
-----------------------------------------------------------------------------
(* The transmitter: nothing that a step leaves alone is disturbed.         *)
LEMMA OutputFrame ==
  ASSUME OutputOK, UNCHANGED <<tx_in, tx_out, tx_buf, written, received, fifo>>,
         isr' = "send" => space' <= Depth - Len(fifo),
         isr' = "receive" /\ wi' => space' <= Depth - Len(fifo)
  PROVE  OutputOK'
  BY DEF OutputOK

(* The interrupt routine moves the oldest byte of the ring into the FIFO.  *)
LEMMA SendByteStep ==
  ASSUME Types, OutputOK, SendByte
  PROVE  /\ OutputOK' /\ Used(tx_in, tx_out)' = Used(tx_in, tx_out) - 1
<1> USE UartAssumption DEF UartAssumption
<1> DEFINE u == Used(tx_in, tx_out)  l == Len(fifo)
<1>1. /\ tx_in \in Indices /\ tx_out \in Indices /\ tx_out + 1 <= BufLen /\ 1 \in Nat
      /\ tx_out # tx_in /\ u \in Nat /\ u > 0 /\ Slot(tx_out, 0) = tx_out
      /\ l \in Nat /\ received \in Nat /\ space \in Nat
  <2>1. tx_in \in Indices /\ tx_out \in Indices /\ tx_out # tx_in
    BY DEF Types, SendByte
  <2>2. u \in 0..(BufLen - 1) /\ u > 0 /\ Slot(tx_out, 0) = tx_out
    BY <2>1, RingShape
  <2>3. l \in Nat /\ received \in Nat /\ space \in Nat
    BY DEF Types
  <2>4. QED
    BY <2>1, <2>2, <2>3 DEF Indices
<1>2. /\ Used(tx_in, Following(tx_out, 1)) = u - 1
      /\ \A k \in 0..(u - 2) : Slot(Following(tx_out, 1), k) = Slot(tx_out, 1 + k)
  BY <1>1, RingGet
<1>3. /\ tx_out' = Following(tx_out, 1) /\ fifo' = Append(fifo, tx_buf[tx_out])
      /\ space' = space - 1 /\ space > 0 /\ isr = "send" /\ isr' = isr
      /\ UNCHANGED <<tx_in, tx_buf, written, received, wi>>
  BY DEF SendByte, program
<1>4. tx_buf[tx_out] = received + l + 1
  <2>1. 0 \in 0..(u - 1) /\ received + l + 1 + 0 = received + l + 1
    BY <1>1
  <2>2. \A k \in 0..(u - 1) : tx_buf[Slot(tx_out, k)] = received + l + 1 + k
    BY DEF OutputOK
  <2>3. QED
    BY <1>1, <2>1, <2>2
<1>5. Len(fifo') = l + 1 /\ \A j \in 1..(l + 1) : fifo'[j] = received + j
  <2>1. fifo \in Seq(Nat) /\ tx_buf[tx_out] \in Nat
    BY DEF Types
  <2>2. \A j \in 1..l : fifo[j] = received + j
    BY DEF OutputOK
  <2>3. /\ Len(fifo') = l + 1
        /\ \A j \in 1..(l + 1) : fifo'[j] = IF j = l + 1 THEN tx_buf[tx_out] ELSE fifo[j]
    BY <1>1, <1>3, <2>1
  <2>4. ASSUME NEW j \in 1..(l + 1)  PROVE fifo'[j] = received + j
    <3>1. j = l + 1 \/ j \in 1..l
      BY <1>1
    <3>2. fifo'[j] = IF j = l + 1 THEN tx_buf[tx_out] ELSE fifo[j]
      BY <2>3
    <3>3. CASE j = l + 1
      BY <1>1, <1>4, <3>2, <3>3
    <3>4. CASE j # l + 1 /\ j \in 1..l
      BY <2>2, <3>2, <3>4
    <3>5. QED
      BY <3>1, <3>3, <3>4
  <2>5. QED
    BY <2>3, <2>4
<1>6. Len(fifo') <= Depth /\ space' <= Depth - Len(fifo')
  BY <1>1, <1>3, <1>5 DEF OutputOK
<1>7. written = received + Len(fifo') + (u - 1)
  BY <1>1, <1>5 DEF OutputOK
<1>8. \A k \in 0..(u - 2) : tx_buf[Slot(tx_out', k)] = received + Len(fifo') + 1 + k
  <2> TAKE k \in 0..(u - 2)
  <2>1. Slot(tx_out', k) = Slot(tx_out, 1 + k) /\ 1 + k \in 0..(u - 1)
    BY <1>1, <1>2, <1>3
  <2>2. tx_buf[Slot(tx_out, 1 + k)] = received + l + 1 + (1 + k)
    BY <2>1 DEF OutputOK
  <2>3. QED
    BY <1>1, <1>5, <2>1, <2>2
<1>9. Used(tx_in, tx_out)' = u - 1
  BY <1>2, <1>3
<1> HIDE DEF u, l
<1>10. OutputOK'
  <2>1. \A j \in 1..Len(fifo') : fifo'[j] = received' + j
    BY <1>3, <1>5
  <2>2. written' = received' + Len(fifo') + Used(tx_in, tx_out)'
    BY <1>3, <1>7, <1>9
  <2>3. \A k \in 0..(Used(tx_in, tx_out)' - 1) :
           tx_buf'[Slot(tx_out', k)] = received' + Len(fifo') + 1 + k
    BY <1>1, <1>3, <1>8, <1>9
  <2>4. QED
    BY <1>3, <1>6, <2>1, <2>2, <2>3 DEF OutputOK
<1>11. QED
  BY <1>9, <1>10 DEF u

(* The terminal takes the oldest byte of the FIFO.                         *)
LEMMA HostReceivesStep ==
  ASSUME Types, OutputOK, HostReceives
  PROVE  OutputOK' /\ received' = received + 1 /\ received < written
<1> USE UartAssumption DEF UartAssumption
<1> DEFINE u == Used(tx_in, tx_out)  l == Len(fifo)
<1>1. /\ fifo # << >> /\ received' = Head(fifo) /\ fifo' = Tail(fifo)
      /\ UNCHANGED <<tx_in, tx_out, tx_buf, written, isr, wi, space>>
  BY DEF HostReceives, driver, program, routine
<1>2. /\ Len(fifo') = l - 1 /\ l \in Nat /\ l > 0
      /\ \A j \in 1..(l - 1) : fifo'[j] = fifo[j + 1]
      /\ Head(fifo) = fifo[1]
  <2>1. fifo \in Seq(Nat) /\ fifo # << >>
    BY <1>1 DEF Types
  <2>2. l \in Nat /\ l > 0 /\ Head(fifo) = fifo[1]
    BY <2>1
  <2>3. QED
    BY <1>1, <2>1, <2>2, HeadTailProperties
<1>3. received' = received + 1 /\ received \in Nat /\ u \in Nat /\ space \in Nat
  BY <1>1, <1>2, RingShape DEF OutputOK, Types
<1>4. \A j \in 1..Len(fifo') : fifo'[j] = received' + j
  <2> TAKE j \in 1..Len(fifo')
  <2>1. fifo'[j] = fifo[j + 1] /\ j + 1 \in 1..l /\ j \in Nat
    BY <1>2
  <2>2. fifo[j + 1] = received + (j + 1)
    BY <2>1 DEF OutputOK
  <2>3. QED
    BY <1>3, <2>1, <2>2
<1>5. /\ received' + Len(fifo') = received + l
      /\ Len(fifo') <= l /\ written = received + l + u
  BY <1>2, <1>3 DEF OutputOK
<1>6. u' = u
  BY <1>1
<1> HIDE DEF u
<1>7. \A k \in 0..(u - 1) : tx_buf'[Slot(tx_out', k)] = received' + Len(fifo') + 1 + k
  BY <1>1, <1>5 DEF OutputOK, u
<1>8. OutputOK'
  <2>1. Len(fifo') <= Depth
    BY <1>2, <1>5 DEF OutputOK
  <2>2. /\ isr' = "send" => space' <= Depth - Len(fifo')
        /\ isr' = "receive" /\ wi' => space' <= Depth - Len(fifo')
    BY <1>1, <1>2, <1>3, <1>5 DEF OutputOK
  <2>3. written' = received' + Len(fifo') + u'
    BY <1>1, <1>5, <1>6
  <2>4. QED
    BY <1>4, <1>6, <1>7, <2>1, <2>2, <2>3 DEF OutputOK, u
<1>9. QED
  BY <1>2, <1>3, <1>5, <1>8

(* A write copies into free slots only, and then commits what it copied.   *)
LEMMA FillStep ==
  ASSUME Types, OutputOK, Fill
  PROVE  OutputOK' /\ ChunkOK'
<1> USE UartAssumption DEF UartAssumption
<1> DEFINE u == Used(tx_in, tx_out)
<1>1. /\ UNCHANGED <<tx_in, tx_out, count, written, received, fifo, isr, wi, space>>
      /\ tx_buf' = [i \in Indices |-> IF i \in tx_in..(tx_in + chunk' - 1)
                                        THEN written + 1 + i - tx_in ELSE tx_buf[i]]
  BY DEF Fill, routine, hardware
<1>2. PICK n \in Nat : /\ chunk' = n /\ n > 0 /\ n <= count
                       /\ tx_in + n <= BufLen /\ u + n <= BufLen - 1
  <2>1. /\ chunk' = IF Room < count THEN Room ELSE count
        /\ Room > 0 /\ count > 0 /\ count \in Nat
    BY DEF Fill, Least, Types
  <2>2. Room \in Int /\ tx_in + Room <= BufLen /\ u + Room <= BufLen - 1
    BY Stretches
  <2>3. tx_in \in Indices /\ u \in 0..(BufLen - 1)
    BY RingShape DEF Types
  <2>4. QED
    BY <2>1, <2>2, <2>3 DEF Indices
<1>3. /\ tx_in \in Indices /\ tx_out \in Indices /\ u \in 0..(BufLen - 1)
      /\ received \in Nat /\ Len(fifo) \in Nat /\ written \in Nat
  BY RingShape DEF Types
<1>4. \A k \in 0..(u - 1) : /\ Slot(tx_out, k) \in Indices
                            /\ Slot(tx_out, k) \notin tx_in..(tx_in + n - 1)
  <2>1. \A k \in 0..(u - 1) : Slot(tx_out, k) \notin tx_in..(tx_in + n - 1)
    BY <1>2, <1>3, RingPut
  <2>2. \A k \in 0..(BufLen - 1) : Slot(tx_out, k) \in Indices
    BY <1>3, RingShape
  <2>3. QED
    BY <1>3, <2>1, <2>2
<1>5. \A k \in 0..(u - 1) : tx_buf'[Slot(tx_out, k)] = tx_buf[Slot(tx_out, k)]
  BY <1>1, <1>2, <1>4
<1>6. OutputOK'
  <2>1. \A k \in 0..(u - 1) : tx_buf'[Slot(tx_out', k)] = received' + Len(fifo') + 1 + k
    BY <1>1, <1>5 DEF OutputOK
  <2>2. u' = u
    BY <1>1
  <2>3. QED
    BY <1>1, <2>1, <2>2 DEF OutputOK
<1>7. ASSUME NEW i \in 0..(n - 1)  PROVE tx_buf'[tx_in + i] = written + 1 + i
  <2>1. tx_in \in Int /\ written \in Int /\ i \in Int
    BY <1>3 DEF Indices
  <2>2. /\ tx_in + i \in Indices /\ tx_in + i \in tx_in..(tx_in + n - 1)
        /\ written + 1 + (tx_in + i) - tx_in = written + 1 + i
    <3>1. i >= 0 /\ i <= n - 1 /\ tx_in >= 0 /\ tx_in + n <= BufLen
      BY <1>2, <1>3 DEF Indices
    <3>2. QED
      BY <2>1, <3>1 DEF Indices
  <2>3. QED
    BY <1>1, <1>2, <2>2
<1>8. ChunkOK'
  BY <1>1, <1>2, <1>7 DEF ChunkOK
<1>9. QED
  BY <1>6, <1>8

LEMMA CommitStep ==
  ASSUME Types, OutputOK, ChunkOK, Commit
  PROVE  /\ OutputOK' /\ chunk > 0 /\ written' = written + chunk
         /\ written + chunk <= received + Len(fifo) + BufLen - 1
<1> USE UartAssumption DEF UartAssumption
<1> DEFINE u == Used(tx_in, tx_out)
<1>1. /\ tx_in' = Following(tx_in, chunk) /\ written' = written + chunk
      /\ UNCHANGED <<tx_out, tx_buf, received, fifo, isr, wi, space>> /\ at = "commit"
  BY DEF Commit, routine, hardware
<1>2. /\ chunk > 0 /\ tx_in + chunk <= BufLen /\ u + chunk <= BufLen - 1
      /\ \A i \in 0..(chunk - 1) : tx_buf[tx_in + i] = written + 1 + i
  BY <1>1 DEF ChunkOK
<1>3. /\ tx_in \in Indices /\ tx_out \in Indices /\ u \in 0..(BufLen - 1)
      /\ received \in Nat /\ Len(fifo) \in Nat /\ written \in Nat /\ chunk \in Nat
  BY RingShape DEF Types
<1>4. /\ Used(tx_in, tx_out)' = u + chunk
      /\ \A i \in 0..(chunk - 1) : Slot(tx_out, u + i) = tx_in + i
  BY <1>1, <1>2, <1>3, RingPut
<1>5. /\ written = received + Len(fifo) + u
      /\ \A k \in 0..(u - 1) : tx_buf[Slot(tx_out, k)] = received + Len(fifo) + 1 + k
  BY DEF OutputOK
<1> HIDE DEF u
<1>6. PICK n \in Nat : n = u + chunk
  BY <1>3
<1>7. ASSUME NEW k \in 0..(n - 1)
      PROVE  tx_buf[Slot(tx_out, k)] = received + Len(fifo) + 1 + k
  <2>1. CASE k < u
    BY <1>3, <1>5, <2>1
  <2>2. CASE k >= u
    <3>1. k - u \in 0..(chunk - 1) /\ u + (k - u) = k
      BY <1>3, <1>6, <2>2
    <3>2. Slot(tx_out, k) = tx_in + (k - u) /\ tx_buf[tx_in + (k - u)] = written + 1 + (k - u)
      BY <1>2, <1>4, <3>1
    <3>3. QED
      BY <1>3, <1>5, <3>2
  <2>3. QED
    BY <1>3, <2>1, <2>2
<1>8. Used(tx_in, tx_out)' = n /\ written' = received' + Len(fifo') + Used(tx_in, tx_out)'
  BY <1>1, <1>3, <1>4, <1>5, <1>6
<1>9. OutputOK'
  <2>1. \A k \in 0..(n - 1) : tx_buf'[Slot(tx_out', k)] = received' + Len(fifo') + 1 + k
    BY <1>1, <1>7
  <2>2. QED
    BY <1>1, <1>8, <2>1, SMTT(30) DEF OutputOK
<1>10. QED
  BY <1>1, <1>2, <1>3, <1>5, <1>9, SMTT(30) DEF u

(* What the program does apart from filling and committing leaves the      *)
(* ring alone, and leaves a write only when the interrupt is enabled.      *)
LEMMA OutputProgramFrame ==
  ASSUME OutputOK, NoByteForgotten,
         UNCHANGED <<tx_in, tx_out, tx_buf, written, received, fifo, isr, wi, space>>,
         at' # "commit",
         \/ "WE" \in irq_enable'
         \/ at' \in {"fill", "kick"}
         \/ irq_enable \subseteq irq_enable' /\ at \notin {"fill", "commit", "kick"}
  PROVE  OutputOK' /\ ChunkOK' /\ NoByteForgotten'
<1>1. OutputOK'
  BY OutputFrame DEF OutputOK
<1>2. ChunkOK'
  BY DEF ChunkOK
<1>3. NoByteForgotten'
  BY DEF NoByteForgotten
<1>4. QED
  BY <1>1, <1>2, <1>3

LEMMA OutputStep ==
  ASSUME Types, OutputOK, ChunkOK, NoByteForgotten, Next
  PROVE  OutputOK' /\ ChunkOK' /\ NoByteForgotten'
<1>1. CASE Write
  BY <1>1, OutputProgramFrame DEF Write, driver, routine, hardware
<1>2. CASE Fill
  BY <1>2, FillStep DEF Fill, NoByteForgotten
<1>3. CASE Commit
  BY <1>3, CommitStep DEF Commit, ChunkOK, NoByteForgotten
<1>4. CASE Full
  BY <1>4, OutputProgramFrame DEF Full, driver, routine, hardware
<1>5. CASE Kick
  BY <1>5, OutputProgramFrame DEF Kick, Return, routine, hardware
<1>6. CASE Spin
  BY <1>6, OutputProgramFrame DEF Spin, Return, driver, routine, hardware
<1>7. CASE Read \/ Take \/ CopyByte \/ Release \/ Empty \/ Await
  BY <1>7, OutputProgramFrame
  DEF Read, Take, CopyByte, Release, Empty, Await, Return, driver, routine, hardware
<1>8. CASE Reenable
  BY <1>8, OutputProgramFrame DEF Reenable, Return, routine, hardware
<1>9. CASE Close \/ Drain
  BY <1>9, OutputProgramFrame DEF Close, Drain, Return, driver, routine, hardware
<1>10. CASE \E t \in {0, 2} : SetTimeout(t)
  <2>1. /\ UNCHANGED <<tx_in, tx_out, tx_buf, irq_enable, program, routine, hardware>>
    BY <1>10 DEF SetTimeout
  <2>2. QED
    BY <2>1, OutputFrame DEF OutputOK, ChunkOK, NoByteForgotten, program, routine, hardware
<1>11. CASE ReadControl
  <2>1. /\ UNCHANGED <<tx_in, tx_out, tx_buf, written, received, fifo>>
        /\ space' = IF wi' THEN Depth - Len(fifo) ELSE 0
        /\ isr' = "send" => wi'
    BY <1>11 DEF ReadControl, driver, program, hardware
  <2>2. Depth - Len(fifo) <= Depth - Len(fifo)
    BY UartAssumption DEF UartAssumption, Types
  <2>3. OutputOK'
    BY <2>1, <2>2, OutputFrame
  <2>4. QED
    BY <1>11, <2>3 DEF ReadControl, ChunkOK, NoByteForgotten, driver, program, hardware
<1>12. CASE ReceiveByte
  BY <1>12, OutputFrame DEF ReceiveByte, OutputOK, ChunkOK, NoByteForgotten, program
<1>13. CASE EndReceive
  <2>1. OutputOK'
    BY <1>13, OutputFrame DEF EndReceive, OutputOK, program, hardware
  <2>2. QED
    BY <1>13, <2>1 DEF EndReceive, ChunkOK, NoByteForgotten, program, hardware
<1>14. CASE SendByte
  <2>1. OutputOK' /\ Used(tx_in, tx_out)' = Used(tx_in, tx_out) - 1
    BY <1>14, SendByteStep
  <2>2. UNCHANGED <<tx_in, tx_buf, irq_enable, at, count, chunk, written>> /\ tx_out # tx_in
    BY <1>14 DEF SendByte, program
  <2>3. ChunkOK'
    <3>1. Used(tx_in, tx_out) \in 0..(BufLen - 1) /\ chunk \in Nat
      BY RingShape DEF Types
    <3>2. QED
      BY <2>1, <2>2, <3>1, UartAssumption DEF ChunkOK, UartAssumption
  <2>4. NoByteForgotten'
    BY <2>2 DEF NoByteForgotten
  <2>5. QED
    BY <2>1, <2>3, <2>4
<1>15. CASE EndSend
  <2>1. OutputOK'
    BY <1>15, OutputFrame DEF EndSend, program, hardware
  <2>2. NoByteForgotten'
    BY <1>15 DEF EndSend, NoByteForgotten, Types, program
  <2>3. QED
    BY <1>15, <2>1, <2>2 DEF EndSend, ChunkOK, program, hardware
<1>16. CASE Timeout
  BY <1>16, OutputFrame DEF Timeout, OutputOK, ChunkOK, NoByteForgotten, program, routine
<1>17. CASE HostReceives
  <2>1. OutputOK'
    BY <1>17, HostReceivesStep
  <2>2. QED
    BY <1>17, <2>1 DEF HostReceives, ChunkOK, NoByteForgotten, driver, program
<1>18. CASE HostTypes
  BY <1>18, OutputFrame DEF HostTypes, OutputOK, ChunkOK, NoByteForgotten, driver, program, routine
<1>19. QED
  BY <1>1, <1>2, <1>3, <1>4, <1>5, <1>6, <1>7, <1>8, <1>9, <1>10, <1>11, <1>12, <1>13, <1>14,
     <1>15, <1>16, <1>17, <1>18
  DEF Next, Program, Running, Isr
-----------------------------------------------------------------------------
(* The receiver.  A read changes the ring only when it gives back what it  *)
(* copied.                                                                 *)
LEMMA InputFrame ==
  ASSUME InputOK, UNCHANGED <<rx_in, rx_out, rx_buf, sent, typed>>, Released' = Released
  PROVE  InputOK'
  BY DEF InputOK

LEMMA InputNumbers ==
  ASSUME Types
  PROVE  /\ rx_in \in Indices /\ rx_out \in Indices /\ rx_out \in Nat /\ BufLen \in Nat
         /\ seen \in Nat /\ chunk \in Nat /\ taken \in Nat /\ sent \in Nat
         /\ Used(rx_in, rx_out) \in 0..(BufLen - 1) /\ Len(typed) \in Nat
<1>1. rx_in \in Indices /\ rx_out \in Indices
  BY DEF Types
<1>2. Used(rx_in, rx_out) \in 0..(BufLen - 1)
  BY <1>1, RingShape
<1>3. QED
  BY <1>1, <1>2, UartAssumption DEF UartAssumption, Types, Indices

LEMMA InputProgramFrame ==
  ASSUME InputOK, NeverDeaf, UNCHANGED <<rx_in, rx_out, rx_buf, sent, typed, taken>>,
         at # "copy", at' # "copy",
         \/ "RE" \in irq_enable'
         \/ irq_enable \subseteq irq_enable' /\ (at \notin {"take", "reenable"} \/ ~moved)
         \/ irq_enable \subseteq irq_enable' /\ at' \in {"take", "reenable"} /\ moved'
  PROVE  InputOK' /\ CopyOK' /\ NeverDeaf'
<1>1. Released' = Released
  BY DEF Released
<1>2. InputOK'
  BY <1>1, InputFrame
<1>3. CopyOK'
  BY DEF CopyOK
<1>4. NeverDeaf'
  BY DEF NeverDeaf
<1>5. QED
  BY <1>2, <1>3, <1>4

LEMMA TakeStep ==
  ASSUME Types, InputOK, NeverDeaf, Take
  PROVE  InputOK' /\ CopyOK' /\ NeverDeaf'
<1> USE UartAssumption DEF UartAssumption
<1>1. /\ UNCHANGED <<rx_in, rx_out, rx_buf, sent, typed, taken, irq_enable>>
      /\ at = "take" /\ at' = "copy" /\ moved' /\ seen' = rx_out
      /\ chunk' = IF Available < count THEN Available ELSE count
  BY DEF Take, Least, driver, routine, hardware
<1>2. rx_out \in Nat /\ BufLen \in Nat /\ taken \in Nat /\ count \in Nat
  BY DEF Types, Indices
<1>3. Released' = Released
  BY <1>1, <1>2 DEF Released
<1>4. InputOK'
  BY <1>1, <1>3, InputFrame
<1>5. CopyOK'
  <2>1. /\ Available \in Nat /\ rx_out + Available <= BufLen
        /\ Available <= Used(rx_in, rx_out)
    BY Stretches
  <2>2. Used(rx_in, rx_out) \in 0..(BufLen - 1)
    BY InputNumbers
  <2>3. PICK n \in Nat : chunk' = n /\ n <= Available
    BY <1>1, <1>2, <2>1
  <2>4. /\ rx_out <= rx_out /\ rx_out + n <= BufLen
        /\ rx_out + n - rx_out <= Used(rx_in, rx_out)
    BY <1>2, <2>1, <2>2, <2>3
  <2>5. QED
    BY <1>1, <2>3, <2>4 DEF CopyOK
<1>6. NeverDeaf'
  BY <1>1 DEF NeverDeaf
<1>7. QED
  BY <1>4, <1>5, <1>6

(* What is copied is the next byte that was sent.                          *)
LEMMA CopyByteStep ==
  ASSUME Types, InputOK, CopyOK, NeverDeaf, CopyByte
  PROVE  InputOK' /\ CopyOK' /\ NeverDeaf' /\ taken' = taken + 1 /\ taken < sent
<1> USE UartAssumption DEF UartAssumption
<1> DEFINE u == Used(rx_in, rx_out)
<1>1. /\ UNCHANGED <<rx_in, rx_out, rx_buf, sent, typed, irq_enable, at, moved>>
      /\ at = "copy" /\ chunk > 0 /\ taken' = rx_buf[seen] /\ seen' = seen + 1
      /\ chunk' = chunk - 1
  BY DEF CopyByte, driver, routine, hardware
<1>2. /\ rx_in \in Indices /\ rx_out \in Indices /\ rx_out \in Nat /\ seen \in Nat /\ chunk \in Nat
      /\ taken \in Nat /\ BufLen \in Nat /\ u \in 0..(BufLen - 1) /\ Len(typed) \in Nat
  BY InputNumbers
<1>3. /\ rx_out <= seen /\ seen + chunk <= BufLen /\ seen + chunk - rx_out <= u
      /\ moved /\ Released = taken - (seen - rx_out) /\ Released \in Nat
  BY <1>1 DEF CopyOK, Released, InputOK
<1>4. PICK k \in Nat : k = seen - rx_out
  BY <1>2, <1>3
<1>5. k \in 0..(u - 1) /\ Slot(rx_out, k) = seen
  BY <1>1, <1>2, <1>3, <1>4 DEF Slot
<1>6. rx_buf[seen] = Released + 1 + k
  BY <1>5 DEF InputOK
<1>7. taken' = taken + 1
  BY <1>1, <1>2, <1>3, <1>4, <1>6
<1>8. taken < sent
  <2>1. sent = Released + u + Len(typed)
    BY DEF InputOK
  <2>2. QED
    BY <2>1, <1>2, <1>3, <1>4, <1>5, SMTT(30)
<1>9. Released' = Released
  <2>1. Released' = taken' - (seen' - rx_out')
    BY <1>1 DEF Released
  <2>2. QED
    BY <1>1, <1>2, <1>3, <1>7, <2>1
<1>10. InputOK'
  BY <1>1, <1>9, InputFrame
<1>11. CopyOK'
  <2>1. /\ rx_out <= seen + 1 /\ seen + 1 + (chunk - 1) <= BufLen
        /\ seen + 1 + (chunk - 1) - rx_out <= u
    BY <1>2, <1>3
  <2>2. QED
    BY <1>1, <1>3, <2>1 DEF CopyOK
<1>12. NeverDeaf'
  BY <1>1 DEF NeverDeaf
<1>13. QED
  BY <1>7, <1>8, <1>10, <1>11, <1>12

(* The slots given back are those of the bytes copied.                     *)
LEMMA ReleaseStep ==
  ASSUME Types, InputOK, CopyOK, NeverDeaf, Release
  PROVE  InputOK' /\ CopyOK' /\ NeverDeaf'
<1> USE UartAssumption DEF UartAssumption
<1> DEFINE u == Used(rx_in, rx_out)
<1>1. /\ UNCHANGED <<rx_in, rx_buf, sent, typed, irq_enable, taken, moved>>
      /\ at = "copy" /\ at' = "take" /\ chunk = 0
      /\ rx_out' = Following(rx_out, seen - rx_out)
  BY DEF Release, routine, hardware
<1>2. /\ rx_in \in Indices /\ rx_out \in Indices /\ rx_out \in Nat /\ seen \in Nat
      /\ taken \in Nat /\ BufLen \in Nat /\ u \in 0..(BufLen - 1) /\ Len(typed) \in Nat
  BY InputNumbers
<1>3. /\ rx_out <= seen /\ seen <= BufLen /\ seen - rx_out <= u
      /\ moved /\ Released = taken - (seen - rx_out) /\ Released \in Nat
  BY <1>1, <1>2 DEF CopyOK, Released, InputOK
<1>4. PICK n \in Nat : n = seen - rx_out
  BY <1>2, <1>3
<1>5. /\ Used(rx_in, rx_out)' = u - n
      /\ \A k \in 0..(u - n - 1) : Slot(rx_out', k) = Slot(rx_out, n + k)
  <2>1. rx_out + n <= BufLen /\ n <= u /\ rx_out' = Following(rx_out, n)
    BY <1>1, <1>2, <1>3, <1>4
  <2>2. QED
    BY <1>1, <1>2, <2>1, RingGet
<1>6. PICK v \in Nat : v = u - n
  BY <1>2, <1>3, <1>4
<1>7. Released' = Released + n /\ Released' \in Nat
  BY <1>1, <1>2, <1>3, <1>4 DEF Released
<1>8. ASSUME NEW k \in 0..(v - 1)  PROVE rx_buf[Slot(rx_out', k)] = Released' + 1 + k
  <2>1. Slot(rx_out', k) = Slot(rx_out, n + k) /\ n + k \in 0..(u - 1)
    BY <1>2, <1>5, <1>6, SMTT(30)
  <2>2. rx_buf[Slot(rx_out, n + k)] = Released + 1 + (n + k)
    BY <2>1 DEF InputOK
  <2>3. QED
    BY <1>3, <1>7, <2>1, <2>2
<1>9. InputOK'
  <2>1. /\ sent = Released + u + Len(typed) /\ Len(typed) <= Depth
        /\ \A j \in 1..Len(typed) : typed[j] = Released + u + j
    BY DEF InputOK
  <2>2. Used(rx_in, rx_out)' = v /\ Released' + v = Released + u
    BY <1>2, <1>3, <1>5, <1>6, <1>7, SMTT(30)
  <2>3. /\ Len(typed') <= Depth /\ sent' = Released' + v + Len(typed')
        /\ \A j \in 1..Len(typed') : typed'[j] = Released' + v + j
    BY <1>1, <2>1, <2>2
  <2>4. \A k \in 0..(v - 1) : rx_buf'[Slot(rx_out', k)] = Released' + 1 + k
    BY <1>1, <1>8
  <2>5. QED
    BY <1>7, <2>2, <2>3, <2>4 DEF InputOK
<1>10. CopyOK' /\ NeverDeaf'
  BY <1>1, <1>3 DEF CopyOK, NeverDeaf
<1>11. QED
  BY <1>9, <1>10

(* The interrupt routine moves a byte from the FIFO into a free slot.      *)
LEMMA ReceiveByteStep ==
  ASSUME Types, InputOK, CopyOK, NeverDeaf, ReceiveByte
  PROVE  InputOK' /\ CopyOK' /\ NeverDeaf'
<1> USE UartAssumption DEF UartAssumption
<1> DEFINE u == Used(rx_in, rx_out)  l == Len(typed)
<1>1. /\ UNCHANGED <<rx_out, sent, irq_enable, taken, moved, at, seen, chunk>>
      /\ rx_buf' = [rx_buf EXCEPT ![rx_in] = Head(typed)]
      /\ rx_in' = Following(rx_in, 1) /\ Following(rx_in, 1) # rx_out
      /\ typed # << >> /\ typed' = Tail(typed)
  BY DEF ReceiveByte, Next_rx, program
<1>2. /\ rx_in \in Indices /\ rx_out \in Indices /\ rx_out \in Nat /\ seen \in Nat /\ chunk \in Nat
      /\ taken \in Nat /\ BufLen \in Nat /\ u \in 0..(BufLen - 1) /\ l \in Nat
  BY InputNumbers
<1>3. /\ Released' = Released /\ Released \in Nat
      /\ sent = Released + u + l /\ l <= Depth
      /\ \A j \in 1..l : typed[j] = Released + u + j
      /\ \A k \in 0..(u - 1) : rx_buf[Slot(rx_out, k)] = Released + 1 + k
  BY <1>1 DEF Released, InputOK
<1>4. /\ Len(typed') = l - 1 /\ l > 0 /\ Head(typed) = typed[1]
      /\ \A j \in 1..(l - 1) : typed'[j] = typed[j + 1]
  <2>1. typed \in Seq(Nat) /\ typed # << >>
    BY <1>1 DEF Types
  <2>2. l > 0 /\ Head(typed) = typed[1]
    BY <2>1
  <2>3. QED
    BY <1>1, <2>1, <2>2, HeadTailProperties
<1>5. /\ Used(rx_in, rx_out)' = u + 1 /\ u + 1 <= BufLen - 1
      /\ \A k \in 0..(u - 1) : Slot(rx_out, k) # rx_in
      /\ Slot(rx_out, u) = rx_in
  <2>1. u + 1 <= BufLen - 1 /\ rx_in + 1 <= BufLen /\ 1 \in Nat
    BY <1>1, <1>2, RingFull DEF Indices
  <2>2. /\ Used(Following(rx_in, 1), rx_out) = u + 1
        /\ \A i \in 0..(1 - 1) : Slot(rx_out, u + i) = rx_in + i
    BY <1>2, <2>1, RingPut
  <2>3. Slot(rx_out, u) = rx_in
    <3>1. 0 \in 0..(1 - 1) /\ u + 0 = u /\ rx_in + 0 = rx_in
      BY <1>2 DEF Indices
    <3>2. QED
      BY <2>2, <3>1
  <2>4. \A k \in 0..(u - 1) : Slot(rx_out, k) # rx_in
    BY <1>2, RingShape
  <2>5. QED
    BY <1>1, <2>1, <2>2, <2>3, <2>4
<1>6. PICK v \in Nat : v = u + 1
  BY <1>2
<1>7. ASSUME NEW k \in 0..(v - 1)  PROVE rx_buf'[Slot(rx_out, k)] = Released + 1 + k
  <2>1. rx_buf \in [Indices -> Nat] /\ Slot(rx_out, k) \in Indices
    <3>1. k \in 0..(BufLen - 1)
      BY <1>2, <1>5, <1>6
    <3>2. QED
      BY <1>2, <3>1, RingShape DEF Types
  <2>2. CASE k = u
    <3>1. rx_buf'[rx_in] = typed[1] /\ 1 \in 1..l
      BY <1>1, <1>2, <1>4, <2>1
    <3>2. typed[1] = Released + u + 1
      BY <1>3, <3>1
    <3>3. QED
      BY <1>2, <1>3, <1>5, <2>2, <3>1, <3>2
  <2>3. CASE k # u
    <3>1. k \in 0..(u - 1)
      BY <1>2, <1>6, <2>3, SMTT(30)
    <3>2. Slot(rx_out, k) # rx_in
      BY <1>5, <3>1
    <3>3. rx_buf'[Slot(rx_out, k)] = rx_buf[Slot(rx_out, k)]
      BY <1>1, <2>1, <3>2
    <3>4. QED
      BY <1>3, <3>1, <3>3
  <2>4. QED
    BY <2>2, <2>3
<1>8. PICK m \in Nat : m = l - 1
  BY <1>2, <1>4
<1>9. ASSUME NEW j \in 1..m  PROVE typed'[j] = Released + v + j
  <2>1. typed'[j] = typed[j + 1] /\ j + 1 \in 1..l
    BY <1>2, <1>4, <1>8, SMTT(30)
  <2>2. typed[j + 1] = Released + u + (j + 1)
    BY <1>3, <2>1
  <2>3. Released \in Int /\ u \in Int /\ j \in Int /\ v = u + 1
    BY <1>2, <1>3, <1>6
  <2>4. Released + u + (j + 1) = Released + (u + 1) + j
    BY <2>3
  <2>5. QED
    BY <2>1, <2>2, <2>3, <2>4
<1>10. InputOK'
  <2>1. /\ Len(typed') = m /\ m <= Depth /\ sent' = Released' + v + m
        /\ Used(rx_in, rx_out)' = v
    <3>1. Len(typed') = m /\ Used(rx_in, rx_out)' = v
      BY <1>4, <1>5, <1>6, <1>8
    <3>2. sent = Released + u + l /\ l <= Depth /\ sent' = sent /\ Released' = Released
      BY <1>1, <1>3
    <3>3. u \in Int /\ l \in Int /\ Released \in Int /\ Depth \in Int
      BY <1>2, <1>3
    <3>4. m <= Depth /\ sent = Released + v + m
      BY <1>6, <1>8, <3>2, <3>3, SMTT(30)
    <3>5. QED
      BY <3>1, <3>2, <3>4
  <2>2. \A k \in 0..(v - 1) : rx_buf'[Slot(rx_out', k)] = Released' + 1 + k
    BY <1>1, <1>3, <1>7
  <2>3. \A j \in 1..m : typed'[j] = Released' + v + j
    BY <1>3, <1>9
  <2>4. QED
    BY <1>3, <2>1, <2>2, <2>3 DEF InputOK
<1>11. CopyOK'
  <2>1. seen + chunk - rx_out <= u => seen + chunk - rx_out <= u + 1
    BY <1>2
  <2>2. QED
    BY <1>1, <1>5, <2>1 DEF CopyOK
<1>12. NeverDeaf'
  BY <1>1 DEF NeverDeaf
<1>13. QED
  BY <1>10, <1>11, <1>12

(* The terminal sends the next byte.                                       *)
LEMMA HostTypesStep ==
  ASSUME Types, InputOK, HostTypes
  PROVE  InputOK' /\ sent' = sent + 1 /\ sent + 1 <= Released + (BufLen - 1) + Depth
<1> USE UartAssumption DEF UartAssumption
<1> DEFINE u == Used(rx_in, rx_out)  l == Len(typed)
<1>1. /\ UNCHANGED <<rx_in, rx_out, rx_buf, taken, at, seen>>
      /\ sent' = sent + 1 /\ typed' = Append(typed, sent + 1) /\ l < Depth
  BY DEF HostTypes, driver, program
<1>2. u \in 0..(BufLen - 1) /\ l \in Nat /\ sent \in Nat /\ BufLen \in Nat
  BY InputNumbers
<1>3. /\ Released' = Released /\ Released \in Nat
      /\ sent = Released + u + l
      /\ \A j \in 1..l : typed[j] = Released + u + j
  BY <1>1 DEF Released, InputOK
<1>4. PICK n \in Nat : n = l + 1
  BY <1>2
<1>5. Len(typed') = n /\ \A j \in 1..n : typed'[j] = IF j = n THEN sent + 1 ELSE typed[j]
  <2>1. typed \in Seq(Nat)
    BY DEF Types
  <2>2. QED
    BY <1>1, <1>2, <1>4, <2>1
<1>6. ASSUME NEW j \in 1..n  PROVE typed'[j] = Released + u + j
  <2>1. CASE j = n
    BY <1>2, <1>3, <1>4, <1>5, <2>1
  <2>2. CASE j # n
    <3>1. j \in 1..l
      BY <1>2, <1>4, <2>2
    <3>2. QED
      BY <1>3, <1>5, <2>2, <3>1
  <2>3. QED
    BY <2>1, <2>2
<1>7. InputOK'
  <2>1. n <= Depth /\ sent' = Released' + u + n /\ u' = u
    BY <1>1, <1>2, <1>3, <1>4, SMTT(30)
  <2>2. \A k \in 0..(u - 1) : rx_buf'[Slot(rx_out', k)] = Released' + 1 + k
    BY <1>1, <1>3 DEF InputOK
  <2>3. \A j \in 1..n : typed'[j] = Released' + u + j
    BY <1>3, <1>6
  <2>4. QED
    BY <1>3, <1>5, <2>1, <2>2, <2>3, SMTT(30) DEF InputOK
<1>8. QED
  BY <1>1, <1>2, <1>3, <1>7, SMTT(30)

LEMMA InputStep ==
  ASSUME Types, InputOK, CopyOK, NeverDeaf, Next
  PROVE  InputOK' /\ CopyOK' /\ NeverDeaf'
<1>1. CASE Write \/ Full \/ Spin \/ Read
  BY <1>1, InputProgramFrame DEF Write, Full, Spin, Read, Return, driver, routine, hardware
<1>2. CASE Fill
  BY <1>2, InputProgramFrame DEF Fill, routine, hardware
<1>3. CASE Commit
  BY <1>3, InputProgramFrame DEF Commit, routine, hardware
<1>4. CASE Kick
  BY <1>4, InputProgramFrame DEF Kick, Return, routine, hardware
<1>5. CASE Take
  BY <1>5, TakeStep
<1>6. CASE CopyByte
  BY <1>6, CopyByteStep
<1>7. CASE Release
  BY <1>7, ReleaseStep
<1>8. CASE Empty
  BY <1>8, InputProgramFrame DEF Empty, Return, driver, routine, hardware
<1>9. CASE Await
  BY <1>9, InputProgramFrame DEF Await, Return, driver, routine, hardware
<1>10. CASE Reenable
  BY <1>10, InputProgramFrame DEF Reenable, Return, routine, hardware
<1>11. CASE Close \/ Drain
  BY <1>11, InputProgramFrame DEF Close, Drain, Return, driver, routine, hardware
<1>12. ASSUME UNCHANGED <<rx_in, rx_out, rx_buf, sent, typed, taken, at, seen, chunk, moved>>,
              irq_enable \cap {"RE"} \subseteq irq_enable'
       PROVE  InputOK' /\ CopyOK' /\ NeverDeaf'
  <2>1. InputOK'
    BY <1>12, InputFrame DEF Released
  <2>2. QED
    BY <1>12, <2>1 DEF CopyOK, NeverDeaf
<1>13. CASE \E t \in {0, 2} : SetTimeout(t)
  BY <1>12, <1>13 DEF SetTimeout, program, hardware
<1>14. CASE ReadControl
  BY <1>12, <1>14 DEF ReadControl, driver, program, hardware
<1>15. CASE ReceiveByte
  BY <1>15, ReceiveByteStep
<1>16. CASE EndReceive
  <2>1. /\ UNCHANGED <<rx_in, rx_out, rx_buf, sent, typed, taken, at, seen, chunk, moved>>
        /\ irq_enable' = irq_enable \/ Following(rx_in, 1) = rx_out
    BY <1>16 DEF EndReceive, Next_rx, program, hardware
  <2>2. InputOK'
    BY <2>1, InputFrame DEF Released
  <2>3. QED
    BY <2>1, <2>2 DEF CopyOK, NeverDeaf
<1>17. CASE SendByte
  BY <1>12, <1>17 DEF SendByte, program
<1>18. CASE EndSend
  BY <1>12, <1>18 DEF EndSend, program, hardware
<1>19. CASE Timeout
  BY <1>12, <1>19 DEF Timeout, program
<1>20. CASE HostReceives
  BY <1>12, <1>20 DEF HostReceives, driver, program
<1>21. CASE HostTypes
  <2>1. InputOK'
    BY <1>21, HostTypesStep
  <2>2. QED
    BY <1>21, <2>1 DEF HostTypes, CopyOK, NeverDeaf, driver, program
<1>22. QED
  BY <1>1, <1>2, <1>3, <1>4, <1>5, <1>6, <1>7, <1>8, <1>9, <1>10, <1>11, <1>13, <1>14,
     <1>15, <1>16, <1>17, <1>18, <1>19, <1>20, <1>21
  DEF Next, Program, Running, Isr
-----------------------------------------------------------------------------
(* The invariant holds from altera_avalon_jtag_uart_init on.               *)
LEMMA InitIInv == Init => IInv
<1> SUFFICES ASSUME Init  PROVE IInv
  OBVIOUS
<1> USE UartAssumption DEF UartAssumption
<1>1. Types
  BY DEF Init, Types, Indices
<1>2. Used(0, 0) = 0 /\ Released = 0
  BY DEF Init, Used, Released
<1>3. OutputOK /\ InputOK
  BY <1>2 DEF Init, OutputOK, InputOK
<1>4. ChunkOK /\ CopyOK /\ NoByteForgotten /\ NeverDeaf
  BY DEF Init, ChunkOK, CopyOK, NoByteForgotten, NeverDeaf
<1>5. QED
  BY <1>1, <1>3, <1>4 DEF IInv

LEMMA StepIInv == IInv /\ [Next]_vars => IInv'
<1> SUFFICES ASSUME IInv, [Next]_vars  PROVE IInv'
  OBVIOUS
<1>1. CASE Next
  BY <1>1, TypesStep, OutputStep, InputStep DEF IInv
<1>2. CASE UNCHANGED vars
  <2>1. /\ UNCHANGED <<tx_in, tx_out, tx_buf, rx_in, rx_out, rx_buf, irq_enable>>
        /\ UNCHANGED <<at, count, moved, chunk, seen, written, taken>>
        /\ UNCHANGED <<isr, wi, space, fifo, typed, received, sent>>
    BY <1>2 DEF vars, driver, program, routine, hardware
  <2>2. Types' /\ ChunkOK' /\ CopyOK' /\ NoByteForgotten' /\ NeverDeaf'
    BY <2>1 DEF IInv, Types, ChunkOK, CopyOK, NoByteForgotten, NeverDeaf
  <2>3. OutputOK'
    BY <2>1, OutputFrame DEF IInv, OutputOK
  <2>4. InputOK'
    BY <2>1, InputFrame DEF IInv, Released
  <2>5. QED
    BY <2>2, <2>3, <2>4 DEF IInv
<1>3. QED
  BY <1>1, <1>2

THEOREM SpecIInv == Spec => []IInv
  BY InitIInv, StepIInv, PTL DEF Spec

(* Once printf is past its request for an interrupt, bytes waiting in the  *)
(* ring have it enabled, whatever the interrupt routine did meanwhile.     *)
THEOREM SpecNoByteForgotten == Spec => []NoByteForgotten
<1>1. IInv => NoByteForgotten
  BY DEF IInv
<1>2. QED
  BY <1>1, SpecIInv, PTL

(* Receive interrupts are off only while the ring is full or a read that   *)
(* made room is about to enable them.                                      *)
THEOREM SpecNeverDeaf == Spec => []NeverDeaf
<1>1. IInv => NeverDeaf
  BY DEF IInv
<1>2. QED
  BY <1>1, SpecIInv, PTL

(* What the program writes reaches the terminal in order, each byte once,  *)
(* and no more are under way than the ring and the FIFO hold.              *)
THEOREM OutputIsChannel == Spec => Output!Spec
<1> USE UartAssumption DEF UartAssumption
<1>1. Init => Output!Init
  BY DEF Init, Output!Init
<1>2. IInv /\ [Next]_vars => [Output!Next]_<<written, received>>
  <2> SUFFICES ASSUME IInv, [Next]_vars, ~UNCHANGED <<written, received>>
               PROVE  Output!Next
    OBVIOUS
  <2>1. CASE Commit
    <3>1. /\ written' = written + chunk /\ chunk > 0 /\ received' = received
          /\ written + chunk <= received + Len(fifo) + BufLen - 1
      BY <2>1, CommitStep DEF IInv, Commit, hardware
    <3>2. /\ written \in Nat /\ chunk \in Nat /\ received \in Nat
          /\ Len(fifo) \in Nat /\ Len(fifo) <= Depth
      BY DEF IInv, Types, OutputOK
    <3>3. written + chunk \in (written + 1)..(received + (BufLen - 1 + Depth))
      BY <3>1, <3>2
    <3>4. QED
      BY <3>1, <3>3 DEF Output!Next, Output!Send
  <2>2. CASE HostReceives
    <3>1. received' = received + 1 /\ received < written
      BY <2>2, HostReceivesStep DEF IInv
    <3>2. QED
      BY <2>2, <3>1 DEF HostReceives, program, Output!Next, Output!Receive
  <2>3. CASE Next /\ ~Commit /\ ~HostReceives
    <3>1. UNCHANGED <<written, received>>
      BY <2>3 DEF Next, Program, Running, Isr, Write, Fill, Full, Kick, Spin, Read, Take, CopyByte,
                  Release, Empty, Await, Reenable, Close, Drain, SetTimeout, ReadControl,
                  ReceiveByte, EndReceive, SendByte, EndSend, Timeout, HostTypes,
                  driver, program, routine, hardware
    <3>2. QED
      BY <3>1
  <2>4. CASE UNCHANGED vars
    BY <2>4 DEF vars, program, hardware
  <2>5. QED
    BY <2>1, <2>2, <2>3, <2>4
<1>3. QED
  BY <1>1, <1>2, SpecIInv, PTL DEF Spec, Output!Spec

(* And so does what the terminal sends, to the program.                    *)
THEOREM SpecInputIsChannel == Spec => InputIsChannel
<1> USE UartAssumption DEF UartAssumption
<1>1. Init => Input!Init
  BY DEF Init, Input!Init
<1>2. IInv /\ [Next]_vars => [Input!Next]_<<sent, taken>>
  <2> SUFFICES ASSUME IInv, [Next]_vars, ~UNCHANGED <<sent, taken>>
               PROVE  Input!Next
    OBVIOUS
  <2>1. CASE HostTypes
    <3>1. /\ sent' = sent + 1 /\ sent + 1 <= Released + (BufLen - 1) + Depth
          /\ taken' = taken
      BY <2>1, HostTypesStep DEF IInv, HostTypes, program
    <3>2. sent \in Nat /\ taken \in Nat /\ Released \in Nat /\ Released <= taken
      <4>1. sent \in Nat /\ taken \in Nat /\ seen \in Nat /\ rx_out \in Nat /\ Released \in Nat
        BY InputNumbers DEF IInv, InputOK
      <4>2. QED
        BY <4>1 DEF IInv, CopyOK, Released
    <3>3. sent + 1 \in (sent + 1)..(taken + (BufLen - 1 + Depth))
      BY <3>1, <3>2
    <3>4. QED
      BY <3>1, <3>3 DEF Input!Next, Input!Send
  <2>2. CASE CopyByte
    <3>1. taken' = taken + 1 /\ taken < sent
      BY <2>2, CopyByteStep DEF IInv
    <3>2. QED
      BY <2>2, <3>1 DEF CopyByte, hardware, Input!Next, Input!Receive
  <2>3. CASE Next /\ ~HostTypes /\ ~CopyByte
    <3>1. UNCHANGED <<sent, taken>>
      BY <2>3 DEF Next, Program, Running, Isr, Write, Fill, Commit, Full, Kick, Spin, Read, Take,
                  Release, Empty, Await, Reenable, Close, Drain, SetTimeout, ReadControl,
                  ReceiveByte, EndReceive, SendByte, EndSend, Timeout, HostReceives,
                  driver, program, routine, hardware
    <3>2. QED
      BY <3>1
  <2>4. CASE UNCHANGED vars
    BY <2>4 DEF vars, program, hardware
  <2>5. QED
    BY <2>1, <2>2, <2>3, <2>4
<1>3. QED
  BY <1>1, <1>2, SpecIInv, PTL DEF Spec, InputIsChannel, Input!Spec
-----------------------------------------------------------------------------
(* The registers the rings do not depend on, and the bounds on the bytes.  *)
FlagsOK ==
  /\ irq_enable \subseteq {"RE", "WE"}
  /\ at \in {"idle", "fill", "commit", "kick", "spin", "take", "copy", "await", "reenable", "drain"}
  /\ nonblock \in BOOLEAN /\ moved \in BOOLEAN /\ wi \in BOOLEAN /\ data \in BOOLEAN
  /\ ac \in BOOLEAN

ClockOK == timeout \in 2..IntMax /\ host_inactive \in 0..(IntMax - 2)

(* space is used up by the turn of the interrupt routine that measured it. *)
SpaceOK == (wi => isr \in {"receive", "send"}) /\ (~wi => space = 0)

Writing == at \in {"fill", "commit", "kick", "spin"}

BytesOK ==
  /\ chunk <= BufLen - 1
  /\ written <= MaxWritten /\ (Writing => written + count <= MaxWritten)
  /\ tx_buf \in [Indices -> 0..MaxWritten]

TypedOK == sent <= MaxTyped /\ rx_buf \in [Indices -> 0..MaxTyped]

LEMMA FlagsStep ==
  ASSUME FlagsOK, ClockOK, Next
  PROVE  FlagsOK' /\ ClockOK'
<1>1. ClockOK'
  <2>1. /\ timeout \in Int /\ timeout >= 2 /\ timeout <= IntMax
        /\ host_inactive \in Int /\ host_inactive >= 0 /\ host_inactive <= IntMax - 2
        /\ IntMax \in Int /\ IntMax >= 3
    BY UartAssumption DEF ClockOK, UartAssumption
  <2>2. CASE \E t \in {0, 2} : SetTimeout(t)
    BY <2>1, <2>2 DEF SetTimeout, ClockOK
  <2>3. CASE Timeout
    <3>1. timeout' = timeout /\ host_inactive' \in {0, host_inactive, host_inactive + 1}
          /\ (host_inactive' = host_inactive + 1 => host_inactive < IntMax - 2 \/ host_inactive' = 0)
      BY <2>1, <2>3 DEF Timeout
    <3> QED
      BY <2>1, <3>1 DEF ClockOK
  <2>4. CASE UNCHANGED <<timeout, host_inactive>>
    BY <2>4 DEF ClockOK
  <2>5. \/ \E t \in {0, 2} : SetTimeout(t)
        \/ Timeout
        \/ UNCHANGED <<timeout, host_inactive>>
    BY DEF Next, Program, Running, Isr, Write, Fill, Commit, Full, Kick, Spin, Read, Take,
           CopyByte, Release, Empty, Await, Reenable, Close, Drain, ReadControl, ReceiveByte,
           EndReceive, SendByte, EndSend, HostReceives, HostTypes, driver
  <2> QED
    BY <2>2, <2>3, <2>4, <2>5
<1>2. FlagsOK'
  <2>1. CASE Write
    BY <2>1 DEF Write, FlagsOK, driver, routine, hardware
  <2>2. CASE Fill
    BY <2>2 DEF Fill, FlagsOK, routine, hardware
  <2>3. CASE Commit
    BY <2>3 DEF Commit, FlagsOK, routine, hardware
  <2>4. CASE Full
    BY <2>4 DEF Full, FlagsOK, driver, routine, hardware
  <2>5. CASE Kick
    BY <2>5 DEF Kick, FlagsOK, Return, routine, hardware
  <2>6. CASE Spin
    BY <2>6 DEF Spin, FlagsOK, Return, driver, routine, hardware
  <2>7. CASE Read
    BY <2>7 DEF Read, FlagsOK, driver, routine, hardware
  <2>8. CASE Take
    BY <2>8 DEF Take, FlagsOK, driver, routine, hardware
  <2>9. CASE CopyByte
    BY <2>9 DEF CopyByte, FlagsOK, driver, routine, hardware
  <2>10. CASE Release
    BY <2>10 DEF Release, FlagsOK, routine, hardware
  <2>11. CASE Empty
    BY <2>11 DEF Empty, FlagsOK, Return, driver, routine, hardware
  <2>12. CASE Await
    BY <2>12 DEF Await, FlagsOK, Return, driver, routine, hardware
  <2>13. CASE Reenable
    BY <2>13 DEF Reenable, FlagsOK, Return, routine, hardware
  <2>14. CASE Close
    BY <2>14 DEF Close, FlagsOK, driver, routine, hardware
  <2>15. CASE Drain
    BY <2>15 DEF Drain, FlagsOK, Return, driver, routine, hardware
  <2>16. CASE \E t \in {0, 2} : SetTimeout(t)
    BY <2>16 DEF SetTimeout, FlagsOK, program, routine, hardware
  <2>17. CASE ReadControl
    <3>1. UNCHANGED <<irq_enable, at, nonblock, moved, ac>>
      BY <2>17 DEF ReadControl, driver, program, hardware
    <3>2. wi' \in BOOLEAN /\ data' \in BOOLEAN
      BY <2>17 DEF ReadControl, RI, WI
    <3> QED
      BY <3>1, <3>2 DEF FlagsOK
  <2>18. CASE ReceiveByte
    BY <2>18 DEF ReceiveByte, FlagsOK, program
  <2>19. CASE EndReceive
    BY <2>19 DEF EndReceive, FlagsOK, program, hardware
  <2>20. CASE SendByte
    BY <2>20 DEF SendByte, FlagsOK, program
  <2>21. CASE EndSend
    BY <2>21 DEF EndSend, FlagsOK, program, hardware
  <2>22. CASE Timeout
    BY <2>22 DEF Timeout, FlagsOK, program, routine
  <2>23. CASE HostReceives
    BY <2>23 DEF HostReceives, FlagsOK, driver, program, routine
  <2>24. CASE HostTypes
    BY <2>24 DEF HostTypes, FlagsOK, driver, program, routine
  <2> QED
    BY <2>1, <2>2, <2>3, <2>4, <2>5, <2>6, <2>7, <2>8, <2>9, <2>10, <2>11, <2>12,
       <2>13, <2>14, <2>15, <2>16, <2>17, <2>18, <2>19, <2>20, <2>21, <2>22, <2>23, <2>24
       DEF Next, Program, Running, Isr
<1> QED
  BY <1>1, <1>2

LEMMA SpaceStep ==
  ASSUME Types, SpaceOK, Next
  PROVE  SpaceOK'
<1>1. CASE ReadControl
  BY <1>1 DEF ReadControl, SpaceOK
<1>2. CASE EndReceive
  BY <1>2 DEF EndReceive, SpaceOK
<1>3. CASE SendByte
  BY <1>3 DEF SendByte, SpaceOK, Types
<1>4. CASE EndSend
  BY <1>4 DEF EndSend, SpaceOK
<1>5. CASE UNCHANGED <<isr, wi, space>>
  BY <1>5 DEF SpaceOK
<1>6. ReadControl \/ EndReceive \/ SendByte \/ EndSend \/ UNCHANGED <<isr, wi, space>>
  BY DEF Next, Program, Running, Isr, Write, Fill, Commit, Full, Kick, Spin, Read, Take,
         CopyByte, Release, Empty, Await, Reenable, Close, Drain, SetTimeout, ReceiveByte,
         Timeout, HostReceives, HostTypes, routine
<1> QED
  BY <1>1, <1>2, <1>3, <1>4, <1>5, <1>6

LEMMA BytesStep ==
  ASSUME Types, ChunkOK, BytesOK, Next
  PROVE  BytesOK'
<1> USE UartAssumption DEF UartAssumption
<1>1. /\ written \in Nat /\ count \in Nat /\ chunk \in Nat /\ tx_in \in Indices
      /\ tx_in \in Int /\ BufLen \in Nat /\ BufLen >= 2 /\ MaxWritten \in Nat
  BY DEF Types, Indices
<1>2. CASE Write
  BY <1>1, <1>2 DEF Write, BytesOK, Writing, driver
<1>3. CASE Fill
  <2>1. /\ count > 0 /\ chunk' = IF Room < count THEN Room ELSE count
        /\ at = "fill" /\ at' = "commit" /\ UNCHANGED <<written, count>>
        /\ tx_buf' = [i \in Indices |-> IF i \in tx_in..(tx_in + chunk' - 1)
                                         THEN written + 1 + i - tx_in ELSE tx_buf[i]]
    BY <1>3 DEF Fill, Least
  <2>2. Room > 0 /\ Room \in Int /\ Room <= BufLen - 1
    <3>1. Used(tx_in, tx_out) \in 0..(BufLen - 1)
      BY RingShape DEF Types
    <3>2. Room > 0 /\ Room \in Int /\ Used(tx_in, tx_out) + Room <= BufLen - 1
      BY <1>3, Stretches DEF Fill
    <3> QED
      BY <1>1, <3>1, <3>2
  <2>3. chunk' \in Nat /\ chunk' <= count /\ chunk' <= BufLen - 1
    BY <1>1, <2>1, <2>2
  <2>4. written + count <= MaxWritten
    BY <2>1 DEF BytesOK, Writing
  <2>5. ASSUME NEW i \in Indices
        PROVE  tx_buf'[i] \in 0..MaxWritten
    <3>1. PICK n \in Nat : n = chunk'
      BY <2>3
    <3>2. tx_buf'[i] = IF i \in tx_in..(tx_in + n - 1) THEN written + 1 + i - tx_in ELSE tx_buf[i]
      BY <2>1, <3>1
    <3>3. n <= count /\ i \in Int
      BY <2>3, <3>1 DEF Indices
    <3>4. CASE i \in tx_in..(tx_in + n - 1)
      <4>1. n \in Nat /\ i \in Int /\ tx_in \in Int
        BY <1>1, <3>1, <3>3
      <4>2. tx_in <= i /\ i <= tx_in + n - 1
        BY <3>4, <4>1
      <4>3. tx_buf'[i] = written + 1 + i - tx_in
        BY <3>2, <3>4
      <4>4. written + 1 + i - tx_in \in 0..MaxWritten
        <5>1. n <= count /\ written + count <= MaxWritten
          BY <2>4, <3>3
        <5>2. written \in Nat /\ count \in Nat /\ MaxWritten \in Nat
          BY <1>1
        <5> QED
          BY <4>1, <4>2, <5>1, <5>2
      <4> QED
        BY <4>3, <4>4
    <3>5. CASE i \notin tx_in..(tx_in + n - 1)
      BY <3>2, <3>5 DEF BytesOK
    <3> QED
      BY <3>4, <3>5
  <2>6. tx_buf' \in [Indices -> 0..MaxWritten]
    BY <2>1, <2>5
  <2> QED
    BY <2>1, <2>3, <2>4, <2>6 DEF BytesOK, Writing
<1>4. CASE Commit
  <2>1. chunk <= count /\ written + count <= MaxWritten
    BY <1>4 DEF Commit, ChunkOK, BytesOK, Writing
  <2>2. /\ written' = written + chunk /\ count' = count - chunk /\ chunk' = 0 /\ tx_buf' = tx_buf
    BY <1>4 DEF Commit
  <2> QED
    BY <1>1, <2>1, <2>2 DEF BytesOK, Writing
<1>5. CASE Full \/ Kick \/ Spin
  <2>1. UNCHANGED <<chunk, written, tx_buf>> /\ Writing
    BY <1>5 DEF Full, Kick, Spin, Writing, driver
  <2>2. at' = "idle" \/ count' = count
    BY <1>5 DEF Full, Kick, Spin, Return
  <2> QED
    BY <2>1, <2>2 DEF BytesOK, Writing
<1>6. CASE Take
  <2>1. /\ chunk' = IF Available < count THEN Available ELSE count
        /\ UNCHANGED <<written, tx_buf>> /\ at' = "copy"
    BY <1>6 DEF Take, Least, driver
  <2>2. Available \in Nat /\ Available <= BufLen - 1
    <3>1. Used(rx_in, rx_out) \in 0..(BufLen - 1)
      BY RingShape DEF Types
    <3> QED
      BY <1>1, <3>1, Stretches
  <2>3. chunk' <= BufLen - 1
    BY <1>1, <2>1, <2>2
  <2> QED
    BY <2>1, <2>3 DEF BytesOK, Writing
<1>7. CASE CopyByte
  <2>1. chunk' = chunk - 1 /\ UNCHANGED <<written, tx_buf, at>> /\ at = "copy"
    BY <1>7 DEF CopyByte, driver
  <2>2. chunk' <= BufLen - 1
    BY <1>1, <2>1 DEF BytesOK
  <2> QED
    BY <2>1, <2>2 DEF BytesOK, Writing
<1>8. ASSUME UNCHANGED <<chunk, written, tx_buf>>, Writing' => Writing /\ count' = count
      PROVE  BytesOK'
  BY <1>8 DEF BytesOK
<1>9. CASE Read \/ Release \/ Empty \/ Await \/ Reenable \/ Close \/ Drain
  BY <1>8, <1>9 DEF Read, Release, Empty, Await, Reenable, Close, Drain, Return, Writing, driver
<1>10. CASE \/ \E t \in {0, 2} : SetTimeout(t)
            \/ Isr \/ Timeout \/ HostReceives \/ HostTypes
  BY <1>8, <1>10 DEF SetTimeout, Isr, ReadControl, ReceiveByte, EndReceive, SendByte, EndSend,
     Timeout, HostReceives, HostTypes, Writing, driver, program
<1> QED
  BY <1>2, <1>3, <1>4, <1>5, <1>6, <1>7, <1>9, <1>10 DEF Next, Program, Running

(* No byte is in the receive FIFO that was not sent, none in the ring.     *)
LEMMA TypedStep ==
  ASSUME Types, InputOK, TypedOK, Next
  PROVE  TypedOK'
<1>1. CASE ReceiveByte
  <2>1. /\ rx_buf' = [rx_buf EXCEPT ![rx_in] = Head(typed)] /\ sent' = sent /\ typed # <<>>
    BY <1>1 DEF ReceiveByte
  <2>2. typed \in Seq(Nat) /\ Len(typed) \in Nat /\ Len(typed) >= 1 /\ Head(typed) = typed[1]
    BY <2>1 DEF Types
  <2>3. Released \in Nat /\ Used(rx_in, rx_out) \in Nat /\ MaxTyped \in Nat /\ sent \in Nat
    BY RingShape, UartAssumption DEF InputOK, Types, UartAssumption
  <2>4. typed[1] = Released + Used(rx_in, rx_out) + 1
    BY <2>2 DEF InputOK
  <2>5. sent = Released + Used(rx_in, rx_out) + Len(typed)
    BY DEF InputOK
  <2>6. Head(typed) \in 0..MaxTyped
    BY <2>2, <2>3, <2>4, <2>5 DEF TypedOK
  <2> QED
    BY <2>1, <2>6 DEF TypedOK
<1>2. CASE HostTypes
  BY <1>2, UartAssumption DEF HostTypes, TypedOK, Types, driver, UartAssumption
<1>3. CASE UNCHANGED <<sent, rx_buf>>
  BY <1>3 DEF TypedOK
<1>4. ReceiveByte \/ HostTypes \/ UNCHANGED <<sent, rx_buf>>
  BY DEF Next, Program, Running, Isr, Write, Fill, Commit, Full, Kick, Spin, Read, Take,
         CopyByte, Release, Empty, Await, Reenable, Close, Drain, SetTimeout, ReadControl,
         EndReceive, SendByte, EndSend, Timeout, HostReceives, driver, hardware
<1> QED
  BY <1>1, <1>2, <1>3, <1>4

LEMMA InRange ==
  ASSUME NEW s \in Seq(Nat), NEW n \in Nat, \A j \in 1..Len(s) : s[j] \in 1..n
  PROVE  s \in Seq(1..n)
<1>1. s \in Seq(Range(s)) /\ Range(s) = {s[j] : j \in 1..Len(s)}
  BY SeqOfRange, RangeEquality
<1>2. Range(s) \subseteq 1..n
  BY <1>1
<1> QED
  BY <1>1, <1>2, SeqMonotonic

(* The indices, the bytes in both rings and FIFOs and the locals of the    *)
(* driver keep to their ranges; 0 stands only for slots never written.     *)
THEOREM SpecTypeOK == Spec => []TypeOK
<1> DEFINE I == FlagsOK /\ ClockOK /\ SpaceOK /\ BytesOK /\ TypedOK
<1>1. Init => I
  BY UartAssumption
     DEF Init, FlagsOK, ClockOK, SpaceOK, BytesOK, TypedOK, Writing, UartAssumption, Indices
<1>2. IInv /\ I /\ [Next]_vars => I'
  <2>1. ASSUME IInv, I, Next
        PROVE  I'
    BY <2>1, FlagsStep, SpaceStep, BytesStep, TypedStep DEF IInv
  <2>2. ASSUME I, UNCHANGED vars
        PROVE  I'
    BY <2>2 DEF FlagsOK, ClockOK, SpaceOK, BytesOK, TypedOK, Writing,
                vars, driver, program, routine, hardware
  <2> QED
    BY <2>1, <2>2
<1>3. IInv /\ I => TypeOK
  <2> SUFFICES ASSUME IInv, I PROVE TypeOK
    OBVIOUS
  <2> USE UartAssumption DEF UartAssumption
  <2>1. /\ written \in Nat /\ received \in Nat /\ sent \in Nat /\ taken \in Nat /\ space \in Nat
        /\ chunk \in Nat /\ fifo \in Seq(Nat) /\ typed \in Seq(Nat)
        /\ Len(fifo) \in Nat /\ Len(typed) \in Nat
        /\ Used(tx_in, tx_out) \in Nat /\ Used(rx_in, rx_out) \in Nat /\ Released \in Nat
        /\ MaxWritten \in Nat /\ MaxTyped \in Nat /\ Depth \in Nat /\ BufLen \in Nat
    <3>1. Used(tx_in, tx_out) \in 0..(BufLen - 1) /\ Used(rx_in, rx_out) \in 0..(BufLen - 1)
      BY RingShape DEF IInv, Types
    <3>2. /\ written \in Nat /\ received \in Nat /\ sent \in Nat /\ taken \in Nat
          /\ space \in Nat /\ chunk \in Nat /\ fifo \in Seq(Nat) /\ typed \in Seq(Nat)
          /\ Released \in Nat
      BY DEF IInv, Types, InputOK
    <3>3. Len(fifo) \in Nat /\ Len(typed) \in Nat
      BY <3>2
    <3> QED
      BY <3>1, <3>2, <3>3
  <2>2. /\ written = received + Len(fifo) + Used(tx_in, tx_out) /\ written <= MaxWritten
        /\ sent = Released + Used(rx_in, rx_out) + Len(typed) /\ sent <= MaxTyped
    BY DEF IInv, OutputOK, InputOK, BytesOK, TypedOK
  <2>3. /\ received \in 0..MaxWritten /\ written \in 0..MaxWritten /\ sent \in 0..MaxTyped
        /\ chunk \in 0..(BufLen - 1)
    BY <2>1, <2>2 DEF BytesOK
  <2>4. fifo \in Seq(1..MaxWritten)
    <3>1. ASSUME NEW j \in 1..Len(fifo)
          PROVE  fifo[j] \in 1..MaxWritten
      <4>1. fifo[j] = received + j
        BY DEF IInv, OutputOK
      <4>2. j \in Int /\ 1 <= j /\ j <= Len(fifo)
        BY <2>1
      <4>3. received + j >= 1 /\ received + j <= MaxWritten /\ received + j \in Int
        BY <2>1, <2>2, <4>2
      <4> QED
        BY <2>1, <4>1, <4>3
    <3> QED
      BY <2>1, <3>1, InRange
  <2>5. typed \in Seq(1..MaxTyped)
    <3>1. ASSUME NEW j \in 1..Len(typed)
          PROVE  typed[j] \in 1..MaxTyped
      <4>1. typed[j] = Released + Used(rx_in, rx_out) + j
        BY DEF IInv, InputOK
      <4>2. j \in Int /\ 1 <= j /\ j <= Len(typed)
        BY <2>1
      <4>3. \A a, b \in Nat : a + b + j <= sent => a + b + j \in 1..MaxTyped
        BY <2>1, <2>2, <4>2
      <4>4. Released + Used(rx_in, rx_out) + j <= sent
        BY <2>1, <2>2, <4>2
      <4> QED
        BY <2>1, <4>1, <4>3, <4>4
    <3> QED
      BY <2>1, <3>1, InRange
  <2>6. taken \in 0..MaxTyped
    <3>1. CASE at = "copy"
      <4>1. /\ seen \in Nat /\ rx_out \in Nat /\ Released = taken - (seen - rx_out)
            /\ seen + chunk - rx_out <= Used(rx_in, rx_out)
        BY <3>1, InputNumbers DEF IInv, CopyOK, Released
      <4> QED
        BY <2>1, <2>2, <4>1
    <3>2. CASE at # "copy"
      BY <2>1, <2>2, <3>2 DEF Released
    <3> QED
      BY <3>1, <3>2
  <2>7. space \in 0..(Depth - Len(fifo)) /\ Len(typed) <= Depth
    <3>1. Len(fifo) <= Depth /\ Len(typed) <= Depth
      BY DEF IInv, OutputOK, InputOK
    <3>2. space = 0 \/ space <= Depth - Len(fifo)
      BY DEF IInv, OutputOK, SpaceOK
    <3> QED
      BY <2>1, <3>1, <3>2
  <2> QED
    BY <2>3, <2>4, <2>5, <2>6, <2>7
       DEF TypeOK, IInv, Types, FlagsOK, ClockOK, BytesOK, TypedOK
<1> QED
  BY <1>1, <1>2, <1>3, SpecIInv, PTL DEF Spec
=============================================================================
