------------------------------- MODULE JtagUart -------------------------------
(***************************************************************************)
(* The fast driver of the JTAG UART, over which every printf of main.c and *)
(* usb.c goes: two ring buffers between the program and an interrupt       *)
(* routine, which moves bytes to and from the FIFOs of the hardware.       *)
(*                                                                         *)
(* The program is the only thread, and the interrupt routine runs between  *)
(* two of its steps and always to its end; the hardware and the terminal   *)
(* at the other end of the cable go on meanwhile.  Bytes are numbered, so  *)
(* that loss, repetition and confusion show.                               *)
(*                                                                         *)
(* Locals are cleared where their value is no longer used.                 *)
(*                                                                         *)
(* Hardware and terminal are external: an interrupt is requested while it  *)
(* is enabled and there is a byte to read, or the write FIFO is down to    *)
(* its threshold.                                                          *)
(***************************************************************************)
EXTENDS Integers, Sequences

CONSTANTS
  BufLen,       \* ALTERA_AVALON_JTAG_UART_BUF_LEN (2048)
  Depth,        \* JTAG_UART_0_WRITE_DEPTH and _READ_DEPTH (64)
  Threshold,    \* JTAG_UART_0_WRITE_THRESHOLD (8)
  IntMax,       \* INT_MAX
  Timeouts,     \* what timeout may be after alt_alarm_start: IntMax without a clock
  Counts,       \* lengths of the buffers the program passes
  MaxWritten,   \* bound on the bytes the program writes
  MaxTyped      \* bound on the bytes the terminal sends

ASSUME UartAssumption ==
  /\ BufLen \in Nat /\ BufLen >= 2
  /\ Depth \in Nat \ {0} /\ Threshold \in 0..(Depth - 1)
  /\ IntMax \in Nat /\ IntMax >= 3 /\ Timeouts \subseteq 2..IntMax
  /\ Counts \subseteq Nat \ {0} /\ MaxWritten \in Nat /\ MaxTyped \in Nat

VARIABLES
  tx_in, tx_out, tx_buf, rx_in, rx_out, rx_buf,
  irq_enable, host_inactive, timeout,
  at,                    \* where the program is in write, read or close
  count, nonblock,       \* what is left of its buffer, and O_NONBLOCK
  moved,                 \* read: it has got some bytes
  chunk, seen,           \* n, and the index (out or in) that the wait watches
  written, taken,        \* last byte stored in tx_buf, and copied out of rx_buf
  isr, wi, space, data,  \* the interrupt routine and its locals
  fifo, typed,           \* the FIFOs of the hardware
  received, sent,        \* last byte the terminal got, and sent
  ac                     \* the activity bit of the control register

driver   == <<tx_in, tx_out, tx_buf, rx_in, rx_out, rx_buf, irq_enable,
              host_inactive, timeout>>
program  == <<at, count, nonblock, moved, chunk, seen, written, taken>>
routine  == <<isr, wi, space, data>>
hardware == <<fifo, typed, received, sent, ac>>
vars == <<driver, program, routine, hardware>>

(* Names with a Bug suffix are deliberate mutations of the definition that *)
(* follows them.                                                           *)

Indices == 0..(BufLen - 1)
Following_NoWrapBug(i, n) == i + n

Following(i, n) == (i + n) % BufLen
Least(a, b) == IF a < b THEN a ELSE b

RI == "RE" \in irq_enable /\ typed # << >>
WI == "WE" \in irq_enable /\ Len(fifo) <= Threshold
-----------------------------------------------------------------------------
(* altera_avalon_jtag_uart_write.                                          *)

Return == at' = "idle" /\ count' = 0 /\ nonblock' = FALSE /\ moved' = FALSE

Write ==
  /\ at = "idle" /\ isr = "off"
  /\ \E n \in Counts : written + n <= MaxWritten /\ count' = n
  /\ nonblock' \in BOOLEAN /\ at' = "fill"
  /\ UNCHANGED <<driver, moved, chunk, seen, written, taken, routine, hardware>>

(* The stretch that can be copied at once.                                 *)
Room_FullBug ==
  IF tx_in < tx_out THEN tx_out - tx_in ELSE BufLen - tx_in

Room ==
  IF tx_in < tx_out THEN tx_out - 1 - tx_in
  ELSE IF tx_out > 0 THEN BufLen - tx_in ELSE BufLen - 1 - tx_in

(* The bytes are copied before tx_in is moved behind them.                 *)
Fill ==
  /\ at = "fill" /\ isr = "off" /\ count > 0 /\ Room > 0
  /\ chunk' = Least(Room, count)
  /\ tx_buf' = [i \in Indices |-> IF i \in tx_in..(tx_in + chunk' - 1)
                                    THEN written + 1 + i - tx_in ELSE tx_buf[i]]
  /\ at' = "commit"
  /\ UNCHANGED <<tx_in, tx_out, rx_in, rx_out, rx_buf, irq_enable, host_inactive, timeout,
                 count, nonblock, moved, seen, written, taken, routine, hardware>>

Commit ==
  /\ at = "commit" /\ isr = "off"
  /\ tx_in' = Following(tx_in, chunk)
  /\ written' = written + chunk /\ count' = count - chunk /\ chunk' = 0
  /\ at' = "fill"
  /\ UNCHANGED <<tx_out, tx_buf, rx_in, rx_out, rx_buf, irq_enable, host_inactive, timeout,
                 nonblock, moved, seen, taken, routine, hardware>>

(* The value of tx_out that showed there is no room is the one the wait    *)
(* compares with.                                                          *)
Full ==
  /\ at = "fill" /\ isr = "off" /\ (count = 0 \/ Room = 0)
  /\ seen' = tx_out /\ at' = "kick"
  /\ UNCHANGED <<driver, count, nonblock, moved, chunk, written, taken, routine, hardware>>

Kick_LateBug ==
  /\ at = "kick" /\ isr = "off"
  /\ irq_enable' = IF count > 0 THEN irq_enable ELSE irq_enable \cup {"WE"}
  /\ IF count > 0 /\ ~nonblock THEN at' = "spin" /\ UNCHANGED <<count, nonblock, moved, seen>>
                               ELSE Return /\ seen' = 0
  /\ UNCHANGED <<tx_in, tx_out, tx_buf, rx_in, rx_out, rx_buf, host_inactive, timeout,
                 chunk, written, taken, routine, hardware>>

Kick ==
  /\ at = "kick" /\ isr = "off"
  /\ irq_enable' = irq_enable \cup {"WE"}
  /\ IF count > 0 /\ ~nonblock THEN at' = "spin" /\ UNCHANGED <<count, nonblock, moved, seen>>
                               ELSE Return /\ seen' = 0
  /\ UNCHANGED <<tx_in, tx_out, tx_buf, rx_in, rx_out, rx_buf, host_inactive, timeout,
                 chunk, written, taken, routine, hardware>>

(* A host that was inactive for a second while the program waited ends the *)
(* write, short or with -EIO, even if there is room again.                 *)
Spin ==
  /\ at = "spin" /\ isr = "off"
  /\ seen # tx_out \/ host_inactive >= timeout
  /\ seen' = 0
  /\ IF host_inactive > 0 THEN Return ELSE at' = "fill" /\ UNCHANGED <<count, nonblock, moved>>
  /\ UNCHANGED <<driver, chunk, written, taken, routine, hardware>>
-----------------------------------------------------------------------------
(* altera_avalon_jtag_uart_read.                                           *)

Read ==
  /\ at = "idle" /\ isr = "off"
  /\ count' \in Counts /\ nonblock' \in BOOLEAN /\ at' = "take"
  /\ UNCHANGED <<driver, moved, chunk, seen, written, taken, routine, hardware>>

Available == IF rx_in >= rx_out THEN rx_in - rx_out ELSE BufLen - rx_out

(* rx_out moves when all bytes of the stretch have been copied.            *)
Take ==
  /\ at = "take" /\ isr = "off" /\ count > 0 /\ Available > 0
  /\ chunk' = Least(Available, count) /\ count' = count - chunk'
  /\ seen' = rx_out /\ moved' = TRUE /\ at' = "copy"
  /\ UNCHANGED <<driver, nonblock, written, taken, routine, hardware>>

CopyByte ==
  /\ at = "copy" /\ isr = "off" /\ chunk > 0
  /\ taken' = rx_buf[seen] /\ seen' = seen + 1 /\ chunk' = chunk - 1
  /\ UNCHANGED <<driver, at, count, nonblock, moved, written, routine, hardware>>

Release ==
  /\ at = "copy" /\ isr = "off" /\ chunk = 0
  /\ rx_out' = Following(rx_out, seen - rx_out)
  /\ seen' = 0 /\ at' = "take"
  /\ UNCHANGED <<tx_in, tx_out, tx_buf, rx_in, rx_buf, irq_enable, host_inactive, timeout,
                 count, nonblock, moved, chunk, written, taken, routine, hardware>>

Empty ==
  /\ at = "take" /\ isr = "off" /\ (count = 0 \/ Available = 0)
  /\ \/ moved /\ at' = "reenable" /\ UNCHANGED <<count, nonblock, moved, seen>>
     \/ ~moved /\ nonblock /\ Return /\ UNCHANGED seen
     \/ ~moved /\ ~nonblock /\ at' = "await" /\ seen' = rx_in /\ UNCHANGED <<count, nonblock, moved>>
  /\ UNCHANGED <<driver, chunk, written, taken, routine, hardware>>

Await ==
  /\ at = "await" /\ isr = "off"
  /\ seen # rx_in \/ host_inactive >= timeout
  /\ seen' = 0
  /\ IF seen = rx_in THEN Return ELSE at' = "take" /\ UNCHANGED <<count, nonblock, moved>>
  /\ UNCHANGED <<driver, chunk, written, taken, routine, hardware>>

Reenable_NoneBug ==
  /\ at = "reenable" /\ isr = "off" /\ Return
  /\ UNCHANGED <<driver, chunk, seen, written, taken, routine, hardware>>

Reenable ==
  /\ at = "reenable" /\ isr = "off" /\ Return
  /\ irq_enable' = irq_enable \cup {"RE"}
  /\ UNCHANGED <<tx_in, tx_out, tx_buf, rx_in, rx_out, rx_buf, host_inactive, timeout,
                 chunk, seen, written, taken, routine, hardware>>
-----------------------------------------------------------------------------
(* altera_avalon_jtag_uart_close waits until the bytes are gone, or gives  *)
(* them up, unless it may not block; altera_avalon_jtag_uart_ioctl sets    *)
(* the timeout.                                                            *)

Close ==
  /\ at = "idle" /\ isr = "off"
  /\ tx_out # tx_in /\ host_inactive < timeout
  /\ at' = "drain"
  /\ UNCHANGED <<driver, count, nonblock, moved, chunk, seen, written, taken, routine, hardware>>

Drain ==
  /\ at = "drain" /\ isr = "off"
  /\ tx_out = tx_in \/ host_inactive >= timeout
  /\ Return
  /\ UNCHANGED <<driver, chunk, seen, written, taken, routine, hardware>>

SetTimeout(t) ==
  /\ at = "idle" /\ isr = "off" /\ timeout # IntMax
  /\ timeout' = IF t >= 2 /\ t < IntMax THEN t ELSE IntMax - 1
  /\ UNCHANGED <<tx_in, tx_out, tx_buf, rx_in, rx_out, rx_buf, irq_enable, host_inactive,
                 program, routine, hardware>>

Running ==
  \/ Fill \/ Commit \/ Full \/ Kick \/ Spin
  \/ Take \/ CopyByte \/ Release \/ Empty \/ Await \/ Reenable
  \/ Drain

Program == Write \/ Read \/ Close \/ Running \/ \E t \in {0, 2} : SetTimeout(t)
-----------------------------------------------------------------------------
(* altera_avalon_jtag_uart_irq: the control register is read, and what it  *)
(* shows then decides on this turn of the loop.                            *)

ReadControl ==
  /\ (isr = "off" /\ (RI \/ WI)) \/ isr = "on"
  /\ isr' = IF RI THEN "receive" ELSE IF WI THEN "send" ELSE "off"
  /\ wi' = WI /\ space' = IF WI THEN Depth - Len(fifo) ELSE 0
  /\ data' = RI
  /\ UNCHANGED <<driver, program, hardware>>

Next_rx == Following(rx_in, 1)

ReceiveByte_OverrunBug ==
  /\ isr = "receive" /\ typed # << >>
  /\ rx_buf' = [rx_buf EXCEPT ![rx_in] = Head(typed)]
  /\ rx_in' = Next_rx
  /\ typed' = Tail(typed) /\ data' = (typed' # << >>)
  /\ UNCHANGED <<tx_in, tx_out, tx_buf, rx_out, irq_enable, host_inactive, timeout, program,
                 isr, wi, space, fifo, received, sent, ac>>

(* data keeps whether the byte read last said there are more.              *)
ReceiveByte ==
  /\ isr = "receive" /\ Next_rx # rx_out /\ typed # << >>
  /\ rx_buf' = [rx_buf EXCEPT ![rx_in] = Head(typed)]
  /\ rx_in' = Next_rx
  /\ typed' = Tail(typed) /\ data' = (typed' # << >>)
  /\ UNCHANGED <<tx_in, tx_out, tx_buf, rx_out, irq_enable, host_inactive, timeout, program,
                 isr, wi, space, fifo, received, sent, ac>>

(* The buffer is full, or there is nothing to read; if the last byte had   *)
(* another one behind it, it is full and no more interrupts are wanted.    *)
EndReceive ==
  /\ isr = "receive" /\ (Next_rx = rx_out \/ typed = << >>)
  /\ irq_enable' = IF Next_rx = rx_out /\ data THEN irq_enable \ {"RE"} ELSE irq_enable
  /\ isr' = IF wi THEN "send" ELSE "on"
  /\ data' = FALSE
  /\ UNCHANGED <<tx_in, tx_out, tx_buf, rx_in, rx_out, rx_buf, host_inactive, timeout, program,
                 wi, space, hardware>>

SendByte ==
  /\ isr = "send" /\ space > 0 /\ tx_out # tx_in
  /\ fifo' = Append(fifo, tx_buf[tx_out])
  /\ tx_out' = Following(tx_out, 1) /\ space' = space - 1
  /\ UNCHANGED <<tx_in, tx_buf, rx_in, rx_out, rx_buf, irq_enable, host_inactive, timeout,
                 program, isr, wi, data, typed, received, sent, ac>>

EndSend_NoRoomBug ==
  /\ isr = "send" /\ (space = 0 \/ tx_out = tx_in)
  /\ irq_enable' = irq_enable \ {"WE"}
  /\ isr' = "on" /\ wi' = FALSE /\ space' = 0
  /\ UNCHANGED <<tx_in, tx_out, tx_buf, rx_in, rx_out, rx_buf, host_inactive, timeout, program,
                 data, hardware>>

EndSend ==
  /\ isr = "send" /\ (space = 0 \/ tx_out = tx_in)
  /\ irq_enable' = IF space > 0 THEN irq_enable \ {"WE"} ELSE irq_enable
  /\ isr' = "on" /\ wi' = FALSE /\ space' = 0
  /\ UNCHANGED <<tx_in, tx_out, tx_buf, rx_in, rx_out, rx_buf, host_inactive, timeout, program,
                 data, hardware>>

Isr == ReadControl \/ ReceiveByte \/ EndReceive \/ SendByte \/ EndSend

(* altera_avalon_jtag_uart_timeout, once a second if there is a clock.     *)
Timeout ==
  /\ isr = "off" /\ timeout # IntMax
  /\ ac' = FALSE
  /\ host_inactive' = IF ac THEN 0
                      ELSE IF host_inactive < IntMax - 2 THEN host_inactive + 1
                      ELSE host_inactive
  /\ UNCHANGED <<tx_in, tx_out, tx_buf, rx_in, rx_out, rx_buf, irq_enable, timeout, program,
                 routine, fifo, typed, received, sent>>
-----------------------------------------------------------------------------
HostReceives ==
  /\ fifo # << >>
  /\ received' = Head(fifo) /\ fifo' = Tail(fifo) /\ ac' = TRUE
  /\ UNCHANGED <<driver, program, routine, typed, sent>>

HostTypes ==
  /\ Len(typed) < Depth /\ sent < MaxTyped
  /\ sent' = sent + 1 /\ typed' = Append(typed, sent') /\ ac' = TRUE
  /\ UNCHANGED <<driver, program, routine, fifo, received>>

(* altera_avalon_jtag_uart_init.                                           *)
Init ==
  /\ tx_in = 0 /\ tx_out = 0 /\ tx_buf = [i \in Indices |-> 0]
  /\ rx_in = 0 /\ rx_out = 0 /\ rx_buf = [i \in Indices |-> 0]
  /\ irq_enable = {"RE"} /\ host_inactive = 0 /\ timeout \in Timeouts
  /\ at = "idle" /\ count = 0 /\ moved = FALSE /\ nonblock = FALSE
  /\ chunk = 0 /\ seen = 0 /\ written = 0 /\ taken = 0
  /\ isr = "off" /\ wi = FALSE /\ space = 0 /\ data = FALSE
  /\ fifo = << >> /\ typed = << >> /\ received = 0 /\ sent = 0 /\ ac = FALSE

Next == Program \/ Isr \/ Timeout \/ HostReceives \/ HostTypes

Spec == Init /\ [][Next]_vars

(* A call that has begun runs on, interrupts are served, and a terminal    *)
(* takes what it can get.                                                  *)
FairSpec == Spec /\ WF_vars(Running) /\ WF_vars(Isr) /\ WF_vars(HostReceives)
-----------------------------------------------------------------------------
TypeOK ==
  /\ {tx_in, tx_out, rx_in, rx_out} \subseteq Indices /\ seen \in 0..BufLen
  /\ tx_buf \in [Indices -> 0..MaxWritten] /\ rx_buf \in [Indices -> 0..MaxTyped]
  /\ irq_enable \subseteq {"RE", "WE"}
  /\ timeout \in 2..IntMax /\ host_inactive \in 0..(IntMax - 2)
  /\ at \in {"idle", "fill", "commit", "kick", "spin", "take", "copy", "await", "reenable", "drain"}
  /\ count \in Nat /\ nonblock \in BOOLEAN /\ moved \in BOOLEAN
  /\ chunk \in 0..(BufLen - 1)
  /\ written \in 0..MaxWritten /\ taken \in 0..MaxTyped
  /\ isr \in {"off", "on", "receive", "send"} /\ wi \in BOOLEAN /\ data \in BOOLEAN
  /\ space \in 0..(Depth - Len(fifo))
  /\ fifo \in Seq(1..MaxWritten) /\ typed \in Seq(1..MaxTyped) /\ Len(typed) <= Depth
  /\ received \in 0..MaxWritten /\ sent \in 0..MaxTyped /\ ac \in BOOLEAN

(* Both directions are channels that neither lose, repeat nor reorder a    *)
(* byte and hold as many as the ring (all but one of its slots) and the    *)
(* FIFO; and with a terminal at the other end everything written arrives.  *)
Output == INSTANCE ByteChannel WITH
            Capacity <- BufLen - 1 + Depth, sent <- written, received <- received
Input  == INSTANCE ByteChannel WITH
            Capacity <- BufLen - 1 + Depth, sent <- sent, received <- taken

OutputArrives == Output!FairSpec
InputIsChannel == Input!Spec

(* Whenever the program is not between storing bytes and asking for an     *)
(* interrupt, a byte in the transmit buffer has its interrupt enabled,     *)
(* however the interrupt routine came in between: it is not forgotten.     *)
NoByteForgotten ==
  at \notin {"fill", "commit", "kick"} /\ tx_in # tx_out => "WE" \in irq_enable

(* Receive interrupts are off only while the buffer is full or the         *)
(* program, having made room, is about to enable them: the terminal is     *)
(* never locked out for good.                                              *)
NeverDeaf ==
  "RE" \notin irq_enable =>
    Following(rx_in, 1) = rx_out \/ (at \in {"take", "copy", "reenable"} /\ moved)

(* With a terminal connected no write blocks for ever, with or without a   *)
(* clock.                                                                  *)
WriteReturns == at = "spin" ~> at = "idle"
=============================================================================
