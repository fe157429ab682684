------------------------------- MODULE UsbHost -------------------------------
(***************************************************************************)
(* The program of the Nios II (main.c with usb.c): it enumerates a USB     *)
(* keyboard through the CY7C67200 and then polls it for ever, handing the  *)
(* first keycode to the game.                                              *)
(*                                                                         *)
(* A step of the program is one access to the chip, or several that        *)
(* nothing can come between in a way the program could notice; the lists   *)
(* of UsbLists are written in one step and started in the next.            *)
(*                                                                         *)
(* The chip's firmware and the keyboard are external, and modelled by what *)
(* the program expects of them.  The firmware carries out the command in   *)
(* its mailbox before it looks at the list pointer; it takes a descriptor, *)
(* runs it and moves the pointer on, or ends the list if the keyboard does *)
(* not take it; at the end it posts TDListDone in the SIE1 message, where  *)
(* it also announces that a keyboard was plugged in or out.  The keyboard  *)
(* answers nothing until the bus has been reset, and has no report to give *)
(* (NAKs) until a key changes.                                             *)
(***************************************************************************)
EXTENDS UsbLists, FiniteSets

CONSTANTS
  Keys,        \* keycodes a report can begin with
  ProbeReads,  \* times the connection is read again before giving up (5)
  PollReads,   \* the same in the poll loop (7)
  MaxEvents,   \* bound on how often a keyboard is plugged in, or is late
  StrayReports \* TRUE: the firmware may post TDListDone for the list at 0x576

ASSUME UsbAssumption ==
  /\ Keys \subseteq 0..255 /\ Keys # {}
  /\ ProbeReads \in Nat \ {0} /\ PollReads \in Nat \ {0} /\ MaxEvents \in Nat
  /\ StrayReports \in BOOLEAN

VARIABLES
  at, step,      \* where the program is, and the request it is making
  slept,         \* it has slept since it started the list
  usb_ctl_val,   \* the message it read last
  hot_plug_count, toggle,
  keycode,       \* the port the game reads
  mailbox,       \* what the firmware put there last
  flags,         \* HPI_STATUS
  msg,           \* the SIE1 message
  command,       \* what COMM_EXEC_INT asked for and is not done
  slots, ptr,    \* the descriptors in memory, and pCurrentTDPtr
  control,       \* control byte of descriptor 0, at 0x508
  word51e,       \* low byte at 0x51e, where the first keycode is looked for
  present, kb,   \* whether a keyboard is plugged in, and its state
  late,          \* how often it took longer for a list than the program slept
  plugs, served  \* how often one was; requests it completed since then

host == <<at, step, slept, usb_ctl_val, hot_plug_count, toggle, keycode>>
chip == <<mailbox, flags, msg, command, slots, ptr, control, word51e>>
keyboard == <<present, kb, late, plugs, served>>
vars == <<host, chip, keyboard>>

Polling == 10
Idle == 11        \* pCurrentTDPtr is 0
Stray == 12       \* it is 0x576

Junk == Descriptor("junk", 0, 0, 0, 0, 0, End, NoPacket)

Unreset == 3      \* the device address before a bus reset
FreshKb == [address |-> Unreset, configured |-> FALSE, packet |-> NoPacket,
            dataToggle |-> 0, epToggle |-> 0, key |-> 0, news |-> FALSE]

Requests ==
  <<UsbSetAddress, UsbGetDeviceDesc1, UsbGetDeviceDesc2, UsbGetConfigDesc1, UsbGetConfigDesc2,
    UsbSetConfig, UsbClassRequest, UsbGetHidDesc, UsbGetReportDesc>>

List == IF step = Polling THEN Poll(1 - toggle) ELSE Requests[step]

Post(m) == msg' = m /\ flags' = flags \cup {"SIE1msg"}

Goto(l) == at' = l
-----------------------------------------------------------------------------
(* The program up to the first request.  Names with a Bug suffix are       *)
(* deliberate mutations of the definition that follows them.               *)

(* USB_HOT_PLUG: the firmware starts anew, and leaves garbage in the       *)
(* mailbox, as the comment in UsbSoftReset says.                           *)
UsbSoftReset ==
  /\ at = "hot_plug" /\ Goto("clear")
  /\ mailbox' = "garbage" /\ command' = "none" /\ ptr' = Idle
  /\ UNCHANGED <<step, slept, usb_ctl_val, hot_plug_count, toggle, keycode,
                 flags, msg, slots, control, word51e, keyboard>>

ClearUp_KeepsMessageBug ==
  /\ at = "clear" /\ Goto("status")
  /\ flags' = flags \ {"Mailbox_Out"}
  /\ command' = "init"
  /\ UNCHANGED <<step, slept, usb_ctl_val, hot_plug_count, toggle, keycode,
                 mailbox, msg, slots, ptr, control, word51e, keyboard>>

(* The rest of it reads the mailbox and the message, to clear their flags; *)
(* then step 1 asks for the initialisation of SIE1.                        *)
ClearUp ==
  /\ at = "clear" /\ Goto("status")
  /\ flags' = {} /\ msg' = "none"
  /\ command' = "init"
  /\ UNCHANGED <<step, slept, usb_ctl_val, hot_plug_count, toggle, keycode,
                 mailbox, slots, ptr, control, word51e, keyboard>>

AwaitStatus ==
  /\ at = "status" /\ flags # {} /\ Goto("ack")
  /\ UNCHANGED <<step, slept, usb_ctl_val, hot_plug_count, toggle, keycode, chip, keyboard>>

(* Whatever raised the flag, the mailbox is expected to say COMM_ACK; the  *)
(* bus reset of step 2 is asked for next, and its acknowledgement read at  *)
(* once.                                                                   *)
ReadAck ==
  /\ at = "ack"
  /\ flags' = flags \ {"Mailbox_Out"}
  /\ IF mailbox = "COMM_ACK" THEN Goto("ack2") /\ command' = "bus_reset"
                             ELSE Goto("hot_plug") /\ UNCHANGED command
  /\ UNCHANGED <<step, slept, usb_ctl_val, hot_plug_count, toggle, keycode,
                 mailbox, msg, slots, ptr, control, word51e, keyboard>>

ReadAck2 ==
  /\ at = "ack2"
  /\ flags' = flags \ {"Mailbox_Out"}
  /\ Goto(IF mailbox = "COMM_ACK" THEN "probe" ELSE "hot_plug")
  /\ UNCHANGED <<step, slept, usb_ctl_val, hot_plug_count, toggle, keycode,
                 mailbox, msg, command, slots, ptr, control, word51e, keyboard>>

Probe ==
  /\ at = "probe"
  /\ hot_plug_count' = 0 /\ step' = 1
  /\ Goto(IF present THEN "send" ELSE "probe_again")
  /\ UNCHANGED <<slept, usb_ctl_val, toggle, keycode, chip, keyboard>>

(* A keyboard found by one of the further reads is enumerated without      *)
(* another bus reset.                                                      *)
ProbeAgain ==
  /\ at = "probe_again"
  /\ IF present THEN Goto("send") /\ UNCHANGED hot_plug_count
                ELSE /\ hot_plug_count' = hot_plug_count + 1
                     /\ Goto(IF hot_plug_count' = ProbeReads THEN "absent" ELSE "probe_again")
  /\ UNCHANGED <<step, slept, usb_ctl_val, toggle, keycode, chip, keyboard>>

AwaitDevice ==
  /\ at = "absent" /\ present /\ Goto("hot_plug")
  /\ UNCHANGED <<step, slept, usb_ctl_val, hot_plug_count, toggle, keycode, chip, keyboard>>
-----------------------------------------------------------------------------
(* One request: write its list, start it, start it over and over until a   *)
(* message comes, wait for the message to be TDListDone, and look at the   *)
(* control byte of the first descriptor.                                   *)

SendList ==
  /\ at = "send" /\ Goto("start")
  /\ slots' = [i \in Slots |-> IF i \in DOMAIN List THEN List[i] ELSE slots[i]]
  /\ control' = "active"
  /\ word51e' = IF 1 \in DOMAIN List THEN LinkByte(List[1].next) ELSE word51e
  /\ UNCHANGED <<step, slept, usb_ctl_val, hot_plug_count, toggle, keycode,
                 mailbox, flags, msg, command, ptr, keyboard>>

(* UsbGetConfigDesc2 is given a tenth of a second before the first look.   *)
StartList ==
  /\ at = "start" /\ Goto("flag")
  /\ ptr' = 0
  /\ slept' = (step = 5 \/ slept)
  /\ UNCHANGED <<step, usb_ctl_val, hot_plug_count, toggle, keycode,
                 mailbox, flags, msg, command, slots, control, word51e, keyboard>>

Naks(td) == present /\ kb.configured /\ ~kb.news /\ td.ep = 1

(* The chip has nothing left to do, or nothing it can do now.              *)
Settled ==
  /\ command = "none"
  /\ ptr = Idle \/ (ptr \in Slots /\ Naks(slots[ptr]))

ReadFlag ==
  /\ at = "flag"
  /\ IF slept /\ ~Settled THEN plugs + late < MaxEvents /\ late' = late + 1 ELSE UNCHANGED late
  /\ IF "SIE1msg" \in flags THEN Goto("message") /\ slept' = FALSE
                            ELSE Goto("send") /\ slept' = TRUE
  /\ UNCHANGED <<step, usb_ctl_val, hot_plug_count, toggle, keycode, chip,
                 present, kb, plugs, served>>

(* UsbWaitTDListDone: the message is read and cleared in two accesses.     *)
ReadMessage ==
  /\ at = "message" /\ Goto("clear_message")
  /\ usb_ctl_val' = msg /\ flags' = flags \ {"SIE1msg"}
  /\ UNCHANGED <<step, slept, hot_plug_count, toggle, keycode,
                 mailbox, msg, command, slots, ptr, control, word51e, keyboard>>

ClearMessage ==
  /\ at = "clear_message"
  /\ msg' = "none"
  /\ Goto(CASE usb_ctl_val # "TDListDone" -> "message"
            [] usb_ctl_val = "TDListDone" /\ step = Polling -> "key"
            [] OTHER -> "control")
  /\ UNCHANGED <<step, slept, usb_ctl_val, hot_plug_count, toggle, keycode,
                 mailbox, flags, command, slots, ptr, control, word51e, keyboard>>

(* Only "done without retries" passes; "active" stands for 0x13.           *)
ReadControl ==
  /\ at = "control"
  /\ CASE control # "done" -> Goto("retry") /\ UNCHANGED step
       [] control = "done" /\ step = 5 -> Goto("endpoint") /\ UNCHANGED step
       [] control = "done" /\ step = 9 -> Goto("poll") /\ step' = Polling
       [] OTHER -> Goto("send") /\ step' = step + 1
  /\ UNCHANGED <<slept, usb_ctl_val, hot_plug_count, toggle, keycode, chip, keyboard>>

(* Before SetConfig the program writes an endpoint descriptor over the     *)
(* last bytes of the configuration it has read, and sets the list pointer  *)
(* to it.                                                                  *)
WriteEndpoint ==
  /\ at = "endpoint" /\ Goto("send")
  /\ step' = 6 /\ ptr' = Stray
  /\ UNCHANGED <<slept, usb_ctl_val, hot_plug_count, toggle, keycode,
                 mailbox, flags, msg, command, slots, control, word51e, keyboard>>

UsbGetRetryCnt_AlwaysBug ==
  /\ at = "retry" /\ Goto("clear_retry")
  /\ flags' = flags \ {"SIE1msg"}
  /\ UNCHANGED <<step, slept, usb_ctl_val, hot_plug_count, toggle, keycode,
                 mailbox, msg, command, slots, ptr, control, word51e, keyboard>>

(* UsbGetRetryCnt, after which the enumeration starts again: if a          *)
(* TDListDone is waiting it is cleared, and another message waited for.    *)
UsbGetRetryCnt ==
  /\ at = "retry"
  /\ flags' = flags \ {"SIE1msg"}
  /\ Goto(IF msg = "TDListDone" THEN "clear_retry" ELSE "hot_plug")
  /\ UNCHANGED <<step, slept, usb_ctl_val, hot_plug_count, toggle, keycode,
                 mailbox, msg, command, slots, ptr, control, word51e, keyboard>>

ClearRetry ==
  /\ at = "clear_retry" /\ Goto("await_retry")
  /\ msg' = "none"
  /\ UNCHANGED <<step, slept, usb_ctl_val, hot_plug_count, toggle, keycode,
                 mailbox, flags, command, slots, ptr, control, word51e, keyboard>>

AwaitRetry ==
  /\ at = "await_retry" /\ "SIE1msg" \in flags /\ Goto("hot_plug")
  /\ UNCHANGED <<step, slept, usb_ctl_val, hot_plug_count, toggle, keycode, chip, keyboard>>
-----------------------------------------------------------------------------
(* The poll loop.                                                          *)

BeginPoll ==
  /\ at = "poll" /\ Goto("send")
  /\ toggle' = (toggle + 1) % 2
  /\ UNCHANGED <<step, slept, usb_ctl_val, hot_plug_count, keycode, chip, keyboard>>

StoreKeycode_ModifierBug ==
  /\ at = "key" /\ Goto("check")
  /\ keycode' = 0
  /\ UNCHANGED <<step, slept, usb_ctl_val, hot_plug_count, toggle, chip, keyboard>>

StoreKeycode ==
  /\ at = "key" /\ Goto("check")
  /\ keycode' = word51e
  /\ UNCHANGED <<step, slept, usb_ctl_val, hot_plug_count, toggle, chip, keyboard>>

CheckDevice ==
  /\ at = "check"
  /\ hot_plug_count' = 0
  /\ Goto(IF present THEN "poll" ELSE "check_again")
  /\ UNCHANGED <<step, slept, usb_ctl_val, toggle, keycode, chip, keyboard>>

CheckAgain_NoLimitBug ==
  /\ at = "check_again"
  /\ IF present THEN Goto("poll") /\ UNCHANGED hot_plug_count
                ELSE /\ hot_plug_count' = hot_plug_count + 1
                     /\ Goto(IF hot_plug_count' > PollReads THEN "removed" ELSE "check_again")
  /\ UNCHANGED <<step, slept, usb_ctl_val, toggle, keycode, chip, keyboard>>

CheckAgain ==
  /\ at = "check_again"
  /\ IF present THEN Goto("poll") /\ UNCHANGED hot_plug_count
                ELSE /\ hot_plug_count' = hot_plug_count + 1
                     /\ Goto(IF hot_plug_count' = PollReads THEN "removed" ELSE "check_again")
  /\ UNCHANGED <<step, slept, usb_ctl_val, toggle, keycode, chip, keyboard>>

(* Three reads, of which the last one counts.                              *)
AwaitReturn ==
  /\ at = "removed" /\ present /\ Goto("hot_plug")
  /\ UNCHANGED <<step, slept, usb_ctl_val, hot_plug_count, toggle, keycode, chip, keyboard>>

Host ==
  \/ UsbSoftReset \/ ClearUp \/ AwaitStatus \/ ReadAck \/ ReadAck2
  \/ Probe \/ ProbeAgain \/ AwaitDevice
  \/ SendList \/ StartList \/ ReadFlag \/ ReadMessage \/ ClearMessage \/ ReadControl
  \/ WriteEndpoint \/ UsbGetRetryCnt \/ ClearRetry \/ AwaitRetry
  \/ BeginPoll \/ StoreKeycode \/ CheckDevice \/ CheckAgain \/ AwaitReturn
-----------------------------------------------------------------------------
(* The chip's firmware, with what a transaction does to the keyboard.      *)

RunCommand ==
  /\ command # "none" /\ command' = "none"
  /\ mailbox' = "COMM_ACK" /\ flags' = flags \cup {"Mailbox_Out"}
  /\ IF command = "bus_reset" /\ present
       THEN kb' = [FreshKb EXCEPT !.address = 0] /\ served' = {}
       ELSE UNCHANGED <<kb, served>>
  /\ UNCHANGED <<host, msg, slots, ptr, control, word51e, present, late, plugs>>

Running == command = "none" /\ ptr \in Slots
Td      == slots[ptr]
Heard   == present /\ Td.dev = kb.address

TakesSetup  == Heard /\ Td.pid = "SETUP"
TakesData   == /\ Heard /\ Td.ep = 0 /\ Td.pid = "IN"
               /\ kb.packet.toHost /\ Td.toggle = kb.dataToggle
TakesStatus == /\ Heard /\ Td.ep = 0 /\ kb.packet # NoPacket /\ Td.toggle = 1
               /\ Td.pid = IF kb.packet.toHost THEN "OUT" ELSE "IN"
TakesPoll   == Heard /\ Td.ep = 1 /\ kb.configured /\ Td.pid = "IN"

Advance(c) ==
  /\ IF Td.next = End THEN ptr' = Idle /\ Post("TDListDone")
                      ELSE ptr' = Td.next /\ UNCHANGED <<flags, msg>>
  /\ control' = IF ptr = 0 THEN c ELSE control
  /\ UNCHANGED <<host, mailbox, command, present, late, plugs>>

RunSetup ==
  /\ Running /\ TakesSetup
  /\ \E c \in {"done", "retried"} : Advance(c)
  /\ kb' = [kb EXCEPT !.packet = Td.packet, !.dataToggle = 1]
  /\ UNCHANGED <<slots, word51e, served>>

RunData ==
  /\ Running /\ TakesData
  /\ Advance("done")
  /\ kb' = [kb EXCEPT !.dataToggle = 1 - @]
  /\ slots' = [i \in Slots |-> IF i \in Overlaps(Td) THEN Junk ELSE slots[i]]
  /\ UNCHANGED <<word51e, served>>

RunStatus ==
  /\ Running /\ TakesStatus
  /\ Advance("done")
  /\ kb' = [kb EXCEPT !.packet = NoPacket,
                      !.address = IF kb.packet.request = "SET_ADDRESS" THEN 2 ELSE @,
                      !.configured = @ \/ kb.packet.request = "SET_CONFIG"]
  /\ served' = served \cup {kb.packet}
  /\ UNCHANGED <<slots, word51e>>

(* A report with the wrong toggle is acknowledged; whether the chip stores *)
(* it is not known.                                                        *)
RunPoll ==
  /\ Running /\ TakesPoll /\ kb.news
  /\ Advance("done")
  /\ kb' = [kb EXCEPT !.epToggle = 1 - @, !.news = FALSE]
  /\ slots' = [i \in Slots |-> IF i \in Overlaps(Td) THEN Junk ELSE slots[i]]
  /\ \/ word51e' = kb.key
     \/ Td.toggle # kb.epToggle /\ UNCHANGED word51e
  /\ UNCHANGED served

(* Nobody answers, or the keyboard stalls: the list ends there.            *)
FailList ==
  /\ Running /\ ~(TakesSetup \/ TakesData \/ TakesStatus \/ TakesPoll)
  /\ ptr' = Idle /\ Post("TDListDone")
  /\ control' = IF ptr = 0 THEN "retried" ELSE control
  /\ UNCHANGED <<host, mailbox, command, slots, word51e, keyboard>>

(* The words at 0x576 are not an active descriptor: the firmware gives up  *)
(* the list, and may or may not report it.                                 *)
RunStray ==
  /\ command = "none" /\ ptr = Stray /\ ptr' = Idle
  /\ \/ StrayReports /\ Post("TDListDone")
     \/ UNCHANGED <<flags, msg>>
  /\ UNCHANGED <<host, mailbox, command, slots, control, word51e, keyboard>>

Chip == RunCommand \/ RunSetup \/ RunData \/ RunStatus \/ RunPoll \/ FailList \/ RunStray
-----------------------------------------------------------------------------
Press(k) ==
  /\ present /\ kb.configured /\ k # kb.key
  /\ kb' = [kb EXCEPT !.key = k, !.news = TRUE]
  /\ UNCHANGED <<host, chip, present, late, plugs, served>>

PlugIn ==
  /\ ~present /\ plugs + late < MaxEvents
  /\ present' = TRUE /\ plugs' = plugs + 1 /\ kb' = FreshKb /\ served' = {}
  /\ Post("Insert")
  /\ UNCHANGED <<host, mailbox, command, slots, ptr, control, word51e, late>>

Unplug ==
  /\ present /\ present' = FALSE
  /\ kb' = FreshKb
  /\ Post("Remove")
  /\ UNCHANGED <<host, mailbox, command, slots, ptr, control, word51e, late, plugs, served>>

Init ==
  /\ at = "hot_plug" /\ step = 1 /\ slept = FALSE /\ usb_ctl_val = "none"
  /\ hot_plug_count = 0 /\ toggle = 0 /\ keycode = 0
  /\ mailbox = "garbage" /\ flags = {} /\ msg = "none" /\ command = "none"
  /\ slots = [i \in Slots |-> Junk] /\ ptr = Idle /\ control = "active" /\ word51e = 0
  /\ present = FALSE /\ kb = FreshKb /\ late = 0 /\ plugs = 0 /\ served = {}

Next ==
  \/ Host
  \/ Chip
  \/ \E k \in Keys : Press(k)
  \/ PlugIn
  \/ Unplug

Spec == Init /\ [][Next]_vars

(* The program always runs on, and so does the firmware when it has        *)
(* something to do.  Nobody has to touch the keyboard.                     *)
FairSpec == Spec /\ WF_vars(Host) /\ WF_vars(Chip)
-----------------------------------------------------------------------------
Starting  == {"hot_plug", "clear", "status", "ack", "ack2", "probe", "probe_again", "absent"}
Sending   == {"send", "start", "flag", "message", "clear_message"}
Enumerating == {"control", "endpoint", "retry", "clear_retry", "await_retry"}
InPoll    == {"poll", "key", "check", "check_again", "removed"}

Messages == {"none", "TDListDone", "Insert", "Remove"}
Packets  == [request : {"none", "SET_ADDRESS", "GET_DEVICE", "GET_CONFIG", "SET_CONFIG",
                        "SET_IDLE", "GET_HID", "GET_REPORT"},
             toHost : BOOLEAN, length : 0..255]
Descriptors == [pid : {"junk", "SETUP", "IN", "OUT"}, dev : {0, 2}, ep : {0, 1},
                toggle : {0, 1}, buf : 0..\h5FF, len : 0..8, next : Slots \cup {End},
                packet : Packets]

HostTypeOK ==
  /\ at \in Starting \cup Sending \cup Enumerating \cup InPoll
  /\ step \in 1..Polling /\ slept \in BOOLEAN /\ usb_ctl_val \in Messages
  /\ hot_plug_count \in 0..ProbeReads \cup 0..PollReads
  /\ toggle \in {0, 1} /\ keycode \in 0..255

(* Control bytes are looked at while enumerating and keycodes while        *)
(* polling, never the other way round, and the counts of reads that found  *)
(* no keyboard are below their limits.                                     *)
FlowOK ==
  /\ at \in Enumerating => step < Polling
  /\ at = "endpoint" => step = 5
  /\ at \in InPoll => step = Polling
  /\ at = "probe_again" => hot_plug_count < ProbeReads
  /\ at = "check_again" => hot_plug_count < PollReads

ChipTypeOK ==
  /\ mailbox \in {"garbage", "COMM_ACK"} /\ flags \subseteq {"Mailbox_Out", "SIE1msg"}
  /\ msg \in Messages /\ command \in {"none", "init", "bus_reset"}
  /\ slots \in [Slots -> Descriptors] /\ ptr \in Slots \cup {Idle, Stray}
  /\ control \in {"active", "done", "retried"} /\ word51e \in 0..255

KeyboardTypeOK ==
  /\ present \in BOOLEAN /\ late \in 0..MaxEvents /\ plugs \in 0..MaxEvents /\ served \subseteq Packets
  /\ kb \in [address : {0, 2, Unreset}, configured : BOOLEAN, packet : Packets,
             dataToggle : {0, 1}, epToggle : {0, 1}, key : 0..255, news : BOOLEAN]

TypeOK == HostTypeOK /\ FlowOK /\ ChipTypeOK /\ KeyboardTypeOK

(* No descriptor is ever put to the keyboard that it has to refuse: the    *)
(* toggles alternate, the directions fit the request, no answer is stored  *)
(* over a descriptor that is still to be run, and a list that is started   *)
(* over finds the keyboard ready for it.                                   *)
NeverRefused ==
  Running /\ Heard /\ late = 0 => TakesSetup \/ TakesData \/ TakesStatus \/ TakesPoll

(* The setup packet of the request of step s.                              *)
Asked(s) == Requests[s][0].packet

(* The program passes a step only when the keyboard has completed the      *)
(* request of it, since the bus was reset, although all it looks at is a   *)
(* message that may be stale and the control byte of the first descriptor. *)
(* A keyboard put in meanwhile has not seen a reset and is not meant.      *)
EnumerationEarned ==
  late = 0 /\ present /\ kb.address # Unreset /\ at \notin Starting =>
    \A s \in 1..(step - 1) : Asked(s) \in served

(* What the first keyboard's reports hand to the game is a keycode it has  *)
(* sent, not what the lists of the enumeration left at 0x51e.              *)
KeycodeIsAKey ==
  at = "key" /\ late = 0 /\ present /\ kb.configured /\ plugs = 1 => word51e \in Keys

(* The program waits for the message of a list that is over.  In           *)
(* UsbWaitTDListDone it was cleared along with another one, or replaced by *)
(* one; in UsbGetRetryCnt it was that of a second run of the list, and no  *)
(* third one comes.                                                        *)
Stuck ==
  /\ ptr = Idle
  /\ \/ at = "message" /\ msg # "TDListDone"
     \/ at = "await_retry" /\ late > 0

NoKeyYet == step = Polling /\ Naks(slots[0])

(* There is no other place where the program can stay for ever: it keeps   *)
(* polling or starting over, or waits for a keyboard or a key.             *)
NoOtherHang == []<>(at \in {"hot_plug", "poll", "absent", "removed"} \/ Stuck \/ NoKeyYet)

Polled == step = Polling /\ present /\ kb.configured

(* A list started again after its report came in, which is about to take   *)
(* another one, although the program has not read the first.               *)
Overrun ==
  /\ ptr = 0 /\ kb.news
  /\ \/ msg = "TDListDone"
     \/ at = "clear_message" /\ usb_ctl_val = "TDListDone"
     \/ at = "key"

(* Every keycode that a polled keyboard's report leaves in the chip's      *)
(* memory reaches the game, however often the keys change meanwhile and    *)
(* although the program starts lists again without looking whether their   *)
(* report has come in: none is replaced before it has been handed over,    *)
(* but by a list that takes a second report, and none stays unread, unless *)
(* the keyboard is removed or the program hangs as above.                  *)
KeyReachesGame ==
  /\ [][Polled /\ word51e \in Keys /\ word51e' # word51e => keycode = word51e \/ Overrun]_vars
  /\ Polled /\ word51e \in Keys ~> keycode = word51e \/ ~present \/ Stuck

(***************************************************************************)
(* Something that main.c says and does not do.                             *)
(***************************************************************************)

(* main.c prints "no device is present in SIE1" or "the keyboard has been  *)
(* removed" and waits for one: a removal for good is noticed.              *)
RemovalNoticed == ~present ~> present \/ at \in {"absent", "removed"}
=============================================================================
