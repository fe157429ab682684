---------------------------- MODULE UsbHostProofs ----------------------------
(***************************************************************************)
(* Proofs about the program that enumerates and polls the USB keyboard.    *)
(***************************************************************************)
EXTENDS UsbHost, TLAPS

(* The lists.  What the keyboard has to be ready for is read off them.     *)

(* A list that asks the device dev for packet: the setup, data with        *)
(* alternating toggles if the answer is to the host, and the status, with  *)
(* no buffer over a descriptor of the list.                                *)
Asks(list, dev, packet) ==
  /\ packet \in Packets /\ packet # NoPacket /\ DOMAIN list \subseteq Slots
  /\ 0 \in DOMAIN list /\ 1 \in DOMAIN list
  /\ list[0].pid = "SETUP" /\ list[0].packet = packet /\ list[0].next = 1
  /\ \A i \in DOMAIN list :
       /\ list[i] \in Descriptors /\ list[i].dev = dev /\ list[i].ep = 0
       /\ Overlaps(list[i]) \cap DOMAIN list = {}
       /\ i # 0 =>
            \/ list[i].next = End /\ list[i].toggle = 1
               /\ list[i].pid = IF packet.toHost THEN "OUT" ELSE "IN"
            \/ packet.toHost /\ list[i].pid = "IN" /\ list[i].toggle = i % 2
               /\ list[i].next = i + 1 /\ i + 1 \in DOMAIN list

(* The descriptors of a control transfer, one by one.                      *)
LEMMA ControlFields ==
  ASSUME NEW dev, NEW packet, NEW parts, NEW statusPid, Len(parts) \in Nat,
         NEW i \in 0..(Len(parts) + 1)
  PROVE  /\ i = 0 => Control(dev, packet, parts, statusPid)[i]
                       = Descriptor("SETUP", dev, 0, 0, \h50C, 8, 1, packet)
         /\ i = Len(parts) + 1 => Control(dev, packet, parts, statusPid)[i]
                       = Descriptor(statusPid, dev, 0, 1, 0, 0, End, NoPacket)
         /\ i \in 1..Len(parts) => Control(dev, packet, parts, statusPid)[i]
                       = Descriptor("IN", dev, 0, parts[i].toggle,
                                    parts[i].buf, parts[i].len, i + 1, NoPacket)
<1> DEFINE last   == Len(parts) + 1
           setup  == Descriptor("SETUP", dev, 0, 0, \h50C, 8, 1, packet)
           status == Descriptor(statusPid, dev, 0, 1, 0, 0, End, NoPacket)
           data   == Descriptor("IN", dev, 0, parts[i].toggle,
                                parts[i].buf, parts[i].len, i + 1, NoPacket)
<1>1. Control(dev, packet, parts, statusPid)[i] =
        CASE i = 0 -> setup [] i = last -> status [] OTHER -> data
  BY DEF Control
<1>2. last # 0 /\ (i \in 1..Len(parts) => i # 0 /\ i # last)
  OBVIOUS
<1> HIDE DEF last, setup, status, data
<1>3. /\ i = 0 => Control(dev, packet, parts, statusPid)[i] = setup
      /\ i = last => Control(dev, packet, parts, statusPid)[i] = status
      /\ i \in 1..Len(parts) => Control(dev, packet, parts, statusPid)[i] = data
  BY <1>1, <1>2, Zenon
<1> QED
  BY <1>3 DEF last, setup, status, data

(* The parts of the data are in the right order and behind the list.       *)
Fits(parts, n) ==
  \A j \in 1..n :
    /\ parts[j].toggle = j % 2 /\ parts[j].len \in 0..8
    /\ parts[j].buf \in (\h514 + 12 * (n + 1))..\h5FF

(* Control makes a list that asks for its packet.                          *)
LEMMA ControlAsks ==
  ASSUME NEW dev \in {0, 2}, NEW packet \in Packets, packet # NoPacket,
         NEW parts, NEW n \in 0..8, Len(parts) = n, Fits(parts, n), n > 0 => packet.toHost
  PROVE  Asks(Control(dev, packet, parts, IF packet.toHost THEN "OUT" ELSE "IN"), dev, packet)
<1> DEFINE pid  == IF packet.toHost THEN "OUT" ELSE "IN"
           list == Control(dev, packet, parts, pid)
<1>1. DOMAIN list = 0..(n + 1)
  BY DEF Control
<1>2. NoPacket \in Packets
  BY DEF NoPacket, Packets
<1>3. list[0] = Descriptor("SETUP", dev, 0, 0, \h50C, 8, 1, packet)
  BY ControlFields
<1>4. list[n + 1] = Descriptor(pid, dev, 0, 1, 0, 0, End, NoPacket)
  BY ControlFields
<1>5. ASSUME NEW i \in 1..n
      PROVE  list[i] = Descriptor("IN", dev, 0, parts[i].toggle,
                                  parts[i].buf, parts[i].len, i + 1, NoPacket)
  BY ControlFields
<1> HIDE DEF list
<1>6. list[0] \in Descriptors /\ list[0].dev = dev /\ list[0].ep = 0
  BY <1>3 DEF Descriptor, Descriptors, Slots
<1>7. \A i \in Slots : i \notin Overlaps(list[0])
  BY <1>3 DEF Descriptor, Overlaps, Slots, SlotAddr
<1>8. /\ list[n + 1] \in Descriptors /\ list[n + 1].dev = dev /\ list[n + 1].ep = 0
      /\ list[n + 1].next = End /\ list[n + 1].toggle = 1 /\ list[n + 1].pid = pid
  BY <1>2, <1>4 DEF Descriptor, Descriptors, Slots, End
<1>9. \A i \in Slots : i \notin Overlaps(list[n + 1])
  BY <1>4 DEF Descriptor, Overlaps
<1>10. ASSUME NEW i \in 1..n
       PROVE  /\ list[i] \in Descriptors /\ list[i].dev = dev /\ list[i].ep = 0
              /\ list[i].pid = "IN" /\ list[i].toggle = i % 2 /\ list[i].next = i + 1
              /\ \A j \in 0..(n + 1) : j \notin Overlaps(list[i])
  <2>1. list[i] = Descriptor("IN", dev, 0, parts[i].toggle,
                             parts[i].buf, parts[i].len, i + 1, NoPacket)
    BY <1>5
  <2>2. /\ parts[i].toggle = i % 2 /\ parts[i].len \in 0..8 /\ i % 2 \in {0, 1}
        /\ parts[i].buf \in (\h514 + 12 * (n + 1))..\h5FF
    BY DEF Fits
  <2>3. i + 1 \in Slots /\ parts[i].buf \in 0..\h5FF
    <3>1. PICK m \in Nat : m = \h514 + 12 * (n + 1)
      OBVIOUS
    <3>2. PICK b : b = parts[i].buf
      OBVIOUS
    <3>3. b \in m..\h5FF
      BY <2>2, <3>1, <3>2
    <3>4. b \in 0..\h5FF
      BY <3>3
    <3> QED
      BY <3>2, <3>4 DEF Slots
  <2>4. /\ list[i].dev = dev /\ list[i].ep = 0 /\ list[i].len = parts[i].len
        /\ list[i].pid = "IN" /\ list[i].toggle = i % 2 /\ list[i].next = i + 1
        /\ list[i].buf = parts[i].buf
    BY <2>1, <2>2 DEF Descriptor
  <2>5. list[i] \in Descriptors
    BY <1>2, <2>1, <2>2, <2>3 DEF Descriptor, Descriptors
  <2>6. ASSUME NEW j \in 0..(n + 1)
        PROVE  j \notin Overlaps(list[i])
    <3>1. SlotAddr(j) + 12 <= \h514 + 12 * (n + 1)
      BY DEF SlotAddr
    <3>2. ~(list[i].buf < SlotAddr(j) + 12)
      <4>1. SlotAddr(j) \in Int
        BY DEF SlotAddr
      <4> QED
        BY <2>2, <2>4, <3>1, <4>1
    <3> QED
      BY <3>2 DEF Overlaps
  <2> QED
    BY <2>4, <2>5, <2>6
<1>11. 0..(n + 1) \subseteq Slots
  BY DEF Slots
<1>12. /\ list[0].pid = "SETUP" /\ list[0].packet = packet /\ list[0].next = 1
  BY <1>3 DEF Descriptor
<1>13. ASSUME NEW i \in 0..(n + 1)
       PROVE  /\ list[i] \in Descriptors /\ list[i].dev = dev /\ list[i].ep = 0
              /\ Overlaps(list[i]) \cap 0..(n + 1) = {}
              /\ i # 0 =>
                   \/ list[i].next = End /\ list[i].toggle = 1 /\ list[i].pid = pid
                   \/ packet.toHost /\ list[i].pid = "IN" /\ list[i].toggle = i % 2
                      /\ list[i].next = i + 1 /\ i + 1 \in 0..(n + 1)
  <2>1. CASE i = 0
    BY <1>6, <1>7, <1>11, <2>1
  <2>2. CASE i = n + 1
    BY <1>8, <1>9, <1>11, <2>2
  <2>3. CASE i \in 1..n
    <3>1. Overlaps(list[i]) \cap 0..(n + 1) = {}
      BY <1>10, <2>3
    <3>2. packet.toHost /\ i + 1 \in 0..(n + 1)
      BY <2>3
    <3> QED
      BY <1>10, <2>3, <3>1, <3>2
  <2> QED
    BY <2>1, <2>2, <2>3
<1> HIDE DEF pid
<1>14. Asks(list, dev, packet)
  BY <1>1, <1>11, <1>12, <1>13 DEF Asks, pid
<1> QED
  BY <1>14 DEF list, pid

(* The device a request is addressed to: only SetAddress goes to 0.        *)
DevOf(s) == IF s = 1 THEN 0 ELSE 2

(* So every list of the enumeration asks for its request, as the stores of *)
(* usb.c lay it out; the work is to read their parts.                      *)
LEMMA RequestAsks ==
  ASSUME NEW s \in 1..9
  PROVE  /\ Asks(Requests[s], DevOf(s), Asked(s))
         /\ Asked(s).request = "SET_ADDRESS" <=> s = 1
         /\ Asked(s).request = "SET_CONFIG" <=> s = 6
<1> DEFINE Good(t, r) == Asks(Requests[t], DevOf(t), Asked(t)) /\ Asked(t).request = r
<1>1. ASSUME NEW t \in 1..9, NEW packet \in Packets, packet # NoPacket,
             NEW parts, NEW n \in 0..8, Len(parts) = n, Fits(parts, n), n > 0 => packet.toHost,
             NEW pid, pid = IF packet.toHost THEN "OUT" ELSE "IN",
             Requests[t] = Control(DevOf(t), packet, parts, pid)
      PROVE  Good(t, packet.request)
  <2>1. DevOf(t) \in {0, 2}
    BY DEF DevOf
  <2>2. Asks(Requests[t], DevOf(t), packet)
    BY <1>1, <2>1, ControlAsks
  <2>3. Asked(t) = packet
    BY <2>2 DEF Asks, Asked
  <2> QED
    BY <2>2, <2>3
<1> HIDE DEF Good
<1>2. Good(1, "SET_ADDRESS")
  <2> DEFINE packet == Packet("SET_ADDRESS", FALSE, 0)
             parts  == << >>
  <2>1. Requests[1] = Control(DevOf(1), packet, parts, "IN")
    BY DEF Requests, UsbSetAddress, DevOf
  <2>2. /\ packet \in Packets /\ packet # NoPacket /\ packet.toHost = FALSE
        /\ packet.request = "SET_ADDRESS"
    BY DEF Packet, Packets, NoPacket
  <2>3. Fits(parts, 0) /\ Len(parts) = 0
    BY DEF Fits, Part
  <2> HIDE DEF packet, parts
  <2> QED
    BY <1>1, <2>1, <2>2, <2>3
<1>3. Good(2, "GET_DEVICE")
  <2> DEFINE packet == Packet("GET_DEVICE", TRUE, 8)
             parts  == << Part(1, \h52C, 8) >>
  <2>1. Requests[2] = Control(DevOf(2), packet, parts, "OUT")
    BY DEF Requests, UsbGetDeviceDesc1, DevOf
  <2>2. /\ packet \in Packets /\ packet # NoPacket /\ packet.toHost = TRUE
        /\ packet.request = "GET_DEVICE"
    BY DEF Packet, Packets, NoPacket
  <2>3. Fits(parts, 1) /\ Len(parts) = 1
    BY DEF Fits, Part
  <2> HIDE DEF packet, parts
  <2> QED
    BY <1>1, <2>1, <2>2, <2>3
<1>4. Good(3, "GET_DEVICE")
  <2> DEFINE packet == Packet("GET_DEVICE", TRUE, 18)
             parts  == << Part(1, \h544, 8), Part(0, \h54C, 8), Part(1, \h554, 2) >>
  <2>1. Requests[3] = Control(DevOf(3), packet, parts, "OUT")
    BY DEF Requests, UsbGetDeviceDesc2, DevOf
  <2>2. /\ packet \in Packets /\ packet # NoPacket /\ packet.toHost = TRUE
        /\ packet.request = "GET_DEVICE"
    BY DEF Packet, Packets, NoPacket
  <2>3. Fits(parts, 3) /\ Len(parts) = 3
    BY DEF Fits, Part
  <2> HIDE DEF packet, parts
  <2> QED
    BY <1>1, <2>1, <2>2, <2>3
<1>5. Good(4, "GET_CONFIG")
  <2> DEFINE packet == Packet("GET_CONFIG", TRUE, 9)
             parts  == << Part(1, \h544, 8), Part(0, \h54C, 1) >>
  <2>1. Requests[4] = Control(DevOf(4), packet, parts, "OUT")
    BY DEF Requests, UsbGetConfigDesc1, DevOf
  <2>2. /\ packet \in Packets /\ packet # NoPacket /\ packet.toHost = TRUE
        /\ packet.request = "GET_CONFIG"
    BY DEF Packet, Packets, NoPacket
  <2>3. Fits(parts, 2) /\ Len(parts) = 2
    BY DEF Fits, Part
  <2> HIDE DEF packet, parts
  <2> QED
    BY <1>1, <2>1, <2>2, <2>3
<1>6. Good(5, "GET_CONFIG")
  <2> DEFINE packet == Packet("GET_CONFIG", TRUE, 255)
             parts  == << Part(1, \h55C, 8), Part(0, \h564, 8), Part(1, \h56C, 8),
                        Part(0, \h574, 8), Part(1, \h57C, 2) >>
  <2>1. Requests[5] = Control(DevOf(5), packet, parts, "OUT")
    BY DEF Requests, UsbGetConfigDesc2, DevOf
  <2>2. /\ packet \in Packets /\ packet # NoPacket /\ packet.toHost = TRUE
        /\ packet.request = "GET_CONFIG"
    BY DEF Packet, Packets, NoPacket
  <2>3. Fits(parts, 5) /\ Len(parts) = 5
    BY DEF Fits, Part
  <2> HIDE DEF packet, parts
  <2> QED
    BY <1>1, <2>1, <2>2, <2>3
<1>7. Good(6, "SET_CONFIG")
  <2> DEFINE packet == Packet("SET_CONFIG", FALSE, 0)
             parts  == << >>
  <2>1. Requests[6] = Control(DevOf(6), packet, parts, "IN")
    BY DEF Requests, UsbSetConfig, DevOf
  <2>2. /\ packet \in Packets /\ packet # NoPacket /\ packet.toHost = FALSE
        /\ packet.request = "SET_CONFIG"
    BY DEF Packet, Packets, NoPacket
  <2>3. Fits(parts, 0) /\ Len(parts) = 0
    BY DEF Fits, Part
  <2> HIDE DEF packet, parts
  <2> QED
    BY <1>1, <2>1, <2>2, <2>3
<1>8. Good(7, "SET_IDLE")
  <2> DEFINE packet == Packet("SET_IDLE", FALSE, 0)
             parts  == << >>
  <2>1. Requests[7] = Control(DevOf(7), packet, parts, "IN")
    BY DEF Requests, UsbClassRequest, DevOf
  <2>2. /\ packet \in Packets /\ packet # NoPacket /\ packet.toHost = FALSE
        /\ packet.request = "SET_IDLE"
    BY DEF Packet, Packets, NoPacket
  <2>3. Fits(parts, 0) /\ Len(parts) = 0
    BY DEF Fits, Part
  <2> HIDE DEF packet, parts
  <2> QED
    BY <1>1, <2>1, <2>2, <2>3
<1>9. Good(8, "GET_HID")
  <2> DEFINE packet == Packet("GET_HID", TRUE, 123)
             parts  == << Part(1, \h544, 8) >>
  <2>1. Requests[8] = Control(DevOf(8), packet, parts, "OUT")
    BY DEF Requests, UsbGetHidDesc, DevOf
  <2>2. /\ packet \in Packets /\ packet # NoPacket /\ packet.toHost = TRUE
        /\ packet.request = "GET_HID"
    BY DEF Packet, Packets, NoPacket
  <2>3. Fits(parts, 1) /\ Len(parts) = 1
    BY DEF Fits, Part
  <2> HIDE DEF packet, parts
  <2> QED
    BY <1>1, <2>1, <2>2, <2>3
<1>10. Good(9, "GET_REPORT")
  <2> DEFINE packet == Packet("GET_REPORT", TRUE, 123)
             parts  == << Part(1, \h580, 8), Part(0, \h588, 8), Part(1, \h590, 8), Part(0, \h598, 8),
                        Part(1, \h5A0, 8), Part(0, \h5A8, 8), Part(1, \h5B0, 8), Part(0, \h5B8, 3) >>
  <2>1. Requests[9] = Control(DevOf(9), packet, parts, "OUT")
    BY DEF Requests, UsbGetReportDesc, DevOf
  <2>2. /\ packet \in Packets /\ packet # NoPacket /\ packet.toHost = TRUE
        /\ packet.request = "GET_REPORT"
    BY DEF Packet, Packets, NoPacket
  <2>3. Fits(parts, 8) /\ Len(parts) = 8
    BY DEF Fits, Part
  <2> HIDE DEF packet, parts
  <2> QED
    BY <1>1, <2>1, <2>2, <2>3
<1> QED
  BY <1>2, <1>3, <1>4, <1>5, <1>6, <1>7, <1>8, <1>9, <1>10 DEF Good
-----------------------------------------------------------------------------
(* Types.                                                                  *)

KbType == [address : {0, 2, Unreset}, configured : BOOLEAN, packet : Packets,
           dataToggle : {0, 1}, epToggle : {0, 1}, key : 0..255, news : BOOLEAN]

(* A keyboard after plugging in, and after a reset.                        *)
LEMMA Fresh == FreshKb \in KbType /\ [FreshKb EXCEPT !.address = 0] \in KbType
<1>1. NoPacket \in Packets
  BY DEF NoPacket, Packets
<1>2. 0 \in 0..255 /\ 0 \in {0, 1} /\ Unreset \in {0, 2, Unreset}
  OBVIOUS
<1>3. FreshKb \in KbType
  BY <1>1, <1>2, Zenon DEF FreshKb, KbType
<1> QED
  BY <1>3 DEF KbType

LEMMA JunkType == Junk \in Descriptors
BY DEF Junk, Descriptor, Descriptors, NoPacket, Packets, End, Slots

(* What an answer leaves of the descriptors it is stored over.             *)
LEMMA Junked ==
  ASSUME ChipTypeOK, NEW S
  PROVE  [i \in Slots |-> IF i \in S THEN Junk ELSE slots[i]] \in [Slots -> Descriptors]
BY JunkType DEF ChipTypeOK

(* The read of a report.                                                   *)
LEMMA PollFields ==
  ASSUME NEW t \in {0, 1}
  PROVE  /\ Poll(t)[0] \in Descriptors /\ DOMAIN Poll(t) = {0}
         /\ Poll(t)[0].pid = "IN" /\ Poll(t)[0].dev = 2 /\ Poll(t)[0].ep = 1
         /\ Poll(t)[0].toggle = t /\ Poll(t)[0].next = End
         /\ 0 \notin Overlaps(Poll(t)[0])
BY DEF Poll, Descriptor, Descriptors, NoPacket, Packets, End, Slots, Overlaps, SlotAddr

(* What SendList writes.                                                   *)
LEMMA ListType ==
  ASSUME HostTypeOK
  PROVE  \A i \in DOMAIN List : i \in Slots /\ List[i] \in Descriptors
<1>1. CASE step = Polling
  <2>1. List = Poll(1 - toggle) /\ 1 - toggle \in {0, 1}
    BY <1>1 DEF List, HostTypeOK
  <2> QED
    BY <2>1, PollFields DEF Slots
<1>2. CASE step # Polling
  <2>1. List = Requests[step] /\ step \in 1..9
    BY <1>2 DEF List, HostTypeOK, Polling
  <2> QED
    BY <2>1, RequestAsks DEF Asks
<1> QED
  BY <1>1, <1>2

(* What the firmware posts.                                                *)
LEMMA PostType ==
  ASSUME ChipTypeOK, NEW m \in Messages, Post(m)
  PROVE  msg' \in Messages /\ flags' \subseteq {"Mailbox_Out", "SIE1msg"}
BY DEF Post, ChipTypeOK

(* What running a descriptor does to the registers of the chip.            *)
LEMMA AdvanceType ==
  ASSUME ChipTypeOK, ptr \in Slots, NEW c \in {"done", "retried"}, Advance(c)
  PROVE  /\ msg' \in Messages /\ flags' \subseteq {"Mailbox_Out", "SIE1msg"}
         /\ ptr' \in Slots \cup {Idle, Stray} /\ control' \in {"active", "done", "retried"}
         /\ UNCHANGED <<host, mailbox, command, present, late, plugs>>
<1>1. CASE Td.next = End
  BY <1>1, PostType DEF Advance, ChipTypeOK, Messages
<1>2. CASE Td.next # End
  BY <1>2 DEF Advance, ChipTypeOK, Td, Descriptors
<1> QED
  BY <1>1, <1>2

(* A step that changes at most the keyboard's state and what it has        *)
(* served.                                                                 *)
LEMMA KeyboardFrame ==
  ASSUME KeyboardTypeOK, UNCHANGED <<present, late, plugs>>,
         kb' \in KbType, served' \subseteq Packets
  PROVE  KeyboardTypeOK'
BY DEF KeyboardTypeOK, KbType

(* A step of the chip or of the keyboard.                                  *)
LEMMA HostFrame ==
  ASSUME HostTypeOK, FlowOK, UNCHANGED host
  PROVE  HostTypeOK' /\ FlowOK'
BY DEF host, HostTypeOK, FlowOK

(* The steps of the program that write neither a list nor its start.       *)
LEMMA HostTypeStep ==
  ASSUME TypeOK,
         \/ UsbSoftReset \/ ClearUp \/ AwaitStatus \/ ReadAck \/ ReadAck2 \/ Probe \/ ProbeAgain
         \/ AwaitDevice \/ ReadMessage \/ ClearMessage \/ ReadControl \/ WriteEndpoint
         \/ UsbGetRetryCnt \/ ClearRetry \/ AwaitRetry \/ BeginPoll \/ StoreKeycode
         \/ CheckDevice \/ CheckAgain \/ AwaitReturn
  PROVE  TypeOK'
<1> USE UsbAssumption DEF UsbAssumption, Goto, TypeOK, HostTypeOK, FlowOK, ChipTypeOK,
    KeyboardTypeOK, Starting, Sending, Enumerating, InPoll, Polling, Messages, host, chip, keyboard
<1>1. CASE UsbSoftReset
  BY <1>1 DEF UsbSoftReset
<1>2. CASE ClearUp
  BY <1>2 DEF ClearUp
<1>3. CASE AwaitStatus
  BY <1>3 DEF AwaitStatus
<1>4. CASE ReadAck
  BY <1>4 DEF ReadAck
<1>5. CASE ReadAck2
  BY <1>5 DEF ReadAck2
<1>6. CASE Probe
  BY <1>6 DEF Probe
<1>7. CASE ProbeAgain
  BY <1>7 DEF ProbeAgain
<1>8. CASE AwaitDevice
  BY <1>8 DEF AwaitDevice
<1>9. CASE ReadMessage
  BY <1>9 DEF ReadMessage
<1>10. CASE ClearMessage
  BY <1>10 DEF ClearMessage
<1>11. CASE ReadControl
  BY <1>11 DEF ReadControl
<1>12. CASE WriteEndpoint
  BY <1>12 DEF WriteEndpoint
<1>13. CASE UsbGetRetryCnt
  BY <1>13 DEF UsbGetRetryCnt
<1>14. CASE ClearRetry
  BY <1>14 DEF ClearRetry
<1>15. CASE AwaitRetry
  BY <1>15 DEF AwaitRetry
<1>16. CASE BeginPoll
  BY <1>16 DEF BeginPoll
<1>17. CASE StoreKeycode
  BY <1>17 DEF StoreKeycode
<1>18. CASE CheckDevice
  BY <1>18 DEF CheckDevice
<1>19. CASE CheckAgain
  BY <1>19 DEF CheckAgain
<1>20. CASE AwaitReturn
  BY <1>20 DEF AwaitReturn
<1> QED
  BY <1>1, <1>2, <1>3, <1>4, <1>5, <1>6, <1>7, <1>8, <1>9, <1>10, <1>11, <1>12, <1>13,
     <1>14, <1>15, <1>16, <1>17, <1>18, <1>19, <1>20

(* Every step keeps the types.                                             *)
LEMMA TypeStep ==
  ASSUME TypeOK, Next
  PROVE  TypeOK'
<1> USE UsbAssumption DEF UsbAssumption
<1>0. /\ HostTypeOK /\ FlowOK /\ ChipTypeOK /\ KeyboardTypeOK /\ kb \in KbType
      /\ served \subseteq Packets
  BY DEF TypeOK, KeyboardTypeOK, KbType
<1>1. CASE \/ UsbSoftReset \/ ClearUp \/ AwaitStatus \/ ReadAck \/ ReadAck2 \/ Probe \/ ProbeAgain
         \/ AwaitDevice \/ ReadMessage \/ ClearMessage \/ ReadControl \/ WriteEndpoint
         \/ UsbGetRetryCnt \/ ClearRetry \/ AwaitRetry \/ BeginPoll \/ StoreKeycode
         \/ CheckDevice \/ CheckAgain \/ AwaitReturn
  BY <1>1, HostTypeStep
<1>2. CASE SendList
  <2>1. HostTypeOK' /\ FlowOK'
    BY <1>2 DEF SendList, Goto, TypeOK, HostTypeOK, FlowOK, Starting, Sending, Enumerating, InPoll
  <2>2. slots' \in [Slots -> Descriptors]
    BY <1>0, <1>2, ListType DEF SendList, ChipTypeOK
  <2>3. word51e' \in 0..255
    <3>1. \A d \in Descriptors : LinkByte(d.next) \in 0..255
      BY DEF Descriptors, LinkByte, SlotAddr, Slots, End
    <3> QED
      BY <1>0, <1>2, <3>1, ListType DEF SendList, ChipTypeOK
  <2>4. ChipTypeOK'
    BY <1>2, <2>2, <2>3 DEF SendList, TypeOK, ChipTypeOK
  <2> QED
    BY <1>2, <2>1, <2>4 DEF SendList, TypeOK, KeyboardTypeOK, keyboard
<1>3. CASE StartList
  <2>1. HostTypeOK' /\ FlowOK'
    <3>1. slept' \in BOOLEAN
      BY <1>3 DEF StartList
    <3> QED
      BY <1>3, <3>1 DEF StartList, Goto, TypeOK, HostTypeOK, FlowOK, Starting, Sending,
         Enumerating, InPoll
  <2>2. ChipTypeOK'
    BY <1>3 DEF StartList, TypeOK, ChipTypeOK, Slots
  <2> QED
    BY <1>3, <2>1, <2>2 DEF StartList, TypeOK, KeyboardTypeOK, keyboard
<1>4. CASE ReadFlag
  <2>1. HostTypeOK' /\ FlowOK'
    BY <1>4 DEF ReadFlag, Goto, TypeOK, HostTypeOK, FlowOK, Starting, Sending, Enumerating, InPoll
  <2>2. ChipTypeOK'
    BY <1>4 DEF ReadFlag, TypeOK, ChipTypeOK, chip
  <2>3. late' \in 0..MaxEvents
    <3>1. late' = late \/ (plugs + late < MaxEvents /\ late' = late + 1)
      BY <1>4 DEF ReadFlag
    <3>2. late \in 0..MaxEvents /\ plugs \in 0..MaxEvents
      BY <1>0 DEF KeyboardTypeOK
    <3> QED
      BY <3>1, <3>2
  <2> QED
    BY <1>4, <2>1, <2>2, <2>3 DEF ReadFlag, TypeOK, KeyboardTypeOK, chip
<1>5. CASE RunCommand
  <2>1. kb' \in KbType /\ served' \subseteq Packets
    BY <1>0, <1>5, Fresh DEF RunCommand
  <2>2. ChipTypeOK'
    BY <1>0, <1>5 DEF RunCommand, ChipTypeOK
  <2> QED
    BY <1>0, <1>5, <2>1, <2>2, HostFrame, KeyboardFrame DEF RunCommand, TypeOK
<1>6. CASE RunSetup
  <2>1. ptr \in Slots
    BY <1>6 DEF RunSetup, Running
  <2>2. PICK c \in {"done", "retried"} : Advance(c)
    BY <1>6 DEF RunSetup
  <2>3. kb' \in KbType /\ served' \subseteq Packets
    <3>1. Td.packet \in Packets
      BY <1>0, <2>1 DEF Td, ChipTypeOK, Descriptors
    <3> QED
      BY <1>0, <1>6, <3>1 DEF RunSetup, KbType
  <2>4. slots' \in [Slots -> Descriptors]
    BY <1>0, <1>6, Junked DEF RunSetup, ChipTypeOK
  <2>5. word51e' \in 0..255
    BY <1>0, <1>6 DEF RunSetup, ChipTypeOK
  <2>6. ChipTypeOK'
    BY <1>0, <2>1, <2>2, <2>4, <2>5, AdvanceType DEF ChipTypeOK
  <2> QED
    BY <1>0, <2>1, <2>2, <2>3, <2>6, AdvanceType, HostFrame, KeyboardFrame DEF TypeOK
<1>7. CASE RunData
  <2>1. ptr \in Slots
    BY <1>7 DEF RunData, Running
  <2>2. Advance("done")
    BY <1>7 DEF RunData
  <2>3. kb' \in KbType /\ served' \subseteq Packets
    BY <1>0, <1>7 DEF RunData, KbType
  <2>4. slots' \in [Slots -> Descriptors]
    BY <1>0, <1>7, Junked DEF RunData, ChipTypeOK
  <2>5. word51e' \in 0..255
    BY <1>0, <1>7 DEF RunData, ChipTypeOK
  <2>6. ChipTypeOK'
    BY <1>0, <2>1, <2>2, <2>4, <2>5, AdvanceType DEF ChipTypeOK
  <2> QED
    BY <1>0, <2>1, <2>2, <2>3, <2>6, AdvanceType, HostFrame, KeyboardFrame DEF TypeOK
<1>8. CASE RunStatus
  <2>1. ptr \in Slots
    BY <1>8 DEF RunStatus, Running
  <2>2. Advance("done")
    BY <1>8 DEF RunStatus
  <2>3. kb' \in KbType /\ served' \subseteq Packets
    <3>1. NoPacket \in Packets /\ kb.packet \in Packets
      BY <1>0 DEF NoPacket, Packets, KbType
    <3>2. PICK a \in {0, 2, Unreset}, b \in BOOLEAN :
            kb' = [kb EXCEPT !.packet = NoPacket, !.address = a, !.configured = b]
      BY <1>0, <1>8 DEF RunStatus, KbType
    <3>3. kb' \in KbType
      BY <1>0, <3>1, <3>2 DEF KbType
    <3>4. served' = served \cup {kb.packet}
      BY <1>8 DEF RunStatus
    <3> QED
      BY <1>0, <3>1, <3>3, <3>4
  <2>4. slots' \in [Slots -> Descriptors]
    BY <1>0, <1>8, Junked DEF RunStatus, ChipTypeOK
  <2>5. word51e' \in 0..255
    BY <1>0, <1>8 DEF RunStatus, ChipTypeOK
  <2>6. ChipTypeOK'
    BY <1>0, <2>1, <2>2, <2>4, <2>5, AdvanceType DEF ChipTypeOK
  <2> QED
    BY <1>0, <2>1, <2>2, <2>3, <2>6, AdvanceType, HostFrame, KeyboardFrame DEF TypeOK
<1>9. CASE RunPoll
  <2>1. ptr \in Slots
    BY <1>9 DEF RunPoll, Running
  <2>2. Advance("done")
    BY <1>9 DEF RunPoll
  <2>3. kb' \in KbType /\ served' \subseteq Packets
    <3>1. PICK t \in {0, 1} : t = 1 - kb.epToggle
      BY <1>0 DEF KbType
    <3>2. kb' = [kb EXCEPT !.epToggle = t, !.news = FALSE] /\ UNCHANGED served
      BY <1>9, <3>1 DEF RunPoll
    <3> QED
      BY <1>0, <3>2 DEF KbType
  <2>4. slots' \in [Slots -> Descriptors]
    BY <1>0, <1>9, Junked DEF RunPoll, ChipTypeOK
  <2>5. word51e' \in 0..255
    BY <1>0, <1>9 DEF RunPoll, ChipTypeOK, KbType
  <2>6. ChipTypeOK'
    BY <1>0, <2>1, <2>2, <2>4, <2>5, AdvanceType DEF ChipTypeOK
  <2> QED
    BY <1>0, <2>1, <2>2, <2>3, <2>6, AdvanceType, HostFrame, KeyboardFrame DEF TypeOK
<1>10. CASE FailList
  <2>1. ChipTypeOK'
    BY <1>0, <1>10, PostType DEF FailList, ChipTypeOK, Messages
  <2> QED
    BY <1>0, <1>10, <2>1, HostFrame DEF FailList, TypeOK, KeyboardTypeOK, keyboard
<1>11. CASE RunStray
  <2>1. ChipTypeOK'
    BY <1>0, <1>11, PostType DEF RunStray, ChipTypeOK, Messages
  <2> QED
    BY <1>0, <1>11, <2>1, HostFrame DEF RunStray, TypeOK, KeyboardTypeOK, keyboard
<1>12. CASE \E k \in Keys : Press(k)
  <2>1. kb' \in KbType /\ UNCHANGED served
    <3>1. PICK c \in 0..255 : kb' = [kb EXCEPT !.key = c, !.news = TRUE] /\ UNCHANGED served
      BY <1>12 DEF Press
    <3> QED
      BY <1>0, <3>1 DEF KbType
  <2>2. ChipTypeOK'
    BY <1>0, <1>12 DEF Press, ChipTypeOK, chip
  <2> QED
    BY <1>0, <1>12, <2>1, <2>2, HostFrame, KeyboardFrame DEF Press, TypeOK
<1>13. CASE PlugIn
  <2>1. ChipTypeOK'
    BY <1>0, <1>13, PostType DEF PlugIn, ChipTypeOK, Messages
  <2>2. KeyboardTypeOK'
    <3>1. kb' \in KbType
      BY <1>13, Fresh DEF PlugIn
    <3> QED
      BY <1>0, <1>13, <3>1 DEF PlugIn, KeyboardTypeOK, KbType
  <2> QED
    BY <1>0, <1>13, <2>1, <2>2, HostFrame DEF PlugIn, TypeOK
<1>14. CASE Unplug
  <2>1. ChipTypeOK'
    BY <1>0, <1>14, PostType DEF Unplug, ChipTypeOK, Messages
  <2>2. KeyboardTypeOK'
    <3>1. kb' \in KbType
      BY <1>14, Fresh DEF Unplug
    <3> QED
      BY <1>0, <1>14, <3>1 DEF Unplug, KeyboardTypeOK, KbType
  <2> QED
    BY <1>0, <1>14, <2>1, <2>2, HostFrame DEF Unplug, TypeOK
<1> QED
  BY <1>1, <1>2, <1>3, <1>4, <1>5, <1>6, <1>7, <1>8, <1>9, <1>10, <1>11, <1>12, <1>13, <1>14
     DEF Next, Host, Chip

LEMMA InitType == Init => TypeOK
<1> SUFFICES ASSUME Init
             PROVE  TypeOK
  OBVIOUS
<1>1. kb \in KbType
  BY Fresh DEF Init
<1>2. ChipTypeOK
  BY JunkType DEF Init, ChipTypeOK, Messages
<1>3. 0 \in 0..ProbeReads /\ 0 \in 0..MaxEvents
  BY UsbAssumption DEF UsbAssumption
<1>4. HostTypeOK
  <2>1. hot_plug_count \in 0..ProbeReads \cup 0..PollReads
    BY <1>3, Zenon DEF Init
  <2>2. at \in Starting /\ usb_ctl_val \in Messages
    BY DEF Init, Starting, Messages
  <2>3. step \in 1..Polling /\ toggle \in {0, 1} /\ keycode \in 0..255
    BY DEF Init, Polling
  <2>4. slept \in BOOLEAN
    BY DEF Init
  <2> QED
    BY <2>1, <2>2, <2>3, <2>4 DEF HostTypeOK
<1>5. FlowOK
  BY DEF Init, FlowOK, Enumerating, InPoll, Polling
<1>6. KeyboardTypeOK
  BY <1>1, <1>3 DEF Init, KeyboardTypeOK, KbType
<1> QED
  BY <1>2, <1>4, <1>5, <1>6 DEF TypeOK

(* The variables of the program, the chip and the keyboard keep to their   *)
(* ranges, and the program looks at control bytes only while enumerating   *)
(* and at keycodes only while polling: main.c.                             *)
THEOREM TypesHold == Spec => []TypeOK
<1>1. TypeOK /\ UNCHANGED vars => TypeOK'
  BY DEF TypeOK, HostTypeOK, FlowOK, ChipTypeOK, KeyboardTypeOK, vars, host, chip, keyboard
<1> QED
  BY <1>1, InitType, TypeStep, PTL DEF Spec
-----------------------------------------------------------------------------
(* The invariant.  Where the program is in a request, and what it has not  *)
(* seen of the chip there.                                                 *)
PlaceOK ==
  /\ at \notin {"send", "start", "flag"} => ~slept
  /\ at \in Starting /\ at # "hot_plug" => ptr = Idle
  /\ at \in Starting /\ at # "hot_plug" /\ at # "clear" => msg # "TDListDone"
  /\ at \in {"probe_again", "absent"} => step = 1
  /\ ptr = Stray => at = "send" \/ (at = "start" /\ control = "active")
  /\ at \notin Starting => plugs >= 1
  /\ plugs = 0 => ~present

(* Before a second keyboard, nothing has been polled but by polling.       *)
StepOK ==
  plugs <= 1 =>
    /\ at \in Starting => step < Polling
    /\ step < Polling => toggle = 0
    /\ at \in {"check_again", "removed"} => ~present

(* No keyboard that has seen a bus reset.                                  *)
Old == present => kb.address = Unreset

(* The rest holds as long as no list took longer than the program slept.   *)
(* The list the chip is in is that of the request.                         *)
ListOK ==
  /\ ptr \in Slots \/ at = "start" =>
       /\ step < Polling => \A i \in DOMAIN Requests[step] : slots[i] = Requests[step][i]
       /\ step = Polling => slots[0] \in {Poll(0)[0], Poll(1)[0]}
  /\ ptr \in Slots /\ step < Polling => at \in Sending /\ ptr \in DOMAIN Requests[step]
  /\ ptr \in Slots /\ step = Polling => ptr = 0

(* A TDListDone that the program sees while enumerating is that of the     *)
(* request's list, and the list is not running again.                      *)
MessageOK ==
  step < Polling =>
    /\ at \in {"message", "clear_message"} /\ msg = "TDListDone" => ptr = Idle
    /\ at = "clear_message" /\ usb_ctl_val = "TDListDone" => ptr = Idle
    /\ at \in {"control", "endpoint"} => ptr = Idle /\ msg # "TDListDone"
    /\ at \in {"send", "start"} /\ ~slept => ptr \notin Slots /\ msg # "TDListDone"
    /\ at = "flag" /\ ~slept /\ msg = "TDListDone" => ptr = Idle

(* A bus reset may be outstanding when the first list is sent, but then no *)
(* descriptor of it has been run.                                          *)
CommandOK ==
  command # "none" /\ at \notin Starting =>
    /\ step = 1 /\ at \in Sending /\ ptr \in {Idle, 0} /\ msg # "TDListDone"
    /\ at = "clear_message" => usb_ctl_val # "TDListDone"
    /\ (at = "send" /\ ~slept) \/ control = "active"

(* A keyboard that has taken the setup is ready for the next descriptor.   *)
KbOK ==
  ptr \in Slots /\ ptr # 0 /\ present /\ kb.address # Unreset =>
    kb.packet = Asked(step) /\ kb.address = DevOf(step) /\ kb.dataToggle = ptr % 2

(* What the program has passed the keyboard has completed, and so it has   *)
(* the request of a list that is over and whose setup went through.        *)
EarnedOK ==
  present /\ kb.address # Unreset /\ at \notin Starting =>
    /\ \A s \in 1..(step - 1) : Asked(s) \in served
    /\ step < Polling /\ at \in {"start", "flag", "message", "clear_message", "control", "endpoint"}
       /\ control = "done" /\ ptr = Idle => Asked(step) \in served
    /\ at = "endpoint" => control = "done"

(* What a completed request did to the keyboard.                           *)
ServedOK ==
  /\ present /\ kb.address # Unreset =>
       /\ Asked(1) \in served => kb.address = 2
       /\ Asked(6) \in served => kb.configured
  /\ present /\ kb.configured => kb.address = 2

(* A poll that outlasts the keyboard finds no other one that answers.      *)
LeftOK ==
  at \in {"check_again", "removed"} \/ (at = "hot_plug" /\ ptr \in Slots)
    => Old /\ command = "none"

(* The first keyboard has given no report before it is polled, and gives   *)
(* the first one to the first poll.                                        *)
EpOK ==
  /\ plugs = 1 /\ present /\ step < Polling => kb.epToggle = 0
  /\ kb.news => kb.key \in Keys

(* As long as the byte at 0x51e is none of its keycodes, the program is in *)
(* the first round of the poll loop, and that poll is still to come.       *)
FreshOK ==
  plugs = 1 /\ present /\ kb.configured /\ step = Polling /\ word51e \notin Keys =>
    /\ at \in {"poll", "send", "start", "flag", "message", "clear_message"}
    /\ msg # "TDListDone"
    /\ at = "clear_message" => usb_ctl_val # "TDListDone"
    /\ kb.epToggle = 0
    /\ at = "poll" => toggle = 0 /\ ptr = Idle
    /\ at # "poll" => toggle = 1
    /\ ptr = 0 \/ at = "start" => slots[0].toggle = 0

PromptOK ==
  /\ ListOK /\ MessageOK /\ CommandOK /\ KbOK /\ EarnedOK /\ ServedOK /\ LeftOK
  /\ EpOK /\ FreshOK

(* The inductive invariant.                                                *)
IInv == TypeOK /\ PlaceOK /\ StepOK /\ (late = 0 => PromptOK)

(* The descriptor the chip is at, in the poll loop.                        *)
LEMMA PollTd ==
  ASSUME TypeOK, ListOK, ptr \in Slots, step = Polling
  PROVE  /\ ptr = 0 /\ Td.pid = "IN" /\ Td.dev = 2 /\ Td.ep = 1 /\ Td.next = End
         /\ 0 \notin Overlaps(Td)
<1>1. ptr = 0
  BY DEF ListOK
<1>2. PICK t \in {0, 1} : Td = Poll(t)[0]
  BY <1>1 DEF ListOK, Td
<1> QED
  BY <1>1, <1>2, PollFields

(* While enumerating it is one of the request's list, which has the form   *)
(* of Asks.                                                                *)
LEMMA RequestTd ==
  ASSUME TypeOK, ListOK, ptr \in Slots, step < Polling
  PROVE  /\ step \in 1..9 /\ at \in Sending /\ Asked(step) \in Packets /\ Asked(step) # NoPacket
         /\ Td.dev = DevOf(step) /\ Td.ep = 0
         /\ Overlaps(Td) \cap DOMAIN Requests[step] = {}
         /\ ptr = 0 => Td.pid = "SETUP" /\ Td.packet = Asked(step) /\ Td.next = 1
                       /\ 1 \in DOMAIN Requests[step]
         /\ ptr # 0 =>
              \/ Td.next = End /\ Td.toggle = 1
                 /\ Td.pid = IF Asked(step).toHost THEN "OUT" ELSE "IN"
              \/ Asked(step).toHost /\ Td.pid = "IN" /\ Td.toggle = ptr % 2
                 /\ Td.next = ptr + 1 /\ ptr + 1 \in DOMAIN Requests[step]
<1>1. step \in 1..9 /\ Asks(Requests[step], DevOf(step), Asked(step))
  BY RequestAsks DEF TypeOK, HostTypeOK, Polling
<1>2. at \in Sending /\ ptr \in DOMAIN Requests[step] /\ Td = Requests[step][ptr]
  BY DEF ListOK, Td
<1> QED
  BY <1>1, <1>2 DEF Asks

(* Running a descriptor never leads to 0x576.                              *)
LEMMA TdNext ==
  ASSUME TypeOK, Running
  PROVE  Td.next \in Slots \cup {End} /\ Td.next # Stray
BY DEF Running, Td, TypeOK, ChipTypeOK, Descriptors, Slots, End, Stray

(* A keyboard that hears the chip has an address, and what it is asked for *)
(* is what it expects.                                                     *)
LEMMA HeardTakes ==
  ASSUME TypeOK, PlaceOK, PromptOK, Running, Heard
  PROVE  /\ kb.address = 2 \/ kb.address = 0
         /\ TakesSetup \/ TakesData \/ TakesStatus \/ TakesPoll
<1> USE DEF Running
<1>1. ptr \in Slots /\ ListOK /\ KbOK /\ EarnedOK /\ ServedOK /\ LeftOK /\ step \in 1..Polling
  BY DEF PromptOK, TypeOK, HostTypeOK
<1>2. Td \in Descriptors
  BY <1>1 DEF TypeOK, ChipTypeOK, Td
<1>3. kb.address = 2 \/ kb.address = 0
  BY <1>2 DEF Heard, Descriptors
<1>4. present /\ kb.address # Unreset /\ Td.dev = kb.address
  BY <1>3 DEF Heard, Unreset
<1>5. CASE step = Polling
  <2>1. Td.pid = "IN" /\ Td.ep = 1
    BY <1>1, <1>5, PollTd
  <2>2. at \notin Starting
    <3>1. at \in Starting => at = "hot_plug"
      BY <1>1 DEF PlaceOK, Slots, Idle
    <3> QED
      BY <1>1, <1>4, <3>1 DEF LeftOK, Old
  <2>3. Asked(6) \in served
    BY <1>1, <1>4, <1>5, <2>2 DEF EarnedOK, Polling
  <2>4. kb.configured
    BY <1>1, <1>4, <2>3 DEF ServedOK
  <2> QED
    BY <1>3, <2>1, <2>4 DEF TakesPoll
<1>6. CASE step < Polling /\ ptr = 0
  BY <1>1, <1>3, <1>6, RequestTd DEF TakesSetup
<1>7. CASE step < Polling /\ ptr # 0
  <2>1. kb.packet = Asked(step) /\ kb.dataToggle = ptr % 2
    BY <1>1, <1>4, <1>7 DEF KbOK
  <2>2. /\ Td.ep = 0 /\ Asked(step) # NoPacket
        /\ \/ Td.toggle = 1 /\ Td.pid = IF Asked(step).toHost THEN "OUT" ELSE "IN"
           \/ Asked(step).toHost /\ Td.pid = "IN" /\ Td.toggle = ptr % 2
    BY <1>1, <1>7, RequestTd
  <2> QED
    BY <1>3, <2>1, <2>2 DEF TakesData, TakesStatus
<1> QED
  BY <1>1, <1>5, <1>6, <1>7 DEF Polling

(* A setup is the first descriptor of a request.                           *)
LEMMA TakenSetup ==
  ASSUME TypeOK, ListOK, Running, TakesSetup
  PROVE  step < Polling /\ ptr = 0
<1>1. ptr \in Slots /\ step \in 1..Polling /\ Td.pid = "SETUP"
  BY DEF Running, TakesSetup, TypeOK, HostTypeOK
<1>2. step # Polling
  BY <1>1, PollTd
<1>3. step < Polling
  BY <1>1, <1>2 DEF Polling
<1> QED
  BY <1>1, <1>3, RequestTd

(* A report is read only by a poll.                                        *)
LEMMA TakenPoll ==
  ASSUME TypeOK, ListOK, Running, TakesPoll
  PROVE  step = Polling
<1>1. ptr \in Slots /\ step \in 1..Polling /\ Td.ep = 1
  BY DEF Running, TakesPoll, TypeOK, HostTypeOK
<1>2. ~(step < Polling)
  BY <1>1, RequestTd
<1> QED
  BY <1>1, <1>2 DEF Polling

(* A keyboard that takes data or the status has taken the setup of the     *)
(* request before it.                                                      *)
LEMMA TakenRest ==
  ASSUME TypeOK, ListOK, KbOK, Running, TakesData \/ TakesStatus
  PROVE  /\ step < Polling /\ step \in 1..9 /\ ptr # 0 /\ kb.address # Unreset /\ present
         /\ kb.packet = Asked(step) /\ kb.address = DevOf(step) /\ kb.dataToggle = ptr % 2
         /\ TakesData => Td.next = ptr + 1 /\ ptr + 1 \in DOMAIN Requests[step]
         /\ TakesStatus => Td.next = End
<1>1. /\ ptr \in Slots /\ step \in 1..Polling /\ Td.ep = 0 /\ Td.pid # "SETUP"
      /\ present /\ Td.dev = kb.address
  BY DEF Running, Heard, TakesData, TakesStatus, TypeOK, HostTypeOK
<1>2. step # Polling
  BY <1>1, PollTd
<1>3. step < Polling
  BY <1>1, <1>2 DEF Polling
<1>4. step \in 1..9 /\ ptr # 0 /\ Td.dev = DevOf(step)
  BY <1>1, <1>3, RequestTd
<1>5. kb.address = DevOf(step) /\ kb.address # Unreset
  BY <1>1, <1>4 DEF DevOf, Unreset
<1>6. kb.packet = Asked(step) /\ kb.dataToggle = ptr % 2
  BY <1>1, <1>4, <1>5 DEF KbOK
<1>7. TakesData => Asked(step).toHost /\ Td.pid = "IN"
  BY <1>6 DEF TakesData
<1>8. TakesStatus => Td.pid = IF Asked(step).toHost THEN "OUT" ELSE "IN"
  BY <1>6 DEF TakesStatus
<1>9. \/ Td.next = End /\ Td.pid = IF Asked(step).toHost THEN "OUT" ELSE "IN"
      \/ Asked(step).toHost /\ Td.pid = "IN" 
         /\ Td.next = ptr + 1 /\ ptr + 1 \in DOMAIN Requests[step]
  BY <1>1, <1>3, <1>4, RequestTd
<1> QED
  BY <1>1, <1>3, <1>4, <1>5, <1>6, <1>7, <1>8, <1>9

(* A chip that has nothing to do but to poll is done with the request.     *)
LEMMA SettledIdle ==
  ASSUME TypeOK, ListOK, Settled, step < Polling
  PROVE  ptr = Idle
<1>1. CASE ptr \in Slots /\ Naks(slots[ptr])
  BY <1>1, RequestTd DEF Naks, Td
<1> QED
  BY <1>1 DEF Settled

-----------------------------------------------------------------------------
(* Where the program is, step by step.  The chip has taken back the list   *)
(* before the program starts anew, unless it was left from the poll loop.  *)
LEMMA PlaceStep ==
  ASSUME TypeOK, PlaceOK, ~StrayReports, Next
  PROVE  PlaceOK'
<1> USE DEF host, chip, keyboard, Goto, Post, Advance, Running, PlaceOK, TypeOK, HostTypeOK,
    FlowOK, ChipTypeOK, KeyboardTypeOK, Starting, Sending, Enumerating, InPoll, Polling,
    Messages, Slots, Idle, Stray
<1>1. CASE UsbSoftReset
  BY <1>1 DEF UsbSoftReset
<1>2. CASE ClearUp
  BY <1>2 DEF ClearUp
<1>3. CASE AwaitStatus
  BY <1>3 DEF AwaitStatus
<1>4. CASE ReadAck
  BY <1>4 DEF ReadAck
<1>5. CASE ReadAck2
  BY <1>5 DEF ReadAck2
<1>6. CASE Probe
  BY <1>6 DEF Probe
<1>7. CASE ProbeAgain
  BY <1>7 DEF ProbeAgain
<1>8. CASE AwaitDevice
  BY <1>8 DEF AwaitDevice
<1>9. CASE SendList
  BY <1>9 DEF SendList
<1>10. CASE StartList
  BY <1>10 DEF StartList
<1>11. CASE ReadFlag
  BY <1>11 DEF ReadFlag
<1>12. CASE ReadMessage
  BY <1>12 DEF ReadMessage
<1>13. CASE ClearMessage
  BY <1>13 DEF ClearMessage
<1>14. CASE ReadControl
  BY <1>14 DEF ReadControl
<1>15. CASE WriteEndpoint
  BY <1>15 DEF WriteEndpoint
<1>16. CASE UsbGetRetryCnt
  BY <1>16 DEF UsbGetRetryCnt
<1>17. CASE ClearRetry
  BY <1>17 DEF ClearRetry
<1>18. CASE AwaitRetry
  BY <1>18 DEF AwaitRetry
<1>19. CASE BeginPoll
  BY <1>19 DEF BeginPoll
<1>20. CASE StoreKeycode
  BY <1>20 DEF StoreKeycode
<1>21. CASE CheckDevice
  BY <1>21 DEF CheckDevice
<1>22. CASE CheckAgain
  BY <1>22 DEF CheckAgain
<1>23. CASE AwaitReturn
  BY <1>23 DEF AwaitReturn
<1>24. CASE RunCommand
  BY <1>24 DEF RunCommand
<1>25. CASE RunSetup
  BY <1>25, TdNext DEF RunSetup
<1>26. CASE RunData
  BY <1>26, TdNext DEF RunData
<1>27. CASE RunStatus
  BY <1>27, TdNext DEF RunStatus
<1>28. CASE RunPoll
  BY <1>28, TdNext DEF RunPoll
<1>29. CASE FailList
  BY <1>29 DEF FailList
<1>30. CASE RunStray
  BY <1>30 DEF RunStray
<1>31. CASE \E k \in Keys : Press(k)
  BY <1>31 DEF Press
<1>32. CASE PlugIn
  BY <1>32 DEF PlugIn
<1>33. CASE Unplug
  BY <1>33 DEF Unplug
<1> QED
  BY <1>1, <1>2, <1>3, <1>4, <1>5, <1>6, <1>7, <1>8, <1>9, <1>10, <1>11, <1>12, <1>13,
     <1>14, <1>15, <1>16, <1>17, <1>18, <1>19, <1>20, <1>21, <1>22, <1>23, <1>24, <1>25,
     <1>26, <1>27, <1>28, <1>29, <1>30, <1>31, <1>32, <1>33
     DEF Next, Host, Chip

(* Only the poll loop turns the toggle or leaves the step at Polling.      *)
LEMMA StepStep ==
  ASSUME TypeOK, PlaceOK, StepOK, Next
  PROVE  StepOK'
<1> USE DEF host, chip, keyboard, Goto, Post, Advance, Running, StepOK, TypeOK, HostTypeOK,
    FlowOK, ChipTypeOK, KeyboardTypeOK, Starting, Sending, Enumerating, InPoll, Polling,
    Messages, Slots, Idle, Stray, PlaceOK
<1>1. CASE UsbSoftReset
  BY <1>1 DEF UsbSoftReset
<1>2. CASE ClearUp
  BY <1>2 DEF ClearUp
<1>3. CASE AwaitStatus
  BY <1>3 DEF AwaitStatus
<1>4. CASE ReadAck
  BY <1>4 DEF ReadAck
<1>5. CASE ReadAck2
  BY <1>5 DEF ReadAck2
<1>6. CASE Probe
  BY <1>6 DEF Probe
<1>7. CASE ProbeAgain
  BY <1>7 DEF ProbeAgain
<1>8. CASE AwaitDevice
  BY <1>8 DEF AwaitDevice
<1>9. CASE SendList
  BY <1>9 DEF SendList
<1>10. CASE StartList
  BY <1>10 DEF StartList
<1>11. CASE ReadFlag
  BY <1>11 DEF ReadFlag
<1>12. CASE ReadMessage
  BY <1>12 DEF ReadMessage
<1>13. CASE ClearMessage
  BY <1>13 DEF ClearMessage
<1>14. CASE ReadControl
  BY <1>14 DEF ReadControl
<1>15. CASE WriteEndpoint
  BY <1>15 DEF WriteEndpoint
<1>16. CASE UsbGetRetryCnt
  BY <1>16 DEF UsbGetRetryCnt
<1>17. CASE ClearRetry
  BY <1>17 DEF ClearRetry
<1>18. CASE AwaitRetry
  BY <1>18 DEF AwaitRetry
<1>19. CASE BeginPoll
  BY <1>19 DEF BeginPoll
<1>20. CASE StoreKeycode
  BY <1>20 DEF StoreKeycode
<1>21. CASE CheckDevice
  BY <1>21 DEF CheckDevice
<1>22. CASE CheckAgain
  BY <1>22 DEF CheckAgain
<1>23. CASE AwaitReturn
  BY <1>23 DEF AwaitReturn
<1>24. CASE RunCommand
  BY <1>24 DEF RunCommand
<1>25. CASE RunSetup
  BY <1>25 DEF RunSetup
<1>26. CASE RunData
  BY <1>26 DEF RunData
<1>27. CASE RunStatus
  BY <1>27 DEF RunStatus
<1>28. CASE RunPoll
  BY <1>28 DEF RunPoll
<1>29. CASE FailList
  BY <1>29 DEF FailList
<1>30. CASE RunStray
  BY <1>30 DEF RunStray
<1>31. CASE \E k \in Keys : Press(k)
  BY <1>31 DEF Press
<1>32. CASE PlugIn
  BY <1>32, UsbAssumption DEF PlugIn, UsbAssumption
<1>33. CASE Unplug
  BY <1>33 DEF Unplug
<1> QED
  BY <1>1, <1>2, <1>3, <1>4, <1>5, <1>6, <1>7, <1>8, <1>9, <1>10, <1>11, <1>12, <1>13,
     <1>14, <1>15, <1>16, <1>17, <1>18, <1>19, <1>20, <1>21, <1>22, <1>23, <1>24, <1>25,
     <1>26, <1>27, <1>28, <1>29, <1>30, <1>31, <1>32, <1>33
     DEF Next, Host, Chip

(* The message is that of the request's own list: the program goes on to   *)
(* the next request only after a message, which the chip posts at the end  *)
(* of a list, and sleeps long enough that no list is left running.         *)
LEMMA MessageStep ==
  ASSUME TypeOK, PlaceOK, StepOK, PromptOK, late' = 0, ~StrayReports, Next
  PROVE  MessageOK'
<1> USE DEF host, chip, keyboard, Goto, Post, Advance, Running, MessageOK, TypeOK,
    HostTypeOK, FlowOK, ChipTypeOK, KeyboardTypeOK, Starting, Sending, Enumerating, InPoll,
    Polling, Messages, Slots, Idle, Stray, PlaceOK, ListOK, PromptOK
<1>1. CASE UsbSoftReset
  BY <1>1 DEF UsbSoftReset
<1>2. CASE ClearUp
  BY <1>2 DEF ClearUp
<1>3. CASE AwaitStatus
  BY <1>3 DEF AwaitStatus
<1>4. CASE ReadAck
  BY <1>4 DEF ReadAck
<1>5. CASE ReadAck2
  BY <1>5 DEF ReadAck2
<1>6. CASE Probe
  BY <1>6 DEF Probe
<1>7. CASE ProbeAgain
  BY <1>7 DEF ProbeAgain
<1>8. CASE AwaitDevice
  BY <1>8 DEF AwaitDevice
<1>9. CASE SendList
  BY <1>9 DEF SendList
<1>10. CASE StartList
  BY <1>10 DEF StartList
<1>11. CASE ReadFlag
  <2>1. CASE slept
    <3>1. Settled
      BY <1>11, <2>1 DEF ReadFlag
    <3>2. step < Polling => ptr = Idle
      BY <3>1, SettledIdle
    <3> QED
      BY <1>11, <2>1, <3>2 DEF ReadFlag
  <2>2. CASE ~slept
    BY <1>11, <2>2 DEF ReadFlag
  <2> QED
    BY <2>1, <2>2
<1>12. CASE ReadMessage
  BY <1>12 DEF ReadMessage
<1>13. CASE ClearMessage
  BY <1>13 DEF ClearMessage
<1>14. CASE ReadControl
  BY <1>14 DEF ReadControl
<1>15. CASE WriteEndpoint
  BY <1>15 DEF WriteEndpoint
<1>16. CASE UsbGetRetryCnt
  BY <1>16 DEF UsbGetRetryCnt
<1>17. CASE ClearRetry
  BY <1>17 DEF ClearRetry
<1>18. CASE AwaitRetry
  BY <1>18 DEF AwaitRetry
<1>19. CASE BeginPoll
  BY <1>19 DEF BeginPoll
<1>20. CASE StoreKeycode
  BY <1>20 DEF StoreKeycode
<1>21. CASE CheckDevice
  BY <1>21 DEF CheckDevice
<1>22. CASE CheckAgain
  BY <1>22 DEF CheckAgain
<1>23. CASE AwaitReturn
  BY <1>23 DEF AwaitReturn
<1>24. CASE RunCommand
  BY <1>24 DEF RunCommand
<1>25. CASE RunSetup
  BY <1>25 DEF RunSetup
<1>26. CASE RunData
  BY <1>26 DEF RunData
<1>27. CASE RunStatus
  BY <1>27 DEF RunStatus
<1>28. CASE RunPoll
  BY <1>28 DEF RunPoll
<1>29. CASE FailList
  BY <1>29 DEF FailList
<1>30. CASE RunStray
  BY <1>30 DEF RunStray
<1>31. CASE \E k \in Keys : Press(k)
  BY <1>31 DEF Press
<1>32. CASE PlugIn
  BY <1>32 DEF PlugIn
<1>33. CASE Unplug
  BY <1>33 DEF Unplug
<1> QED
  BY <1>1, <1>2, <1>3, <1>4, <1>5, <1>6, <1>7, <1>8, <1>9, <1>10, <1>11, <1>12, <1>13,
     <1>14, <1>15, <1>16, <1>17, <1>18, <1>19, <1>20, <1>21, <1>22, <1>23, <1>24, <1>25,
     <1>26, <1>27, <1>28, <1>29, <1>30, <1>31, <1>32, <1>33
     DEF Next, Host, Chip

(* The firmware has carried out a command before it runs a descriptor.     *)
LEMMA CommandStep ==
  ASSUME TypeOK, PlaceOK, StepOK, PromptOK, late' = 0, ~StrayReports, Next
  PROVE  CommandOK'
<1> USE DEF host, chip, keyboard, Goto, Post, Advance, Running, CommandOK, TypeOK,
    HostTypeOK, FlowOK, ChipTypeOK, KeyboardTypeOK, Starting, Sending, Enumerating, InPoll,
    Polling, Messages, Slots, Idle, Stray, PlaceOK, MessageOK, PromptOK, Settled
<1>1. CASE UsbSoftReset
  BY <1>1 DEF UsbSoftReset
<1>2. CASE ClearUp
  BY <1>2 DEF ClearUp
<1>3. CASE AwaitStatus
  BY <1>3 DEF AwaitStatus
<1>4. CASE ReadAck
  BY <1>4 DEF ReadAck
<1>5. CASE ReadAck2
  BY <1>5 DEF ReadAck2
<1>6. CASE Probe
  BY <1>6 DEF Probe
<1>7. CASE ProbeAgain
  BY <1>7 DEF ProbeAgain
<1>8. CASE AwaitDevice
  BY <1>8 DEF AwaitDevice
<1>9. CASE SendList
  BY <1>9 DEF SendList
<1>10. CASE StartList
  BY <1>10 DEF StartList
<1>11. CASE ReadFlag
  BY <1>11 DEF ReadFlag
<1>12. CASE ReadMessage
  BY <1>12 DEF ReadMessage
<1>13. CASE ClearMessage
  BY <1>13 DEF ClearMessage
<1>14. CASE ReadControl
  BY <1>14 DEF ReadControl
<1>15. CASE WriteEndpoint
  BY <1>15 DEF WriteEndpoint
<1>16. CASE UsbGetRetryCnt
  BY <1>16 DEF UsbGetRetryCnt
<1>17. CASE ClearRetry
  BY <1>17 DEF ClearRetry
<1>18. CASE AwaitRetry
  BY <1>18 DEF AwaitRetry
<1>19. CASE BeginPoll
  BY <1>19 DEF BeginPoll
<1>20. CASE StoreKeycode
  BY <1>20 DEF StoreKeycode
<1>21. CASE CheckDevice
  BY <1>21 DEF CheckDevice
<1>22. CASE CheckAgain
  BY <1>22 DEF CheckAgain
<1>23. CASE AwaitReturn
  BY <1>23 DEF AwaitReturn
<1>24. CASE RunCommand
  BY <1>24 DEF RunCommand
<1>25. CASE RunSetup
  BY <1>25 DEF RunSetup
<1>26. CASE RunData
  BY <1>26 DEF RunData
<1>27. CASE RunStatus
  BY <1>27 DEF RunStatus
<1>28. CASE RunPoll
  BY <1>28 DEF RunPoll
<1>29. CASE FailList
  BY <1>29 DEF FailList
<1>30. CASE RunStray
  BY <1>30 DEF RunStray
<1>31. CASE \E k \in Keys : Press(k)
  BY <1>31 DEF Press
<1>32. CASE PlugIn
  BY <1>32 DEF PlugIn
<1>33. CASE Unplug
  BY <1>33 DEF Unplug
<1> QED
  BY <1>1, <1>2, <1>3, <1>4, <1>5, <1>6, <1>7, <1>8, <1>9, <1>10, <1>11, <1>12, <1>13,
     <1>14, <1>15, <1>16, <1>17, <1>18, <1>19, <1>20, <1>21, <1>22, <1>23, <1>24, <1>25,
     <1>26, <1>27, <1>28, <1>29, <1>30, <1>31, <1>32, <1>33
     DEF Next, Host, Chip

(* A poll left running meets no keyboard with an address: the reset comes   *)
(* only after the firmware has started anew.                               *)
LEMMA LeftStep ==
  ASSUME TypeOK, PlaceOK, StepOK, PromptOK, late' = 0, ~StrayReports, Next
  PROVE  LeftOK'
<1> USE DEF host, chip, keyboard, Goto, Post, Advance, Running, LeftOK, TypeOK, HostTypeOK,
    FlowOK, ChipTypeOK, KeyboardTypeOK, Starting, Sending, Enumerating, InPoll, Polling,
    Messages, Slots, Idle, Stray, PlaceOK, ListOK, CommandOK, PromptOK, Old
<1>1. CASE UsbSoftReset
  BY <1>1 DEF UsbSoftReset
<1>2. CASE ClearUp
  BY <1>2 DEF ClearUp
<1>3. CASE AwaitStatus
  BY <1>3 DEF AwaitStatus
<1>4. CASE ReadAck
  BY <1>4 DEF ReadAck
<1>5. CASE ReadAck2
  BY <1>5 DEF ReadAck2
<1>6. CASE Probe
  BY <1>6 DEF Probe
<1>7. CASE ProbeAgain
  BY <1>7 DEF ProbeAgain
<1>8. CASE AwaitDevice
  BY <1>8 DEF AwaitDevice
<1>9. CASE SendList
  BY <1>9 DEF SendList
<1>10. CASE StartList
  BY <1>10 DEF StartList
<1>11. CASE ReadFlag
  BY <1>11 DEF ReadFlag
<1>12. CASE ReadMessage
  BY <1>12 DEF ReadMessage
<1>13. CASE ClearMessage
  BY <1>13 DEF ClearMessage
<1>14. CASE ReadControl
  BY <1>14 DEF ReadControl
<1>15. CASE WriteEndpoint
  BY <1>15 DEF WriteEndpoint
<1>16. CASE UsbGetRetryCnt
  BY <1>16 DEF UsbGetRetryCnt
<1>17. CASE ClearRetry
  BY <1>17 DEF ClearRetry
<1>18. CASE AwaitRetry
  BY <1>18 DEF AwaitRetry
<1>19. CASE BeginPoll
  BY <1>19 DEF BeginPoll
<1>20. CASE StoreKeycode
  BY <1>20 DEF StoreKeycode
<1>21. CASE CheckDevice
  BY <1>21 DEF CheckDevice
<1>22. CASE CheckAgain
  BY <1>22 DEF CheckAgain
<1>23. CASE AwaitReturn
  BY <1>23 DEF AwaitReturn
<1>24. CASE RunCommand
  BY <1>24 DEF RunCommand
<1>25. CASE RunSetup
  BY <1>25 DEF RunSetup
<1>26. CASE RunData
  BY <1>26 DEF RunData
<1>27. CASE RunStatus
  BY <1>27, TakenRest DEF RunStatus
<1>28. CASE RunPoll
  BY <1>28 DEF RunPoll
<1>29. CASE FailList
  BY <1>29 DEF FailList
<1>30. CASE RunStray
  BY <1>30 DEF RunStray
<1>31. CASE \E k \in Keys : Press(k)
  BY <1>31 DEF Press
<1>32. CASE PlugIn
  BY <1>32 DEF PlugIn, FreshKb
<1>33. CASE Unplug
  BY <1>33 DEF Unplug
<1> QED
  BY <1>1, <1>2, <1>3, <1>4, <1>5, <1>6, <1>7, <1>8, <1>9, <1>10, <1>11, <1>12, <1>13,
     <1>14, <1>15, <1>16, <1>17, <1>18, <1>19, <1>20, <1>21, <1>22, <1>23, <1>24, <1>25,
     <1>26, <1>27, <1>28, <1>29, <1>30, <1>31, <1>32, <1>33
     DEF Next, Host, Chip

(* Only a poll takes a report.                                             *)
LEMMA EpStep ==
  ASSUME TypeOK, PlaceOK, StepOK, PromptOK, late' = 0, ~StrayReports, Next
  PROVE  EpOK'
<1> USE DEF host, chip, keyboard, Goto, Post, Advance, Running, EpOK, TypeOK, HostTypeOK,
    FlowOK, ChipTypeOK, KeyboardTypeOK, Starting, Sending, Enumerating, InPoll, Polling,
    Messages, Slots, Idle, Stray, StepOK, PromptOK, FreshKb
<1>1. CASE UsbSoftReset
  BY <1>1 DEF UsbSoftReset
<1>2. CASE ClearUp
  BY <1>2 DEF ClearUp
<1>3. CASE AwaitStatus
  BY <1>3 DEF AwaitStatus
<1>4. CASE ReadAck
  BY <1>4 DEF ReadAck
<1>5. CASE ReadAck2
  BY <1>5 DEF ReadAck2
<1>6. CASE Probe
  BY <1>6 DEF Probe
<1>7. CASE ProbeAgain
  BY <1>7 DEF ProbeAgain
<1>8. CASE AwaitDevice
  BY <1>8 DEF AwaitDevice
<1>9. CASE SendList
  BY <1>9 DEF SendList
<1>10. CASE StartList
  BY <1>10 DEF StartList
<1>11. CASE ReadFlag
  BY <1>11 DEF ReadFlag
<1>12. CASE ReadMessage
  BY <1>12 DEF ReadMessage
<1>13. CASE ClearMessage
  BY <1>13 DEF ClearMessage
<1>14. CASE ReadControl
  BY <1>14 DEF ReadControl
<1>15. CASE WriteEndpoint
  BY <1>15 DEF WriteEndpoint
<1>16. CASE UsbGetRetryCnt
  BY <1>16 DEF UsbGetRetryCnt
<1>17. CASE ClearRetry
  BY <1>17 DEF ClearRetry
<1>18. CASE AwaitRetry
  BY <1>18 DEF AwaitRetry
<1>19. CASE BeginPoll
  BY <1>19 DEF BeginPoll
<1>20. CASE StoreKeycode
  BY <1>20 DEF StoreKeycode
<1>21. CASE CheckDevice
  BY <1>21 DEF CheckDevice
<1>22. CASE CheckAgain
  BY <1>22 DEF CheckAgain
<1>23. CASE AwaitReturn
  BY <1>23 DEF AwaitReturn
<1>24. CASE RunCommand
  BY <1>24 DEF RunCommand
<1>25. CASE RunSetup
  BY <1>25 DEF RunSetup
<1>26. CASE RunData
  BY <1>26 DEF RunData
<1>27. CASE RunStatus
  BY <1>27 DEF RunStatus
<1>28. CASE RunPoll
  <2>1. step = Polling
    BY <1>28, TakenPoll DEF RunPoll
  <2>2. ~kb'.news
    <3>1. PICK t : kb' = [kb EXCEPT !.epToggle = t, !.news = FALSE]
      BY <1>28 DEF RunPoll
    <3> QED
      BY <3>1
  <2> QED
    BY <1>28, <2>1, <2>2 DEF RunPoll
<1>29. CASE FailList
  BY <1>29 DEF FailList
<1>30. CASE RunStray
  BY <1>30 DEF RunStray
<1>31. CASE \E k \in Keys : Press(k)
  BY <1>31 DEF Press
<1>32. CASE PlugIn
  BY <1>32 DEF PlugIn
<1>33. CASE Unplug
  BY <1>33 DEF Unplug
<1> QED
  BY <1>1, <1>2, <1>3, <1>4, <1>5, <1>6, <1>7, <1>8, <1>9, <1>10, <1>11, <1>12, <1>13,
     <1>14, <1>15, <1>16, <1>17, <1>18, <1>19, <1>20, <1>21, <1>22, <1>23, <1>24, <1>25,
     <1>26, <1>27, <1>28, <1>29, <1>30, <1>31, <1>32, <1>33
     DEF Next, Host, Chip

(* No answer is stored over the list, and no other list is written before  *)
(* it is over.                                                             *)
LEMMA ListStep ==
  ASSUME TypeOK, PlaceOK, StepOK, PromptOK, late' = 0, ~StrayReports, Next
  PROVE  ListOK'
<1> USE DEF host, chip, keyboard, Goto, Post, Advance, Running, ListOK, TypeOK, HostTypeOK,
    FlowOK, ChipTypeOK, KeyboardTypeOK, Starting, Sending, Enumerating, InPoll, Polling,
    Messages, Slots, Idle, Stray, PlaceOK, MessageOK, PromptOK
<1>1. CASE UsbSoftReset
  BY <1>1 DEF UsbSoftReset
<1>2. CASE ClearUp
  BY <1>2 DEF ClearUp
<1>3. CASE AwaitStatus
  BY <1>3 DEF AwaitStatus
<1>4. CASE ReadAck
  BY <1>4 DEF ReadAck
<1>5. CASE ReadAck2
  BY <1>5 DEF ReadAck2
<1>6. CASE Probe
  BY <1>6 DEF Probe
<1>7. CASE ProbeAgain
  BY <1>7 DEF ProbeAgain
<1>8. CASE AwaitDevice
  BY <1>8 DEF AwaitDevice
<1>9. CASE SendList
  <2>1. ASSUME step < Polling, NEW i \in DOMAIN Requests[step]
        PROVE  slots'[i] = Requests[step][i]
    <3>1. step \in 1..9 /\ step # Polling
      BY <2>1
    <3>2. DOMAIN Requests[step] \subseteq Slots
      BY <3>1, RequestAsks DEF Asks
    <3>3. List = Requests[step]
      BY <3>1 DEF List
    <3> QED
      BY <1>9, <3>2, <3>3 DEF SendList
  <2>2. ASSUME step = Polling
        PROVE  slots'[0] \in {Poll(0)[0], Poll(1)[0]}
    <3>1. PICK t \in {0, 1} : t = 1 - toggle
      OBVIOUS
    <3>2. List = Poll(t) /\ 0 \in DOMAIN Poll(t)
      BY <2>2, <3>1, PollFields DEF List
    <3> QED
      BY <1>9, <3>2 DEF SendList
  <2> QED
    BY <1>9, <2>1, <2>2 DEF SendList
<1>10. CASE StartList
  <2>1. step < Polling => step \in 1..9
    OBVIOUS
  <2>2. step < Polling => 0 \in DOMAIN Requests[step]
    BY <2>1, RequestAsks DEF Asks
  <2> QED
    BY <1>10, <2>2 DEF StartList
<1>11. CASE ReadFlag
  BY <1>11 DEF ReadFlag
<1>12. CASE ReadMessage
  BY <1>12 DEF ReadMessage
<1>13. CASE ClearMessage
  BY <1>13 DEF ClearMessage
<1>14. CASE ReadControl
  BY <1>14 DEF ReadControl
<1>15. CASE WriteEndpoint
  BY <1>15 DEF WriteEndpoint
<1>16. CASE UsbGetRetryCnt
  BY <1>16 DEF UsbGetRetryCnt
<1>17. CASE ClearRetry
  BY <1>17 DEF ClearRetry
<1>18. CASE AwaitRetry
  BY <1>18 DEF AwaitRetry
<1>19. CASE BeginPoll
  BY <1>19 DEF BeginPoll
<1>20. CASE StoreKeycode
  BY <1>20 DEF StoreKeycode
<1>21. CASE CheckDevice
  BY <1>21 DEF CheckDevice
<1>22. CASE CheckAgain
  BY <1>22 DEF CheckAgain
<1>23. CASE AwaitReturn
  BY <1>23 DEF AwaitReturn
<1>24. CASE RunCommand
  BY <1>24 DEF RunCommand
<1>25. CASE RunSetup
  BY <1>25, TakenSetup, RequestTd DEF RunSetup
<1>26. CASE RunData
  <2>1. /\ step < Polling /\ step \in 1..9 /\ Td.next = ptr + 1 /\ ptr + 1 \in DOMAIN Requests[step]
        /\ at \in Sending /\ Overlaps(Td) \cap DOMAIN Requests[step] = {}
    BY <1>26, TakenRest, RequestTd DEF RunData
  <2>2. DOMAIN Requests[step] \subseteq Slots
    BY <2>1, RequestAsks DEF Asks
  <2>3. ASSUME NEW i \in DOMAIN Requests[step]
        PROVE  slots'[i] = Requests[step][i]
    <3>1. i \in Slots /\ i \notin Overlaps(Td)
      BY <2>1, <2>2
    <3> QED
      BY <1>26, <2>1, <3>1 DEF RunData
  <2>4. ptr' = ptr + 1
    BY <1>26, <2>1, <2>2 DEF RunData, End
  <2> QED
    BY <1>26, <2>1, <2>3, <2>4 DEF RunData
<1>27. CASE RunStatus
  BY <1>27, TakenRest DEF RunStatus
<1>28. CASE RunPoll
  BY <1>28, TakenPoll, PollTd DEF RunPoll
<1>29. CASE FailList
  BY <1>29, HeardTakes, RequestTd DEF FailList
<1>30. CASE RunStray
  BY <1>30 DEF RunStray
<1>31. CASE \E k \in Keys : Press(k)
  BY <1>31 DEF Press
<1>32. CASE PlugIn
  BY <1>32 DEF PlugIn
<1>33. CASE Unplug
  BY <1>33 DEF Unplug
<1> QED
  BY <1>1, <1>2, <1>3, <1>4, <1>5, <1>6, <1>7, <1>8, <1>9, <1>10, <1>11, <1>12, <1>13,
     <1>14, <1>15, <1>16, <1>17, <1>18, <1>19, <1>20, <1>21, <1>22, <1>23, <1>24, <1>25,
     <1>26, <1>27, <1>28, <1>29, <1>30, <1>31, <1>32, <1>33
     DEF Next, Host, Chip

(* What the keyboard expects next is the descriptor the chip comes to.     *)
LEMMA KbStep ==
  ASSUME TypeOK, PlaceOK, StepOK, PromptOK, late' = 0, ~StrayReports, Next
  PROVE  KbOK'
<1> USE DEF host, chip, keyboard, Goto, Post, Advance, Running, KbOK, TypeOK, HostTypeOK,
    FlowOK, ChipTypeOK, KeyboardTypeOK, Starting, Sending, Enumerating, InPoll, Polling,
    Messages, Slots, Idle, Stray, PlaceOK, ListOK, CommandOK, LeftOK, PromptOK, FreshKb, Old
<1>1. CASE UsbSoftReset
  BY <1>1 DEF UsbSoftReset
<1>2. CASE ClearUp
  BY <1>2 DEF ClearUp
<1>3. CASE AwaitStatus
  BY <1>3 DEF AwaitStatus
<1>4. CASE ReadAck
  BY <1>4 DEF ReadAck
<1>5. CASE ReadAck2
  BY <1>5 DEF ReadAck2
<1>6. CASE Probe
  BY <1>6 DEF Probe
<1>7. CASE ProbeAgain
  BY <1>7 DEF ProbeAgain
<1>8. CASE AwaitDevice
  BY <1>8 DEF AwaitDevice
<1>9. CASE SendList
  BY <1>9 DEF SendList
<1>10. CASE StartList
  BY <1>10 DEF StartList
<1>11. CASE ReadFlag
  BY <1>11 DEF ReadFlag
<1>12. CASE ReadMessage
  BY <1>12 DEF ReadMessage
<1>13. CASE ClearMessage
  BY <1>13 DEF ClearMessage
<1>14. CASE ReadControl
  BY <1>14 DEF ReadControl
<1>15. CASE WriteEndpoint
  BY <1>15 DEF WriteEndpoint
<1>16. CASE UsbGetRetryCnt
  BY <1>16 DEF UsbGetRetryCnt
<1>17. CASE ClearRetry
  BY <1>17 DEF ClearRetry
<1>18. CASE AwaitRetry
  BY <1>18 DEF AwaitRetry
<1>19. CASE BeginPoll
  BY <1>19 DEF BeginPoll
<1>20. CASE StoreKeycode
  BY <1>20 DEF StoreKeycode
<1>21. CASE CheckDevice
  BY <1>21 DEF CheckDevice
<1>22. CASE CheckAgain
  BY <1>22 DEF CheckAgain
<1>23. CASE AwaitReturn
  BY <1>23 DEF AwaitReturn
<1>24. CASE RunCommand
  BY <1>24 DEF RunCommand
<1>25. CASE RunSetup
  <2>1. ptr = 0 /\ step < Polling
    BY <1>25, TakenSetup DEF RunSetup
  <2>2. Td.packet = Asked(step) /\ Td.next = 1 /\ Td.dev = DevOf(step)
    BY <2>1, RequestTd
  <2>3. ptr' = 1 /\ UNCHANGED step
    BY <1>25, <2>2 DEF RunSetup, End
  <2>4. kb' = [kb EXCEPT !.packet = Asked(step), !.dataToggle = 1] /\ kb.address = DevOf(step)
    BY <1>25, <2>2 DEF RunSetup, TakesSetup, Heard
  <2>5. kb'.packet = Asked(step) /\ kb'.dataToggle = 1 /\ kb'.address = DevOf(step)
    BY <2>4
  <2> QED
    BY <2>3, <2>5
<1>26. CASE RunData
  BY <1>26, TakenRest, RequestTd DEF RunData
<1>27. CASE RunStatus
  BY <1>27, TakenRest DEF RunStatus
<1>28. CASE RunPoll
  BY <1>28, TakenPoll, PollTd DEF RunPoll
<1>29. CASE FailList
  BY <1>29, HeardTakes, RequestTd DEF FailList
<1>30. CASE RunStray
  BY <1>30 DEF RunStray
<1>31. CASE \E k \in Keys : Press(k)
  BY <1>31 DEF Press
<1>32. CASE PlugIn
  BY <1>32 DEF PlugIn
<1>33. CASE Unplug
  BY <1>33 DEF Unplug
<1> QED
  BY <1>1, <1>2, <1>3, <1>4, <1>5, <1>6, <1>7, <1>8, <1>9, <1>10, <1>11, <1>12, <1>13,
     <1>14, <1>15, <1>16, <1>17, <1>18, <1>19, <1>20, <1>21, <1>22, <1>23, <1>24, <1>25,
     <1>26, <1>27, <1>28, <1>29, <1>30, <1>31, <1>32, <1>33
     DEF Next, Host, Chip

(* A control byte that says done says it of a list that was completed: a   *)
(* descriptor after the first fails only if the keyboard is gone.          *)
LEMMA EarnedStep ==
  ASSUME TypeOK, PlaceOK, StepOK, PromptOK, late' = 0, ~StrayReports, Next
  PROVE  EarnedOK'
<1> USE DEF host, chip, keyboard, Goto, Post, Advance, Running, EarnedOK, TypeOK,
    HostTypeOK, FlowOK, ChipTypeOK, KeyboardTypeOK, Starting, Sending, Enumerating, InPoll,
    Polling, Messages, Slots, Idle, Stray, PlaceOK, ListOK, MessageOK, CommandOK, PromptOK,
    FreshKb
<1>1. CASE UsbSoftReset
  BY <1>1 DEF UsbSoftReset
<1>2. CASE ClearUp
  BY <1>2 DEF ClearUp
<1>3. CASE AwaitStatus
  BY <1>3 DEF AwaitStatus
<1>4. CASE ReadAck
  BY <1>4 DEF ReadAck
<1>5. CASE ReadAck2
  BY <1>5 DEF ReadAck2
<1>6. CASE Probe
  BY <1>6 DEF Probe
<1>7. CASE ProbeAgain
  BY <1>7 DEF ProbeAgain
<1>8. CASE AwaitDevice
  BY <1>8 DEF AwaitDevice
<1>9. CASE SendList
  BY <1>9 DEF SendList
<1>10. CASE StartList
  BY <1>10 DEF StartList
<1>11. CASE ReadFlag
  BY <1>11 DEF ReadFlag
<1>12. CASE ReadMessage
  BY <1>12 DEF ReadMessage
<1>13. CASE ClearMessage
  BY <1>13 DEF ClearMessage
<1>14. CASE ReadControl
  BY <1>14 DEF ReadControl
<1>15. CASE WriteEndpoint
  BY <1>15 DEF WriteEndpoint
<1>16. CASE UsbGetRetryCnt
  BY <1>16 DEF UsbGetRetryCnt
<1>17. CASE ClearRetry
  BY <1>17 DEF ClearRetry
<1>18. CASE AwaitRetry
  BY <1>18 DEF AwaitRetry
<1>19. CASE BeginPoll
  BY <1>19 DEF BeginPoll
<1>20. CASE StoreKeycode
  BY <1>20 DEF StoreKeycode
<1>21. CASE CheckDevice
  BY <1>21 DEF CheckDevice
<1>22. CASE CheckAgain
  BY <1>22 DEF CheckAgain
<1>23. CASE AwaitReturn
  BY <1>23 DEF AwaitReturn
<1>24. CASE RunCommand
  BY <1>24 DEF RunCommand
<1>25. CASE RunSetup
  <2>1. ptr = 0 /\ step < Polling
    BY <1>25, TakenSetup DEF RunSetup
  <2>2. Td.next = 1 /\ at \in Sending
    BY <2>1, RequestTd
  <2>3. ptr' = 1 /\ UNCHANGED <<at, step, served, present>> /\ kb'.address = kb.address
    BY <1>25, <2>2 DEF RunSetup, End
  <2> QED
    BY <2>2, <2>3
<1>26. CASE RunData
  <2>1. /\ step < Polling /\ step \in 1..9 /\ Td.next = ptr + 1 /\ ptr + 1 \in DOMAIN Requests[step]
        /\ at \in Sending
    BY <1>26, TakenRest, RequestTd DEF RunData
  <2>2. ptr' \in Slots
    <3>1. DOMAIN Requests[step] \subseteq Slots
      BY <2>1, RequestAsks DEF Asks
    <3> QED
      BY <1>26, <2>1, <3>1 DEF RunData, End
  <2>3. UNCHANGED <<at, step, served, present>> /\ kb'.address = kb.address
    <3>1. PICK t : kb' = [kb EXCEPT !.dataToggle = t]
      BY <1>26 DEF RunData
    <3> QED
      BY <1>26, <3>1 DEF RunData
  <2> QED
    BY <2>1, <2>2, <2>3
<1>27. CASE RunStatus
  BY <1>27, TakenRest DEF RunStatus
<1>28. CASE RunPoll
  BY <1>28, TakenPoll, PollTd DEF RunPoll
<1>29. CASE FailList
  <2>1. ~Heard
    BY <1>29, HeardTakes DEF FailList
  <2>2. UNCHANGED <<at, step, served, kb, present>>
    BY <1>29 DEF FailList
  <2>3. CASE step = Polling
    BY <2>2, <2>3
  <2>4. CASE step < Polling
    <3>1. at \in Sending /\ Td.dev = DevOf(step)
      BY <1>29, <2>4, RequestTd DEF FailList
    <3>2. CASE ptr = 0
      BY <1>29, <2>2, <3>1, <3>2 DEF FailList
    <3>3. CASE ptr # 0
      <4>1. ~present \/ kb.address = Unreset
        BY <1>29, <2>1, <3>1, <3>3 DEF FailList, KbOK, Heard
      <4> QED
        BY <2>2, <4>1
    <3> QED
      BY <3>2, <3>3
  <2> QED
    BY <2>3, <2>4
<1>30. CASE RunStray
  BY <1>30 DEF RunStray
<1>31. CASE \E k \in Keys : Press(k)
  BY <1>31 DEF Press
<1>32. CASE PlugIn
  BY <1>32 DEF PlugIn
<1>33. CASE Unplug
  BY <1>33 DEF Unplug
<1> QED
  BY <1>1, <1>2, <1>3, <1>4, <1>5, <1>6, <1>7, <1>8, <1>9, <1>10, <1>11, <1>12, <1>13,
     <1>14, <1>15, <1>16, <1>17, <1>18, <1>19, <1>20, <1>21, <1>22, <1>23, <1>24, <1>25,
     <1>26, <1>27, <1>28, <1>29, <1>30, <1>31, <1>32, <1>33
     DEF Next, Host, Chip

(* What a completed request did to the keyboard stays until a reset.       *)
LEMMA ServedStep ==
  ASSUME TypeOK, PlaceOK, StepOK, PromptOK, late' = 0, ~StrayReports, Next
  PROVE  ServedOK'
<1> USE DEF host, chip, keyboard, Goto, Post, Advance, Running, ServedOK, TypeOK,
    HostTypeOK, FlowOK, ChipTypeOK, KeyboardTypeOK, Starting, Sending, Enumerating, InPoll,
    Polling, Messages, Slots, Idle, Stray, PromptOK, FreshKb
<1>1. CASE UsbSoftReset
  BY <1>1 DEF UsbSoftReset
<1>2. CASE ClearUp
  BY <1>2 DEF ClearUp
<1>3. CASE AwaitStatus
  BY <1>3 DEF AwaitStatus
<1>4. CASE ReadAck
  BY <1>4 DEF ReadAck
<1>5. CASE ReadAck2
  BY <1>5 DEF ReadAck2
<1>6. CASE Probe
  BY <1>6 DEF Probe
<1>7. CASE ProbeAgain
  BY <1>7 DEF ProbeAgain
<1>8. CASE AwaitDevice
  BY <1>8 DEF AwaitDevice
<1>9. CASE SendList
  BY <1>9 DEF SendList
<1>10. CASE StartList
  BY <1>10 DEF StartList
<1>11. CASE ReadFlag
  BY <1>11 DEF ReadFlag
<1>12. CASE ReadMessage
  BY <1>12 DEF ReadMessage
<1>13. CASE ClearMessage
  BY <1>13 DEF ClearMessage
<1>14. CASE ReadControl
  BY <1>14 DEF ReadControl
<1>15. CASE WriteEndpoint
  BY <1>15 DEF WriteEndpoint
<1>16. CASE UsbGetRetryCnt
  BY <1>16 DEF UsbGetRetryCnt
<1>17. CASE ClearRetry
  BY <1>17 DEF ClearRetry
<1>18. CASE AwaitRetry
  BY <1>18 DEF AwaitRetry
<1>19. CASE BeginPoll
  BY <1>19 DEF BeginPoll
<1>20. CASE StoreKeycode
  BY <1>20 DEF StoreKeycode
<1>21. CASE CheckDevice
  BY <1>21 DEF CheckDevice
<1>22. CASE CheckAgain
  BY <1>22 DEF CheckAgain
<1>23. CASE AwaitReturn
  BY <1>23 DEF AwaitReturn
<1>24. CASE RunCommand
  BY <1>24 DEF RunCommand
<1>25. CASE RunSetup
  BY <1>25, TakenSetup, RequestTd DEF RunSetup
<1>26. CASE RunData
  BY <1>26, TakenRest, RequestTd DEF RunData
<1>27. CASE RunStatus
  <2>1. /\ step \in 1..9 /\ present /\ kb.address # Unreset
        /\ kb.packet = Asked(step) /\ kb.address = DevOf(step)
    BY <1>27, TakenRest DEF RunStatus
  <2>2. PICK a, c : /\ a = IF Asked(step).request = "SET_ADDRESS" THEN 2 ELSE kb.address
                    /\ c = (kb.configured \/ Asked(step).request = "SET_CONFIG")
                    /\ kb' = [kb EXCEPT !.packet = NoPacket, !.address = a, !.configured = c]
                    /\ served' = served \cup {Asked(step)}
    BY <1>27, <2>1 DEF RunStatus
  <2>3. kb'.address = a /\ kb'.configured = c
    BY <2>2
  <2>4. /\ Asked(step) = Asked(1) => Asked(step).request = "SET_ADDRESS"
        /\ Asked(step) = Asked(6) => Asked(step).request = "SET_CONFIG"
        /\ Asked(step).request = "SET_CONFIG" => kb.address = 2
    BY <2>1, RequestAsks DEF DevOf
  <2>5. Asked(1) \in served' => a = 2
    BY <2>1, <2>2, <2>4
  <2>6. Asked(6) \in served' => c
    BY <2>1, <2>2, <2>4
  <2>7. c => a = 2
    BY <2>1, <2>2, <2>4
  <2> QED
    BY <2>3, <2>5, <2>6, <2>7
<1>28. CASE RunPoll
  BY <1>28, TakenPoll, PollTd DEF RunPoll
<1>29. CASE FailList
  BY <1>29, HeardTakes, RequestTd DEF FailList
<1>30. CASE RunStray
  BY <1>30 DEF RunStray
<1>31. CASE \E k \in Keys : Press(k)
  BY <1>31 DEF Press
<1>32. CASE PlugIn
  BY <1>32 DEF PlugIn
<1>33. CASE Unplug
  BY <1>33 DEF Unplug
<1> QED
  BY <1>1, <1>2, <1>3, <1>4, <1>5, <1>6, <1>7, <1>8, <1>9, <1>10, <1>11, <1>12, <1>13,
     <1>14, <1>15, <1>16, <1>17, <1>18, <1>19, <1>20, <1>21, <1>22, <1>23, <1>24, <1>25,
     <1>26, <1>27, <1>28, <1>29, <1>30, <1>31, <1>32, <1>33
     DEF Next, Host, Chip

(* The first poll has the toggle of the first report.                      *)
LEMMA FreshStep ==
  ASSUME TypeOK, PlaceOK, StepOK, PromptOK, late' = 0, ~StrayReports, Next
  PROVE  FreshOK'
<1> USE DEF host, chip, keyboard, Goto, Post, Advance, Running, FreshOK, TypeOK, HostTypeOK,
    FlowOK, ChipTypeOK, KeyboardTypeOK, Starting, Sending, Enumerating, InPoll, Polling,
    Messages, Slots, Idle, Stray, StepOK, ListOK, MessageOK, EpOK, PromptOK, FreshKb
<1>1. CASE UsbSoftReset
  BY <1>1 DEF UsbSoftReset
<1>2. CASE ClearUp
  BY <1>2 DEF ClearUp
<1>3. CASE AwaitStatus
  BY <1>3 DEF AwaitStatus
<1>4. CASE ReadAck
  BY <1>4 DEF ReadAck
<1>5. CASE ReadAck2
  BY <1>5 DEF ReadAck2
<1>6. CASE Probe
  BY <1>6 DEF Probe
<1>7. CASE ProbeAgain
  BY <1>7 DEF ProbeAgain
<1>8. CASE AwaitDevice
  BY <1>8 DEF AwaitDevice
<1>9. CASE SendList
  <2>1. CASE step = Polling /\ toggle = 1
    <3>1. List = Poll(0) /\ DOMAIN List = {0} /\ List[0].toggle = 0
      BY <2>1, PollFields DEF List
    <3>2. word51e' = word51e /\ slots'[0].toggle = 0
      BY <1>9, <3>1 DEF SendList
    <3> QED
      BY <1>9, <2>1, <3>2 DEF SendList
  <2>2. CASE step = Polling /\ toggle # 1
    <3>1. List = Poll(1 - toggle) /\ 1 - toggle \in {0, 1}
      BY <2>2 DEF List
    <3>2. 1 \notin DOMAIN List
      BY <3>1, PollFields
    <3>3. word51e' = word51e
      BY <1>9, <3>2 DEF SendList
    <3> QED
      BY <1>9, <2>2, <3>3 DEF SendList
  <2>3. CASE step # Polling
    BY <1>9, <2>3 DEF SendList
  <2> QED
    BY <2>1, <2>2, <2>3
<1>10. CASE StartList
  BY <1>10 DEF StartList
<1>11. CASE ReadFlag
  BY <1>11 DEF ReadFlag
<1>12. CASE ReadMessage
  BY <1>12 DEF ReadMessage
<1>13. CASE ClearMessage
  BY <1>13 DEF ClearMessage
<1>14. CASE ReadControl
  BY <1>14 DEF ReadControl
<1>15. CASE WriteEndpoint
  BY <1>15 DEF WriteEndpoint
<1>16. CASE UsbGetRetryCnt
  BY <1>16 DEF UsbGetRetryCnt
<1>17. CASE ClearRetry
  BY <1>17 DEF ClearRetry
<1>18. CASE AwaitRetry
  BY <1>18 DEF AwaitRetry
<1>19. CASE BeginPoll
  BY <1>19 DEF BeginPoll
<1>20. CASE StoreKeycode
  BY <1>20 DEF StoreKeycode
<1>21. CASE CheckDevice
  BY <1>21 DEF CheckDevice
<1>22. CASE CheckAgain
  BY <1>22 DEF CheckAgain
<1>23. CASE AwaitReturn
  BY <1>23 DEF AwaitReturn
<1>24. CASE RunCommand
  BY <1>24 DEF RunCommand
<1>25. CASE RunSetup
  BY <1>25, TakenSetup, RequestTd DEF RunSetup
<1>26. CASE RunData
  BY <1>26, TakenRest, RequestTd DEF RunData
<1>27. CASE RunStatus
  BY <1>27, TakenRest DEF RunStatus
<1>28. CASE RunPoll
  <2>1. step = Polling /\ ptr = 0 /\ present /\ kb.configured /\ kb.key \in Keys
    BY <1>28, TakenPoll, PollTd DEF RunPoll, TakesPoll, Heard
  <2>2. SUFFICES ASSUME plugs = 1, word51e' \notin Keys
                 PROVE  FALSE
    BY <1>28 DEF RunPoll
  <2>3. Td.toggle # kb.epToggle /\ word51e' = word51e
    BY <1>28, <2>1, <2>2 DEF RunPoll
  <2> QED
    BY <2>1, <2>2, <2>3 DEF Td
<1>29. CASE FailList
  <2>1. SUFFICES ASSUME plugs = 1, present, kb.configured, step = Polling
                 PROVE  FALSE
    BY <1>29 DEF FailList
  <2>2. kb.address = 2
    BY <2>1 DEF ServedOK
  <2>3. Td.dev = 2
    BY <1>29, <2>1, PollTd DEF FailList
  <2> QED
    BY <1>29, <2>1, <2>2, <2>3, HeardTakes DEF FailList, Heard
<1>30. CASE RunStray
  BY <1>30 DEF RunStray
<1>31. CASE \E k \in Keys : Press(k)
  BY <1>31 DEF Press
<1>32. CASE PlugIn
  BY <1>32 DEF PlugIn
<1>33. CASE Unplug
  BY <1>33 DEF Unplug
<1> QED
  BY <1>1, <1>2, <1>3, <1>4, <1>5, <1>6, <1>7, <1>8, <1>9, <1>10, <1>11, <1>12, <1>13,
     <1>14, <1>15, <1>16, <1>17, <1>18, <1>19, <1>20, <1>21, <1>22, <1>23, <1>24, <1>25,
     <1>26, <1>27, <1>28, <1>29, <1>30, <1>31, <1>32, <1>33
     DEF Next, Host, Chip

(* Lateness is never made up for.                                          *)
LEMMA StaysLate ==
  ASSUME TypeOK, Next, late' = 0
  PROVE  late = 0
<1>1. late \in Nat
  BY UsbAssumption DEF UsbAssumption, TypeOK, KeyboardTypeOK
<1>2. late' = late \/ late' = late + 1
  BY DEF Next, Host, Chip, keyboard, UsbSoftReset, ClearUp, AwaitStatus, ReadAck, ReadAck2,
     Probe, ProbeAgain, AwaitDevice, SendList, StartList, ReadFlag, ReadMessage, ClearMessage,
     ReadControl, WriteEndpoint, UsbGetRetryCnt, ClearRetry, AwaitRetry, BeginPoll,
     StoreKeycode, CheckDevice, CheckAgain, AwaitReturn, RunCommand, RunSetup, RunData,
     RunStatus, RunPoll, FailList, RunStray, Advance, Press, PlugIn, Unplug
<1> QED
  BY <1>1, <1>2

(* Nothing has been sent to the chip when the program starts.              *)
LEMMA InvInit == Init => IInv
<1> SUFFICES ASSUME Init
             PROVE  IInv
  OBVIOUS
<1> USE DEF Init, Starting, Sending, Idle, Stray, Slots, Polling, FreshKb, Unreset
<1>1. PlaceOK /\ StepOK
  BY DEF PlaceOK, StepOK
<1>2. ListOK /\ MessageOK /\ CommandOK
  BY DEF ListOK, MessageOK, CommandOK
<1>3. KbOK /\ EarnedOK /\ ServedOK /\ LeftOK
  BY DEF KbOK, EarnedOK, ServedOK, LeftOK, Old
<1>4. EpOK /\ FreshOK
  BY DEF EpOK, FreshOK
<1> QED
  BY <1>1, <1>2, <1>3, <1>4, InitType DEF IInv, PromptOK

(* Every step keeps the invariant.                                         *)
LEMMA InvStep ==
  ASSUME IInv, ~StrayReports, [Next]_vars
  PROVE  IInv'
<1>1. CASE Next
  <2>1. TypeOK' /\ PlaceOK' /\ StepOK'
    BY <1>1, TypeStep, PlaceStep, StepStep DEF IInv
  <2>2. ASSUME late' = 0
        PROVE  PromptOK'
    <3>1. PromptOK
      BY <1>1, <2>2, StaysLate DEF IInv
    <3>2. ListOK' /\ MessageOK' /\ CommandOK' /\ KbOK'
      BY <1>1, <2>2, <3>1, ListStep, MessageStep, CommandStep, KbStep DEF IInv
    <3>3. EarnedOK' /\ ServedOK' /\ LeftOK' /\ EpOK' /\ FreshOK'
      BY <1>1, <2>2, <3>1, EarnedStep, ServedStep, LeftStep, EpStep, FreshStep DEF IInv
    <3> QED
      BY <3>2, <3>3 DEF PromptOK
  <2> QED
    BY <2>1, <2>2 DEF IInv
<1>2. CASE UNCHANGED vars
  <2>1. TypeOK' /\ UNCHANGED <<at, step, slept, usb_ctl_val, toggle, msg, command, slots, ptr,
                              control, word51e, present, kb, late, plugs, served>>
    BY <1>2 DEF vars, host, chip, keyboard, IInv, TypeOK, HostTypeOK, FlowOK, ChipTypeOK,
       KeyboardTypeOK
  <2>2. PlaceOK' /\ StepOK' /\ (late' = 0 => PromptOK)
    BY <2>1 DEF IInv, PlaceOK, StepOK
  <2>3. PromptOK => PromptOK'
    BY <2>1 DEF PromptOK, ListOK, MessageOK, CommandOK, KbOK, EarnedOK, ServedOK, LeftOK, Old,
       EpOK, FreshOK
  <2> QED
    BY <2>1, <2>2, <2>3 DEF IInv
<1> QED
  BY <1>1, <1>2

(* As long as the firmware keeps quiet about the list pointer it cannot    *)
(* follow, the invariant holds: main.c.                                    *)
THEOREM InvariantHolds ==
  ASSUME ~StrayReports
  PROVE  Spec => []IInv
<1>1. IInv /\ [Next]_vars => IInv'
  BY InvStep
<1> QED
  BY <1>1, InvInit, PTL DEF Spec

(* Whatever the program and the chip do in what order, and however often   *)
(* keyboards come and go, no list of usb.c holds a descriptor that the     *)
(* keyboard it is put to has to refuse, unless it was late.                *)
THEOREM NothingRefused ==
  ASSUME ~StrayReports
  PROVE  Spec => []NeverRefused
<1>1. IInv => NeverRefused
  BY HeardTakes DEF IInv, NeverRefused
<1> QED
  BY <1>1, InvariantHolds, PTL

(* main.c passes no step of the enumeration on the strength of an old      *)
(* message or control byte: the keyboard has completed the request.        *)
THEOREM EveryStepEarned ==
  ASSUME ~StrayReports
  PROVE  Spec => []EnumerationEarned
<1>1. IInv => EnumerationEarned
  BY DEF IInv, PromptOK, EarnedOK, EnumerationEarned
<1> QED
  BY <1>1, InvariantHolds, PTL

(* The first keycode main.c hands to the game is one the keyboard sent.    *)
THEOREM KeycodeIsSent ==
  ASSUME ~StrayReports
  PROVE  Spec => []KeycodeIsAKey
<1>1. IInv => KeycodeIsAKey
  BY DEF IInv, PromptOK, FreshOK, KeycodeIsAKey, TypeOK, FlowOK, InPoll
<1> QED
  BY <1>1, InvariantHolds, PTL
=============================================================================
