------------------------------- MODULE UsbLists -------------------------------
(***************************************************************************)
(* The lists of transfer descriptors that usb.c and main.c write into the  *)
(* memory of the USB chip, one list per request to the keyboard.           *)
(*                                                                         *)
(* A descriptor is six words; every list begins at 0x500, the setup packet *)
(* lies behind its first descriptor and the others follow from 0x514 on,   *)
(* each linked to the next by its last word.  Descriptors are numbered     *)
(* from 0 here.  The words become fields: the token and device address of  *)
(* the third word, the data toggle of the fourth (0x40 is DATA1), the      *)
(* buffer and its length of the first two.  Of a setup packet the request, *)
(* its direction and the length it asks for are kept.                      *)
(***************************************************************************)
EXTENDS Integers, Sequences

SlotAddr(i) == IF i = 0 THEN \h500 ELSE \h514 + 12 * (i - 1)

Slots == 0..9       \* the longest list has ten descriptors
End   == 10         \* a link of 0

NoPacket == [request |-> "none", toHost |-> FALSE, length |-> 0]

Packet(request, toHost, length) ==
  [request |-> request, toHost |-> toHost, length |-> length]

Descriptor(pid, dev, ep, toggle, buf, len, next, packet) ==
  [pid |-> pid, dev |-> dev, ep |-> ep, toggle |-> toggle,
   buf |-> buf, len |-> len, next |-> next, packet |-> packet]

Part(toggle, buf, len) == [toggle |-> toggle, buf |-> buf, len |-> len]

(* A control transfer: setup, the parts of the data read, status.          *)
Control(dev, packet, parts, statusPid) ==
  LET last == Len(parts) + 1
  IN  [i \in 0..last |->
        CASE i = 0    -> Descriptor("SETUP", dev, 0, 0, \h50C, 8, 1, packet)
          [] i = last -> Descriptor(statusPid, dev, 0, 1, 0, 0, End, NoPacket)
          [] OTHER    -> Descriptor("IN", dev, 0, parts[i].toggle,
                                    parts[i].buf, parts[i].len, i + 1, NoPacket)]
-----------------------------------------------------------------------------
UsbSetAddress == Control(0, Packet("SET_ADDRESS", FALSE, 0), << >>, "IN")

UsbGetDeviceDesc1 ==
  Control(2, Packet("GET_DEVICE", TRUE, 8), << Part(1, \h52C, 8) >>, "OUT")

(* Names with a Bug suffix are deliberate mutations of the definition that *)
(* follows them.                                                           *)
UsbGetDeviceDesc2_ToggleBug ==
  Control(2, Packet("GET_DEVICE", TRUE, 18),
          << Part(1, \h544, 8), Part(1, \h54C, 8), Part(1, \h554, 2) >>, "OUT")

UsbGetDeviceDesc2 ==
  Control(2, Packet("GET_DEVICE", TRUE, 18),
          << Part(1, \h544, 8), Part(0, \h54C, 8), Part(1, \h554, 2) >>, "OUT")

UsbGetConfigDesc1 ==
  Control(2, Packet("GET_CONFIG", TRUE, 9),
          << Part(1, \h544, 8), Part(0, \h54C, 1) >>, "OUT")

UsbGetConfigDesc2 ==
  Control(2, Packet("GET_CONFIG", TRUE, 255),
          << Part(1, \h55C, 8), Part(0, \h564, 8), Part(1, \h56C, 8),
             Part(0, \h574, 8), Part(1, \h57C, 2) >>, "OUT")

UsbSetConfig == Control(2, Packet("SET_CONFIG", FALSE, 0), << >>, "IN")

UsbClassRequest == Control(2, Packet("SET_IDLE", FALSE, 0), << >>, "IN")

UsbGetHidDesc ==
  Control(2, Packet("GET_HID", TRUE, 123), << Part(1, \h544, 8) >>, "OUT")

UsbGetReportDesc ==
  Control(2, Packet("GET_REPORT", TRUE, 123),
          << Part(1, \h580, 8), Part(0, \h588, 8), Part(1, \h590, 8), Part(0, \h598, 8),
             Part(1, \h5A0, 8), Part(0, \h5A8, 8), Part(1, \h5B0, 8), Part(0, \h5B8, 3) >>, "OUT")

Poll_SwappedBug(toggle) ==
  [i \in {0} |-> Descriptor("IN", 2, 1, 1 - toggle, \h51C, 8, End, NoPacket)]

(* The read of a report from endpoint 1 that main.c writes by itself.      *)
Poll(toggle) == [i \in {0} |-> Descriptor("IN", 2, 1, toggle, \h51C, 8, End, NoPacket)]
-----------------------------------------------------------------------------
(* The slots that a buffer lies over.                                      *)
Overlaps(td) ==
  {i \in Slots : td.len > 0 /\ td.buf < SlotAddr(i) + 12 /\ SlotAddr(i) < td.buf + td.len}

(* The low byte of the word at 0x51e, which is the link of slot 1.         *)
LinkByte(next) == IF next = End THEN 0 ELSE SlotAddr(next) % 256
=============================================================================
