-------------------------------- MODULE HpiBus --------------------------------
(***************************************************************************)
(* The path between the Nios II and the USB chip: io_handler.c stores into *)
(* six one-register ports, hpi_io_intf.sv copies the ports to the pins of  *)
(* the chip on every posedge of Clk, and the game's Reset_h, which every   *)
(* death of Mario raises, overrides those copies but not the ports.        *)
(*                                                                         *)
(* A step is a posedge of Clk.  On it the processor may make its next      *)
(* access to a port, not sooner than Gap posedges after the last one; how  *)
(* much later is up to the interconnect (and to the printf of IO_read).    *)
(*                                                                         *)
(* The chip is external: a memory with an address pointer that DATA        *)
(* accesses advance, as usb.c uses it.  It answers a read strobe after     *)
(* Access posedges, and takes what it is written when the write strobe     *)
(* ends; a line nobody drives keeps its charge for one posedge.  The       *)
(* mailbox and status ports are plain registers on the same path and are   *)
(* left out, as are the chip's own writes to its memory.                   *)
(***************************************************************************)
EXTENDS Integers, Sequences

CONSTANTS
  Size,        \* words of the chip's memory; a word holds an address
  DATA, ADDR,  \* HPI_DATA, HPI_ADDR
  Gap,         \* least number of posedges between two accesses to ports
  Access,      \* posedges of read strobe before the chip drives the bus
  Pulse,       \* posedges a reset lasts
  Cap,         \* bound on the count of posedges since a reset began
  Starts,      \* values of that count on which a reset may begin
  HighZ        \* what an undriven bus reads as

ASSUME HpiAssumption ==
  /\ Size \in Nat \ {0} /\ DATA \in Nat /\ ADDR \in Nat /\ DATA # ADDR
  /\ Access \in Nat /\ Gap \in Nat /\ Gap >= Access + 2
  /\ Pulse \in Nat /\ Cap \in Nat /\ Pulse <= Cap /\ Starts \subseteq 0..Cap
  /\ HighZ \notin 0..(Size - 1)

VARIABLES
  hpi,            \* the ports otg_hpi_*: address, data, r, w, cs, reset
  otg,            \* the registers of hpi_io_intf, named as there
  call, todo,     \* the call in progress, and the accesses it has yet to make
  age,            \* posedges since the last access, up to Gap
  temp,           \* temp of IO_read
  mem, ptr,       \* the chip's memory and pointer
  strobe,         \* posedges it has seen its read strobe low, up to Access
  charge,         \* what the bus was driven with on the last posedge
  since,          \* posedges since the last Reset_h began, up to Cap
  played          \* whether the game, in this behaviour, ever resets

swVars == <<hpi, call, todo, age, temp>>
vars   == <<swVars, otg, mem, ptr, strobe, charge, since, played>>

Data == 0..(Size - 1)

InitCall == [op |-> "init", port |-> DATA, data |-> 0]
Calls ==
  [op : {"write"}, port : {DATA, ADDR}, data : Data]
    \cup [op : {"read"}, port : {DATA}, data : {0}]
-----------------------------------------------------------------------------
(* The functions of io_handler.c, as the accesses they make in turn.       *)

Store(port, value) == [port |-> port, value |-> value]
Load               == [port |-> "load", value |-> 0]

IO_init ==
  << Store("reset", 1), Store("cs", 1), Store("r", 1), Store("w", 1),
     Store("address", 0), Store("data", 0),
     Store("cs", 0), Store("reset", 0), Store("reset", 1), Store("cs", 1) >>

(* Names with a Bug suffix are deliberate mutations of the definition that *)
(* follows them.                                                           *)
IO_write_LateAddressBug(address, data) ==
  << Store("r", 1), Store("cs", 0), Store("w", 0), Store("address", address),
     Store("data", data), Store("w", 1), Store("cs", 1) >>

IO_write(address, data) ==
  << Store("r", 1), Store("address", address), Store("cs", 0), Store("w", 0),
     Store("data", data), Store("w", 1), Store("cs", 1) >>

IO_read_EarlyLoadBug(address) ==
  << Store("w", 1), Store("address", address), Store("cs", 0), Load,
     Store("r", 0), Store("r", 1), Store("cs", 1) >>

IO_read(address) ==
  << Store("w", 1), Store("address", address), Store("cs", 0), Store("r", 0),
     Load, Store("r", 1), Store("cs", 1) >>

Accesses(c) ==
  IF c.op = "init" THEN IO_init
  ELSE IF c.op = "write" THEN IO_write(c.port, c.data)
  ELSE IO_read(c.port)

Due == todo # <<>> /\ age = Gap

MakeStore ==
  /\ Due /\ Head(todo) # Load
  /\ hpi' = [hpi EXCEPT ![Head(todo).port] = Head(todo).value]
  /\ todo' = Tail(todo) /\ age' = 0
  /\ UNCHANGED <<call, temp>>

MakeLoad ==
  /\ Due /\ Head(todo) = Load
  /\ temp' = otg.from_sw_data_in
  /\ todo' = Tail(todo) /\ age' = 0
  /\ UNCHANGED <<hpi, call>>

BeginCall ==
  /\ todo = <<>> /\ age = Gap
  /\ call' \in Calls
  /\ todo' = Accesses(call')
  /\ UNCHANGED <<hpi, age, temp>>

Wait ==
  /\ age' = IF age < Gap THEN age + 1 ELSE age
  /\ UNCHANGED <<hpi, call, todo, temp>>
-----------------------------------------------------------------------------
(* The bus, and the chip on its other end.                                 *)

Selected == otg.CS_N = 0 /\ otg.RST_N = 1
Writing  == Selected /\ otg.WR_N = 0
Reading  == Selected /\ otg.RD_N = 0

ChipDrives == Reading /\ strobe = Access

FpgaDrives_WhenSelectedBug == hpi.cs = 0

\* The write port itself enables the driver, not the registered strobe.
FpgaDrives == hpi.w = 0

OTG_DATA ==
  CASE FpgaDrives -> hpi.data
    [] ~FpgaDrives /\ ChipDrives -> mem[ptr]
    [] OTHER -> HighZ

Latched == IF OTG_DATA # HighZ THEN OTG_DATA ELSE charge

WriteEnds(port) == Writing /\ ~Writing' /\ otg.ADDR = port
ReadEnds(port)  == Reading /\ ~Reading' /\ otg.ADDR = port

Chip ==
  /\ strobe' = CASE ~Reading                     -> 0
                 [] Reading /\ strobe < Access  -> strobe + 1
                 [] OTHER                        -> strobe
  /\ charge' = OTG_DATA
  /\ mem' = IF WriteEnds(DATA) THEN [mem EXCEPT ![ptr] = Latched] ELSE mem
  /\ ptr' = CASE otg'.RST_N = 0 -> 0
              [] otg'.RST_N = 1 /\ WriteEnds(ADDR) -> Latched
              [] otg'.RST_N = 1 /\ (WriteEnds(DATA) \/ ReadEnds(DATA)) -> (ptr + 1) % Size
              [] OTHER -> ptr

Reset_h == since < Pulse

NextReset ==
  \/ played /\ since \in Starts /\ since' = 0
  \/ since' = IF since < Cap THEN since + 1 ELSE since

Interface_CrossedBug ==
  otg' = IF Reset_h
           THEN [ADDR |-> 0, RD_N |-> 1, WR_N |-> 1, CS_N |-> 1, RST_N |-> 1,
                 from_sw_data_in |-> 0, from_sw_data_out_buffer |-> 0]
           ELSE [ADDR |-> hpi.address, RD_N |-> hpi.address, WR_N |-> hpi.w, CS_N |-> hpi.cs,
                 RST_N |-> hpi.reset, from_sw_data_in |-> OTG_DATA,
                 from_sw_data_out_buffer |-> hpi.data]

(* The registers of hpi_io_intf.                                           *)
Interface ==
  otg' = IF Reset_h
           THEN [ADDR |-> 0, RD_N |-> 1, WR_N |-> 1, CS_N |-> 1, RST_N |-> 1,
                 from_sw_data_in |-> 0, from_sw_data_out_buffer |-> 0]
           ELSE [ADDR |-> hpi.address, RD_N |-> hpi.r, WR_N |-> hpi.w, CS_N |-> hpi.cs,
                 RST_N |-> hpi.reset, from_sw_data_in |-> OTG_DATA,
                 from_sw_data_out_buffer |-> hpi.data]

Posedge == Interface /\ Chip /\ NextReset /\ UNCHANGED played
-----------------------------------------------------------------------------
(* Power-up: ports and registers are 0, so the chip is in reset; main.c    *)
(* calls IO_init before anything else.                                     *)
Init ==
  /\ hpi = [address |-> 0, data |-> 0, r |-> 0, w |-> 0, cs |-> 0, reset |-> 0]
  /\ otg = [ADDR |-> 0, RD_N |-> 0, WR_N |-> 0, CS_N |-> 0, RST_N |-> 0,
            from_sw_data_in |-> 0, from_sw_data_out_buffer |-> 0]
  /\ call = InitCall /\ todo = IO_init /\ age = Gap /\ temp = 0
  /\ mem \in [Data -> Data] /\ ptr = 0 /\ strobe = 0 /\ charge = HighZ
  /\ since = Cap /\ played \in BOOLEAN

Next ==
  \/ Posedge /\ MakeStore
  \/ Posedge /\ MakeLoad
  \/ Posedge /\ BeginCall
  \/ Posedge /\ Wait

Spec == Init /\ [][Next]_vars
-----------------------------------------------------------------------------
Bit == {0, 1}

TypeOK ==
  /\ hpi \in [address : {0, DATA, ADDR}, data : Data, r : Bit, w : Bit, cs : Bit, reset : Bit]
  /\ otg \in [ADDR : {0, DATA, ADDR}, RD_N : Bit, WR_N : Bit, CS_N : Bit, RST_N : Bit,
              from_sw_data_in : Data \cup {HighZ}, from_sw_data_out_buffer : Data]
  /\ call \in Calls \cup {InitCall}
  /\ \E n \in 1..(Len(Accesses(call)) + 1) : todo = SubSeq(Accesses(call), n, Len(Accesses(call)))
  /\ age \in 0..Gap /\ temp \in Data \cup {HighZ}
  /\ mem \in [Data -> Data] /\ ptr \in Data
  /\ strobe \in 0..Access /\ charge \in Data \cup {HighZ}
  /\ since \in 0..Cap /\ played \in BOOLEAN /\ (~played => since = Cap)

(* The chip has served the call: the strobe the call made has ended on its *)
(* pins.                                                                   *)
Served ==
  CASE call.op = "init"  -> todo = <<>>
    [] call.op = "write" -> Len(todo) <= 1 /\ otg.WR_N = 1
    [] call.op = "read"  -> Len(todo) <= 1 /\ otg.RD_N = 1

Booting == call = InitCall /\ ~Served

\* Behaviours with resets are mapped to one in which nothing happens.
Hidden == played \/ Booting

R == INSTANCE RegisterFile WITH
       mem   <- IF Hidden THEN [a \in Data |-> 0] ELSE mem,
       ptr   <- IF Hidden THEN 0 ELSE ptr,
       call  <- IF Hidden THEN InitCall ELSE call,
       reply <- IF played \/ ~Served THEN {} ELSE IF call.op = "read" THEN {temp} ELSE {0}

(* Without resets the software's accesses are what it takes them for: each *)
(* takes effect once, whole, between its call and its return, although the *)
(* pins lag the ports, the bus is released before the write strobe ends    *)
(* and a read samples it while the strobe is still low.                    *)
RefinesRegisterFile == R!Spec

(* Once IO_init is over, the FPGA and the chip never drive the bus at      *)
(* once, whatever the resets do to the strobes.                            *)
NoBusFight == call # InitCall => ~(FpgaDrives /\ ChipDrives)

(* The chip sees one address for as long as a strobe is low.               *)
AddressSteady ==
  [][(Writing /\ Writing') \/ (Reading /\ Reading') => otg'.ADDR = otg.ADDR]_vars

(* And what a comment says that the code does not do:                      *)
(* usb.c, UsbRead, "The data read from the specified address": a load      *)
(* yields the word the chip holds there, also when Mario dies meanwhile.   *)
ReadReturnsData ==
  [][todo # <<>> /\ Head(todo) = Load /\ todo' # todo => temp' = mem[ptr]]_vars
=============================================================================
