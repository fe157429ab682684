----------------------------- MODULE RegisterFile -----------------------------
(***************************************************************************)
(* What the USB software takes its HPI accesses for: calls on a memory     *)
(* with an address pointer that take effect one at a time, each at one     *)
(* moment between its call and its return.  This is the contract io_handler.c   *)
(* and hpi_io_intf.sv meet together (module HpiBus); it stands for no code *)
(* of its own.                                                             *)
(***************************************************************************)
EXTENDS Integers

CONSTANTS
  Size,          \* words of memory; a word holds an address
  DATA, ADDR     \* ports: the word under the pointer, the pointer itself

Data   == 0..(Size - 1)
Memory == [Data -> Data]

InitCall == [op |-> "init", port |-> DATA, data |-> 0]
Calls ==
  [op : {"write"}, port : {DATA, ADDR}, data : Data]
    \cup [op : {"read"}, port : {DATA}, data : {0}]

VARIABLES
  mem, ptr,
  call,     \* the call served last, or in progress
  reply     \* {} in progress, else the singleton of what it returns

vars == <<mem, ptr, call, reply>>

Init == mem = [a \in Data |-> 0] /\ ptr = 0 /\ call = InitCall /\ reply = {}

Call ==
  /\ reply # {}
  /\ call' \in Calls
  /\ reply' = {}
  /\ UNCHANGED <<mem, ptr>>

\* The chip comes out of its reset with the pointer at 0.
ServeInit ==
  /\ call.op = "init" /\ reply = {}
  /\ mem' \in Memory /\ ptr' = 0
  /\ reply' = {0}
  /\ UNCHANGED call

ServeAddress ==
  /\ call.op = "write" /\ call.port = ADDR /\ reply = {}
  /\ ptr' = call.data
  /\ reply' = {0}
  /\ UNCHANGED <<mem, call>>

\* An access to DATA moves the pointer to the next word.
ServeWrite ==
  /\ call.op = "write" /\ call.port = DATA /\ reply = {}
  /\ mem' = [mem EXCEPT ![ptr] = call.data]
  /\ ptr' = (ptr + 1) % Size
  /\ reply' = {0}
  /\ UNCHANGED call

ServeRead ==
  /\ call.op = "read" /\ reply = {}
  /\ reply' = {mem[ptr]}
  /\ ptr' = (ptr + 1) % Size
  /\ UNCHANGED <<mem, call>>

Next == Call \/ ServeInit \/ ServeAddress \/ ServeWrite \/ ServeRead

Spec == Init /\ [][Next]_vars
=============================================================================
