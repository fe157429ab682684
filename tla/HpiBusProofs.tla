---------------------------- MODULE HpiBusProofs ----------------------------
(***************************************************************************)
(* The path to the USB chip, for any memory, any pace of the processor,    *)
(* any access time of the chip and, where it does not say otherwise, any   *)
(* resets of the game.                                                     *)
(*                                                                         *)
(* The write port enables the FPGA's driver at once, while the chip sees   *)
(* its read strobe one posedge late: what keeps them apart is that every   *)
(* function raises one strobe before it lowers the other, and that a reset *)
(* only ever raises them.                                                  *)
(*                                                                         *)
(* Without resets the pins are the ports of the posedge before, so that    *)
(* the place in the call tells what the chip sees; that, the time a strobe *)
(* lasts and the charge of the bus make an access one atomic operation.    *)
(***************************************************************************)
EXTENDS HpiBus, SequenceTheorems, TLAPS

PortNames == {"reset", "cs", "r", "w", "address", "data", "load"}
OneAccess == [port : PortNames, value : Nat]

(* What is left to do is the end of the sequence of the call.              *)
TodoOK ==
  /\ call \in Calls \cup {InitCall}
  /\ todo \in Seq(OneAccess)
  /\ Len(todo) <= Len(Accesses(call))
  /\ \A i \in 1..Len(todo) : todo[i] = Accesses(call)[Len(Accesses(call)) - Len(todo) + i]

PortsType ==
  hpi \in [address : {0, DATA, ADDR}, data : Data, r : Bit, w : Bit, cs : Bit, reset : Bit]

(* The control lines when a call has k accesses left.                      *)
Lines(k, r, w, cs, reset) ==
  /\ call.op = "init" =>
       /\ (k <= 7 => r = 1) /\ (k <= 6 => w = 1) /\ (k = 0 => cs = 1)
       /\ (k = 2 => reset = 0) /\ (k <= 1 => reset = 1)
  /\ call.op = "write" =>
       /\ r = 1 /\ reset = 1
       /\ w = IF k \in 2..3 THEN 0 ELSE 1
       /\ cs = IF k \in 1..4 THEN 0 ELSE 1
  /\ call.op = "read" =>
       /\ w = 1 /\ reset = 1
       /\ r = IF k \in 2..3 THEN 0 ELSE 1
       /\ cs = IF k \in 1..4 THEN 0 ELSE 1

PortsOK ==
  /\ Lines(Len(todo), hpi.r, hpi.w, hpi.cs, hpi.reset)
  /\ call.op # "init" /\ Len(todo) <= 5 => hpi.address = call.port
  /\ call.op = "write" /\ Len(todo) <= 2 => hpi.data = call.data

Program == TodoOK /\ PortsType /\ PortsOK
-----------------------------------------------------------------------------
(* The three kinds of calls.                                               *)
LEMMA CallKinds ==
  ASSUME NEW c \in Calls \cup {InitCall}
  PROVE  /\ c.op \in {"init", "write", "read"}
         /\ c.op = "init" <=> c = InitCall
         /\ c.port \in {DATA, ADDR} /\ c.data \in Data
         /\ c.op = "read" => c.port = DATA
         /\ c.port \in Nat /\ c.data \in Nat
BY HpiAssumption DEF Calls, InitCall, HpiAssumption, Data

LEMMA StoreType ==
  ASSUME NEW p \in PortNames, NEW v \in Nat
  PROVE  Store(p, v) \in OneAccess
BY DEF Store, OneAccess

LEMMA AccessFields ==
  /\ \A p, v : Store(p, v).port = p /\ Store(p, v).value = v
  /\ Load.port = "load"
BY DEF Store, Load

LEMMA Places ==
  /\ \A n \in 1..10 : n \in {1, 2, 3, 4, 5, 6, 7, 8, 9, 10}
  /\ \A n \in 1..7 : n \in {1, 2, 3, 4, 5, 6, 7}
OBVIOUS

(* The accesses of each function, one by one.                              *)
LEMMA InitAccesses ==
  /\ IO_init \in Seq(OneAccess) /\ Len(IO_init) = 10
  /\ IO_init[1] = Store("reset", 1) /\ IO_init[2] = Store("cs", 1)
  /\ IO_init[3] = Store("r", 1) /\ IO_init[4] = Store("w", 1)
  /\ IO_init[5] = Store("address", 0) /\ IO_init[6] = Store("data", 0)
  /\ IO_init[7] = Store("cs", 0) /\ IO_init[8] = Store("reset", 0)
  /\ IO_init[9] = Store("reset", 1) /\ IO_init[10] = Store("cs", 1)
<1>1. /\ Store("reset", 1) \in OneAccess /\ Store("reset", 0) \in OneAccess
      /\ Store("cs", 1) \in OneAccess /\ Store("cs", 0) \in OneAccess
      /\ Store("r", 1) \in OneAccess /\ Store("w", 1) \in OneAccess
      /\ Store("address", 0) \in OneAccess /\ Store("data", 0) \in OneAccess
  BY StoreType DEF PortNames
<1>2. IO_init \in Seq(OneAccess) /\ Len(IO_init) = 10
  BY <1>1 DEF IO_init
<1> QED
  BY <1>2 DEF IO_init

LEMMA WriteAccesses ==
  ASSUME NEW a \in Nat, NEW d \in Nat
  PROVE  LET s == IO_write(a, d)
         IN  /\ s \in Seq(OneAccess) /\ Len(s) = 7
             /\ s[1] = Store("r", 1) /\ s[2] = Store("address", a) /\ s[3] = Store("cs", 0)
             /\ s[4] = Store("w", 0) /\ s[5] = Store("data", d) /\ s[6] = Store("w", 1)
             /\ s[7] = Store("cs", 1)
<1>1. /\ Store("r", 1) \in OneAccess /\ Store("address", a) \in OneAccess
      /\ Store("cs", 0) \in OneAccess /\ Store("w", 0) \in OneAccess
      /\ Store("data", d) \in OneAccess /\ Store("w", 1) \in OneAccess
      /\ Store("cs", 1) \in OneAccess
  BY StoreType DEF PortNames
<1>2. IO_write(a, d) \in Seq(OneAccess) /\ Len(IO_write(a, d)) = 7
  BY <1>1 DEF IO_write
<1> QED
  BY <1>2 DEF IO_write

LEMMA ReadAccesses ==
  ASSUME NEW a \in Nat
  PROVE  LET s == IO_read(a)
         IN  /\ s \in Seq(OneAccess) /\ Len(s) = 7
             /\ s[1] = Store("w", 1) /\ s[2] = Store("address", a) /\ s[3] = Store("cs", 0)
             /\ s[4] = Store("r", 0) /\ s[5] = Load /\ s[6] = Store("r", 1)
             /\ s[7] = Store("cs", 1)
<1>1. /\ Store("w", 1) \in OneAccess /\ Store("address", a) \in OneAccess
      /\ Store("cs", 0) \in OneAccess /\ Store("r", 0) \in OneAccess
      /\ Load \in OneAccess /\ Store("r", 1) \in OneAccess
      /\ Store("cs", 1) \in OneAccess
  BY StoreType DEF PortNames, Load, OneAccess
<1>2. IO_read(a) \in Seq(OneAccess) /\ Len(IO_read(a)) = 7
  BY <1>1 DEF IO_read
<1> QED
  BY <1>2 DEF IO_read

LEMMA AccessesLength ==
  ASSUME NEW c \in Calls \cup {InitCall}
  PROVE  /\ Accesses(c) \in Seq(OneAccess)
         /\ Len(Accesses(c)) = IF c.op = "init" THEN 10 ELSE 7
<1>1. /\ c.op \in {"init", "write", "read"}
      /\ c.port \in Nat /\ c.data \in Nat
  BY CallKinds
<1>2. CASE c.op = "init"
  BY <1>2, InitAccesses DEF Accesses
<1>3. CASE c.op = "write"
  BY <1>1, <1>3, WriteAccesses DEF Accesses
<1>4. CASE c.op = "read"
  BY <1>1, <1>4, ReadAccesses DEF Accesses
<1> QED
  BY <1>1, <1>2, <1>3, <1>4

(* Which access comes next.                                                *)
LEMMA NextAccess ==
  ASSUME TodoOK, todo # <<>>
  PROVE  /\ Head(todo) = Accesses(call)[Len(Accesses(call)) - Len(todo) + 1]
         /\ Len(todo) \in 1..10 /\ Len(todo) <= Len(Accesses(call))
         /\ Tail(todo) \in Seq(OneAccess) /\ Len(Tail(todo)) = Len(todo) - 1
<1>1. todo \in Seq(OneAccess) /\ call \in Calls \cup {InitCall} /\ Len(todo) <= Len(Accesses(call))
  BY DEF TodoOK
<1>2. Len(Accesses(call)) = 7 \/ Len(Accesses(call)) = 10
  BY <1>1, AccessesLength
<1>3. Len(todo) \in 1..10
  <2> DEFINE l == Len(todo)
             m == Len(Accesses(call))
  <2>1. l \in Nat /\ l # 0
    BY <1>1, EmptySeq
  <2>2. l <= m /\ (m = 7 \/ m = 10)
    BY <1>1, <1>2
  <2> HIDE DEF l, m
  <2>3. l \in 1..10
    BY <2>1, <2>2
  <2> QED
    BY <2>3 DEF l
<1>4. Head(todo) = todo[1] /\ Tail(todo) \in Seq(OneAccess) /\ Len(Tail(todo)) = Len(todo) - 1
  BY <1>1, HeadTailProperties
<1>5. todo[1] = Accesses(call)[Len(Accesses(call)) - Len(todo) + 1]
  BY <1>3 DEF TodoOK
<1> QED
  BY <1>1, <1>3, <1>4, <1>5

LEMMA InitAccess ==
  ASSUME TodoOK, todo # <<>>, call.op = "init"
  PROVE  LET a == Head(todo)
             l == Len(todo)
         IN  /\ l \in 1..10
             /\ l = 10 => a = Store("reset", 1)
             /\ l = 9 => a = Store("cs", 1)
             /\ l = 8 => a = Store("r", 1)
             /\ l = 7 => a = Store("w", 1)
             /\ l = 6 => a = Store("address", 0)
             /\ l = 5 => a = Store("data", 0)
             /\ l = 4 => a = Store("cs", 0)
             /\ l = 3 => a = Store("reset", 0)
             /\ l = 2 => a = Store("reset", 1)
             /\ l = 1 => a = Store("cs", 1)
<1> DEFINE l == Len(todo)
           a == Head(todo)
           s == IO_init
<1>1. Accesses(call) = s /\ Len(s) = 10
  BY InitAccesses DEF Accesses
<1>2. l \in 1..10 /\ a = s[Len(s) - l + 1]
  BY <1>1, NextAccess
<1> HIDE DEF l, a, s
<1>3. a = s[10 - l + 1]
  BY <1>1, <1>2
<1>4. /\ l = 10 => a = s[1]
      /\ l = 9 => a = s[2]
      /\ l = 8 => a = s[3]
      /\ l = 7 => a = s[4]
      /\ l = 6 => a = s[5]
      /\ l = 5 => a = s[6]
      /\ l = 4 => a = s[7]
      /\ l = 3 => a = s[8]
      /\ l = 2 => a = s[9]
      /\ l = 1 => a = s[10]
  BY <1>2, <1>3
<1> QED
  BY <1>2, <1>4, InitAccesses DEF l, a, s

LEMMA WriteAccess ==
  ASSUME TodoOK, todo # <<>>, call.op = "write"
  PROVE  LET a == Head(todo)
             l == Len(todo)
         IN  /\ l \in 1..7
             /\ l = 7 => a = Store("r", 1)
             /\ l = 6 => a = Store("address", call.port)
             /\ l = 5 => a = Store("cs", 0)
             /\ l = 4 => a = Store("w", 0)
             /\ l = 3 => a = Store("data", call.data)
             /\ l = 2 => a = Store("w", 1)
             /\ l = 1 => a = Store("cs", 1)
<1> DEFINE l == Len(todo)
           a == Head(todo)
           s == IO_write(call.port, call.data)
<1>0. call.port \in Nat /\ call.data \in Nat
  BY CallKinds DEF TodoOK
<1>1. Accesses(call) = s /\ Len(s) = 7
  BY <1>0, WriteAccesses DEF Accesses
<1>2. l \in 1..10 /\ l <= Len(s) /\ a = s[Len(s) - l + 1]
  BY <1>1, NextAccess
<1> HIDE DEF l, a, s
<1>3. l \in 1..7 /\ a = s[7 - l + 1]
  BY <1>1, <1>2
<1>4. /\ l = 7 => a = s[1]
      /\ l = 6 => a = s[2]
      /\ l = 5 => a = s[3]
      /\ l = 4 => a = s[4]
      /\ l = 3 => a = s[5]
      /\ l = 2 => a = s[6]
      /\ l = 1 => a = s[7]
  BY <1>3
<1> QED
  BY <1>0, <1>3, <1>4, WriteAccesses DEF l, a, s

LEMMA ReadAccess ==
  ASSUME TodoOK, todo # <<>>, call.op = "read"
  PROVE  LET a == Head(todo)
             l == Len(todo)
         IN  /\ l \in 1..7
             /\ l = 7 => a = Store("w", 1)
             /\ l = 6 => a = Store("address", call.port)
             /\ l = 5 => a = Store("cs", 0)
             /\ l = 4 => a = Store("r", 0)
             /\ l = 3 => a = Load
             /\ l = 2 => a = Store("r", 1)
             /\ l = 1 => a = Store("cs", 1)
<1> DEFINE l == Len(todo)
           a == Head(todo)
           s == IO_read(call.port)
<1>0. call.port \in Nat
  BY CallKinds DEF TodoOK
<1>1. Accesses(call) = s /\ Len(s) = 7
  BY <1>0, ReadAccesses DEF Accesses
<1>2. l \in 1..10 /\ l <= Len(s) /\ a = s[Len(s) - l + 1]
  BY <1>1, NextAccess
<1> HIDE DEF l, a, s
<1>3. l \in 1..7 /\ a = s[7 - l + 1]
  BY <1>1, <1>2
<1>4. /\ l = 7 => a = s[1]
      /\ l = 6 => a = s[2]
      /\ l = 5 => a = s[3]
      /\ l = 4 => a = s[4]
      /\ l = 3 => a = s[5]
      /\ l = 2 => a = s[6]
      /\ l = 1 => a = s[7]
  BY <1>3
<1> QED
  BY <1>0, <1>3, <1>4, ReadAccesses DEF l, a, s

(* An access made leaves the rest of the sequence.                         *)
LEMMA TodoAdvances ==
  ASSUME TodoOK, todo # <<>>, todo' = Tail(todo), UNCHANGED call
  PROVE  TodoOK'
<1>1. /\ Tail(todo) \in Seq(OneAccess) /\ Len(Tail(todo)) = Len(todo) - 1
      /\ Len(todo) \in 1..10
  BY NextAccess
<1>2. ASSUME NEW i \in 1..Len(Tail(todo))
      PROVE  Tail(todo)[i] = todo[i + 1] /\ i + 1 \in 1..Len(todo)
  BY <1>1, <1>2 DEF TodoOK
<1>3. Len(Accesses(call)) \in Nat
  BY AccessesLength DEF TodoOK
<1>4. ASSUME NEW i \in 1..Len(Tail(todo))
      PROVE  Tail(todo)[i] = Accesses(call)[Len(Accesses(call)) - Len(Tail(todo)) + i]
  <2>1. todo[i + 1] = Accesses(call)[Len(Accesses(call)) - Len(todo) + (i + 1)]
    BY <1>2 DEF TodoOK
  <2>2. Len(Accesses(call)) - Len(todo) + (i + 1) = Len(Accesses(call)) - Len(Tail(todo)) + i
    BY <1>1, <1>3
  <2> QED
    BY <1>2, <2>1, <2>2
<1> QED
  BY <1>1, <1>3, <1>4 DEF TodoOK, Accesses
-----------------------------------------------------------------------------
(* What the program does to its ports.                                     *)
LEMMA StoreProgram ==
  ASSUME Program, MakeStore
  PROVE  /\ Program' /\ call' = call /\ Len(todo) >= 1 /\ Len(todo') = Len(todo) - 1
         /\ hpi'.address # hpi.address => hpi.r = 1 /\ hpi.w = 1
<1> DEFINE a == Head(todo)
           l == Len(todo)
<1>1. /\ todo # <<>> /\ todo' = Tail(todo) /\ call' = call /\ a # Load
      /\ hpi' = [hpi EXCEPT ![a.port] = a.value]
  BY DEF MakeStore, Due
<1>2. TodoOK'
  BY <1>1, TodoAdvances DEF Program
<1>3. l \in 1..10 /\ Len(todo') = l - 1
  BY <1>1, NextAccess DEF Program
<1>4. /\ call.op \in {"init", "write", "read"}
      /\ call.port \in {DATA, ADDR} /\ call.data \in Data
      /\ 0 \in Data
  BY CallKinds, HpiAssumption DEF Program, TodoOK, Data, HpiAssumption
<1>5. ASSUME NEW p \in {"address", "data", "r", "w", "cs", "reset"}, NEW v, a = Store(p, v)
      PROVE  /\ hpi'.address = IF p = "address" THEN v ELSE hpi.address
             /\ hpi'.data = IF p = "data" THEN v ELSE hpi.data
             /\ hpi'.r = IF p = "r" THEN v ELSE hpi.r
             /\ hpi'.w = IF p = "w" THEN v ELSE hpi.w
             /\ hpi'.cs = IF p = "cs" THEN v ELSE hpi.cs
             /\ hpi'.reset = IF p = "reset" THEN v ELSE hpi.reset
             /\ (/\ p = "address" => v \in {0, DATA, ADDR}
                 /\ p = "data" => v \in Data
                 /\ p \notin {"address", "data"} => v \in Bit) => PortsType'
  <2>1. a.port = p /\ a.value = v
    BY <1>5, AccessFields
  <2> QED
    BY <1>1, <1>5, <2>1 DEF Program, PortsType
<1> HIDE DEF a
<1>6. CASE call.op = "init"
  <2>1. /\ l = 10 => a = Store("reset", 1)
        /\ l = 9 => a = Store("cs", 1)
        /\ l = 8 => a = Store("r", 1)
        /\ l = 7 => a = Store("w", 1)
        /\ l = 6 => a = Store("address", 0)
        /\ l = 5 => a = Store("data", 0)
        /\ l = 4 => a = Store("cs", 0)
        /\ l = 3 => a = Store("reset", 0)
        /\ l = 2 => a = Store("reset", 1)
        /\ l = 1 => a = Store("cs", 1)
    BY <1>1, <1>6, InitAccess DEF Program, a
  <2>2. l \in {1, 2, 3, 4, 5, 6, 7, 8, 9, 10}
    BY <1>3, Places
  <2>3. PortsType'
    BY <1>4, <1>5, <2>1, <2>2 DEF Bit
  <2>4. Lines(l, hpi.r, hpi.w, hpi.cs, hpi.reset)
    BY DEF Program, PortsOK
  <2> HIDE DEF l
  <2>5. /\ l - 1 <= 7 => hpi'.r = 1
        /\ l - 1 <= 6 => hpi'.w = 1
        /\ l - 1 = 0 => hpi'.cs = 1
        /\ l - 1 = 2 => hpi'.reset = 0
        /\ l - 1 <= 1 => hpi'.reset = 1
        /\ hpi'.address # hpi.address => hpi.r = 1 /\ hpi.w = 1
    BY <1>5, <1>6, <2>1, <2>2, <2>4 DEF Lines
  <2> QED
    BY <1>1, <1>2, <1>3, <1>6, <2>3, <2>5 DEF Program, PortsOK, Lines, l
<1>7. CASE call.op = "write"
  <2>1. /\ l \in 1..7
        /\ l = 7 => a = Store("r", 1)
        /\ l = 6 => a = Store("address", call.port)
        /\ l = 5 => a = Store("cs", 0)
        /\ l = 4 => a = Store("w", 0)
        /\ l = 3 => a = Store("data", call.data)
        /\ l = 2 => a = Store("w", 1)
        /\ l = 1 => a = Store("cs", 1)
    BY <1>1, <1>7, WriteAccess DEF Program, a
  <2>2. l \in {1, 2, 3, 4, 5, 6, 7}
    BY <2>1
  <2>3. PortsType'
    BY <1>4, <1>5, <2>1, <2>2 DEF Bit
  <2>4. /\ Lines(l, hpi.r, hpi.w, hpi.cs, hpi.reset)
        /\ l <= 5 => hpi.address = call.port
        /\ l <= 2 => hpi.data = call.data
    BY <1>7 DEF Program, PortsOK
  <2> HIDE DEF l
  <2>5. /\ hpi'.r = 1 /\ hpi'.reset = 1
        /\ hpi'.w = IF l - 1 \in 2..3 THEN 0 ELSE 1
        /\ hpi'.cs = IF l - 1 \in 1..4 THEN 0 ELSE 1
        /\ l - 1 <= 5 => hpi'.address = call.port
        /\ l - 1 <= 2 => hpi'.data = call.data
        /\ hpi'.address # hpi.address => hpi.r = 1 /\ hpi.w = 1
    BY <1>5, <1>7, <2>1, <2>2, <2>4 DEF Lines
  <2> QED
    BY <1>1, <1>2, <1>3, <1>7, <2>3, <2>5 DEF Program, PortsOK, Lines, l
<1>8. CASE call.op = "read"
  <2>1. /\ l \in 1..7
        /\ l = 7 => a = Store("w", 1)
        /\ l = 6 => a = Store("address", call.port)
        /\ l = 5 => a = Store("cs", 0)
        /\ l = 4 => a = Store("r", 0)
        /\ l # 3
        /\ l = 2 => a = Store("r", 1)
        /\ l = 1 => a = Store("cs", 1)
    BY <1>1, <1>8, ReadAccess DEF Program, a
  <2>2. l \in {1, 2, 4, 5, 6, 7}
    BY <2>1
  <2>3. PortsType'
    BY <1>4, <1>5, <2>1, <2>2 DEF Bit
  <2>4. /\ Lines(l, hpi.r, hpi.w, hpi.cs, hpi.reset)
        /\ l <= 5 => hpi.address = call.port
    BY <1>8 DEF Program, PortsOK
  <2> HIDE DEF l
  <2>5. /\ hpi'.w = 1 /\ hpi'.reset = 1
        /\ hpi'.r = IF l - 1 \in 2..3 THEN 0 ELSE 1
        /\ hpi'.cs = IF l - 1 \in 1..4 THEN 0 ELSE 1
        /\ l - 1 <= 5 => hpi'.address = call.port
        /\ hpi'.address # hpi.address => hpi.r = 1 /\ hpi.w = 1
    BY <1>5, <1>8, <2>1, <2>2, <2>4 DEF Lines
  <2>6. PortsOK'
    <3>1. call'.op = "read" /\ call'.port = call.port /\ Len(todo') = l - 1
      BY <1>1, <1>3, <1>8 DEF l
    <3> QED
      BY <2>5, <3>1 DEF PortsOK, Lines
  <2> QED
    BY <1>1, <1>2, <1>3, <2>3, <2>5, <2>6 DEF Program, l
<1> QED
  BY <1>1, <1>3, <1>4, <1>6, <1>7, <1>8

(* Only IO_read loads, with its strobe low and four accesses made.         *)
LEMMA LoadProgram ==
  ASSUME Program, MakeLoad
  PROVE  /\ Program' /\ UNCHANGED <<hpi, call>>
         /\ call.op = "read" /\ Len(todo) = 3 /\ Len(todo') = 2
<1>1. /\ todo # <<>> /\ todo' = Tail(todo) /\ UNCHANGED <<hpi, call>> /\ Head(todo) = Load
  BY DEF MakeLoad, Due
<1>2. TodoOK' /\ PortsType'
  BY <1>1, TodoAdvances DEF Program, PortsType
<1>3. Len(todo) \in 1..10 /\ Len(todo') = Len(todo) - 1
  BY <1>1, NextAccess DEF Program
<1>4. call.op = "read" /\ Len(todo) = 3
  <2> DEFINE l == Len(todo)
             a == Head(todo)
  <2>1. call.op \in {"init", "write", "read"}
    BY CallKinds DEF Program, TodoOK
  <2>2. \A p \in PortNames \ {"load"} : \A v : a # Store(p, v)
    BY <1>1, AccessFields
  <2>3. call.op # "init"
    <3> SUFFICES ASSUME call.op = "init" PROVE FALSE
      OBVIOUS
    <3>1. l \in {1, 2, 3, 4, 5, 6, 7, 8, 9, 10}
      BY <1>3, Places
    <3> QED
      BY <1>1, <2>2, <3>1, InitAccess DEF Program, PortNames
  <2>4. call.op # "write"
    <3> SUFFICES ASSUME call.op = "write" PROVE FALSE
      OBVIOUS
    <3>1. l \in {1, 2, 3, 4, 5, 6, 7}
      BY <1>1, WriteAccess DEF Program
    <3> QED
      BY <1>1, <2>2, <3>1, WriteAccess DEF Program, PortNames
  <2>5. call.op = "read" => l = 3
    <3> SUFFICES ASSUME call.op = "read" PROVE l = 3
      OBVIOUS
    <3>1. l \in {1, 2, 3, 4, 5, 6, 7}
      BY <1>1, ReadAccess DEF Program
    <3> QED
      BY <1>1, <2>2, <3>1, ReadAccess DEF Program, PortNames
  <2> QED
    BY <2>1, <2>3, <2>4, <2>5
<1> QED
  BY <1>1, <1>2, <1>3, <1>4 DEF Program, PortsOK, Lines

(* Between two calls every control line is up.                             *)
LEMMA BeginProgram ==
  ASSUME Program, BeginCall
  PROVE  /\ Program' /\ UNCHANGED hpi
         /\ Len(todo) = 0 /\ Len(todo') = 7 /\ call'.op \in {"write", "read"}
         /\ hpi.r = 1 /\ hpi.w = 1 /\ hpi.cs = 1 /\ hpi.reset = 1
<1>1. /\ todo = <<>> /\ call' \in Calls /\ todo' = Accesses(call') /\ UNCHANGED hpi
      /\ Len(todo) = 0
  BY DEF BeginCall
<1>2. call'.op \in {"write", "read"}
  BY <1>1 DEF Calls
<1>3. /\ Accesses(call') \in Seq(OneAccess) /\ Len(Accesses(call')) = 7
      /\ call' \in Calls \cup {InitCall}
  BY <1>1, <1>2, AccessesLength
<1>4. TodoOK'
  <2>1. \A i \in 1..7 : 7 - 7 + i = i
    OBVIOUS
  <2>2. Accesses(call)' = Accesses(call')
    BY DEF Accesses
  <2>3. \A i \in 1..Len(todo') : todo'[i] = Accesses(call')[Len(Accesses(call')) - Len(todo') + i]
    BY <1>1, <1>3, <2>1
  <2> QED
    BY <1>1, <1>3, <2>2, <2>3 DEF TodoOK
<1>5. hpi.r = 1 /\ hpi.w = 1 /\ hpi.cs = 1 /\ hpi.reset = 1
  <2>1. call.op \in {"init", "write", "read"}
    BY CallKinds DEF Program, TodoOK
  <2> QED
    BY <1>1, <2>1 DEF Program, PortsOK, Lines
<1>6. Len(todo') = 7
  BY <1>1, <1>3
<1> QED
  BY <1>1, <1>2, <1>4, <1>5, <1>6 DEF Program, PortsType, PortsOK, Lines

LEMMA IdleProgram ==
  ASSUME Program, UNCHANGED <<hpi, call, todo>>
  PROVE  Program'
BY DEF Program, TodoOK, PortsType, PortsOK, Lines, Accesses

LEMMA InitProgram == Init => Program
<1> SUFFICES ASSUME Init PROVE Program
  OBVIOUS
<1>1. /\ call = InitCall /\ todo = IO_init
      /\ hpi = [address |-> 0, data |-> 0, r |-> 0, w |-> 0, cs |-> 0, reset |-> 0]
  BY DEF Init
<1>2. Accesses(call) = IO_init /\ call.op = "init"
  BY <1>1 DEF Accesses, InitCall
<1>3. Len(todo) = 10 /\ todo \in Seq(OneAccess)
  BY <1>1, InitAccesses
<1>4. TodoOK
  <2>1. \A i \in 1..10 : 10 - 10 + i = i
    OBVIOUS
  <2> QED
    BY <1>1, <1>2, <1>3, <2>1 DEF TodoOK
<1>5. PortsType
  BY <1>1, HpiAssumption DEF PortsType, Bit, Data, HpiAssumption
<1> QED
  BY <1>2, <1>3, <1>4, <1>5 DEF Program, PortsOK, Lines

LEMMA ProgramStep ==
  ASSUME Program, MakeStore \/ MakeLoad \/ BeginCall \/ Wait
  PROVE  /\ Program'
         /\ hpi'.address # hpi.address => hpi.r = 1 /\ hpi.w = 1
         /\ call'.op = "write" => hpi.r = 1
<1>1. call.op = "write" => hpi.r = 1
  BY DEF Program, PortsOK, Lines
<1>2. CASE MakeStore
  BY <1>1, <1>2, StoreProgram
<1>3. CASE MakeLoad
  BY <1>1, <1>3, LoadProgram
<1>4. CASE BeginCall
  BY <1>1, <1>4, BeginProgram
<1>5. CASE Wait
  <2>1. UNCHANGED <<hpi, call, todo>>
    BY <1>5 DEF Wait
  <2> QED
    BY <1>1, <2>1, IdleProgram
<1> QED
  BY <1>2, <1>3, <1>4, <1>5
-----------------------------------------------------------------------------
ChipType ==
  /\ otg \in [ADDR : {0, DATA, ADDR}, RD_N : Bit, WR_N : Bit, CS_N : Bit, RST_N : Bit,
              from_sw_data_in : Data \cup {HighZ}, from_sw_data_out_buffer : Data]
  /\ mem \in [Data -> Data] /\ ptr \in Data
  /\ strobe \in 0..Access /\ charge \in Data \cup {HighZ}
  /\ since \in 0..Cap /\ played \in BOOLEAN /\ (~played => since = Cap)

LocalType == age \in 0..Gap /\ temp \in Data \cup {HighZ}

(* What the chip is told while a strobe is low: the address does not move, *)
(* and there is something on the bus for it to take.                       *)
AddressOK == Writing \/ Reading => otg.ADDR = hpi.address
ChargeOK  == Writing => charge \in Data

PinsOK == call.op # "init" /\ hpi.w = 0 => otg.RD_N = 1

IInv == Program /\ LocalType /\ ChipType /\ AddressOK /\ ChargeOK /\ PinsOK

(* What is on the bus.                                                     *)
LEMMA BusLevel ==
  /\ FpgaDrives => OTG_DATA = hpi.data
  /\ ~FpgaDrives /\ ChipDrives => OTG_DATA = mem[ptr]
  /\ ~FpgaDrives /\ ~ChipDrives => OTG_DATA = HighZ
BY Zenon DEF OTG_DATA

LEMMA BusType ==
  ASSUME PortsType, ChipType
  PROVE  /\ OTG_DATA \in Data \cup {HighZ}
         /\ ChargeOK /\ Writing => Latched \in Data
<1>1. hpi.data \in Data /\ mem[ptr] \in Data
  BY DEF PortsType, ChipType
<1>2. OTG_DATA \in Data \cup {HighZ}
  BY <1>1, BusLevel
<1> QED
  BY <1>1, <1>2 DEF Latched, ChargeOK

(* What the chip does with it.                                             *)
LEMMA ChipMoves ==
  ASSUME Chip
  PROVE  /\ charge' = OTG_DATA
         /\ ~Reading => strobe' = 0
         /\ Reading => strobe' = IF strobe < Access THEN strobe + 1 ELSE strobe
         /\ mem' = IF WriteEnds(DATA) THEN [mem EXCEPT ![ptr] = Latched] ELSE mem
         /\ otg'.RST_N = 0 => ptr' = 0
         /\ otg'.RST_N = 1 /\ WriteEnds(ADDR) => ptr' = Latched
         /\ otg'.RST_N = 1 /\ ~WriteEnds(ADDR) /\ (WriteEnds(DATA) \/ ReadEnds(DATA)) =>
              ptr' = (ptr + 1) % Size
         /\ otg'.RST_N = 1 /\ ~WriteEnds(ADDR) /\ ~(WriteEnds(DATA) \/ ReadEnds(DATA)) =>
              ptr' = ptr
<1> DEFINE mute == ~Reading
           early == Reading /\ strobe < Access
           next == strobe + 1
           down == otg'.RST_N = 0
           up == otg'.RST_N = 1
           address == WriteEnds(ADDR)
           other == WriteEnds(DATA) \/ ReadEnds(DATA)
           more == (ptr + 1) % Size
<1>1. charge' = OTG_DATA /\ mem' = IF WriteEnds(DATA) THEN [mem EXCEPT ![ptr] = Latched] ELSE mem
  BY DEF Chip
<1>2. strobe' = CASE mute -> 0 [] early -> next [] OTHER -> strobe
  BY DEF Chip
<1>3. ptr' = CASE down -> 0 [] up /\ address -> Latched [] up /\ other -> more [] OTHER -> ptr
  BY DEF Chip
<1>4. (down => ~up) /\ (early => ~mute)
  OBVIOUS
<1>11. address => ~other
  BY HpiAssumption DEF HpiAssumption, WriteEnds, ReadEnds
<1> HIDE DEF mute, early, next, down, up, address, other, more
<1>5. mute => strobe' = 0
  BY <1>2, <1>4, Zenon
<1>6. ~mute => strobe' = IF early THEN next ELSE strobe
  <2>1. CASE mute
    BY <2>1
  <2>2. ASSUME ~mute, early PROVE strobe' = next
    BY <1>2, <2>2, Zenon
  <2>3. ASSUME ~mute, ~early PROVE strobe' = strobe
    BY <1>2, <2>3, Zenon
  <2> QED
    BY <2>1, <2>2, <2>3
<1>7. down => ptr' = 0
  BY <1>3, <1>4, <1>11, Zenon
<1>8. up /\ address => ptr' = Latched
  BY <1>3, <1>4, <1>11, Zenon
<1>9. up /\ ~address /\ other => ptr' = more
  BY <1>3, <1>4, <1>11, Zenon
<1>10. up /\ ~address /\ ~other => ptr' = ptr
  BY <1>3, <1>4, <1>11, Zenon
<1> QED
  BY <1>1, <1>5, <1>6, <1>7, <1>8, <1>9, <1>10 DEF mute, early, next, down, up, address, other, more

(* What hpi_io_intf puts on the pins.                                      *)
LEMMA PinsMove ==
  ASSUME Posedge
  PROVE  /\ otg'.ADDR = IF Reset_h THEN 0 ELSE hpi.address
         /\ otg'.RD_N = IF Reset_h THEN 1 ELSE hpi.r
         /\ otg'.WR_N = IF Reset_h THEN 1 ELSE hpi.w
         /\ otg'.CS_N = IF Reset_h THEN 1 ELSE hpi.cs
         /\ otg'.RST_N = IF Reset_h THEN 1 ELSE hpi.reset
         /\ otg'.from_sw_data_in = IF Reset_h THEN 0 ELSE OTG_DATA
         /\ otg'.from_sw_data_out_buffer = IF Reset_h THEN 0 ELSE hpi.data
BY DEF Posedge, Interface

LEMMA ChipTypeStep ==
  ASSUME PortsType, ChipType, ChargeOK, Posedge
  PROVE  ChipType'
<1>1. 0 \in Data /\ Size \in Nat \ {0} /\ Access \in Nat /\ Cap \in Nat /\ Starts \subseteq 0..Cap
  BY HpiAssumption DEF HpiAssumption, Data
<1>2. OTG_DATA \in Data \cup {HighZ}
  BY BusType
<1>3. otg' \in [ADDR : {0, DATA, ADDR}, RD_N : Bit, WR_N : Bit, CS_N : Bit, RST_N : Bit,
                from_sw_data_in : Data \cup {HighZ}, from_sw_data_out_buffer : Data]
  BY <1>1, <1>2 DEF Posedge, Interface, PortsType, Bit
<1>4. Chip
  BY DEF Posedge
<1>5. mem' \in [Data -> Data] /\ charge' \in Data \cup {HighZ}
  <2>1. WriteEnds(DATA) => Latched \in Data
    BY BusType DEF WriteEnds
  <2> QED
    BY <1>2, <1>4, <2>1, ChipMoves DEF ChipType
<1>6. strobe' \in 0..Access
  <2> DEFINE deaf == ~Reading
  <2>1. /\ deaf => strobe' = 0
        /\ ~deaf => strobe' = IF strobe < Access THEN strobe + 1 ELSE strobe
    BY <1>4, ChipMoves
  <2> HIDE DEF deaf
  <2> QED
    BY <1>1, <2>1 DEF ChipType
<1>7. ptr' \in Data
  <2>1. WriteEnds(ADDR) => Latched \in Data
    BY BusType DEF WriteEnds
  <2>2. (ptr + 1) % Size \in Data
    BY <1>1 DEF ChipType, Data
  <2>3. otg'.RST_N = 0 \/ otg'.RST_N = 1
    BY <1>3 DEF Bit
  <2> QED
    BY <1>1, <1>4, <2>1, <2>2, <2>3, ChipMoves DEF ChipType
<1>8. since' \in 0..Cap /\ played' \in BOOLEAN /\ (~played' => since' = Cap)
  <2>1. CASE played /\ since' = 0
    BY <1>1, <2>1 DEF Posedge, ChipType
  <2>2. CASE since' = IF since < Cap THEN since + 1 ELSE since
    <3>1. since' \in 0..Cap /\ (since = Cap => since' = Cap)
      BY <1>1, <2>2 DEF ChipType
    <3> QED
      BY <3>1 DEF Posedge, ChipType
  <2> QED
    BY <2>1, <2>2 DEF Posedge, NextReset
<1> QED
  BY <1>3, <1>5, <1>6, <1>7, <1>8 DEF ChipType

Step == MakeStore \/ MakeLoad \/ BeginCall \/ Wait

LEMMA Moves == Next => Posedge /\ Step
BY DEF Next, Step

LEMMA InvStep ==
  ASSUME IInv, [Next]_vars
  PROVE  IInv'
<1>1. ASSUME Posedge, Step
      PROVE  IInv'
  <2>1. /\ Program'
        /\ hpi'.address # hpi.address => hpi.r = 1 /\ hpi.w = 1
        /\ call'.op = "write" => hpi.r = 1
    BY <1>1, ProgramStep DEF IInv, Step
  <2>2. ChipType'
    BY <1>1, ChipTypeStep DEF IInv, Program
  <2>3. LocalType'
    BY <1>1, HpiAssumption
       DEF IInv, Program, LocalType, ChipType, Step, MakeStore, MakeLoad, BeginCall, Wait, HpiAssumption
  <2>4. AddressOK' /\ ChargeOK'
    <3>1. ASSUME Writing' \/ Reading'
          PROVE  ~Reset_h /\ otg'.ADDR = hpi'.address
      BY <1>1, <2>1, <3>1, PinsMove DEF Writing, Reading, Selected
    <3>2. ASSUME Writing'
          PROVE  charge' \in Data
      <4>1. FpgaDrives /\ charge' = OTG_DATA
        BY <1>1, <3>2, PinsMove, ChipMoves DEF Writing, Selected, FpgaDrives, Posedge
      <4> QED
        BY <4>1, BusLevel DEF IInv, Program, PortsType
    <3> QED
      BY <3>1, <3>2 DEF AddressOK, ChargeOK
  <2>5. PinsOK'
    <3> SUFFICES ASSUME call'.op # "init", hpi'.w = 0
                 PROVE  otg'.RD_N = 1
      BY DEF PinsOK
    <3>1. call'.op \in {"init", "write", "read"}
      BY <2>1, CallKinds DEF Program, TodoOK
    <3>2. call'.op = "write"
      BY <2>1, <3>1 DEF Program, PortsOK, Lines
    <3> QED
      BY <1>1, <2>1, <3>2, PinsMove
  <2> QED
    BY <2>1, <2>2, <2>3, <2>4, <2>5 DEF IInv
<1>2. CASE UNCHANGED vars
  <2>1. /\ UNCHANGED <<hpi, call, todo>> /\ UNCHANGED <<age, temp>>
        /\ UNCHANGED <<otg, mem, ptr, strobe, charge, since, played>>
    BY <1>2 DEF vars, swVars
  <2>2. Program'
    BY <2>1, IdleProgram DEF IInv
  <2> QED
    BY <2>1, <2>2 DEF IInv, LocalType, ChipType, AddressOK, ChargeOK, PinsOK, Writing, Reading, Selected
<1> QED
  BY <1>1, <1>2, Moves

LEMMA InitInv == Init => IInv
<1> SUFFICES ASSUME Init PROVE IInv
  OBVIOUS
<1>1. Program
  BY InitProgram
<1>2. LocalType /\ ChipType
  BY HpiAssumption DEF Init, LocalType, ChipType, Bit, Data, HpiAssumption
<1>3. AddressOK /\ ChargeOK
  BY DEF Init, AddressOK, ChargeOK, Writing, Reading, Selected
<1>4. PinsOK
  BY DEF Init, PinsOK, InitCall
<1> QED
  BY <1>1, <1>2, <1>3, <1>4 DEF IInv

LEMMA Inductive == Spec => []IInv
BY InitInv, InvStep, PTL DEF Spec

(* Ports, pins, memory and what is left of a call keep to their types:     *)
(* io_handler.c and hpi_io_intf.sv.                                        *)
THEOREM TypesHold == Spec => []TypeOK
<1>1. IInv => TypeOK
  <2> SUFFICES ASSUME IInv PROVE TypeOK
    OBVIOUS
  <2> DEFINE s == Accesses(call)
             n == Len(s) - Len(todo) + 1
  <2>1. /\ call \in Calls \cup {InitCall} /\ todo \in Seq(OneAccess)
        /\ Len(todo) <= Len(s)
        /\ \A i \in 1..Len(todo) : todo[i] = s[Len(s) - Len(todo) + i]
    BY DEF IInv, Program, TodoOK
  <2>2. s \in Seq(OneAccess) /\ Len(s) \in Nat /\ Len(todo) \in Nat
    BY <2>1, AccessesLength
  <2> HIDE DEF s
  <2>3. n \in 1..(Len(s) + 1) /\ Len(s) - n + 1 = Len(todo)
    BY <2>1, <2>2
  <2>4. todo = SubSeq(s, n, Len(s))
    BY <2>1, <2>2, <2>3
  <2>5. \E k \in 1..(Len(s) + 1) : todo = SubSeq(s, k, Len(s))
    BY <2>3, <2>4
  <2> QED
    BY <2>1, <2>5 DEF IInv, Program, PortsType, LocalType, ChipType, TypeOK, s
<1> QED
  BY <1>1, Inductive, PTL

(* After IO_init FPGA and chip never drive the bus at once: hpi_io_intf.sv *)
(* with io_handler.c, whatever resets come in between.                     *)
THEOREM OneDriver == Spec => []NoBusFight
<1>1. IInv => NoBusFight
  <2> SUFFICES ASSUME IInv, call # InitCall, hpi.w = 0, otg.RD_N = 0
               PROVE  FALSE
    BY DEF NoBusFight, FpgaDrives, ChipDrives, Reading
  <2>1. call.op # "init"
    BY CallKinds DEF IInv, Program, TodoOK
  <2> QED
    BY <2>1 DEF IInv, PinsOK
<1> QED
  BY <1>1, Inductive, PTL

(* The address pins do not move while the chip sees a strobe, neither by   *)
(* the program nor by a reset, which ends the strobe with them.            *)
THEOREM AddressHolds == Spec => AddressSteady
<1> DEFINE Steady == (Writing /\ Writing') \/ (Reading /\ Reading') => otg'.ADDR = otg.ADDR
<1>1. IInv /\ [Next]_vars => [Steady]_vars
  <2> SUFFICES ASSUME IInv, Posedge, (Writing /\ Writing') \/ (Reading /\ Reading')
               PROVE  otg'.ADDR = otg.ADDR
    BY Moves
  <2>1. otg.ADDR = hpi.address
    BY DEF IInv, AddressOK
  <2>2. otg'.ADDR = hpi.address
    BY PinsMove DEF Writing, Reading, Selected
  <2> QED
    BY <2>1, <2>2
<1> QED
  BY <1>1, Inductive, PTL DEF Spec, AddressSteady
-----------------------------------------------------------------------------
(* Without resets.  The place in the call that the pins show: the one of   *)
(* the posedge before.                                                     *)
Place == IF age = 0 THEN Len(todo) + 1 ELSE Len(todo)

PinLines ==
  /\ Lines(Place, otg.RD_N, otg.WR_N, otg.CS_N, otg.RST_N)
  /\ call.op # "init" /\ Place <= 5 => otg.ADDR = call.port

(* IO_init leaves the pointer at 0.  When a write strobe ends, the bus     *)
(* still holds what was written; while a read strobe is low the chip's     *)
(* answer comes nearer, reaches the register of hpi_io_intf before IO_read *)
(* looks there, and is in temp until the access is over.                   *)
AccessOK ==
  /\ call.op = "init" /\ Place <= 2 => ptr = 0
  /\ call.op = "write" /\ Len(todo) = 1 /\ age = 0 => charge = call.data
  /\ call.op = "read" /\ Len(todo) = 3 =>
       /\ age >= 1 => strobe = Access \/ strobe >= age - 1
       /\ age >= Access + 2 => otg.from_sw_data_in = mem[ptr]
  /\ call.op = "read" /\ Len(todo) <= 2 /\ Place >= 2 => temp = mem[ptr]

Undisturbed == ~played => PinLines /\ AccessOK
-----------------------------------------------------------------------------
LEMMA NoReset ==
  ASSUME IInv, ~played
  PROVE  ~Reset_h
BY HpiAssumption DEF IInv, ChipType, Reset_h, HpiAssumption

LEMMA LengthType ==
  ASSUME IInv
  PROVE  Len(todo) \in Nat /\ Len(todo) <= 10 /\ (call.op # "init" => Len(todo) <= 7)
<1>1. /\ Len(todo) \in Nat /\ Len(todo) <= Len(Accesses(call))
      /\ Len(Accesses(call)) = IF call.op = "init" THEN 10 ELSE 7
  BY AccessesLength DEF IInv, Program, TodoOK
<1> QED
  BY <1>1

(* How place and time move on.                                             *)
LEMMA PlaceMoves ==
  ASSUME IInv, Step
  PROVE  \/ BeginCall /\ Place' = 7 /\ Len(todo) = 0 /\ Place = 0 /\ age = Gap /\ age' = Gap
         \/ /\ call' = call /\ Place' = Len(todo)
            /\ \/ MakeStore \/ MakeLoad
               \/ /\ UNCHANGED <<hpi, todo, temp>> /\ age' = IF age < Gap THEN age + 1 ELSE age
<1>1. age \in 0..Gap /\ Gap \in Nat /\ Gap >= 2 /\ Len(todo) \in Nat
  BY LengthType, HpiAssumption DEF IInv, LocalType, HpiAssumption
<1>2. CASE MakeStore
  <2>1. call' = call /\ age' = 0 /\ Len(todo') = Len(todo) - 1
    BY <1>2, StoreProgram DEF IInv, MakeStore
  <2> QED
    BY <1>1, <1>2, <2>1 DEF Place
<1>3. CASE MakeLoad
  <2>1. call' = call /\ age' = 0 /\ Len(todo') = Len(todo) - 1
    BY <1>3, LoadProgram DEF IInv, MakeLoad
  <2> QED
    BY <1>1, <1>3, <2>1 DEF Place
<1>4. CASE BeginCall
  <2>1. age = Gap /\ age' = age /\ Len(todo) = 0 /\ Len(todo') = 7
    BY <1>4, BeginProgram DEF IInv, BeginCall
  <2> QED
    BY <1>1, <1>4, <2>1 DEF Place
<1>5. CASE Wait
  <2>1. /\ call' = call /\ UNCHANGED <<hpi, todo, temp>>
        /\ age' = IF age < Gap THEN age + 1 ELSE age
    BY <1>5 DEF Wait
  <2> QED
    BY <1>1, <2>1 DEF Place
<1> QED
  BY <1>2, <1>3, <1>4, <1>5 DEF Step

LEMMA PinLinesStep ==
  ASSUME IInv, ~played, Posedge, Step
  PROVE  PinLines'
<1>1. /\ otg'.ADDR = hpi.address /\ otg'.RD_N = hpi.r /\ otg'.WR_N = hpi.w
      /\ otg'.CS_N = hpi.cs /\ otg'.RST_N = hpi.reset
  BY NoReset, PinsMove
<1>2. CASE BeginCall /\ Place' = 7
  BY <1>1, <1>2, BeginProgram DEF IInv, PinLines, Lines
<1>3. CASE call' = call /\ Place' = Len(todo)
  BY <1>1, <1>3 DEF IInv, Program, PortsOK, PinLines, Lines
<1> QED
  BY <1>2, <1>3, PlaceMoves

(* A strobe ends on the posedge after the access that raised it, and then  *)
(* only.                                                                   *)
LEMMA StrobeEnds ==
  ASSUME IInv, ~played, PinLines, Posedge, Step, call.op = "init" => Place <= 6
  PROVE  /\ \A port : WriteEnds(port) <=>
              call.op = "write" /\ Len(todo) = 1 /\ age = 0 /\ port = call.port
         /\ \A port : ReadEnds(port) <=>
              call.op = "read" /\ Len(todo) = 1 /\ age = 0 /\ port = call.port
<1>1. call.op \in {"init", "write", "read"}
  BY CallKinds DEF IInv, Program, TodoOK
<1>2. /\ otg'.RD_N = hpi.r /\ otg'.WR_N = hpi.w
      /\ otg'.CS_N = hpi.cs /\ otg'.RST_N = hpi.reset
  BY NoReset, PinsMove
<1> DEFINE l == Len(todo)
           p == Place
<1>3. /\ Lines(p, otg.RD_N, otg.WR_N, otg.CS_N, otg.RST_N)
      /\ Lines(l, hpi.r, hpi.w, hpi.cs, hpi.reset)
      /\ call.op # "init" /\ p <= 5 => otg.ADDR = call.port
  BY DEF IInv, Program, PortsOK, PinLines
<1>4. l \in Nat /\ p = IF age = 0 THEN l + 1 ELSE l
  BY LengthType DEF Place
<1>5. call.op = "init" => p <= 6
  OBVIOUS
<1> HIDE DEF l, p
<1>6. /\ Writing <=> call.op = "write" /\ p \in 2..3
      /\ Reading <=> call.op = "read" /\ p \in 2..3
  BY <1>1, <1>3, <1>4, <1>5 DEF Lines, Writing, Reading, Selected
<1>7. /\ call.op = "write" => (Writing' <=> l \in 2..3)
      /\ call.op = "read" => (Reading' <=> l \in 2..3)
  BY <1>2, <1>3, <1>4 DEF Lines, Writing, Reading, Selected
<1>8. p \in 2..3 /\ l \notin 2..3 <=> l = 1 /\ age = 0
  BY <1>4
<1>9. p \in 2..3 /\ call.op # "init" => otg.ADDR = call.port
  BY <1>3, <1>4
<1> QED
  BY <1>6, <1>7, <1>8, <1>9 DEF WriteEnds, ReadEnds, l

(* What the end of a strobe does to the chip's memory, and nothing else.   *)
LEMMA MemoryStep ==
  ASSUME IInv, ~played, PinLines, AccessOK, Posedge, Step, call.op = "init" => Place <= 6
  PROVE  /\ call.op = "write" /\ Len(todo) = 1 /\ age = 0 /\ call.port = DATA =>
              mem' = [mem EXCEPT ![ptr] = call.data] /\ ptr' = (ptr + 1) % Size
         /\ call.op = "write" /\ Len(todo) = 1 /\ age = 0 /\ call.port = ADDR =>
              mem' = mem /\ ptr' = call.data
         /\ call.op = "read" /\ Len(todo) = 1 /\ age = 0 =>
              mem' = mem /\ ptr' = (ptr + 1) % Size
         /\ ~(call.op \in {"write", "read"} /\ Len(todo) = 1 /\ age = 0) =>
              mem' = mem /\ (hpi.reset = 1 => ptr' = ptr)
<1>1. /\ call.op \in {"init", "write", "read"} /\ call.port \in {DATA, ADDR}
      /\ call.op = "read" => call.port = DATA
      /\ DATA # ADDR
  BY CallKinds, HpiAssumption DEF IInv, Program, TodoOK, HpiAssumption
<1>2. otg'.RST_N = hpi.reset /\ Chip
  BY NoReset, PinsMove DEF Posedge
<1> DEFINE ends == Len(todo) = 1 /\ age = 0
<1>3. /\ \A port : WriteEnds(port) <=> call.op = "write" /\ ends /\ port = call.port
      /\ \A port : ReadEnds(port) <=> call.op = "read" /\ ends /\ port = call.port
  BY StrobeEnds
<1>4. call.op \in {"write", "read"} => hpi.reset = 1
  BY DEF IInv, Program, PortsOK, Lines
<1>5. ASSUME call.op = "write", ends
      PROVE  Latched = call.data
  <2>1. hpi.w = 1 /\ otg.RD_N = 1
    BY <1>5 DEF IInv, Program, PortsOK, PinLines, Lines
  <2>2. OTG_DATA = HighZ
    BY <2>1, BusLevel DEF FpgaDrives, ChipDrives, Reading
  <2> QED
    BY <1>5, <2>2 DEF Latched, AccessOK
<1> HIDE DEF ends
<1>6. ASSUME call.op = "write", ends
      PROVE  /\ call.port = DATA => mem' = [mem EXCEPT ![ptr] = call.data] /\ ptr' = (ptr + 1) % Size
             /\ call.port = ADDR => mem' = mem /\ ptr' = call.data
  BY <1>1, <1>2, <1>3, <1>4, <1>5, <1>6, ChipMoves
<1>7. ASSUME call.op = "read", ends
      PROVE  mem' = mem /\ ptr' = (ptr + 1) % Size
  BY <1>1, <1>2, <1>3, <1>4, <1>7, ChipMoves
<1>8. ASSUME ~(call.op \in {"write", "read"} /\ ends)
      PROVE  mem' = mem /\ (hpi.reset = 1 => ptr' = ptr)
  BY <1>2, <1>3, <1>8, ChipMoves
<1> QED
  BY <1>6, <1>7, <1>8 DEF ends

LEMMA AccessStep ==
  ASSUME IInv, ~played, PinLines, AccessOK, Posedge, Step
  PROVE  AccessOK'
<1>1. /\ age \in 0..Gap /\ Gap \in Nat /\ Access \in Nat /\ Gap >= Access + 2
      /\ Len(todo) \in Nat /\ strobe \in 0..Access
  BY LengthType, HpiAssumption DEF IInv, LocalType, ChipType, HpiAssumption
<1>2. IInv'
  BY InvStep DEF Next, Step
<1>3. strobe' \in 0..Access /\ Len(todo') \in Nat
  BY <1>2, AccessesLength DEF IInv, ChipType, Program, TodoOK
<1>4. CASE BeginCall /\ Place' = 7 /\ age' = Gap
  <2>1. call'.op \in {"write", "read"} /\ Len(todo') = 7
    BY <1>4, BeginProgram DEF IInv
  <2> QED
    BY <1>1, <1>4, <2>1 DEF AccessOK
<1>5. ASSUME call' = call, Place' = Len(todo), Place = IF age = 0 THEN Len(todo) + 1 ELSE Len(todo),
             \/ MakeStore \/ MakeLoad
             \/ /\ UNCHANGED <<hpi, todo, temp>> /\ age' = IF age < Gap THEN age + 1 ELSE age
      PROVE  AccessOK'
  <2>1. ASSUME call.op = "init", Len(todo) <= 2
        PROVE  ptr' = 0
    <3>1. Place <= 6
      BY <1>1, <1>5, <2>1
    <3>2. CASE Len(todo) = 2
      <4>1. otg'.RST_N = 0
        BY <2>1, <3>2, NoReset, PinsMove DEF IInv, Program, PortsOK, Lines
      <4> QED
        BY <4>1, ChipMoves DEF Posedge
    <3>3. CASE Len(todo) <= 1
      <4>1. hpi.reset = 1
        BY <2>1, <3>3 DEF IInv, Program, PortsOK, Lines
      <4>2. ptr' = ptr
        BY <2>1, <3>1, <4>1, MemoryStep
      <4>3. ptr = 0
        BY <1>1, <1>5, <2>1, <3>3 DEF AccessOK
      <4> QED
        BY <4>2, <4>3
    <3>4. \A n \in Nat : n <= 2 => n = 2 \/ n <= 1
      OBVIOUS
    <3> QED
      BY <1>1, <2>1, <3>2, <3>3, <3>4
  <2>2. ASSUME call.op = "write", Len(todo') = 1, age' = 0
        PROVE  charge' = call.data
    <3>1. MakeStore /\ Len(todo) = 2
      <4>1. ~(age' = IF age < Gap THEN age + 1 ELSE age)
        BY <1>1, <2>2
      <4>2. MakeStore
        BY <1>5, <2>2, <4>1, LoadProgram DEF IInv
      <4> QED
        BY <1>1, <2>2, <4>2, StoreProgram DEF IInv
    <3>2. hpi.w = 0 /\ hpi.data = call.data
      BY <2>2, <3>1 DEF IInv, Program, PortsOK, Lines
    <3> QED
      BY <3>2, BusLevel, ChipMoves DEF FpgaDrives, Posedge
  <2>3. ASSUME call.op = "read", Len(todo') = 3, age' >= 1
        PROVE  /\ strobe' = Access \/ strobe' >= age' - 1
               /\ age' >= Access + 2 => otg'.from_sw_data_in = mem'[ptr']
    <3>1. /\ UNCHANGED <<hpi, todo, temp>> /\ age' = (IF age < Gap THEN age + 1 ELSE age)
          /\ Len(todo) = 3
      <4>1. ~MakeStore /\ ~MakeLoad
        BY <2>3 DEF MakeStore, MakeLoad
      <4> QED
        BY <1>5, <2>3, <4>1
    <3>2. CASE age = 0
      BY <1>1, <1>3, <3>1, <3>2
    <3>3. CASE age >= 1
      <4>1. Place = 3
        BY <1>1, <1>5, <3>1, <3>3
      <4>2. Reading /\ hpi.w = 1 /\ hpi.reset = 1
        BY <2>3, <3>1, <4>1
           DEF IInv, Program, PortsOK, PinLines, Lines, Reading, Selected
      <4>3. strobe' = IF strobe < Access THEN strobe + 1 ELSE strobe
        BY <4>2, ChipMoves DEF Posedge
      <4>4. strobe = Access \/ strobe >= age - 1
        BY <2>3, <3>1, <3>3 DEF AccessOK
      <4>5. strobe' = Access \/ strobe' >= age' - 1
        BY <1>1, <3>1, <4>3, <4>4
      <4>6. mem' = mem /\ ptr' = ptr
        BY <2>3, <3>1, <4>2, MemoryStep
      <4>7. ASSUME age' >= Access + 2
            PROVE  otg'.from_sw_data_in = mem[ptr]
        <5>1. strobe = Access
          BY <1>1, <3>1, <4>4, <4>7
        <5>2. OTG_DATA = mem[ptr]
          BY <4>2, <5>1, BusLevel DEF FpgaDrives, ChipDrives
        <5> QED
          BY <5>2, NoReset, PinsMove
      <4> QED
        BY <4>5, <4>6, <4>7
    <3> QED
      BY <1>1, <3>2, <3>3
  <2>4. ASSUME call.op = "read", Len(todo') <= 2, Len(todo) >= 2
        PROVE  temp' = mem'[ptr']
    <3>1. hpi.reset = 1
      BY <2>4 DEF IInv, Program, PortsOK, Lines
    <3>7. \A n \in Nat : n >= 2 => n # 1
      OBVIOUS
    <3>8. Len(todo) # 1 /\ call.op # "init"
      BY <1>1, <2>4, <3>7
    <3>2. mem' = mem /\ ptr' = ptr
      BY <3>1, <3>8, MemoryStep
    <3>3. CASE MakeLoad
      <4>1. Len(todo) = 3 /\ age = Gap /\ temp' = otg.from_sw_data_in
        BY <3>3, LoadProgram DEF IInv, MakeLoad, Due
      <4>2. temp' = mem[ptr]
        BY <1>1, <2>4, <4>1 DEF AccessOK
      <4> QED
        BY <3>2, <4>2
    <3>4. ASSUME UNCHANGED temp, Len(todo) = 2
          PROVE  temp' = mem'[ptr']
      <4>1. temp = mem[ptr]
        BY <1>1, <1>5, <2>4, <3>4 DEF AccessOK
      <4> QED
        BY <3>2, <3>4, <4>1
    <3>5. CASE MakeStore
      <4>1. UNCHANGED temp /\ Head(todo) # Load /\ todo # <<>>
        BY <3>5 DEF MakeStore, Due
      <4>2. Len(todo) # 3
        BY <2>4, <4>1, ReadAccess DEF IInv, Program
      <4>3. Len(todo) = 2
        BY <1>1, <2>4, <3>5, <4>2, StoreProgram DEF IInv
      <4> QED
        BY <3>4, <4>1, <4>3
    <3>6. CASE UNCHANGED <<hpi, todo, temp>>
      <4>1. Len(todo') = Len(todo) /\ UNCHANGED temp
        BY <3>6
      <4>2. \A n \in Nat : n >= 2 /\ n <= 2 => n = 2
        OBVIOUS
      <4>3. Len(todo) = 2
        BY <1>1, <2>4, <4>1, <4>2
      <4> QED
        BY <3>4, <4>1, <4>3
    <3> QED
      BY <1>5, <3>3, <3>5, <3>6
  <2>5. call'.op = call.op /\ call'.data = call.data
    BY <1>5
  <2>6. Place' >= 2 => Len(todo) >= 2
    BY <1>5
  <2>7. call'.op = "init" /\ Place' <= 2 => ptr' = 0
    BY <1>5, <2>1, <2>5
  <2>8. call'.op = "write" /\ Len(todo') = 1 /\ age' = 0 => charge' = call'.data
    BY <2>2, <2>5
  <2>9. call'.op = "read" /\ Len(todo') = 3 =>
          /\ age' >= 1 => strobe' = Access \/ strobe' >= age' - 1
          /\ age' >= Access + 2 => otg'.from_sw_data_in = mem'[ptr']
    <3>1. age' >= Access + 2 => age' >= 1
      <4>1. age' \in 0..Gap
        BY <1>2 DEF IInv, LocalType
      <4> QED
        BY <1>1, <4>1
    <3> QED
      BY <2>3, <2>5, <3>1
  <2>10. call'.op = "read" /\ Len(todo') <= 2 /\ Place' >= 2 => temp' = mem'[ptr']
    BY <2>4, <2>5, <2>6
  <2> QED
    BY <2>7, <2>8, <2>9, <2>10 DEF AccessOK
<1> QED
  BY <1>4, <1>5, PlaceMoves DEF Place

LEMMA UndisturbedInductive == Spec => [](IInv /\ Undisturbed)
<1>1. Init => Undisturbed
  <2> SUFFICES ASSUME Init PROVE Undisturbed
    OBVIOUS
  <2>1. call.op = "init" /\ Len(todo) = 10 /\ age = Gap /\ Gap \in Nat /\ Gap # 0
    BY InitAccesses, HpiAssumption DEF Init, InitCall, HpiAssumption
  <2>2. Place = 10
    BY <2>1 DEF Place
  <2> QED
    BY <2>1, <2>2 DEF Undisturbed, PinLines, AccessOK, Lines
<1>2. IInv /\ Undisturbed /\ [Next]_vars => Undisturbed'
  <2>1. ASSUME IInv, Undisturbed, Next
        PROVE  Undisturbed'
    <3>1. played' = played
      BY <2>1, Moves DEF Posedge
    <3> QED
      BY <2>1, <3>1, Moves, PinLinesStep, AccessStep DEF Undisturbed
  <2>2. ASSUME Undisturbed, UNCHANGED vars
        PROVE  Undisturbed'
    BY <2>2 DEF vars, swVars, Undisturbed, PinLines, AccessOK, Lines, Place
  <2> QED
    BY <2>1, <2>2
<1> QED
  BY <1>1, <1>2, Inductive, PTL DEF Spec
-----------------------------------------------------------------------------
(* The access is over one posedge after the program has raised its strobe. *)
LEMMA ServedWhen ==
  ASSUME IInv, PinLines
  PROVE  /\ call.op = "init" => (Served <=> todo = <<>>)
         /\ call.op # "init" => (Served <=> Len(todo) <= 1 /\ Place <= 1)
<1>1. call.op \in {"init", "write", "read"}
  BY CallKinds DEF IInv, Program, TodoOK
<1> DEFINE starts == call.op = "init"
           writes == call.op = "write"
           reads == call.op = "read"
           early == todo = <<>>
           written == Len(todo) <= 1 /\ otg.WR_N = 1
           fetched == Len(todo) <= 1 /\ otg.RD_N = 1
<1>2. Served = CASE starts -> early [] writes -> written [] reads -> fetched
  BY DEF Served
<1>3. ~(starts /\ writes) /\ ~(starts /\ reads) /\ ~(writes /\ reads)
  OBVIOUS
<1> HIDE DEF starts, writes, reads, early, written, fetched
<1>4. starts => (Served <=> early)
  BY <1>2, <1>3, Zenon
<1>5. writes => (Served <=> written)
  BY <1>2, <1>3, Zenon
<1>6. reads => (Served <=> fetched)
  BY <1>2, <1>3, Zenon
<1>7. Len(todo) \in Nat /\ Place = IF age = 0 THEN Len(todo) + 1 ELSE Len(todo)
  BY LengthType DEF Place
<1>8. writes \/ reads => (Len(todo) <= 1 =>
        /\ writes => (otg.WR_N = 1 <=> Place <= 1)
        /\ reads => (otg.RD_N = 1 <=> Place <= 1))
  BY <1>7 DEF PinLines, Lines, writes, reads
<1> QED
  BY <1>1, <1>4, <1>5, <1>6, <1>8 DEF starts, writes, reads, early, written, fetched

LEMMA EmptyTodo ==
  ASSUME IInv
  PROVE  todo = <<>> <=> Len(todo) = 0
BY EmptySeq DEF IInv, Program, TodoOK

(* The refinement mapping, as module HpiBus substitutes it.                *)
MemSeen   == IF Hidden THEN [a \in Data |-> 0] ELSE mem
PtrSeen   == IF Hidden THEN 0 ELSE ptr
CallSeen  == IF Hidden THEN InitCall ELSE call
ReplySeen == IF played \/ ~Served THEN {} ELSE IF call.op = "read" THEN {temp} ELSE {0}

Same == UNCHANGED <<MemSeen, PtrSeen, CallSeen, ReplySeen>>

(* IO_init: nothing is seen of it but its end.                             *)
LEMMA BootStep ==
  ASSUME IInv, Undisturbed, IInv', Undisturbed', ~played, ~played', Posedge, Step, Booting
  PROVE  R!ServeInit \/ Same
<1>1. call = InitCall /\ call.op = "init" /\ todo # <<>> /\ ~Served
  BY ServedWhen, CallKinds DEF Booting, Undisturbed, IInv, Program, TodoOK
<1>2. call' = call
  BY <1>1, PlaceMoves DEF BeginCall
<1>3. Served' <=> todo' = <<>>
  <2>1. IInv' /\ PinLines'
    BY DEF Undisturbed
  <2>2. (IInv /\ PinLines => (call.op = "init" => (Served <=> todo = <<>>)))'
    BY ServedWhen, PTL
  <2> QED
    BY <1>1, <1>2, <2>1, <2>2
<1>4. CASE Booting'
  BY <1>1, <1>2, <1>4 DEF Same, MemSeen, PtrSeen, CallSeen, ReplySeen, Hidden, Booting
<1>5. CASE ~Booting'
  <2>1. Served' /\ todo' = <<>>
    BY <1>1, <1>2, <1>3, <1>5 DEF Booting
  <2>2. ptr' = 0
    <3>1. Len(todo') = 0
      BY <2>1
    <3>2. Place' <= 2
      BY <3>1 DEF Place
    <3> QED
      BY <1>1, <1>2, <3>2 DEF Undisturbed, AccessOK
  <2>3. mem' \in [Data -> Data]
    BY DEF IInv, ChipType
  <2>4. R!ServeInit
    BY <1>1, <1>2, <1>5, <2>1, <2>2, <2>3 DEF R!ServeInit, R!Memory, R!Data, Data, Hidden, Booting, InitCall
  <2> QED
    BY <2>4
<1> QED
  BY <1>4, <1>5

(* After it, a call begins, takes effect when its strobe ends, and is not  *)
(* seen in between.                                                        *)
LEMMA RunningStep ==
  ASSUME IInv, Undisturbed, IInv', Undisturbed', ~played, ~played', Posedge, Step, ~Booting
  PROVE  R!Call \/ R!ServeAddress \/ R!ServeWrite \/ R!ServeRead \/ Same
<1>1. /\ PinLines /\ AccessOK
      /\ call.op \in {"init", "write", "read"} /\ call.port \in {DATA, ADDR}
      /\ call.op = "read" => call.port = DATA
      /\ call.op = "init" <=> call = InitCall
      /\ Len(todo) \in Nat /\ age \in 0..Gap /\ Gap \in Nat /\ Gap >= 2
      /\ Place = IF age = 0 THEN Len(todo) + 1 ELSE Len(todo)
  BY CallKinds, LengthType, HpiAssumption
     DEF Undisturbed, IInv, Program, TodoOK, LocalType, HpiAssumption, Place
<1>2. call.op = "init" => todo = <<>> /\ Len(todo) = 0 /\ Place <= 6
  <2>1. call.op = "init" => todo = <<>> /\ Len(todo) = 0
    BY <1>1, ServedWhen DEF Booting
  <2> QED
    BY <1>1, <2>1
<1>3. Served <=> Len(todo) <= 1 /\ Place <= 1
  BY <1>1, <1>2, ServedWhen
<1>4. /\ call'.op = "init" => (Served' <=> todo' = <<>>)
      /\ call'.op # "init" => (Served' <=> Len(todo') <= 1 /\ Place' <= 1)
  <2>1. IInv' /\ PinLines'
    BY DEF Undisturbed
  <2>2. (IInv /\ PinLines => /\ call.op = "init" => (Served <=> todo = <<>>)
                             /\ call.op # "init" => (Served <=> Len(todo) <= 1 /\ Place <= 1))'
    BY ServedWhen, PTL
  <2> QED
    BY <2>1, <2>2
<1>5. hpi.reset = 1
  BY <1>1, <1>2 DEF IInv, Program, PortsOK, Lines
<1>6. CASE BeginCall /\ Place' = 7 /\ Len(todo) = 0 /\ Place = 0
  <2>1. call' \in Calls /\ call'.op \in {"write", "read"} /\ Len(todo') = 7
    BY <1>6, BeginProgram DEF IInv, BeginCall
  <2>2. Served /\ ~Served' /\ ~Booting'
    BY <1>3, <1>4, <1>6, <2>1 DEF Booting, InitCall
  <2>3. mem' = mem /\ ptr' = ptr
    BY <1>1, <1>2, <1>5, <1>6, MemoryStep
  <2>4. Calls = R!Calls
    BY DEF Calls, R!Calls, Data, R!Data
  <2>5. R!Call
    BY <2>1, <2>2, <2>3, <2>4 DEF R!Call, Hidden
  <2> QED
    BY <2>5
<1>7. ASSUME call' = call, Place' = Len(todo),
             \/ MakeStore \/ MakeLoad
             \/ /\ UNCHANGED <<hpi, todo, temp>> /\ age' = IF age < Gap THEN age + 1 ELSE age
      PROVE  R!ServeAddress \/ R!ServeWrite \/ R!ServeRead \/ Same
  <2>1. ~Booting'
    <3>1. CASE call = InitCall
      <4>1. call.op = "init" /\ todo = <<>>
        BY <1>1, <1>2, <3>1
      <4>2. todo' = todo
        BY <1>7, <4>1 DEF MakeStore, MakeLoad, Due
      <4>3. Served'
        BY <1>4, <1>7, <4>1, <4>2
      <4> QED
        BY <4>3 DEF Booting
    <3>2. CASE call # InitCall
      <4>1. call' # InitCall' \/ Served'
        BY <1>7, <3>2 DEF InitCall
      <4> QED
        BY <4>1 DEF Booting
    <3> QED
      BY <3>1, <3>2
  <2>2. CASE call.op # "init" /\ Len(todo) = 1 /\ age = 0
    <3>1. ~Served
      BY <1>1, <1>3, <2>2
    <3>2. UNCHANGED <<hpi, todo, temp>>
      BY <1>1, <1>7, <2>2 DEF MakeStore, MakeLoad, Due
    <3>3. Served'
      <4>1. call'.op # "init" /\ Len(todo') = 1 /\ Place' = 1
        BY <1>7, <2>2, <3>2
      <4> QED
        BY <1>4, <4>1
    <3>4. CASE call.op = "write" /\ call.port = ADDR
      <4>1. mem' = mem /\ ptr' = call.data
        BY <1>1, <1>2, <2>2, <3>4, MemoryStep
      <4>2. R!ServeAddress
        BY <1>7, <2>1, <3>1, <3>3, <3>4, <4>1 DEF R!ServeAddress, Hidden
      <4> QED
        BY <4>2
    <3>5. CASE call.op = "write" /\ call.port = DATA
      <4>1. mem' = [mem EXCEPT ![ptr] = call.data] /\ ptr' = (ptr + 1) % Size
        BY <1>1, <1>2, <2>2, <3>5, MemoryStep
      <4>2. R!ServeWrite
        BY <1>7, <2>1, <3>1, <3>3, <3>5, <4>1 DEF R!ServeWrite, Hidden
      <4> QED
        BY <4>2
    <3>6. CASE call.op = "read"
      <4>1. mem' = mem /\ ptr' = (ptr + 1) % Size
        BY <1>1, <1>2, <2>2, <3>6, MemoryStep
      <4>2. temp = mem[ptr] /\ temp' = temp
        <5>1. Place >= 2 /\ Len(todo) <= 2
          BY <1>1, <2>2
        <5> QED
          BY <1>1, <3>2, <3>6, <5>1 DEF AccessOK
      <4>3. R!ServeRead
        BY <1>7, <2>1, <3>1, <3>3, <3>6, <4>1, <4>2 DEF R!ServeRead, Hidden
      <4> QED
        BY <4>3
    <3> QED
      BY <1>1, <2>2, <3>4, <3>5, <3>6
  <2>3. CASE ~(call.op # "init" /\ Len(todo) = 1 /\ age = 0)
    <3>1. mem' = mem /\ ptr' = ptr
      BY <1>1, <1>2, <1>5, <2>3, MemoryStep
    <3>2. Len(todo') \in {Len(todo), Len(todo) - 1}
      <4>1. MakeStore => Len(todo') = Len(todo) - 1
        BY StoreProgram DEF IInv
      <4>2. MakeLoad => Len(todo') = Len(todo) - 1
        <5> SUFFICES ASSUME MakeLoad PROVE Len(todo') = Len(todo) - 1
          OBVIOUS
        <5>1. Len(todo) = 3 /\ Len(todo') = 2
          BY LoadProgram DEF IInv
        <5> QED
          BY <5>1
      <4>3. UNCHANGED <<hpi, todo, temp>> => Len(todo') = Len(todo)
        OBVIOUS
      <4> QED
        BY <1>7, <4>1, <4>2, <4>3
    <3>3. Served' <=> Served
      <4>1. CASE call.op = "init"
        <5>1. ~MakeStore /\ ~MakeLoad
          BY <1>2, <4>1 DEF MakeStore, MakeLoad, Due
        <5>2. todo' = todo
          BY <1>7, <5>1
        <5> QED
          BY <1>1, <1>2, <1>3, <1>4, <1>7, <4>1, <5>2
      <4>2. CASE call.op # "init"
        <5> DEFINE l == Len(todo)
                   n == Len(todo')
        <5>1. /\ Served <=> l <= 1 /\ Place <= 1
              /\ Served' <=> n <= 1 /\ l <= 1
              /\ Place = (IF age = 0 THEN l + 1 ELSE l)
              /\ l \in Nat /\ n \in {l, l - 1} /\ ~(l = 1 /\ age = 0)
          BY <1>1, <1>3, <1>4, <1>7, <2>3, <3>2, <4>2
        <5> HIDE DEF l, n
        <5> QED
          BY <5>1
      <4> QED
        BY <4>1, <4>2
    <3>4. Served => temp' = temp
      <4>1. MakeLoad => ~Served
        BY <1>3, LoadProgram DEF IInv
      <4>2. MakeStore => temp' = temp
        BY DEF MakeStore
      <4> QED
        BY <1>7, <4>1, <4>2
    <3> QED
      BY <1>7, <2>1, <3>1, <3>3, <3>4 DEF Same, MemSeen, PtrSeen, CallSeen, ReplySeen, Hidden
  <2> QED
    BY <2>2, <2>3
<1> QED
  BY <1>6, <1>7, PlaceMoves

(* Without resets of the game, a call of io_handler.c is one operation on  *)
(* the chip's memory, for any memory, any pace of the processor slower     *)
(* than HpiAssumption says, and any access time of the chip.               *)
THEOREM BusIsRegisterFile == Spec => RefinesRegisterFile
<1>1. Init => R!Init
  <2> SUFFICES ASSUME Init PROVE R!Init
    OBVIOUS
  <2>1. call = InitCall /\ todo = IO_init /\ call.op = "init" /\ todo # <<>>
    <3>1. Len(IO_init) = 10
      BY InitAccesses
    <3> QED
      <4>1. call = InitCall /\ todo = IO_init
        BY DEF Init
      <4>2. Len(<<>>) = 0
        OBVIOUS
      <4>3. InitCall.op = "init"
        BY DEF InitCall
      <4> QED
        BY <3>1, <4>1, <4>2, <4>3
  <2>2. IInv /\ Undisturbed
    <3>1. Place = Len(todo)
      BY HpiAssumption DEF Init, Place, HpiAssumption
    <3>2. Undisturbed
      BY <2>1, <3>1, InitAccesses, HpiAssumption
         DEF Init, Undisturbed, PinLines, AccessOK, Lines, HpiAssumption
    <3> QED
      BY <3>2, InitInv
  <2>3. ~played => ~Served
    BY <2>1, <2>2, ServedWhen DEF Undisturbed
  <2>4. Hidden
    BY <2>1, <2>3 DEF Hidden, Booting
  <2> QED
    BY <2>3, <2>4 DEF R!Init, R!Data, Data, R!InitCall, InitCall
<1>2. IInv /\ Undisturbed /\ IInv' /\ Undisturbed' /\ [Next]_vars => [R!Next]_R!vars
  <2> SUFFICES ASSUME IInv, Undisturbed, IInv', Undisturbed', [Next]_vars
               PROVE  [R!Next]_R!vars
    OBVIOUS
  <2>1. Same => UNCHANGED R!vars
    BY DEF Same, MemSeen, PtrSeen, CallSeen, ReplySeen, R!vars
  <2>2. CASE Posedge /\ Step /\ ~played
    <3>1. ~played'
      BY <2>2 DEF Posedge
    <3>2. R!Next \/ Same
      BY <2>2, <3>1, BootStep, RunningStep DEF R!Next
    <3> QED
      BY <2>1, <3>2
  <2>3. CASE Posedge /\ Step /\ played
    <3>1. played /\ played'
      BY <2>3 DEF Posedge
    <3>2. Same
      BY <3>1 DEF Same, MemSeen, PtrSeen, CallSeen, ReplySeen, Hidden
    <3> QED
      BY <2>1, <3>2
  <2>4. CASE UNCHANGED vars
    <3>1. Same
      BY <2>4 DEF vars, swVars, Same, MemSeen, PtrSeen, CallSeen, ReplySeen, Hidden, Booting, Served
    <3> QED
      BY <2>1, <3>1
  <2> QED
    BY <2>2, <2>3, <2>4, Moves
<1> QED
  BY <1>1, <1>2, UndisturbedInductive, PTL DEF Spec, RefinesRegisterFile, R!Spec
=============================================================================
