--------------------------- MODULE InterVMProofs ----------------------------
(***************************************************************************)
(* Proofs about inter-VM communication for any number of VMs, sizes of     *)
(* rings and messages, and patterns of sends: the three counters of each   *)
(* ring stay inside their range and fit each other, and messages are never *)
(* left in the hypervisor without an interrupt that announces them, as     *)
(* long as what is under way to a VM fits the library's ring.              *)
(***************************************************************************)
EXTENDS InterVM, TLAPS

\* What a slot of a ring can hold: a message, nothing yet, or the remains of
\* one with the size that irq_network wrote.
Cell == [source_id : VM \cup {0}, size : Sizes \cup {0, MESSAGE_EMPTY},
         id : 0 .. (IdMod - 1)]

\* Position x of a ring, for x at most one turn ahead.
Wrap(x) == IF x < MESSAGELIST_SZ THEN x ELSE x - MESSAGELIST_SZ

\* Slot s is between out and in.
Live(ring, s) ==
  \/ ring.out <= s /\ s < ring.out + ring.num_messages
  \/ s < ring.out + ring.num_messages - MESSAGELIST_SZ

Ring == [in : Slot, out : Slot, num_messages : 0 .. MESSAGELIST_SZ, list : [Slot -> Cell]]

\* What always holds of a ring: its counters fit each other, and what lies
\* between out and in are messages.
RingInv(ring) ==
  /\ ring \in Ring
  /\ ring.in = Wrap(ring.out + ring.num_messages)
  /\ \A s \in Slot : Live(ring, s) => ring.list[s] \in Message

\* What holds of the library's ring of v unless it is spoilt: the guest has
\* taken nothing out of it while it starts up, so out is 0 all along, and what
\* is stored during memset lies below the place where memset is.
LibraryInv(v) ==
  /\ HalfCleared(v) => message_list[v].in = 0
  /\ ~ HalfCleared(v) => RingInv(message_list[v])
  /\ pc[v] \notin {"main", "blocked"} => message_list[v].out = 0
  /\ pc[v] = "registered" /\ cleared[v] >= 3
       => message_list[v].num_messages <= cleared[v] - 3

\* memset runs between the registration of the handler and main.
StageInv(v) ==
  /\ pc[v] \in {"boot", "enabled"} => cleared[v] = 0
  /\ pc[v] = "registered" => cleared[v] < Parts
  /\ pc[v] \in {"main", "blocked"} => cleared[v] = Parts

\* The inductive invariant. irq_network runs only while the library's ring has
\* room: it is what keeps num_messages from passing the limit.
IVInv ==
  /\ PolicyTypeOK
  /\ init \in [VM -> BOOLEAN] /\ isr \in [VM -> BOOLEAN]
  /\ guestclt2 \in [VM -> BOOLEAN] /\ GuestCTL2 \in BOOLEAN
  /\ messages \in [VM -> Ring] /\ message_list \in [VM -> Ring]
  /\ cleared \in [VM -> 0 .. Parts] /\ spoilt \in SUBSET VM
  /\ \A v \in VM : RingInv(messages[v])
  /\ \A v \in VM : v \notin spoilt => LibraryInv(v)
  /\ \A v \in VM : StageInv(v)
  /\ \A v \in VM : isr[v] => message_list[v].num_messages < MESSAGELIST_SZ
  /\ pc \in [VM -> {"boot", "enabled", "registered", "main", "blocked"}]
  /\ ret \in [VM -> Sizes \cup SendErrors \cup {0}]
  /\ serial \in 0 .. (IdMod - 1) /\ DOMAIN received = VM

-----------------------------------------------------------------------------
\* A remainder of less than two turns.
LEMMA ModCases ==
  ASSUME NEW n \in Nat \ {0}, NEW x \in Nat, x < 2 * n
  PROVE  x % n = IF x < n THEN x ELSE x - n
BY SMT

\* The increments of in and out, and of the serial number.
LEMMA NextSlot ==
  ASSUME NEW s \in Slot
  PROVE  (s + 1) % MESSAGELIST_SZ = Wrap(s + 1) /\ Wrap(s + 1) \in Slot
<1>1. MESSAGELIST_SZ \in Nat \ {0}
  BY InterVMAssumption
<1> DEFINE x == s + 1
<1>2. x \in Nat /\ x <= MESSAGELIST_SZ
  BY <1>1 DEF Slot
<1> HIDE DEF x
<1>3. x % MESSAGELIST_SZ = IF x < MESSAGELIST_SZ THEN x ELSE x - MESSAGELIST_SZ
  <2>1. x < 2 * MESSAGELIST_SZ
    BY <1>1, <1>2
  <2>2. QED
    BY <1>1, <1>2, <2>1
<1>4. Wrap(x) \in Slot
  BY <1>1, <1>2 DEF Slot, Wrap
<1>5. QED
  BY <1>3, <1>4 DEF Wrap, x

\* One field of a ring replaced by another value of its kind.
LEMMA SetField ==
  ASSUME NEW ring \in Ring
  PROVE  /\ \A x \in Slot : [ring EXCEPT !.in = x] \in Ring
         /\ \A x \in Slot : [ring EXCEPT !.out = x] \in Ring
         /\ \A x \in 0 .. MESSAGELIST_SZ : [ring EXCEPT !.num_messages = x] \in Ring
         /\ \A x \in [Slot -> Cell] : [ring EXCEPT !.list = x] \in Ring
BY DEF Ring

\* What Put changes in a ring with room.
LEMMA PutFields ==
  ASSUME NEW ring \in Ring, ring.num_messages < MESSAGELIST_SZ, NEW m \in Cell
  PROVE  /\ Put(ring, m) \in Ring
         /\ Put(ring, m).in = Wrap(ring.in + 1) /\ Put(ring, m).out = ring.out
         /\ Put(ring, m).num_messages = ring.num_messages + 1
         /\ Put(ring, m).list = [ring.list EXCEPT ![ring.in] = m]
<1>1. MESSAGELIST_SZ \in Nat \ {0}
  BY InterVMAssumption
<1>2. /\ ring.in \in Slot /\ ring.num_messages \in 0 .. MESSAGELIST_SZ
      /\ ring.list \in [Slot -> Cell]
  BY DEF Ring
<1>3. (ring.in + 1) % MESSAGELIST_SZ = Wrap(ring.in + 1) /\ Wrap(ring.in + 1) \in Slot
  BY <1>2, NextSlot
<1>4. /\ Put(ring, m).in = (ring.in + 1) % MESSAGELIST_SZ /\ Put(ring, m).out = ring.out
      /\ Put(ring, m).num_messages = ring.num_messages + 1
      /\ Put(ring, m).list = [ring.list EXCEPT ![ring.in] = m]
  BY <1>1 DEF Put, Ring, Slot
<1> DEFINE list == [ring.list EXCEPT ![ring.in] = m]
<1>5. list \in [Slot -> Cell] /\ ring.num_messages + 1 \in 0 .. MESSAGELIST_SZ
  BY <1>1, <1>2
<1> HIDE DEF list
<1>6. [ring EXCEPT !.list = list] \in Ring
  BY <1>5, SetField, Zenon
<1>7. [[ring EXCEPT !.list = list] EXCEPT !.num_messages = ring.num_messages + 1] \in Ring
  BY <1>5, <1>6, SetField, Zenon
<1>8. [[[ring EXCEPT !.list = list] EXCEPT !.num_messages = ring.num_messages + 1]
         EXCEPT !.in = (ring.in + 1) % MESSAGELIST_SZ] \in Ring
  BY <1>3, <1>7, SetField, Zenon
<1>9. Put(ring, m) \in Ring
  BY <1>8, Zenon DEF Put, list
<1>10. QED
  BY <1>3, <1>4, <1>9

\* What Drop changes in a ring that is not empty.
LEMMA DropFields ==
  ASSUME NEW ring \in Ring, ring.num_messages # 0
  PROVE  /\ Drop(ring) \in Ring
         /\ Drop(ring).in = ring.in /\ Drop(ring).out = Wrap(ring.out + 1)
         /\ Drop(ring).num_messages = ring.num_messages - 1
         /\ Drop(ring).list = ring.list
<1>1. MESSAGELIST_SZ \in Nat \ {0}
  BY InterVMAssumption
<1>2. ring.out \in Slot /\ ring.num_messages \in 0 .. MESSAGELIST_SZ
  BY DEF Ring
<1>3. (ring.out + 1) % MESSAGELIST_SZ = Wrap(ring.out + 1) /\ Wrap(ring.out + 1) \in Slot
  BY <1>2, NextSlot
<1>4. /\ Drop(ring).in = ring.in /\ Drop(ring).out = (ring.out + 1) % MESSAGELIST_SZ
      /\ Drop(ring).num_messages = ring.num_messages - 1
      /\ Drop(ring).list = ring.list
  BY <1>1 DEF Drop, Ring, Slot
<1>5. ring.num_messages - 1 \in 0 .. MESSAGELIST_SZ
  BY <1>1, <1>2
<1>6. [ring EXCEPT !.num_messages = ring.num_messages - 1] \in Ring
  BY <1>5, SetField, Zenon
<1>7. [[ring EXCEPT !.num_messages = ring.num_messages - 1]
         EXCEPT !.out = (ring.out + 1) % MESSAGELIST_SZ] \in Ring
  BY <1>3, <1>6, SetField, Zenon
<1>8. Drop(ring) \in Ring
  BY <1>7, Zenon DEF Drop
<1>9. QED
  BY <1>3, <1>4, <1>8

\* The serial number wraps inside its range.
LEMMA NextSerial ==
  ASSUME NEW n \in Nat
  PROVE  (n + 1) % IdMod \in 0 .. (IdMod - 1)
<1>1. IdMod \in Nat \ {0}
  BY InterVMAssumption
<1>2. QED
  BY <1>1

\* A fresh ring holds nothing.
LEMMA EmptyRingInv == RingInv(EmptyRing) /\ EmptyRing.num_messages = 0
<1>1. MESSAGELIST_SZ \in Nat \ {0} /\ IdMod \in Nat \ {0}
  BY InterVMAssumption
<1>2. NoMessage \in Cell
  BY <1>1 DEF NoMessage, Cell
<1>3. [s \in Slot |-> NoMessage] \in [Slot -> Cell]
  BY <1>2
<1>4. 0 \in Slot /\ 0 \in 0 .. MESSAGELIST_SZ
  BY <1>1 DEF Slot
<1>5. EmptyRing \in Ring
  BY <1>3, <1>4 DEF EmptyRing, Ring
<1>6. \A s \in Slot : ~ Live(EmptyRing, s)
  BY <1>1 DEF EmptyRing, Live, Slot
<1>7. QED
  BY <1>1, <1>5, <1>6 DEF EmptyRing, RingInv, Wrap

\* A message put into a ring with room.
LEMMA PutInv ==
  ASSUME NEW ring, RingInv(ring), ring.num_messages < MESSAGELIST_SZ,
         NEW m \in Message
  PROVE  RingInv(Put(ring, m)) /\ Put(ring, m).num_messages = ring.num_messages + 1
<1>1. MESSAGELIST_SZ \in Nat \ {0}
  BY InterVMAssumption
<1>2. /\ ring \in Ring /\ ring.in \in Slot /\ ring.out \in Slot
      /\ ring.num_messages \in 0 .. MESSAGELIST_SZ /\ ring.num_messages \in Nat
      /\ ring.list \in [Slot -> Cell]
  BY <1>1 DEF RingInv, Ring
<1>3. m \in Cell
  BY DEF Message, Cell
<1> DEFINE new == Put(ring, m)
<1>4. /\ new.in = Wrap(ring.in + 1) /\ new.out = ring.out
      /\ new.num_messages = ring.num_messages + 1
      /\ new.list = [ring.list EXCEPT ![ring.in] = m]
  BY <1>2, <1>3, PutFields
<1>5. new \in Ring
  BY <1>2, <1>3, PutFields
<1> HIDE DEF new
<1>6. new.in = Wrap(new.out + new.num_messages)
  <2>1. ring.in = Wrap(ring.out + ring.num_messages)
    BY DEF RingInv
  <2>2. QED
    BY <1>1, <1>2, <1>4, <2>1 DEF Wrap, Slot
<1>7. ASSUME NEW s \in Slot, Live(new, s)
      PROVE  new.list[s] \in Message
  <2>1. CASE s = ring.in
    BY <1>2, <1>4, <2>1
  <2>2. CASE s # ring.in
    <3>1. ring.in = Wrap(ring.out + ring.num_messages)
      BY DEF RingInv
    <3>2. Live(ring, s)
      <4>1. /\ s \in Nat /\ s < MESSAGELIST_SZ
            /\ ring.out \in Nat /\ ring.num_messages \in Nat
        BY <1>1, <1>2 DEF Slot
      <4>2. \/ ring.out <= s /\ s <= ring.out + ring.num_messages
            \/ s <= ring.out + ring.num_messages - MESSAGELIST_SZ
        BY <1>1, <1>4, <1>7, <4>1 DEF Live
      <4>3. CASE ring.out + ring.num_messages < MESSAGELIST_SZ
        BY <1>1, <2>2, <3>1, <4>1, <4>2, <4>3 DEF Live, Wrap
      <4>4. CASE ring.out + ring.num_messages >= MESSAGELIST_SZ
        BY <1>1, <2>2, <3>1, <4>1, <4>2, <4>4 DEF Live, Wrap
      <4>5. QED
        BY <1>1, <4>1, <4>3, <4>4
    <3>3. ring.list[s] \in Message
      BY <3>2 DEF RingInv
    <3>4. QED
      BY <1>2, <1>4, <2>2, <3>3
  <2>3. QED
    BY <2>1, <2>2
<1>8. QED
  BY <1>4, <1>5, <1>6, <1>7 DEF RingInv, new

\* The oldest message taken out of a ring that has one.
LEMMA DropInv ==
  ASSUME NEW ring, RingInv(ring), ring.num_messages # 0
  PROVE  /\ RingInv(Drop(ring)) /\ Drop(ring).num_messages = ring.num_messages - 1
         /\ First(ring) \in Message
<1>1. MESSAGELIST_SZ \in Nat \ {0}
  BY InterVMAssumption
<1>2. /\ ring \in Ring /\ ring.in \in Slot /\ ring.out \in Slot
      /\ ring.num_messages \in 0 .. MESSAGELIST_SZ /\ ring.num_messages \in Nat
      /\ ring.list \in [Slot -> Cell]
      /\ ring.in = Wrap(ring.out + ring.num_messages)
  BY <1>1 DEF RingInv, Ring
<1> DEFINE new == Drop(ring)
<1>3. /\ new.in = ring.in /\ new.out = Wrap(ring.out + 1)
      /\ new.num_messages = ring.num_messages - 1
      /\ new.list = ring.list
  BY <1>2, DropFields
<1>4. First(ring) \in Message
  <2>1. Live(ring, ring.out)
    BY <1>1, <1>2 DEF Live, Slot
  <2>2. QED
    BY <1>2, <2>1 DEF RingInv, First
<1>5. new \in Ring
  BY <1>2, DropFields
<1> HIDE DEF new
<1>6. new.in = Wrap(new.out + new.num_messages)
  BY <1>1, <1>2, <1>3 DEF Wrap, Slot
<1>7. ASSUME NEW s \in Slot, Live(new, s)
      PROVE  new.list[s] \in Message
  <2>1. /\ s \in 0 .. (MESSAGELIST_SZ - 1) /\ ring.out \in 0 .. (MESSAGELIST_SZ - 1)
        /\ ring.num_messages \in 1 .. MESSAGELIST_SZ
    BY <1>1, <1>2 DEF Slot
  <2>2. CASE ring.out + 1 < MESSAGELIST_SZ
    <3>1. new.out = ring.out + 1
      BY <2>2, <1>3 DEF Wrap
    <3>2. Live(ring, s)
      BY <1>1, <1>3, <1>7, <2>1, <3>1 DEF Live
    <3>3. QED
      BY <3>2, <1>3 DEF RingInv
  <2>3. CASE ring.out + 1 = MESSAGELIST_SZ
    <3>1. new.out = 0
      BY <2>3, <1>1, <1>3 DEF Wrap
    <3>2. Live(ring, s)
      BY <1>1, <1>3, <1>7, <2>1, <2>3, <3>1 DEF Live
    <3>3. QED
      BY <3>2, <1>3 DEF RingInv
  <2>4. QED
    BY <1>1, <2>1, <2>2, <2>3
<1>8. QED
  BY <1>3, <1>4, <1>5, <1>6, <1>7 DEF RingInv, new

\* What irq_network's mark changes in a ring.
LEMMA MarkFields ==
  ASSUME NEW ring \in Ring
  PROVE  LET new == [ring EXCEPT !.list[ring.in].size = MESSAGE_EMPTY]
         IN  /\ new \in Ring /\ new.in = ring.in /\ new.out = ring.out
             /\ new.num_messages = ring.num_messages
<1> DEFINE mark == [ring.list[ring.in] EXCEPT !.size = MESSAGE_EMPTY]
           list == [ring.list EXCEPT ![ring.in] = mark]
           new == [ring EXCEPT !.list[ring.in].size = MESSAGE_EMPTY]
<1>1. ring.in \in Slot /\ ring.list \in [Slot -> Cell]
  BY DEF Ring
<1>2. mark \in Cell
  BY <1>1 DEF Cell
<1>3. list \in [Slot -> Cell]
  BY <1>1, <1>2
<1>4. new = [ring EXCEPT !.list = list]
  BY DEF Ring
<1>5. /\ new.in = ring.in /\ new.out = ring.out
      /\ new.num_messages = ring.num_messages
  BY DEF Ring
<1> HIDE DEF list
<1>6. [ring EXCEPT !.list = list] \in Ring
  BY <1>3, SetField, Zenon
<1>7. QED
  BY <1>4, <1>5, <1>6

\* irq_network's mark in the slot after the last message of a ring with room.
LEMMA MarkInv ==
  ASSUME NEW ring, RingInv(ring), ring.num_messages < MESSAGELIST_SZ
  PROVE  LET new == [ring EXCEPT !.list[ring.in].size = MESSAGE_EMPTY]
         IN  RingInv(new) /\ new.num_messages = ring.num_messages
<1>1. MESSAGELIST_SZ \in Nat \ {0}
  BY InterVMAssumption
<1>2. /\ ring \in Ring /\ ring.in \in Slot /\ ring.out \in Slot
      /\ ring.num_messages \in 0 .. MESSAGELIST_SZ /\ ring.num_messages \in Nat
      /\ ring.list \in [Slot -> Cell]
      /\ ring.in = Wrap(ring.out + ring.num_messages)
  BY <1>1 DEF RingInv, Ring
<1> DEFINE new == [ring EXCEPT !.list[ring.in].size = MESSAGE_EMPTY]
<1> DEFINE mark == [ring.list[ring.in] EXCEPT !.size = MESSAGE_EMPTY]
<1>3. /\ new.in = ring.in /\ new.out = ring.out
      /\ new.num_messages = ring.num_messages
      /\ new.list = [ring.list EXCEPT ![ring.in] = mark]
      /\ new = [in |-> new.in, out |-> new.out, num_messages |-> new.num_messages,
                list |-> new.list]
  BY <1>2 DEF Ring
<1>4. mark \in Cell
  BY <1>2 DEF Cell
<1> HIDE DEF new, mark
<1>5. new \in Ring
  <2>1. new.list \in [Slot -> Cell]
    BY <1>2, <1>3, <1>4
  <2>2. QED
    BY <1>2, <1>3, <2>1 DEF Ring
<1>6. ~ Live(ring, ring.in)
  BY <1>1, <1>2 DEF Live, Wrap, Slot
<1>7. ASSUME NEW s \in Slot, Live(new, s)
      PROVE  new.list[s] \in Message
  <2>1. Live(ring, s)
    BY <1>3, <1>7 DEF Live
  <2>2. s # ring.in /\ ring.list[s] \in Message
    BY <1>6, <2>1 DEF RingInv
  <2>3. QED
    BY <1>2, <1>3, <2>2
<1>8. QED
  BY <1>2, <1>3, <1>5, <1>7 DEF RingInv, new
-----------------------------------------------------------------------------
\* memset has more than two steps.
LEMMA PartsFact == Parts \in Nat /\ Parts >= 4 /\ Parts = MESSAGELIST_SZ + 3
BY InterVMAssumption DEF Parts

\* What a step that is not a VM's own leaves to it.
LEMMA SameLibrary ==
  ASSUME NEW w, message_list'[w] = message_list[w], pc'[w] = pc[w],
         cleared'[w] = cleared[w]
  PROVE  LibraryInv(w)' = LibraryInv(w) /\ StageInv(w)' = StageInv(w)
BY DEF LibraryInv, StageInv, HalfCleared

\* A step that touches no guest's ring and start-up.
LEMMA SameLibraries ==
  ASSUME IVInv, UNCHANGED <<message_list, pc, cleared, spoilt>>
  PROVE  /\ message_list' \in [VM -> Ring]
         /\ cleared' \in [VM -> 0 .. Parts] /\ spoilt' \in SUBSET VM
         /\ \A w \in VM : w \notin spoilt' => LibraryInv(w)'
         /\ \A w \in VM : StageInv(w)'
         /\ pc' \in [VM -> {"boot", "enabled", "registered", "main", "blocked"}]
BY SameLibrary DEF IVInv

\* At power-on, or with every guest in main, all rings are empty.
LEMMA InitInv == IVInit => IVInv
<1> SUFFICES ASSUME IVInit PROVE IVInv
  OBVIOUS
<1>1. MESSAGELIST_SZ \in Nat \ {0} /\ IdMod \in Nat \ {0} /\ ColdStart \in BOOLEAN
  BY InterVMAssumption
<1>2. EmptyRing \in Ring /\ RingInv(EmptyRing) /\ EmptyRing.num_messages < MESSAGELIST_SZ
  BY <1>1, EmptyRingInv DEF RingInv
<1>3. PolicyTypeOK
  <2>1. running \in 0 .. NVMACHINES /\ turn \in 0 .. NVMACHINES
    BY PolicyAssumption DEF IVInit, PolicyInit
  <2>2. lent \in BOOLEAN
    BY Zenon DEF IVInit, PolicyInit
  <2>3. QED
    BY <2>1, <2>2, Zenon DEF PolicyTypeOK
<1>4. /\ init \in [VM -> BOOLEAN] /\ isr \in [VM -> BOOLEAN]
      /\ guestclt2 \in [VM -> BOOLEAN] /\ GuestCTL2 \in BOOLEAN
  BY <1>1 DEF IVInit
<1>5. /\ messages \in [VM -> Ring] /\ message_list \in [VM -> Ring]
      /\ \A v \in VM : RingInv(messages[v]) /\ RingInv(message_list[v])
      /\ \A v \in VM : message_list[v].num_messages < MESSAGELIST_SZ
      /\ \A v \in VM : message_list[v].out = 0
  BY <1>2 DEF IVInit, EmptyRing
<1>6. /\ pc \in [VM -> {"boot", "enabled", "registered", "main", "blocked"}]
      /\ ret \in [VM -> Sizes \cup SendErrors \cup {0}]
      /\ serial \in 0 .. (IdMod - 1) /\ DOMAIN received = VM
  BY <1>1 DEF IVInit
<1>7. /\ cleared \in [VM -> 0 .. Parts] /\ spoilt \in SUBSET VM
      /\ \A v \in VM : StageInv(v) /\ ~ HalfCleared(v) /\ pc[v] # "registered"
  BY <1>1, PartsFact DEF IVInit, StageInv, HalfCleared
<1>8. \A v \in VM : LibraryInv(v)
  BY <1>5, <1>7 DEF LibraryInv
<1>9. QED
  BY <1>3, <1>4, <1>5, <1>6, <1>7, <1>8 DEF IVInv

\* A dispatch moves the processor and the pending interrupts only.
LEMMA DispatchInv == IVInv /\ dispatch => IVInv'
<1> SUFFICES ASSUME IVInv, dispatch PROVE IVInv'
  OBVIOUS
<1>1. PolicyTypeOK' /\ running' \in VM
  <2>1. \A v \in 0 .. NVMACHINES : Successor(v) \in VM
    BY PolicyAssumption DEF Successor, VM
  <2>2. VM \subseteq 0 .. NVMACHINES
    BY PolicyAssumption DEF VM
  <2>3. CASE Turn
    <3>1. Successor(turn) \in VM
      BY <2>1 DEF IVInv, PolicyTypeOK
    <3>2. running' \in VM /\ turn' \in VM /\ lent' \in BOOLEAN
      BY <2>3, <3>1, Zenon DEF Turn
    <3>3. QED
      BY <2>2, <3>2, Zenon DEF PolicyTypeOK
  <2>4. CASE Borrow
    BY <2>4, PolicyAssumption DEF Borrow, IVInv, PolicyTypeOK, VM
  <2>5. QED
    BY <2>3, <2>4 DEF dispatch, PolicyNext
<1> DEFINE saved == [v \in VM |-> guestclt2[v] \/ (v = running /\ ~init[v] /\ GuestCTL2)]
<1>2. GuestCTL2' = saved[running'] /\ guestclt2' = [saved EXCEPT ![running'] = FALSE]
  BY DEF dispatch
<1>3. saved \in [VM -> BOOLEAN]
  BY DEF IVInv
<1> HIDE DEF saved
<1>4. GuestCTL2' \in BOOLEAN /\ guestclt2' \in [VM -> BOOLEAN]
  BY <1>1, <1>2, <1>3
<1>5. init' \in [VM -> BOOLEAN]
  BY DEF dispatch, IVInv
<1>6. UNCHANGED <<messages, message_list, pc, isr, cleared, spoilt, ret, received, serial>>
  BY DEF dispatch
<1>7. QED
  BY <1>1, <1>4, <1>5, <1>6, SameLibraries DEF IVInv

\* One part of a ring cleared.
LEMMA ZeroedFields ==
  ASSUME NEW ring \in Ring, NEW k \in 0 .. (Parts - 1)
  PROVE  /\ Zeroed(ring, k) \in Ring
         /\ k = 0 => /\ Zeroed(ring, k).in = 0 /\ Zeroed(ring, k).out = ring.out
                     /\ Zeroed(ring, k).num_messages = ring.num_messages
         /\ k = 1 => /\ Zeroed(ring, k).in = ring.in /\ Zeroed(ring, k).out = 0
                     /\ Zeroed(ring, k).num_messages = ring.num_messages
         /\ k = 2 => /\ Zeroed(ring, k).in = ring.in /\ Zeroed(ring, k).out = ring.out
                     /\ Zeroed(ring, k).num_messages = 0
         /\ k >= 3 => /\ Zeroed(ring, k).in = ring.in /\ Zeroed(ring, k).out = ring.out
                      /\ Zeroed(ring, k).num_messages = ring.num_messages
                      /\ Zeroed(ring, k).list = [ring.list EXCEPT ![k - 3] = NoMessage]
                      /\ k - 3 \in Slot
<1>1. /\ k \in Nat /\ MESSAGELIST_SZ \in Nat \ {0} /\ IdMod \in Nat \ {0}
      /\ 0 \in Slot /\ 0 \in 0 .. MESSAGELIST_SZ
  BY InterVMAssumption, PartsFact DEF Slot
<1>2. CASE k = 0
  <2>1. Zeroed(ring, k) = [ring EXCEPT !.in = 0]
    BY <1>2 DEF Zeroed
  <2>2. QED
    BY <1>1, <1>2, <2>1 DEF Ring
<1>3. CASE k = 1
  <2>1. Zeroed(ring, k) = [ring EXCEPT !.out = 0]
    BY <1>3 DEF Zeroed
  <2>2. QED
    BY <1>1, <1>3, <2>1 DEF Ring
<1>4. CASE k = 2
  <2>1. Zeroed(ring, k) = [ring EXCEPT !.num_messages = 0]
    BY <1>4 DEF Zeroed
  <2>2. QED
    BY <1>1, <1>4, <2>1 DEF Ring
<1>5. CASE k >= 3
  <2> DEFINE list == [ring.list EXCEPT ![k - 3] = NoMessage]
  <2>1. Zeroed(ring, k) = [ring EXCEPT !.list = list]
    BY <1>1, <1>5 DEF Zeroed, Ring
  <2>2. k - 3 \in Slot
    BY <1>1, <1>5, PartsFact DEF Slot
  <2>3. list \in [Slot -> Cell]
    <3>1. NoMessage \in Cell
      BY <1>1 DEF NoMessage, Cell
    <3>2. QED
      BY <3>1, <2>2 DEF Ring
  <2> HIDE DEF list
  <2>4. [ring EXCEPT !.list = list] \in Ring
    BY <2>3, SetField, Zenon
  <2>5. /\ [ring EXCEPT !.list = list].in = ring.in
        /\ [ring EXCEPT !.list = list].out = ring.out
        /\ [ring EXCEPT !.list = list].num_messages = ring.num_messages
        /\ [ring EXCEPT !.list = list].list = list
    BY DEF Ring
  <2>6. k # 0 /\ k # 1 /\ k # 2
    BY <1>5
  <2>7. QED
    BY <2>1, <2>2, <2>4, <2>5, <2>6 DEF list
<1>6. QED
  BY <1>1, <1>2, <1>3, <1>4, <1>5

\* A part cleared in a ring that is not spoilt: while in is 0 and num_messages
\* is not the counters disagree, afterwards they describe an empty ring, and
\* the slots cleared then are not in use.
LEMMA ZeroedInv ==
  ASSUME IVInv, NEW v \in VM, pc[v] = "registered", LibraryInv(v)
  PROVE  LET ring == message_list[v]
             new == Zeroed(ring, cleared[v])
         IN  /\ new.out = 0
             /\ cleared[v] \in {0, 1} => new.in = 0
             /\ cleared[v] \notin {0, 1} => RingInv(new)
             /\ cleared[v] >= 2 => new.num_messages <= cleared[v] - 2
<1> DEFINE ring == message_list[v]
           k == cleared[v]
           new == Zeroed(ring, k)
<1>1. /\ MESSAGELIST_SZ \in Nat \ {0} /\ Parts = MESSAGELIST_SZ + 3
      /\ ring \in Ring /\ k \in 0 .. (Parts - 1) /\ k \in Nat
      /\ ring.in \in Slot /\ ring.out \in Slot /\ ring.num_messages \in Nat
      /\ ring.list \in [Slot -> Cell]
  <2>1. cleared[v] < Parts /\ cleared[v] \in 0 .. Parts /\ Parts \in Nat
    BY PartsFact DEF IVInv, StageInv
  <2>2. QED
    BY <2>1, PartsFact, InterVMAssumption DEF IVInv, Ring
<1>2. ring.out = 0
  BY DEF LibraryInv
<1>3. k \in {1, 2} => ring.in = 0
  BY DEF LibraryInv, HalfCleared
<1>4. k >= 3 => RingInv(ring) /\ ring.num_messages <= k - 3
  BY <1>1 DEF LibraryInv, HalfCleared
<1> HIDE DEF ring, k
<1>5. CASE k \in {0, 1}
  <2>1. new.in = 0 /\ new.out = 0
    BY <1>1, <1>2, <1>3, <1>5, ZeroedFields
  <2> HIDE DEF new
  <2>2. k \in {0, 1} /\ ~ (k >= 2)
    BY <1>5
  <2>3. QED
    BY <2>1, <2>2 DEF new, ring, k
<1>6. CASE k = 2
  <2>1. new \in Ring /\ new.in = 0 /\ new.out = 0 /\ new.num_messages = 0
    BY <1>1, <1>2, <1>3, <1>6, ZeroedFields
  <2> HIDE DEF new
  <2>2. \A s \in Slot : ~ Live(new, s)
    BY <1>1, <2>1 DEF Live, Slot
  <2>3. RingInv(new)
    BY <1>1, <2>1, <2>2 DEF RingInv, Wrap
  <2>4. QED
    BY <1>6, <2>1, <2>3 DEF new, ring, k
<1>7. CASE k >= 3
  <2>1. /\ new \in Ring /\ new.in = ring.in /\ new.out = 0
        /\ new.num_messages = ring.num_messages
        /\ new.list = [ring.list EXCEPT ![k - 3] = NoMessage]
    BY <1>1, <1>2, <1>7, ZeroedFields
  <2> HIDE DEF new
  <2>2. ASSUME NEW s \in Slot, Live(new, s)
        PROVE  s # k - 3 /\ Live(ring, s)
    <3>1. s \in Nat /\ s < MESSAGELIST_SZ
      BY <1>1 DEF Slot
    <3>2. ring.num_messages <= MESSAGELIST_SZ
      BY <1>1 DEF Ring
    <3>3. s < ring.num_messages
      BY <1>1, <2>1, <2>2, <3>1, <3>2 DEF Live
    <3>4. QED
      BY <1>1, <1>2, <1>4, <1>7, <3>1, <3>3 DEF Live
  <2>3. \A s \in Slot : Live(new, s) => new.list[s] \in Message
    BY <1>1, <1>4, <1>7, <2>1, <2>2 DEF RingInv
  <2>4. new.in = Wrap(new.out + new.num_messages)
    BY <1>2, <1>4, <1>7, <2>1 DEF RingInv
  <2>5. RingInv(new)
    BY <2>1, <2>3, <2>4 DEF RingInv
  <2>6. new.num_messages <= k - 2 /\ k \notin {0, 1}
    BY <1>1, <1>4, <1>7, <2>1
  <2>7. QED
    BY <2>1, <2>5, <2>6 DEF new, ring, k
<1>8. QED
  BY <1>1, <1>5, <1>6, <1>7

\* The steps of the start-up code; memset runs outside irq_network.
LEMMA StartInv ==
  ASSUME IVInv, NEW v \in VM,
         init_proc(v) \/ init_network_register(v) \/ init_network_clear(v)
  PROVE  IVInv'
<1>1. CASE init_proc(v) \/ init_network_register(v)
  <2>1. /\ \/ pc[v] = "boot" /\ pc' = [pc EXCEPT ![v] = "enabled"]
           \/ pc[v] = "enabled" /\ pc' = [pc EXCEPT ![v] = "registered"]
        /\ UNCHANGED <<running, turn, lent, init, messages, guestclt2, GuestCTL2,
                       message_list, isr, cleared, spoilt, ret, received, serial>>
    BY <1>1 DEF init_proc, init_network_register
  <2>2. /\ pc' \in [VM -> {"boot", "enabled", "registered", "main", "blocked"}]
        /\ \A w \in VM \ {v} : pc'[w] = pc[w]
        /\ pc'[v] \in {"enabled", "registered"} /\ cleared[v] = 0
        /\ pc[v] \in {"boot", "enabled"}
    BY <2>1 DEF IVInv, StageInv
  <2>3. StageInv(v)'
    BY <2>1, <2>2, PartsFact DEF StageInv
  <2>4. v \notin spoilt => LibraryInv(v)'
    BY <2>1, <2>2 DEF IVInv, LibraryInv, HalfCleared
  <2>5. \A w \in VM : (w \notin spoilt' => LibraryInv(w)') /\ StageInv(w)'
    BY <2>1, <2>2, <2>3, <2>4, SameLibrary DEF IVInv
  <2>6. QED
    BY <2>1, <2>2, <2>5 DEF IVInv, PolicyTypeOK
<1>2. CASE init_network_clear(v)
  <2> DEFINE new == Zeroed(message_list[v], cleared[v])
  <2>1. /\ pc[v] = "registered" /\ ~ isr[v]
        /\ message_list' = [message_list EXCEPT ![v] = new]
        /\ cleared' = [cleared EXCEPT ![v] = cleared[v] + 1]
        /\ pc' = IF cleared'[v] = Parts THEN [pc EXCEPT ![v] = "main"] ELSE pc
        /\ UNCHANGED <<running, turn, lent, init, messages, guestclt2, GuestCTL2,
                       isr, spoilt, ret, received, serial>>
    BY <1>2 DEF init_network_clear, InThread
  <2>2. /\ Parts \in Nat /\ Parts >= 4
        /\ cleared[v] \in Nat /\ cleared[v] < Parts /\ cleared[v] \in 0 .. (Parts - 1)
        /\ cleared[v] + 1 \in 0 .. Parts
    BY <2>1, PartsFact DEF IVInv, StageInv
  <2>3. /\ cleared' \in [VM -> 0 .. Parts] /\ cleared'[v] = cleared[v] + 1
        /\ \A w \in VM \ {v} : cleared'[w] = cleared[w]
    BY <2>1, <2>2 DEF IVInv
  <2>4. new \in Ring
    BY <2>2, ZeroedFields DEF IVInv
  <2>5. v \notin spoilt =>
          /\ new.out = 0
          /\ cleared[v] \in {0, 1} => new.in = 0
          /\ cleared[v] \notin {0, 1} => RingInv(new)
          /\ cleared[v] >= 2 => new.num_messages <= cleared[v] - 2
    BY <2>1, ZeroedInv DEF IVInv
  <2> HIDE DEF new
  <2>6. /\ message_list' \in [VM -> Ring] /\ message_list'[v] = new
        /\ \A w \in VM \ {v} : message_list'[w] = message_list[w]
    BY <2>1, <2>4 DEF IVInv
  <2>7. /\ pc' \in [VM -> {"boot", "enabled", "registered", "main", "blocked"}]
        /\ pc'[v] = IF cleared[v] + 1 = Parts THEN "main" ELSE "registered"
        /\ \A w \in VM \ {v} : pc'[w] = pc[w]
    BY <2>1, <2>3 DEF IVInv
  <2>8. StageInv(v)'
    BY <2>2, <2>3, <2>7 DEF StageInv
  <2>9. v \notin spoilt => LibraryInv(v)'
    BY <2>2, <2>3, <2>5, <2>6, <2>7 DEF LibraryInv, HalfCleared
  <2>10. \A w \in VM : (w \notin spoilt' => LibraryInv(w)') /\ StageInv(w)'
    BY <2>1, <2>3, <2>6, <2>7, <2>8, <2>9, SameLibrary DEF IVInv
  <2>11. \A w \in VM : isr'[w] => message_list'[w].num_messages < MESSAGELIST_SZ
    BY <2>1, <2>6 DEF IVInv
  <2>12. QED
    BY <2>1, <2>3, <2>6, <2>7, <2>10, <2>11 DEF IVInv, PolicyTypeOK
<1>3. QED
  BY <1>1, <1>2

\* A send puts a message into a ring with room, or changes no ring.
LEMMA SendInv ==
  ASSUME IVInv, NEW v \in VM, SendMessage(v)
  PROVE  IVInv'
<1>1. PICK t \in Targets, size \in Sizes : intervm_send_msg(v, t, size)
  BY DEF SendMessage
<1>2. UNCHANGED <<running, turn, lent, init, GuestCTL2, message_list, pc, isr, cleared, spoilt,
                  received>>
  BY DEF SendMessage
<1>3. CASE Accepts(t, size)
  <2> DEFINE m == [source_id |-> v, size |-> size, id |-> serial]
  <2>1. /\ t \in VM /\ messages[t].num_messages # MESSAGELIST_SZ
        /\ messages' = [messages EXCEPT ![t] = Put(@, m)]
        /\ guestclt2' = [guestclt2 EXCEPT ![t] = TRUE]
        /\ ret' = [ret EXCEPT ![v] = size]
        /\ serial' = (serial + 1) % IdMod
    BY <1>1, <1>3 DEF intervm_send_msg, Accepts
  <2>2. m \in Message
    BY DEF IVInv, Message
  <2>3. messages[t].num_messages < MESSAGELIST_SZ
    <3>1. messages[t].num_messages \in 0 .. MESSAGELIST_SZ
      BY <2>1 DEF IVInv, Ring
    <3>2. QED
      BY <2>1, <3>1, InterVMAssumption
  <2> HIDE DEF m
  <2>4. RingInv(Put(messages[t], m)) /\ Put(messages[t], m) \in Ring
    <3>1. RingInv(messages[t])
      BY <2>1 DEF IVInv
    <3>2. RingInv(Put(messages[t], m))
      BY <2>2, <2>3, <3>1, PutInv
    <3>3. QED
      BY <3>2 DEF RingInv
  <2>5. messages' \in [VM -> Ring] /\ \A w \in VM : RingInv(messages'[w])
    BY <2>1, <2>4 DEF IVInv
  <2>6. serial' \in 0 .. (IdMod - 1)
    <3>1. serial \in Nat
      BY InterVMAssumption DEF IVInv
    <3>2. QED
      BY <2>1, <3>1, NextSerial
  <2>7. guestclt2' \in [VM -> BOOLEAN] /\ ret' \in [VM -> Sizes \cup SendErrors \cup {0}]
    BY <2>1 DEF IVInv
  <2>8. QED
    BY <1>2, <2>5, <2>6, <2>7, SameLibraries DEF IVInv, PolicyTypeOK
<1>4. CASE ~ Accepts(t, size)
  <2>1. /\ ret' = [ret EXCEPT ![v] = SendError(t, size)]
        /\ guestclt2' = [guestclt2 EXCEPT ![t] = TRUE] \/ guestclt2' = guestclt2
        /\ UNCHANGED <<messages, serial>>
    BY <1>1, <1>4 DEF intervm_send_msg
  <2>2. SendError(t, size) \in SendErrors
    BY DEF SendError, SendErrors
  <2>3. ret' \in [VM -> Sizes \cup SendErrors \cup {0}]
    BY <2>1, <2>2 DEF IVInv
  <2>4. guestclt2' \in [VM -> BOOLEAN]
    BY <2>1 DEF IVInv
  <2>5. QED
    BY <1>2, <2>1, <2>3, <2>4, SameLibraries DEF IVInv, PolicyTypeOK
<1>5. QED
  BY <1>3, <1>4

\* A receive takes the oldest message out of the library's ring.
LEMMA ReceiveInv ==
  ASSUME IVInv, NEW v \in VM, ReceiveMessage(v) \/ ReceiveBlocks(v)
  PROVE  IVInv'
<1>1. CASE ReceiveMessage(v)
  <2>1. /\ pc[v] \in {"main", "blocked"}
        /\ message_list[v].num_messages # 0 /\ ~ isr[v]
        /\ message_list' = [message_list EXCEPT ![v] = Drop(@)]
        /\ pc' = [pc EXCEPT ![v] = "main"]
        /\ UNCHANGED <<running, turn, lent, init, messages, guestclt2, GuestCTL2,
                       isr, cleared, spoilt, ret, serial>>
        /\ DOMAIN received' = DOMAIN received
    BY <1>1 DEF ReceiveMessage, TakeFirst, InThread
  <2>2. Drop(message_list[v]) \in Ring
    BY <2>1, DropFields DEF IVInv
  <2>3. /\ message_list' \in [VM -> Ring]
        /\ message_list'[v] = Drop(message_list[v])
        /\ \A w \in VM \ {v} : message_list'[w] = message_list[w]
        /\ \A w \in VM : isr'[w] => message_list'[w].num_messages < MESSAGELIST_SZ
    BY <2>1, <2>2 DEF IVInv
  <2>4. /\ pc' \in [VM -> {"boot", "enabled", "registered", "main", "blocked"}]
        /\ pc'[v] = "main" /\ \A w \in VM \ {v} : pc'[w] = pc[w]
    BY <2>1 DEF IVInv
  <2>5. cleared[v] = Parts /\ ~ HalfCleared(v)
    BY <2>1, PartsFact DEF IVInv, StageInv, HalfCleared
  <2>6. StageInv(v)'
    BY <2>1, <2>4, <2>5 DEF StageInv
  <2>7. v \notin spoilt => LibraryInv(v)'
    <3>1. v \notin spoilt => RingInv(Drop(message_list[v]))
      BY <2>1, <2>5, DropInv DEF IVInv, LibraryInv
    <3>2. ~ HalfCleared(v)'
      BY <2>1, <2>5 DEF HalfCleared
    <3>3. QED
      BY <2>3, <2>4, <3>1, <3>2 DEF LibraryInv
  <2>8. \A w \in VM : (w \notin spoilt' => LibraryInv(w)') /\ StageInv(w)'
    BY <2>1, <2>3, <2>4, <2>6, <2>7, SameLibrary DEF IVInv
  <2>9. QED
    BY <2>1, <2>3, <2>4, <2>8 DEF IVInv, PolicyTypeOK
<1>2. CASE ReceiveBlocks(v)
  <2>1. /\ pc[v] = "main" /\ pc' = [pc EXCEPT ![v] = "blocked"]
        /\ UNCHANGED <<running, turn, lent, init, messages, guestclt2, GuestCTL2,
                       message_list, isr, cleared, spoilt, ret, received, serial>>
    BY <1>2 DEF ReceiveBlocks
  <2>2. /\ pc' \in [VM -> {"boot", "enabled", "registered", "main", "blocked"}]
        /\ pc'[v] = "blocked" /\ \A w \in VM \ {v} : pc'[w] = pc[w]
    BY <2>1 DEF IVInv
  <2>3. StageInv(v)' /\ (v \notin spoilt => LibraryInv(v)')
    BY <2>1, <2>2 DEF IVInv, StageInv, LibraryInv, HalfCleared
  <2>4. \A w \in VM : (w \notin spoilt' => LibraryInv(w)') /\ StageInv(w)'
    BY <2>1, <2>2, <2>3, SameLibrary DEF IVInv
  <2>5. QED
    BY <2>1, <2>2, <2>4 DEF IVInv, PolicyTypeOK
<1>3. QED
  BY <1>1, <1>2

\* irq_network is entered only while the library's ring has room.
LEMMA TakeInterruptInv ==
  ASSUME IVInv, NEW v \in VM, TakeInterrupt(v)
  PROVE  IVInv'
<1>1. /\ isr' = [isr EXCEPT ![v] =
                   pc[v] # "enabled" /\ message_list[v].num_messages # MESSAGELIST_SZ]
      /\ GuestCTL2' = FALSE
      /\ UNCHANGED <<running, turn, lent, init, messages, guestclt2,
                     message_list, pc, cleared, spoilt, ret, received, serial>>
  BY DEF TakeInterrupt
<1>2. message_list[v].num_messages \in 0 .. MESSAGELIST_SZ
  BY DEF IVInv, Ring
<1>3. /\ isr' \in [VM -> BOOLEAN]
      /\ \A w \in VM : isr'[w] => message_list'[w].num_messages < MESSAGELIST_SZ
  BY <1>1, <1>2, InterVMAssumption DEF IVInv
<1>4. QED
  BY <1>1, <1>3, SameLibraries DEF IVInv, PolicyTypeOK

\* What one turn of irq_network does to the two rings of a VM.
LEMMA IrqNetworkRings ==
  ASSUME IVInv, NEW v \in VM, irq_network(v)
  PROVE  LET ring == message_list[v]
             new == message_list'[v]
         IN
         /\ messages' = [messages EXCEPT ![v] = messages'[v]]
         /\ message_list' = [message_list EXCEPT ![v] = new]
         /\ isr' = [isr EXCEPT ![v] = isr'[v]]
         /\ RingInv(messages'[v]) /\ new \in Ring /\ new.out = ring.out
         /\ isr'[v] \in BOOLEAN
         /\ isr'[v] => new.num_messages < MESSAGELIST_SZ
         /\ RingInv(ring) => RingInv(new)
         /\ \/ /\ messages[v].num_messages = 0 /\ messages' = messages /\ spoilt' = spoilt
               /\ new.num_messages = ring.num_messages /\ new.in = ring.in
            \/ /\ messages[v].num_messages # 0
               /\ messages'[v].num_messages = messages[v].num_messages - 1
               /\ new.num_messages = ring.num_messages + 1
               /\ spoilt' = IF Spoils(v) THEN spoilt \cup {v} ELSE spoilt
               /\ \/ isr'[v] \/ First(messages[v]).size = 0
                  \/ new.num_messages >= MESSAGELIST_SZ
               /\ First(messages[v]) \in Message
<1>1. /\ isr[v] /\ RingInv(messages[v]) /\ message_list[v] \in Ring
      /\ message_list[v].num_messages < MESSAGELIST_SZ
      /\ messages \in [VM -> Ring] /\ message_list \in [VM -> Ring]
      /\ isr \in [VM -> BOOLEAN]
  BY DEF irq_network, IVInv
<1>2. CASE messages[v].num_messages = 0
  <2> DEFINE ring == message_list[v]
             new == [ring EXCEPT !.list[ring.in].size = MESSAGE_EMPTY]
  <2>1. /\ message_list' = [message_list EXCEPT ![v] = new]
        /\ isr' = [isr EXCEPT ![v] = FALSE] /\ messages' = messages /\ spoilt' = spoilt
    BY <1>2, Zenon DEF irq_network
  <2>2. /\ new \in Ring /\ new.in = ring.in /\ new.out = ring.out
        /\ new.num_messages = ring.num_messages
    BY <1>1, MarkFields
  <2>3. RingInv(ring) => RingInv(new)
    BY <1>1, MarkInv
  <2> HIDE DEF new
  <2>4. message_list'[v] = new /\ isr'[v] = FALSE
    BY <1>1, <2>1
  <2>5. QED
    BY <1>1, <1>2, <2>1, <2>2, <2>3, <2>4
<1>3. CASE messages[v].num_messages # 0
  <2> DEFINE m == First(messages[v])
             new == Put(message_list[v], m)
             rest == Drop(messages[v])
  <2>1. /\ message_list' = [message_list EXCEPT ![v] = new]
        /\ messages' = [messages EXCEPT ![v] = rest]
        /\ spoilt' = IF Spoils(v) THEN spoilt \cup {v} ELSE spoilt
        /\ isr' = [isr EXCEPT ![v] = LoopsOn(message_list'[v], m.size)]
    BY <1>3 DEF irq_network, Stored
  <2>2. RingInv(rest) /\ rest.num_messages = messages[v].num_messages - 1 /\ m \in Message
    BY <1>1, <1>3, DropInv
  <2>3. /\ new \in Ring /\ new.out = message_list[v].out
        /\ new.num_messages = message_list[v].num_messages + 1
    <3>1. m \in Cell
      BY <2>2 DEF Message, Cell
    <3>2. QED
      BY <1>1, <3>1, PutFields
  <2>4. RingInv(message_list[v]) => RingInv(new)
    BY <1>1, <2>2, PutInv
  <2> HIDE DEF m, new, rest
  <2>5. message_list'[v] = new /\ messages'[v] = rest
    BY <1>1, <2>1
  <2>6. new.num_messages \in Nat /\ MESSAGELIST_SZ \in Nat
    BY <2>3, InterVMAssumption DEF Ring
  <2>7. isr'[v] = (m.size # 0 /\ new.num_messages < MESSAGELIST_SZ)
    BY <1>1, <2>1, <2>5 DEF LoopsOn
  <2>8. isr'[v] \/ m.size = 0 \/ new.num_messages >= MESSAGELIST_SZ
    <3>1. new.num_messages < MESSAGELIST_SZ \/ new.num_messages >= MESSAGELIST_SZ
      BY <2>6
    <3>2. QED
      BY <2>7, <3>1, Zenon
  <2>9. isr'[v] \in BOOLEAN /\ (isr'[v] => new.num_messages < MESSAGELIST_SZ)
    BY <2>7
  <2>10. QED
    BY <1>1, <1>3, <2>1, <2>2, <2>3, <2>4, <2>5, <2>8, <2>9 DEF m
<1>4. QED
  BY <1>2, <1>3

\* A turn of irq_network leaves a ring that is not spoilt in order, or spoils it.
LEMMA IrqNetworkLibrary ==
  ASSUME IVInv, NEW v \in VM, irq_network(v), v \notin spoilt'
  PROVE  v \notin spoilt /\ LibraryInv(v)'
<1> DEFINE ring == message_list[v]
           new == message_list'[v]
<1>1. /\ new \in Ring /\ new.out = ring.out
      /\ RingInv(ring) => RingInv(new)
      /\ \/ /\ spoilt' = spoilt
            /\ new.num_messages = ring.num_messages /\ new.in = ring.in
         \/ /\ new.num_messages = ring.num_messages + 1
            /\ spoilt' = IF Spoils(v) THEN spoilt \cup {v} ELSE spoilt
  BY IrqNetworkRings
<1>2. pc'[v] = pc[v] /\ cleared'[v] = cleared[v]
  BY DEF irq_network
<1>3. v \notin spoilt
  BY <1>1
<1>4. LibraryInv(v) /\ StageInv(v) /\ cleared[v] \in Nat /\ ring \in Ring
  BY <1>3, PartsFact DEF IVInv
<1>5. CASE spoilt' = spoilt /\ new.num_messages = ring.num_messages /\ new.in = ring.in
  BY <1>1, <1>2, <1>4, <1>5 DEF LibraryInv, HalfCleared
<1>6. CASE new.num_messages = ring.num_messages + 1 /\ ~ Spoils(v)
  <2>1. CASE pc[v] = "registered" /\ cleared[v] # 0
    <3>1. ring.in + 3 < cleared[v] /\ ring.in \in Nat /\ ring.num_messages \in Nat
      BY <1>4, <1>6, <2>1, InterVMAssumption DEF Spoils, Ring, Slot
    <3>2. cleared[v] > 3 /\ ~ HalfCleared(v)
      BY <1>4, <3>1 DEF HalfCleared
    <3>3. RingInv(ring) /\ ring.out = 0
      BY <1>4, <2>1, <3>2 DEF LibraryInv
    <3>4. isr[v] /\ ring.num_messages < MESSAGELIST_SZ
      BY DEF irq_network, IVInv
    <3>5. ring.in = ring.num_messages
      BY <3>1, <3>3, <3>4 DEF RingInv, Wrap
    <3>6. new.num_messages <= cleared[v] - 3
      BY <1>4, <1>6, <3>1, <3>5
    <3>7. QED
      BY <1>1, <1>2, <1>3, <3>2, <3>3, <3>6 DEF LibraryInv, HalfCleared
  <2>2. CASE ~ (pc[v] = "registered" /\ cleared[v] # 0)
    <3>1. ~ HalfCleared(v) /\ ~ (pc[v] = "registered" /\ cleared[v] >= 3)
      <4>1. pc[v] \in {"boot", "enabled", "registered", "main", "blocked"}
        BY DEF IVInv
      <4>2. QED
        BY <1>4, <2>2, <4>1, PartsFact DEF StageInv, HalfCleared
    <3>2. QED
      BY <1>1, <1>2, <1>3, <1>4, <3>1 DEF LibraryInv, HalfCleared
  <2>3. QED
    BY <2>1, <2>2
<1>7. QED
  BY <1>1, <1>5, <1>6

\* One turn of irq_network keeps the invariant.
LEMMA IrqNetworkInv ==
  ASSUME IVInv, NEW v \in VM, irq_network(v)
  PROVE  IVInv'
<1>1. UNCHANGED <<running, turn, lent, init, guestclt2, GuestCTL2, pc, cleared, ret, received,
                  serial>>
  BY DEF irq_network
<1>2. /\ messages' = [messages EXCEPT ![v] = messages'[v]]
      /\ message_list' = [message_list EXCEPT ![v] = message_list'[v]]
      /\ isr' = [isr EXCEPT ![v] = isr'[v]]
      /\ RingInv(messages'[v]) /\ message_list'[v] \in Ring
      /\ isr'[v] \in BOOLEAN
      /\ isr'[v] => message_list'[v].num_messages < MESSAGELIST_SZ
      /\ spoilt' = spoilt \/ spoilt' = spoilt \cup {v}
  BY IrqNetworkRings
<1>3. messages'[v] \in Ring
  BY <1>2 DEF RingInv
<1>4. messages' \in [VM -> Ring] /\ \A w \in VM : RingInv(messages'[w])
  BY <1>2, <1>3 DEF IVInv
<1>5. /\ message_list' \in [VM -> Ring]
      /\ \A w \in VM \ {v} : message_list'[w] = message_list[w]
  BY <1>2 DEF IVInv
<1>6. /\ isr' \in [VM -> BOOLEAN]
      /\ \A w \in VM : isr'[w] => message_list'[w].num_messages < MESSAGELIST_SZ
  BY <1>2 DEF IVInv
<1>7. \A w \in VM : StageInv(w)'
  BY <1>1 DEF IVInv, StageInv
<1>8. \A w \in VM : w \notin spoilt' => LibraryInv(w)'
  <2>1. v \notin spoilt' => LibraryInv(v)'
    BY IrqNetworkLibrary
  <2>2. \A w \in VM \ {v} : w \notin spoilt' => LibraryInv(w)'
    BY <1>1, <1>2, <1>5, SameLibrary DEF IVInv
  <2>3. QED
    BY <2>1, <2>2
<1>9. spoilt' \in SUBSET VM
  BY <1>2 DEF IVInv
<1>10. QED
  BY <1>1, <1>4, <1>5, <1>6, <1>7, <1>8, <1>9 DEF IVInv, PolicyTypeOK

\* Every step keeps the invariant.
LEMMA NextInv == IVInv /\ [IVNext]_ivVars => IVInv'
<1> SUFFICES ASSUME IVInv, [IVNext]_ivVars PROVE IVInv'
  OBVIOUS
<1>1. CASE dispatch
  BY <1>1, DispatchInv
<1>2. ASSUME NEW v \in VM, GuestStep(v)
      PROVE  IVInv'
  BY <1>2, StartInv, SendInv, ReceiveInv, TakeInterruptInv, IrqNetworkInv DEF GuestStep
<1>3. CASE UNCHANGED ivVars
  BY <1>3, SameLibraries DEF ivVars, IVInv, PolicyTypeOK
<1>4. QED
  BY <1>1, <1>2, <1>3 DEF IVNext

\* The inductive invariant gives the type invariant and the agreement of the
\* counters.
LEMMA InvImplies == IVInv => IVTypeOK /\ RingsConsistent
<1> SUFFICES ASSUME IVInv PROVE IVTypeOK /\ RingsConsistent
  OBVIOUS
<1>1. ASSUME NEW ring, RingInv(ring)
      PROVE  RingOK(ring) /\ ring.in = (ring.out + ring.num_messages) % MESSAGELIST_SZ
  <2>1. /\ ring \in Ring
        /\ ring.in = Wrap(ring.out + ring.num_messages)
    BY <1>1 DEF RingInv
  <2>2. RingOK(ring)
    BY <2>1 DEF Ring, RingOK
  <2> DEFINE x == ring.out + ring.num_messages
  <2>3. MESSAGELIST_SZ \in Nat \ {0} /\ x \in Nat /\ x < 2 * MESSAGELIST_SZ
    BY <2>1, InterVMAssumption DEF Ring, Slot
  <2> HIDE DEF x
  <2>4. x % MESSAGELIST_SZ = IF x < MESSAGELIST_SZ THEN x ELSE x - MESSAGELIST_SZ
    BY <2>3
  <2>5. QED
    BY <2>1, <2>2, <2>4 DEF Wrap, x
<1>2. IVTypeOK
  <2>1. \A ring \in Ring : RingOK(ring)
    BY DEF Ring, RingOK
  <2>2. QED
    BY <2>1 DEF IVInv, IVTypeOK
<1>3. RingsConsistent
  <2>1. \A v \in VM : ~ HalfCleared(v) /\ v \notin spoilt => RingInv(message_list[v])
    BY DEF IVInv, LibraryInv
  <2>2. \A v \in VM : RingInv(messages[v])
    BY DEF IVInv
  <2>3. QED
    BY <1>1, <2>1, <2>2 DEF RingsConsistent
<1>4. QED
  BY <1>2, <1>3

\* Both rings of every VM stay inside their arrays, whatever is sent, refused or
\* preempted, and wherever the handler meets memset (intervm_send_msg,
\* intervm_recv_msg, irq_network, init_network).
THEOREM IVTypeCorrect == IVSpec => []IVTypeOK
<1>1. IVInit => IVInv
  BY InitInv
<1>2. IVInv /\ [IVNext]_ivVars => IVInv'
  BY NextInv
<1>3. IVInv => IVTypeOK
  BY InvImplies
<1>4. QED
  BY <1>1, <1>2, <1>3, PTL DEF IVSpec

\* The counters in, out and num_messages, kept by hand in the hypervisor and in
\* the library, never drift apart in the hypervisor's rings; in a library's ring
\* they do only while memset is between them, and for good only if irq_network
\* stored a message in the window of memset that Spoils describes.
THEOREM RingsAlwaysConsistent == IVSpec => []RingsConsistent
<1>1. IVInit => IVInv
  BY InitInv
<1>2. IVInv /\ [IVNext]_ivVars => IVInv'
  BY NextInv
<1>3. IVInv => RingsConsistent
  BY InvImplies
<1>4. QED
  BY <1>1, <1>2, <1>3, PTL DEF IVSpec
-----------------------------------------------------------------------------
\* What is under way to a VM never exceeds the library's ring, no VM is still
\* starting up, and the hypervisor holds no message without an announcement.
BacklogInv ==
  /\ IVInv
  /\ init = [v \in VM |-> FALSE]
  /\ \A v \in VM : pc[v] \in {"main", "blocked"}
  /\ spoilt = {}
  /\ \A v \in VM : messages[v].num_messages + message_list[v].num_messages <= MESSAGELIST_SZ
  /\ BacklogIsAnnounced

\* Guests in main have no memset in progress.
LEMMA BacklogLibraries ==
  ASSUME BacklogInv, NEW v \in VM
  PROVE  v \notin spoilt /\ ~ HalfCleared(v) /\ RingInv(message_list[v])
<1>1. StageInv(v) /\ LibraryInv(v) /\ v \notin spoilt /\ pc[v] \in {"main", "blocked"}
  BY DEF BacklogInv, IVInv
<1>2. ~ HalfCleared(v)
  BY <1>1, PartsFact DEF StageInv, HalfCleared
<1>3. QED
  BY <1>1, <1>2 DEF LibraryInv

\* How many messages the inbox of a VM holds.
LEMMA InboxLength ==
  ASSUME IVInv, NEW v \in VM, v \notin spoilt, ~ HalfCleared(v)
  PROVE  Len(Inbox(v)) = message_list[v].num_messages + messages[v].num_messages
<1>1. ASSUME NEW ring \in Ring
      PROVE  Contents(ring) \in Seq(Cell) /\ Len(Contents(ring)) = ring.num_messages
  <2>1. ring.num_messages \in Nat /\ ring.list \in [Slot -> Cell]
    BY InterVMAssumption DEF Ring
  <2>2. ASSUME NEW k \in 1 .. ring.num_messages
        PROVE  (ring.out + k - 1) % MESSAGELIST_SZ \in Slot
    BY <2>1, InterVMAssumption DEF Ring, Slot
  <2>3. QED
    BY <2>1, <2>2 DEF Contents
<1>2. messages[v] \in Ring /\ message_list[v] \in Ring
  BY DEF IVInv
<1> DEFINE a == Contents(message_list[v])
           b == Contents(messages[v])
<1>3. /\ a \in Seq(Cell) /\ Len(a) = message_list[v].num_messages
      /\ b \in Seq(Cell) /\ Len(b) = messages[v].num_messages
  BY <1>1, <1>2
<1> HIDE DEF a, b
<1>4. Len(a \o b) = Len(a) + Len(b)
  BY <1>3
<1>5. QED
  BY <1>3, <1>4 DEF Inbox, Kept, a, b

\* A message accepted is announced, and senders hold back in time.
LEMMA SendBacklog ==
  ASSUME Window <= MESSAGELIST_SZ, BacklogInv, NEW v \in VM, SendMessage(v)
  PROVE  BacklogInv'
<1>1. IVInv /\ IVInv'
  BY SendInv DEF BacklogInv
<1>2. PICK t \in Targets, size \in Sizes :
          (t \in VM => Len(Inbox(t)) < Window) /\ intervm_send_msg(v, t, size)
  BY DEF SendMessage
<1>3. UNCHANGED <<running, turn, lent, init, GuestCTL2, message_list, pc, isr, cleared, spoilt,
                  received>>
  BY DEF SendMessage
<1>4. /\ messages \in [VM -> Ring] /\ message_list \in [VM -> Ring]
      /\ guestclt2 \in [VM -> BOOLEAN]
  BY <1>1 DEF IVInv
<1>5. CASE Accepts(t, size)
  <2> DEFINE m == [source_id |-> v, size |-> size, id |-> serial]
  <2>1. /\ t \in VM /\ messages[t].num_messages # MESSAGELIST_SZ
        /\ messages' = [messages EXCEPT ![t] = Put(@, m)]
        /\ guestclt2' = [guestclt2 EXCEPT ![t] = TRUE]
    BY <1>2, <1>5 DEF intervm_send_msg, Accepts
  <2>2. m \in Message
    BY <1>1 DEF IVInv, Message
  <2> HIDE DEF m
  <2>3. /\ messages[t].num_messages \in 0 .. MESSAGELIST_SZ
        /\ message_list[t].num_messages \in 0 .. MESSAGELIST_SZ
        /\ RingInv(messages[t])
    BY <1>1, <1>4, <2>1 DEF IVInv, Ring
  <2>4. Put(messages[t], m).num_messages = messages[t].num_messages + 1
    <3>1. messages[t].num_messages < MESSAGELIST_SZ
      BY <2>1, <2>3, InterVMAssumption
    <3>2. QED
      BY <2>2, <2>3, <3>1, PutInv
  <2>5. messages[t].num_messages + message_list[t].num_messages < Window
    BY <1>1, <1>2, <2>1, <2>3, InboxLength, BacklogLibraries, InterVMAssumption
  <2>6. messages'[t].num_messages + message_list'[t].num_messages <= MESSAGELIST_SZ
    <3>1. messages'[t].num_messages = messages[t].num_messages + 1
      BY <1>4, <2>1, <2>4
    <3>2. QED
      BY <1>3, <2>3, <2>5, <3>1, InterVMAssumption
  <2>7. \A w \in VM \ {t} : messages'[w] = messages[w] /\ guestclt2'[w] = guestclt2[w]
    BY <1>4, <2>1
  <2>8. \A w \in VM : messages'[w].num_messages + message_list'[w].num_messages <= MESSAGELIST_SZ
    BY <1>3, <2>6, <2>7 DEF BacklogInv
  <2>9. BacklogIsAnnounced'
    BY <1>3, <1>4, <2>1, <2>7 DEF BacklogInv, BacklogIsAnnounced
  <2>10. QED
    BY <1>1, <1>3, <2>8, <2>9 DEF BacklogInv
<1>6. CASE ~ Accepts(t, size)
  <2>1. /\ messages' = messages
        /\ guestclt2' = [guestclt2 EXCEPT ![t] = TRUE] \/ guestclt2' = guestclt2
    BY <1>2, <1>6 DEF intervm_send_msg
  <2>2. \A w \in VM : guestclt2[w] => guestclt2'[w]
    BY <1>4, <2>1
  <2>3. QED
    BY <1>1, <1>3, <2>1, <2>2 DEF BacklogInv, BacklogIsAnnounced
<1>7. QED
  BY <1>5, <1>6

\* irq_network goes on until the hypervisor's ring is empty: the library's ring
\* does not fill up before, and no message is empty.
LEMMA IrqNetworkBacklog ==
  ASSUME 0 \notin Sizes, BacklogInv, NEW v \in VM, irq_network(v)
  PROVE  BacklogInv'
<1>1. IVInv /\ IVInv'
  BY IrqNetworkInv DEF BacklogInv
<1>2. UNCHANGED <<running, turn, lent, init, guestclt2, GuestCTL2, pc, cleared, ret, received,
                  serial>>
  BY DEF irq_network
<1>3. /\ messages \in [VM -> Ring] /\ message_list \in [VM -> Ring]
      /\ isr \in [VM -> BOOLEAN]
  BY <1>1 DEF IVInv
<1>4. /\ messages' = [messages EXCEPT ![v] = messages'[v]]
      /\ message_list' = [message_list EXCEPT ![v] = message_list'[v]]
      /\ isr' = [isr EXCEPT ![v] = isr'[v]]
      /\ spoilt' = spoilt
      /\ \/ /\ messages[v].num_messages = 0 /\ messages' = messages
            /\ message_list'[v].num_messages = message_list[v].num_messages
         \/ /\ messages[v].num_messages # 0
            /\ messages'[v].num_messages = messages[v].num_messages - 1
            /\ message_list'[v].num_messages = message_list[v].num_messages + 1
            /\ \/ isr'[v] \/ First(messages[v]).size = 0
               \/ message_list'[v].num_messages >= MESSAGELIST_SZ
            /\ First(messages[v]) \in Message
  <2>1. ~ Spoils(v)
    BY DEF BacklogInv, Spoils
  <2>2. QED
    BY <1>1, <2>1, IrqNetworkRings
<1>5. /\ messages[v].num_messages \in 0 .. MESSAGELIST_SZ
      /\ message_list[v].num_messages \in 0 .. MESSAGELIST_SZ
      /\ messages[v].num_messages + message_list[v].num_messages <= MESSAGELIST_SZ
      /\ MESSAGELIST_SZ \in Nat
  BY <1>3, InterVMAssumption DEF BacklogInv, Ring
<1>6. /\ messages'[v].num_messages + message_list'[v].num_messages <= MESSAGELIST_SZ
      /\ messages'[v].num_messages # 0 => isr'[v]
  <2>1. CASE messages[v].num_messages = 0
    BY <1>4, <1>5, <2>1
  <2>2. CASE messages[v].num_messages # 0
    <3>1. First(messages[v]).size # 0
      BY <1>4, <2>2 DEF Message
    <3>2. QED
      BY <1>4, <1>5, <2>2, <3>1
  <2>3. QED
    BY <2>1, <2>2
<1>7. \A w \in VM \ {v} : /\ messages'[w] = messages[w] /\ message_list'[w] = message_list[w]
                          /\ isr'[w] = isr[w]
  BY <1>3, <1>4, Zenon
<1>8. \A w \in VM : messages'[w].num_messages + message_list'[w].num_messages <= MESSAGELIST_SZ
  BY <1>6, <1>7 DEF BacklogInv
<1>9. BacklogIsAnnounced'
  BY <1>2, <1>6, <1>7 DEF BacklogInv, BacklogIsAnnounced
<1>10. QED
  BY <1>1, <1>2, <1>4, <1>8, <1>9 DEF BacklogInv

\* A dispatch carries the pending interrupts of both VMs with it.
LEMMA DispatchBacklog == BacklogInv /\ dispatch => BacklogInv'
<1> SUFFICES ASSUME BacklogInv, dispatch PROVE BacklogInv'
  OBVIOUS
<1>1. IVInv /\ IVInv'
  BY DispatchInv DEF BacklogInv
<1>2. running' \in VM
  <2>1. \A u \in 0 .. NVMACHINES : Successor(u) \in VM
    BY PolicyAssumption DEF Successor, VM
  <2>2. QED
    BY <1>1, <2>1, PolicyAssumption DEF dispatch, PolicyNext, Turn, Borrow, IVInv, PolicyTypeOK, VM
<1> DEFINE saved == [v \in VM |-> guestclt2[v] \/ (v = running /\ ~init[v] /\ GuestCTL2)]
<1>3. /\ GuestCTL2' = saved[running'] /\ guestclt2' = [saved EXCEPT ![running'] = FALSE]
      /\ init' = [init EXCEPT ![running'] = FALSE]
      /\ UNCHANGED <<messages, message_list, pc, isr, cleared, spoilt, ret, received, serial>>
  BY DEF dispatch
<1>4. \A v \in VM : saved[v] = (guestclt2[v] \/ (v = running /\ GuestCTL2))
  BY <1>1 DEF BacklogInv, IVInv
<1>5. saved \in [VM -> BOOLEAN]
  BY <1>1 DEF IVInv
<1> HIDE DEF saved
<1>6. \A v \in VM : saved[v] => guestclt2'[v] \/ (running' = v /\ GuestCTL2')
  BY <1>2, <1>3, <1>5
<1>7. BacklogIsAnnounced'
  BY <1>3, <1>4, <1>6 DEF BacklogInv, BacklogIsAnnounced
<1>8. init' = [v \in VM |-> FALSE]
  BY <1>2, <1>3 DEF BacklogInv
<1>9. QED
  BY <1>1, <1>3, <1>7, <1>8 DEF BacklogInv

\* The other steps of a guest: taking the interrupt starts irq_network whenever
\* the hypervisor holds a message, for then the library's ring has room.
LEMMA GuestBacklog ==
  ASSUME BacklogInv, NEW v \in VM,
         \/ init_proc(v) \/ init_network_register(v) \/ init_network_clear(v)
         \/ ReceiveMessage(v) \/ ReceiveBlocks(v) \/ TakeInterrupt(v)
  PROVE  BacklogInv'
<1>1. IVInv /\ pc[v] \in {"main", "blocked"}
  BY DEF BacklogInv
<1>2. /\ messages \in [VM -> Ring] /\ message_list \in [VM -> Ring]
      /\ isr \in [VM -> BOOLEAN]
      /\ pc \in [VM -> {"boot", "enabled", "registered", "main", "blocked"}]
      /\ MESSAGELIST_SZ \in Nat
  BY <1>1, InterVMAssumption DEF IVInv
<1>3. \A w \in VM : /\ messages[w].num_messages \in Nat
                    /\ message_list[w].num_messages \in Nat
  BY <1>2 DEF Ring
<1>4. CASE init_proc(v) \/ init_network_register(v) \/ init_network_clear(v)
  BY <1>1, <1>4 DEF init_proc, init_network_register, init_network_clear
<1>5. CASE ReceiveMessage(v)
  <2>1. IVInv'
    BY <1>1, <1>5, ReceiveInv
  <2>2. /\ message_list[v].num_messages # 0
        /\ message_list' = [message_list EXCEPT ![v] = Drop(@)]
        /\ pc' = [pc EXCEPT ![v] = "main"]
        /\ UNCHANGED <<running, turn, lent, init, messages, guestclt2, GuestCTL2,
                       isr, cleared, spoilt, ret, serial>>
    BY <1>5 DEF ReceiveMessage, TakeFirst
  <2>3. Drop(message_list[v]).num_messages = message_list[v].num_messages - 1
    BY <2>2, BacklogLibraries, DropInv
  <2>4. /\ message_list'[v].num_messages = message_list[v].num_messages - 1
        /\ \A w \in VM \ {v} : message_list'[w] = message_list[w]
    BY <1>2, <2>2, <2>3
  <2>5. \A w \in VM : messages'[w].num_messages + message_list'[w].num_messages <= MESSAGELIST_SZ
    BY <1>2, <1>3, <2>2, <2>4 DEF BacklogInv
  <2>6. \A w \in VM : pc'[w] \in {"main", "blocked"}
    BY <1>2, <2>2 DEF BacklogInv
  <2>7. QED
    BY <2>1, <2>2, <2>5, <2>6 DEF BacklogInv, BacklogIsAnnounced
<1>6. CASE ReceiveBlocks(v)
  <2>1. IVInv'
    BY <1>1, <1>6, ReceiveInv
  <2>2. /\ pc' = [pc EXCEPT ![v] = "blocked"]
        /\ UNCHANGED <<running, turn, lent, init, messages, guestclt2, GuestCTL2,
                       message_list, isr, cleared, spoilt, ret, received, serial>>
    BY <1>6 DEF ReceiveBlocks
  <2>3. \A w \in VM : pc'[w] \in {"main", "blocked"}
    BY <1>2, <2>2 DEF BacklogInv
  <2>4. QED
    BY <2>1, <2>2, <2>3 DEF BacklogInv, BacklogIsAnnounced
<1>7. CASE TakeInterrupt(v)
  <2>1. IVInv'
    BY <1>1, <1>7, TakeInterruptInv
  <2>2. /\ running = v /\ ~ isr[v]
        /\ isr' = [isr EXCEPT ![v] =
                     pc[v] # "enabled" /\ message_list[v].num_messages # MESSAGELIST_SZ]
        /\ UNCHANGED <<running, turn, lent, init, messages, guestclt2,
                       message_list, pc, cleared, spoilt, ret, received, serial>>
    BY <1>7 DEF TakeInterrupt, InThread
  <2>3. messages[v].num_messages # 0 => message_list[v].num_messages # MESSAGELIST_SZ
    BY <1>2, <1>3 DEF BacklogInv
  <2>4. messages[v].num_messages # 0 => isr'[v]
    BY <1>1, <1>2, <2>2, <2>3
  <2>5. \A w \in VM \ {v} : isr'[w] = isr[w] /\ w # running
    BY <1>2, <2>2
  <2>6. BacklogIsAnnounced'
    BY <2>2, <2>4, <2>5 DEF BacklogInv, BacklogIsAnnounced
  <2>7. QED
    BY <2>1, <2>2, <2>6 DEF BacklogInv
<1>8. QED
  BY <1>4, <1>5, <1>6, <1>7

\* With guests that have started, no empty messages, and senders that leave no
\* more unreceived than the library's ring holds, the hypervisor never keeps a
\* message that no handler or pending interrupt will fetch (intervm_send_msg,
\* contextSave, contextRestore, irq_network).
THEOREM BacklogAlwaysAnnounced ==
  ASSUME 0 \notin Sizes, Window <= MESSAGELIST_SZ, ~ ColdStart
  PROVE  IVSpec => []BacklogIsAnnounced
<1>1. IVInit => BacklogInv
  <2> SUFFICES ASSUME IVInit PROVE BacklogInv
    OBVIOUS
  <2>1. IVInv
    BY InitInv
  <2>2. \A v \in VM : messages[v].num_messages = 0 /\ message_list[v].num_messages = 0
    BY EmptyRingInv DEF IVInit
  <2>3. /\ init = [v \in VM |-> FALSE] /\ spoilt = {}
        /\ \A v \in VM : pc[v] \in {"main", "blocked"}
    BY InterVMAssumption DEF IVInit
  <2>4. QED
    BY <2>1, <2>2, <2>3, InterVMAssumption DEF BacklogInv, BacklogIsAnnounced
<1>2. BacklogInv /\ [IVNext]_ivVars => BacklogInv'
  <2> SUFFICES ASSUME BacklogInv, [IVNext]_ivVars PROVE BacklogInv'
    OBVIOUS
  <2>1. CASE dispatch
    BY <2>1, DispatchBacklog
  <2>2. ASSUME NEW v \in VM, GuestStep(v)
        PROVE  BacklogInv'
    BY <2>2, SendBacklog, IrqNetworkBacklog, GuestBacklog DEF GuestStep
  <2>3. CASE UNCHANGED ivVars
    <3>1. IVInv'
      BY <2>3, NextInv DEF BacklogInv
    <3>2. QED
      BY <2>3, <3>1 DEF ivVars, BacklogInv, BacklogIsAnnounced
  <2>4. QED
    BY <2>1, <2>2, <2>3 DEF IVNext
<1>3. BacklogInv => BacklogIsAnnounced
  BY DEF BacklogInv
<1>4. QED
  BY <1>1, <1>2, <1>3, PTL DEF IVSpec
=============================================================================
