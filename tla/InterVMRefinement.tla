------------------------- MODULE InterVMRefinement --------------------------
(***************************************************************************)
(* The proof that inter-VM communication implements the message channel    *)
(* for any number of VMs and sizes of rings: every step of a sender, of a  *)
(* receiver, of the handler between the two rings and of the scheduler is  *)
(* a step of MessageChannel or leaves the inboxes as they are.             *)
(***************************************************************************)
EXTENDS InterVMProofs, SequenceTheorems

-----------------------------------------------------------------------------
\* A message sent goes to the end of the inbox.
LEMMA SeqSend ==
  ASSUME NEW S, NEW a \in Seq(S), NEW b \in Seq(S), NEW m \in S
  PROVE  a \o Append(b, m) = Append(a \o b, m)
<1>1. <<m>> \in Seq(S) /\ a \o b \in Seq(S)
  BY ConcatProperties
<1>2. Append(b, m) = b \o <<m>> /\ Append(a \o b, m) = (a \o b) \o <<m>>
  BY <1>1, AppendIsConcat
<1>3. QED
  BY <1>1, <1>2, ConcatAssociative

\* The first message of the second sequence moved to the end of the first one.
LEMMA SeqMove ==
  ASSUME NEW S, NEW a \in Seq(S), NEW b \in Seq(S), b # <<>>
  PROVE  Append(a, Head(b)) \o Tail(b) = a \o b
<1> DEFINE c == Append(a, Head(b))
           d == Tail(b)
<1>1. /\ Head(b) = b[1] /\ Len(b) \in Nat \ {0} /\ Len(a) \in Nat
      /\ Head(b) \in S /\ d \in Seq(S) /\ Len(d) = Len(b) - 1
      /\ \A i \in 1 .. Len(d) : d[i] = b[i + 1]
  BY HeadTailProperties, LenProperties, EmptySeq
<1>2. /\ c \in Seq(S) /\ Len(c) = Len(a) + 1
      /\ \A i \in 1 .. Len(a) : c[i] = a[i]
      /\ c[Len(a) + 1] = b[1]
  BY <1>1, AppendProperties
<1> HIDE DEF c, d
<1>3. /\ c \o d \in Seq(S) /\ Len(c \o d) = Len(c) + Len(d)
      /\ \A i \in 1 .. Len(c) + Len(d) :
            (c \o d)[i] = IF i <= Len(c) THEN c[i] ELSE d[i - Len(c)]
  BY <1>1, <1>2, ConcatProperties
<1>4. /\ a \o b \in Seq(S) /\ Len(a \o b) = Len(a) + Len(b)
      /\ \A i \in 1 .. Len(a) + Len(b) :
            (a \o b)[i] = IF i <= Len(a) THEN a[i] ELSE b[i - Len(a)]
  BY ConcatProperties
<1>5. Len(c \o d) = Len(a \o b)
  BY <1>1, <1>2, <1>3, <1>4
<1>6. ASSUME NEW i \in 1 .. Len(c \o d)
      PROVE  (c \o d)[i] = (a \o b)[i]
  <2>1. i \in 1 .. Len(c) + Len(d) /\ i \in 1 .. Len(a) + Len(b)
    BY <1>3, <1>4, <1>5, <1>6
  <2>2. CASE i <= Len(a)
    <3>1. i \in 1 .. Len(a) /\ i <= Len(c)
      BY <1>1, <1>2, <2>1, <2>2
    <3>2. QED
      BY <1>2, <1>3, <1>4, <2>1, <2>2, <3>1
  <2>3. CASE i = Len(a) + 1
    <3>1. i <= Len(c) /\ ~ (i <= Len(a)) /\ i - Len(a) = 1
      BY <1>1, <1>2, <2>3
    <3>2. QED
      BY <1>2, <1>3, <1>4, <2>1, <2>3, <3>1
  <2>4. CASE i > Len(a) + 1
    <3>1. /\ ~ (i <= Len(c)) /\ ~ (i <= Len(a))
          /\ i - Len(c) \in 1 .. Len(d) /\ (i - Len(c)) + 1 = i - Len(a)
      BY <1>1, <1>2, <2>1, <2>4
    <3>2. d[i - Len(c)] = b[i - Len(a)]
      BY <1>1, <3>1
    <3>3. QED
      BY <1>3, <1>4, <2>1, <3>1, <3>2
  <2>5. QED
    BY <1>1, <2>1, <2>2, <2>3, <2>4
<1>7. QED
  BY <1>3, <1>4, <1>5, <1>6, SeqEqual DEF c, d

\* The first of two sequences loses its head.
LEMMA SeqTake ==
  ASSUME NEW S, NEW a \in Seq(S), NEW b \in Seq(S), a # <<>>
  PROVE  /\ a \o b # <<>> /\ Head(a \o b) = Head(a)
         /\ Tail(a \o b) = Tail(a) \o b
<1>1. /\ Len(a) \in Nat \ {0} /\ Len(b) \in Nat
      /\ Head(a) = a[1] /\ Tail(a) \in Seq(S) /\ Len(Tail(a)) = Len(a) - 1
      /\ \A i \in 1 .. Len(Tail(a)) : Tail(a)[i] = a[i + 1]
  BY HeadTailProperties, LenProperties, EmptySeq
<1> DEFINE c == a \o b
           d == Tail(a)
<1>2. /\ c \in Seq(S) /\ Len(c) = Len(a) + Len(b)
      /\ \A i \in 1 .. Len(a) + Len(b) :
            c[i] = IF i <= Len(a) THEN a[i] ELSE b[i - Len(a)]
  BY ConcatProperties
<1>3. /\ d \o b \in Seq(S) /\ Len(d \o b) = Len(d) + Len(b)
      /\ \A i \in 1 .. Len(d) + Len(b) :
            (d \o b)[i] = IF i <= Len(d) THEN d[i] ELSE b[i - Len(d)]
  BY <1>1, ConcatProperties
<1> HIDE DEF c, d
<1>4. c # <<>>
  BY <1>1, <1>2, EmptySeq
<1>5. /\ Head(c) = c[1] /\ Tail(c) \in Seq(S) /\ Len(Tail(c)) = Len(c) - 1
      /\ \A i \in 1 .. Len(Tail(c)) : Tail(c)[i] = c[i + 1]
  BY <1>2, <1>4, HeadTailProperties
<1>6. Head(c) = Head(a)
  BY <1>1, <1>2, <1>5
<1>7. d \in Seq(S) /\ Len(d) = Len(a) - 1 /\ \A i \in 1 .. Len(d) : d[i] = a[i + 1]
  BY <1>1 DEF d
<1>8. Len(Tail(c)) = Len(d \o b)
  BY <1>1, <1>2, <1>3, <1>5, <1>7
<1>9. ASSUME NEW i \in 1 .. Len(Tail(c))
      PROVE  Tail(c)[i] = (d \o b)[i]
  <2>1. /\ i + 1 \in 1 .. Len(a) + Len(b) /\ i \in 1 .. Len(d) + Len(b)
        /\ Tail(c)[i] = c[i + 1]
    BY <1>1, <1>2, <1>5, <1>7, <1>9
  <2>2. CASE i <= Len(d)
    <3>1. i \in 1 .. Len(d) /\ i + 1 <= Len(a)
      BY <1>1, <1>7, <2>1, <2>2
    <3>2. QED
      BY <1>2, <1>3, <1>7, <2>1, <2>2, <3>1
  <2>3. CASE ~ (i <= Len(d))
    <3>1. ~ (i + 1 <= Len(a)) /\ (i + 1) - Len(a) = i - Len(d)
      BY <1>1, <1>7, <2>1, <2>3
    <3>2. QED
      BY <1>2, <1>3, <2>1, <2>3, <3>1
  <2>4. QED
    BY <2>2, <2>3
<1>10. Tail(c) = d \o b
  BY <1>3, <1>5, <1>8, <1>9, SeqEqual
<1>11. QED
  BY <1>4, <1>6, <1>10 DEF c, d

\* What is left of two sequences without the first one.
LEMMA SeqClear ==
  ASSUME NEW S, NEW a \in Seq(S), NEW b \in Seq(S)
  PROVE  SubSeq(a \o b, Len(a) + 1, Len(a \o b)) = b
<1> DEFINE c == a \o b
           d == SubSeq(c, Len(a) + 1, Len(c))
<1>1. /\ Len(a) \in Nat /\ Len(b) \in Nat
      /\ c \in Seq(S) /\ Len(c) = Len(a) + Len(b)
      /\ \A i \in 1 .. Len(a) + Len(b) :
            c[i] = IF i <= Len(a) THEN a[i] ELSE b[i - Len(a)]
  BY ConcatProperties, LenProperties
<1> HIDE DEF c
<1>2. /\ d \in Seq(S) /\ Len(d) = Len(b)
      /\ \A i \in 1 .. Len(b) : d[i] = c[Len(a) + 1 + i - 1]
  <2>1. \A i \in (Len(a) + 1) .. Len(c) : c[i] \in S
    BY <1>1, ElementOfSeq
  <2>2. /\ d \in Seq(S)
        /\ Len(d) = IF Len(a) + 1 <= Len(c) THEN Len(c) - (Len(a) + 1) + 1 ELSE 0
        /\ \A i \in 1 .. Len(c) - (Len(a) + 1) + 1 : d[i] = c[Len(a) + 1 + i - 1]
    BY <1>1, <2>1, SubSeqProperties
  <2> HIDE DEF d
  <2>3. Len(c) - (Len(a) + 1) + 1 = Len(b)
    BY <1>1
  <2>4. Len(a) + 1 <= Len(c) \/ Len(b) = 0
    BY <1>1
  <2>5. QED
    BY <1>1, <2>2, <2>3, <2>4
<1> HIDE DEF d
<1>3. ASSUME NEW i \in 1 .. Len(d)
      PROVE  d[i] = b[i]
  <2>1. /\ i \in 1 .. Len(b) /\ Len(a) + 1 + i - 1 \in 1 .. Len(a) + Len(b)
        /\ ~ (Len(a) + 1 + i - 1 <= Len(a)) /\ (Len(a) + 1 + i - 1) - Len(a) = i
    BY <1>1, <1>2, <1>3
  <2>2. QED
    BY <1>1, <1>2, <2>1
<1>4. d = b
  BY <1>2, <1>3, SeqEqual
<1>5. QED
  BY <1>4 DEF c, d
-----------------------------------------------------------------------------
\* A function on an initial segment is a sequence.
LEMMA SeqOfFunction ==
  ASSUME NEW S, NEW n \in Nat, NEW f \in [1 .. n -> S]
  PROVE  f \in Seq(S) /\ Len(f) = n
OBVIOUS

\* What makes a sequence the extension of another one.
LEMMA IsAppend ==
  ASSUME NEW S, NEW c \in Seq(S), NEW d \in Seq(S), NEW m \in S,
         Len(d) = Len(c) + 1, \A i \in 1 .. Len(c) : d[i] = c[i], d[Len(c) + 1] = m
  PROVE  d = Append(c, m)
<1> DEFINE e == Append(c, m)
<1>1. /\ e \in Seq(S) /\ Len(e) = Len(c) + 1 /\ Len(c) \in Nat
      /\ \A i \in 1 .. Len(c) : e[i] = c[i]
      /\ e[Len(c) + 1] = m
  BY AppendProperties, LenProperties
<1> HIDE DEF e
<1>2. ASSUME NEW i \in 1 .. Len(d)
      PROVE  d[i] = e[i]
  <2>1. i \in 1 .. Len(c) \/ i = Len(c) + 1
    BY <1>1
  <2>2. QED
    BY <1>1, <2>1
<1>3. QED
  BY <1>1, <1>2, SeqEqual DEF e

\* What makes a sequence the tail of another one.
LEMMA IsTail ==
  ASSUME NEW S, NEW c \in Seq(S), NEW d \in Seq(S),
         Len(c) # 0, Len(d) = Len(c) - 1, \A i \in 1 .. Len(d) : d[i] = c[i + 1]
  PROVE  c # <<>> /\ Head(c) = c[1] /\ d = Tail(c)
<1>1. c # <<>>
  BY EmptySeq
<1>2. /\ Head(c) = c[1] /\ Tail(c) \in Seq(S) /\ Len(Tail(c)) = Len(c) - 1
      /\ \A i \in 1 .. Len(Tail(c)) : Tail(c)[i] = c[i + 1]
  BY <1>1, HeadTailProperties
<1>3. d = Tail(c)
  BY <1>2, SeqEqual
<1>4. QED
  BY <1>1, <1>2, <1>3

\* The slots that hold the contents of a ring.
LEMMA ContentsAre ==
  ASSUME NEW ring, RingInv(ring)
  PROVE  /\ Contents(ring) = [k \in 1 .. ring.num_messages |-> ring.list[Wrap(ring.out + k - 1)]]
         /\ Contents(ring) \in Seq(Message)
         /\ Len(Contents(ring)) = ring.num_messages
         /\ \A k \in 1 .. ring.num_messages :
               Wrap(ring.out + k - 1) \in Slot /\ Live(ring, Wrap(ring.out + k - 1))
<1>1. MESSAGELIST_SZ \in Nat \ {0}
  BY InterVMAssumption
<1>2. /\ ring.out \in Nat /\ ring.out < MESSAGELIST_SZ /\ ring.out \in Slot
      /\ ring.num_messages \in Nat /\ ring.num_messages <= MESSAGELIST_SZ
      /\ ring.list \in [Slot -> Cell]
  BY <1>1 DEF RingInv, Ring, Slot
<1>3. ASSUME NEW k \in 1 .. ring.num_messages
      PROVE  /\ (ring.out + k - 1) % MESSAGELIST_SZ = Wrap(ring.out + k - 1)
             /\ Wrap(ring.out + k - 1) \in Slot
             /\ Live(ring, Wrap(ring.out + k - 1))
  <2> DEFINE x == ring.out + k - 1
  <2>1. /\ x \in Nat /\ x < 2 * MESSAGELIST_SZ
        /\ ring.out <= x /\ x < ring.out + ring.num_messages
        /\ x - MESSAGELIST_SZ < ring.out
    BY <1>1, <1>2
  <2> HIDE DEF x
  <2>2. x % MESSAGELIST_SZ = IF x < MESSAGELIST_SZ THEN x ELSE x - MESSAGELIST_SZ
    BY <1>1, <2>1
  <2>3. Wrap(x) \in Slot /\ Live(ring, Wrap(x))
    BY <1>1, <1>2, <2>1 DEF Wrap, Slot, Live
  <2>4. QED
    BY <2>2, <2>3 DEF Wrap, x
<1> DEFINE c == [k \in 1 .. ring.num_messages |-> ring.list[Wrap(ring.out + k - 1)]]
<1>4. Contents(ring) = c
  BY <1>3 DEF Contents
<1>5. \A k \in 1 .. ring.num_messages : ring.list[Wrap(ring.out + k - 1)] \in Message
  BY <1>3 DEF RingInv
<1>6. c \in Seq(Message) /\ Len(c) = ring.num_messages
  <2>1. c \in [1 .. ring.num_messages -> Message]
    BY <1>5
  <2> HIDE DEF c
  <2>2. QED
    BY <1>2, <2>1, SeqOfFunction
<1>7. QED
  BY <1>3, <1>4, <1>6

\* Put appends to the contents of a ring.
LEMMA PutContents ==
  ASSUME NEW ring, RingInv(ring), ring.num_messages < MESSAGELIST_SZ,
         NEW m \in Message
  PROVE  Contents(Put(ring, m)) = Append(Contents(ring), m)
<1>1. MESSAGELIST_SZ \in Nat \ {0} /\ m \in Cell
  BY InterVMAssumption DEF Message, Cell
<1>2. /\ ring \in Ring /\ ring.in \in Slot
      /\ ring.out \in Nat /\ ring.out < MESSAGELIST_SZ
      /\ ring.num_messages \in Nat
      /\ ring.list \in [Slot -> Cell]
      /\ ring.in = Wrap(ring.out + ring.num_messages)
  BY <1>1 DEF RingInv, Ring, Slot
<1> DEFINE new == Put(ring, m)
           c == Contents(ring)
           d == Contents(new)
<1>3. /\ new.out = ring.out /\ new.num_messages = ring.num_messages + 1
      /\ new.list = [ring.list EXCEPT ![ring.in] = m]
  BY <1>1, <1>2, PutFields
<1>4. RingInv(new)
  BY PutInv
<1> HIDE DEF new
<1>5. /\ c = [k \in 1 .. ring.num_messages |-> ring.list[Wrap(ring.out + k - 1)]]
      /\ c \in Seq(Message) /\ Len(c) = ring.num_messages
      /\ \A k \in 1 .. ring.num_messages :
            Wrap(ring.out + k - 1) \in Slot /\ Live(ring, Wrap(ring.out + k - 1))
  BY ContentsAre
<1>6. /\ d = [k \in 1 .. new.num_messages |-> new.list[Wrap(new.out + k - 1)]]
      /\ d \in Seq(Message) /\ Len(d) = new.num_messages
  BY <1>4, ContentsAre
<1> HIDE DEF c, d
<1>7. ~ Live(ring, ring.in)
  BY <1>1, <1>2 DEF Live, Wrap, Slot
<1>8. ASSUME NEW k \in 1 .. ring.num_messages
      PROVE  d[k] = c[k]
  <2>1. Wrap(ring.out + k - 1) # ring.in /\ Wrap(ring.out + k - 1) \in Slot
    BY <1>5, <1>7
  <2>2. k \in 1 .. new.num_messages
    BY <1>2, <1>3
  <2>3. d[k] = new.list[Wrap(ring.out + k - 1)] /\ c[k] = ring.list[Wrap(ring.out + k - 1)]
    BY <1>3, <1>5, <1>6, <2>2
  <2>4. QED
    BY <1>2, <1>3, <2>1, <2>3
<1>9. d[ring.num_messages + 1] = m
  <2>1. ring.out + (ring.num_messages + 1) - 1 = ring.out + ring.num_messages
        /\ ring.num_messages + 1 \in 1 .. new.num_messages
    BY <1>2, <1>3
  <2>2. d[ring.num_messages + 1] = new.list[ring.in]
    BY <1>2, <1>3, <1>6, <2>1
  <2>3. QED
    BY <1>2, <1>3, <2>2
<1>10. /\ c \in Seq(Message) /\ d \in Seq(Message) /\ Len(d) = Len(c) + 1
       /\ (\A k \in 1 .. Len(c) : d[k] = c[k]) /\ d[Len(c) + 1] = m
  BY <1>2, <1>3, <1>5, <1>6, <1>8, <1>9
<1>11. d = Append(c, m)
  BY <1>10, IsAppend, Zenon
<1>12. QED
  BY <1>11 DEF c, d, new

\* Drop takes the head of the contents of a ring, which First returns.
LEMMA DropContents ==
  ASSUME NEW ring, RingInv(ring), ring.num_messages # 0
  PROVE  /\ Contents(ring) # <<>> /\ Head(Contents(ring)) = First(ring)
         /\ Contents(Drop(ring)) = Tail(Contents(ring))
<1>1. MESSAGELIST_SZ \in Nat \ {0}
  BY InterVMAssumption
<1>2. /\ ring \in Ring
      /\ ring.out \in Nat /\ ring.out < MESSAGELIST_SZ
      /\ ring.num_messages \in Nat \ {0} /\ ring.num_messages <= MESSAGELIST_SZ
  BY <1>1 DEF RingInv, Ring, Slot
<1> DEFINE new == Drop(ring)
           c == Contents(ring)
           d == Contents(new)
<1>3. /\ new.out = Wrap(ring.out + 1) /\ new.num_messages = ring.num_messages - 1
      /\ new.list = ring.list
  BY <1>2, DropFields
<1>4. RingInv(new)
  BY DropInv
<1> HIDE DEF new
<1>5. /\ c = [k \in 1 .. ring.num_messages |-> ring.list[Wrap(ring.out + k - 1)]]
      /\ c \in Seq(Message) /\ Len(c) = ring.num_messages
  BY ContentsAre
<1>6. /\ d = [k \in 1 .. new.num_messages |-> new.list[Wrap(new.out + k - 1)]]
      /\ d \in Seq(Message) /\ Len(d) = new.num_messages
  BY <1>4, ContentsAre
<1> HIDE DEF d
<1>7. c[1] = First(ring)
  <2>1. ring.out + 1 - 1 = ring.out /\ 1 \in 1 .. ring.num_messages /\ Wrap(ring.out) = ring.out
    BY <1>1, <1>2 DEF Wrap
  <2>2. QED
    BY <1>5, <2>1 DEF First
<1>8. ASSUME NEW i \in 1 .. Len(d)
      PROVE  d[i] = c[i + 1]
  <2>1. i \in 1 .. (ring.num_messages - 1) /\ i + 1 \in 1 .. ring.num_messages
    BY <1>2, <1>3, <1>6, <1>8
  <2>2. Wrap(Wrap(ring.out + 1) + i - 1) = Wrap(ring.out + (i + 1) - 1)
    <3>1. CASE ring.out + 1 < MESSAGELIST_SZ
      <4>1. Wrap(ring.out + 1) + i - 1 = ring.out + (i + 1) - 1
        BY <1>1, <1>2, <2>1, <3>1 DEF Wrap
      <4>2. QED
        BY <4>1
    <3>2. CASE ~ (ring.out + 1 < MESSAGELIST_SZ)
      <4>1. ring.out + 1 = MESSAGELIST_SZ /\ Wrap(ring.out + 1) = 0
        BY <1>1, <1>2, <3>2 DEF Wrap
      <4>2. Wrap(0 + i - 1) = i - 1
        BY <1>1, <1>2, <2>1 DEF Wrap
      <4>3. Wrap(ring.out + (i + 1) - 1) = i - 1
        BY <1>1, <1>2, <2>1, <4>1 DEF Wrap
      <4>4. QED
        BY <4>1, <4>2, <4>3
    <3>3. QED
      BY <3>1, <3>2
  <2>3. d[i] = ring.list[Wrap(Wrap(ring.out + 1) + i - 1)]
    BY <1>3, <1>6
  <2>4. c[i + 1] = ring.list[Wrap(ring.out + (i + 1) - 1)]
    BY <1>5, <2>1
  <2>5. QED
    BY <2>2, <2>3, <2>4
<1> HIDE DEF c
<1>9. /\ c \in Seq(Message) /\ d \in Seq(Message)
      /\ Len(c) # 0 /\ Len(d) = Len(c) - 1
      /\ \A i \in 1 .. Len(d) : d[i] = c[i + 1]
  BY <1>2, <1>3, <1>5, <1>6, <1>8
<1>10. c # <<>> /\ Head(c) = c[1] /\ d = Tail(c)
  BY <1>9, IsTail, Zenon
<1>11. QED
  BY <1>7, <1>10 DEF c, d, new

\* What is not between out and in does not belong to the contents.
LEMMA SameContents ==
  ASSUME NEW ring, RingInv(ring), NEW new, RingInv(new),
         new.out = ring.out, new.num_messages = ring.num_messages,
         \A s \in Slot : Live(ring, s) => new.list[s] = ring.list[s]
  PROVE  Contents(new) = Contents(ring)
<1>1. /\ Contents(ring) = [k \in 1 .. ring.num_messages |-> ring.list[Wrap(ring.out + k - 1)]]
      /\ \A k \in 1 .. ring.num_messages :
            Wrap(ring.out + k - 1) \in Slot /\ Live(ring, Wrap(ring.out + k - 1))
  BY ContentsAre
<1>2. Contents(new) = [k \in 1 .. ring.num_messages |-> new.list[Wrap(ring.out + k - 1)]]
  BY ContentsAre
<1>3. \A k \in 1 .. ring.num_messages :
          new.list[Wrap(ring.out + k - 1)] = ring.list[Wrap(ring.out + k - 1)]
  BY <1>1
<1>4. QED
  BY <1>1, <1>2, <1>3

\* The mark behind the last message is not part of the contents.
LEMMA MarkContents ==
  ASSUME NEW ring, RingInv(ring), ring.num_messages < MESSAGELIST_SZ
  PROVE  Contents([ring EXCEPT !.list[ring.in].size = MESSAGE_EMPTY]) = Contents(ring)
<1>1. MESSAGELIST_SZ \in Nat \ {0}
  BY InterVMAssumption
<1>2. /\ ring \in Ring /\ ring.in \in Slot /\ ring.out \in Slot
      /\ ring.num_messages \in Nat
      /\ ring.list \in [Slot -> Cell]
      /\ ring.in = Wrap(ring.out + ring.num_messages)
  BY <1>1 DEF RingInv, Ring
<1> DEFINE new == [ring EXCEPT !.list[ring.in].size = MESSAGE_EMPTY]
           mark == [ring.list[ring.in] EXCEPT !.size = MESSAGE_EMPTY]
<1>3. /\ new.out = ring.out /\ new.num_messages = ring.num_messages
      /\ new.list = [ring.list EXCEPT ![ring.in] = mark]
  BY <1>2 DEF Ring
<1>4. RingInv(new)
  BY MarkInv
<1> HIDE DEF new, mark
<1>5. ~ Live(ring, ring.in)
  BY <1>1, <1>2 DEF Live, Wrap, Slot
<1>6. \A s \in Slot : Live(ring, s) => new.list[s] = ring.list[s]
  BY <1>2, <1>3, <1>5
<1>7. Contents(new) = Contents(ring)
  BY <1>3, <1>4, <1>6, SameContents
<1>8. QED
  BY <1>7 DEF new
-----------------------------------------------------------------------------
\* The inbox of a VM that is not spoilt is made of the contents of two rings.
LEMMA Inboxes ==
  ASSUME IVInv, NEW v \in VM, v \notin spoilt
  PROVE  /\ Contents(messages[v]) \in Seq(Message) /\ Kept(v) \in Seq(Message)
         /\ Inbox(v) = Kept(v) \o Contents(messages[v])
         /\ Inbox(v) \in Seq(Message)
         /\ Len(Contents(messages[v])) = messages[v].num_messages
         /\ Len(Kept(v)) \in 0 .. MESSAGELIST_SZ
         /\ messages[v].num_messages \in 0 .. MESSAGELIST_SZ
         /\ Len(Inbox(v)) = Len(Kept(v)) + messages[v].num_messages
<1>1. RingInv(messages[v]) /\ LibraryInv(v)
  BY DEF IVInv
<1>2. /\ messages[v].num_messages \in 0 .. MESSAGELIST_SZ
      /\ Contents(messages[v]) \in Seq(Message)
      /\ Len(Contents(messages[v])) = messages[v].num_messages
  BY <1>1, ContentsAre DEF RingInv, Ring
<1>3. Kept(v) \in Seq(Message) /\ Len(Kept(v)) \in 0 .. MESSAGELIST_SZ
  <2>1. CASE HalfCleared(v)
    <3>1. Kept(v) = <<>>
      BY <2>1 DEF Kept
    <3>2. QED
      BY <3>1, InterVMAssumption
  <2>2. CASE ~ HalfCleared(v)
    <3>1. RingInv(message_list[v]) /\ Kept(v) = Contents(message_list[v])
      BY <1>1, <2>2 DEF LibraryInv, Kept
    <3>2. /\ message_list[v].num_messages \in 0 .. MESSAGELIST_SZ
          /\ Contents(message_list[v]) \in Seq(Message)
          /\ Len(Contents(message_list[v])) = message_list[v].num_messages
      BY <3>1, ContentsAre DEF RingInv, Ring
    <3>3. QED
      BY <3>1, <3>2
  <2>3. QED
    BY <2>1, <2>2
<1>4. Inbox(v) = Kept(v) \o Contents(messages[v])
  BY DEF Inbox
<1>5. /\ Inbox(v) \in Seq(Message)
      /\ Len(Inbox(v)) = Len(Kept(v)) + Len(Contents(messages[v]))
  BY <1>2, <1>3, <1>4, ConcatProperties
<1>6. QED
  BY <1>2, <1>3, <1>4, <1>5

\* The inbox of a VM whose rings and start-up a step does not touch.
LEMMA SameInbox ==
  ASSUME NEW w, messages'[w] = messages[w], message_list'[w] = message_list[w],
         cleared'[w] = cleared[w], (w \in spoilt') = (w \in spoilt)
  PROVE  Inbox(w)' = Inbox(w)
BY DEF Inbox, Kept, HalfCleared

\* A step that leaves both rings alone, and with them every inbox.
LEMMA SameInboxes ==
  ASSUME UNCHANGED <<messages, message_list, cleared, spoilt>>
  PROVE  [v \in VM |-> Inbox(v)]' = [v \in VM |-> Inbox(v)]
BY DEF Inbox, Kept, HalfCleared

\* The message of an accepted send is the new end of the target's inbox, if that
\* is not spoilt.
LEMMA AcceptStep ==
  ASSUME IVInv, NEW v \in VM, SendMessage(v),
         NEW t \in Targets, NEW size \in Sizes,
         Accepts(t, size), intervm_send_msg(v, t, size)
  PROVE  Channel!Accept
<1> DEFINE m == [source_id |-> v, size |-> size, id |-> serial]
<1>1. /\ t \in VM /\ messages[t].num_messages # MESSAGELIST_SZ
      /\ messages' = [messages EXCEPT ![t] = Put(@, m)]
      /\ ret' = [ret EXCEPT ![v] = size]
      /\ UNCHANGED <<message_list, pc, cleared, spoilt, received>>
  BY DEF Accepts, intervm_send_msg, SendMessage
<1>2. /\ m \in Message /\ m.source_id = v /\ m.size = size
  BY DEF IVInv, Message
<1> HIDE DEF m
<1>3. messages'[t] = Put(messages[t], m) /\ \A w \in VM \ {t} : messages'[w] = messages[w]
  BY <1>1 DEF IVInv
<1>4. \A w \in VM \ {t} : Inbox(w)' = Inbox(w)
  BY <1>1, <1>3, SameInbox
<1>5. CASE t \in spoilt
  <2>1. Inbox(t)' = Inbox(t)
    BY <1>1, <1>5 DEF Inbox
  <2>2. [w \in VM |-> Inbox(w)]' = [w \in VM |-> Inbox(w)]
    BY <1>4, <2>1
  <2>3. QED
    BY <1>1, <1>2, <1>5, <2>2 DEF Channel!Accept
<1>6. CASE t \notin spoilt
  <2>1. /\ Contents(messages[t]) \in Seq(Message) /\ Kept(t) \in Seq(Message)
        /\ Inbox(t) = Kept(t) \o Contents(messages[t])
        /\ Len(Kept(t)) \in 0 .. MESSAGELIST_SZ
        /\ messages[t].num_messages \in 0 .. MESSAGELIST_SZ
        /\ Len(Inbox(t)) = Len(Kept(t)) + messages[t].num_messages
        /\ MESSAGELIST_SZ \in Nat
    BY <1>1, <1>6, Inboxes, InterVMAssumption
  <2>2. messages[t].num_messages < MESSAGELIST_SZ /\ Len(Inbox(t)) < 2 * MESSAGELIST_SZ
    BY <1>1, <2>1
  <2>3. Contents(Put(messages[t], m)) = Append(Contents(messages[t]), m)
    BY <1>1, <1>2, <2>2, PutContents DEF IVInv
  <2>4. Inbox(t)' = Append(Inbox(t), m)
    <3>1. Inbox(t)' = Kept(t) \o Append(Contents(messages[t]), m)
      BY <1>1, <1>3, <1>6, <2>3 DEF Inbox, Kept, HalfCleared
    <3>2. QED
      BY <1>2, <2>1, <3>1, SeqSend
  <2>5. [w \in VM |-> Inbox(w)]' = [[w \in VM |-> Inbox(w)] EXCEPT ![t] = Append(@, m)]
    BY <1>1, <1>4, <2>4
  <2>6. Len([w \in VM |-> Inbox(w)][t]) < 2 * MESSAGELIST_SZ
    BY <1>1, <2>2
  <2>7. QED
    BY <1>1, <1>2, <1>6, <2>5, <2>6 DEF Channel!Accept
<1>7. QED
  BY <1>5, <1>6

\* A send that is refused as full found the hypervisor's ring full.
LEMMA RefuseStep ==
  ASSUME IVInv, NEW v \in VM, SendMessage(v),
         NEW t \in Targets, NEW size \in Sizes,
         ~ Accepts(t, size), intervm_send_msg(v, t, size)
  PROVE  Channel!Refuse
<1>1. /\ messages' = messages /\ ret' = [ret EXCEPT ![v] = SendError(t, size)]
      /\ UNCHANGED <<message_list, pc, cleared, spoilt, received>>
  BY DEF intervm_send_msg, SendMessage
<1>2. size \in Nat /\ MESSAGE_SZ \in Nat /\ MESSAGELIST_SZ \in Nat
  BY InterVMAssumption
<1>3. SendError(t, size) \in SendErrors
  BY <1>2 DEF SendError, SendErrors
<1>4. SendError(t, size) = MESSAGE_FULL => t \in VM /\ messages[t].num_messages = MESSAGELIST_SZ
  BY <1>2 DEF SendError, Accepts, MESSAGE_FULL, MESSAGE_TOO_BIG,
                MESSAGE_VCPU_NOT_FOUND, MESSAGE_VCPU_NOT_INIT
<1>5. SendError(t, size) = MESSAGE_FULL =>
        \E w \in VM : w \in spoilt \/ Len([u \in VM |-> Inbox(u)][w]) >= MESSAGELIST_SZ
  <2>1. SUFFICES ASSUME t \in VM, messages[t].num_messages = MESSAGELIST_SZ, t \notin spoilt
                 PROVE  Len([u \in VM |-> Inbox(u)][t]) >= MESSAGELIST_SZ
    BY <1>4
  <2>2. /\ Len(Inbox(t)) = Len(Kept(t)) + messages[t].num_messages
        /\ Len(Kept(t)) \in 0 .. MESSAGELIST_SZ
    BY <2>1, Inboxes
  <2>3. QED
    BY <1>2, <2>1, <2>2
<1>6. [w \in VM |-> Inbox(w)]' = [w \in VM |-> Inbox(w)]
  BY <1>1, SameInboxes
<1>7. QED
  BY <1>1, <1>3, <1>5, <1>6 DEF Channel!Refuse

\* ReceiveMessage takes the head of the inbox, or what it finds in a spoilt ring.
LEMMA ReceiveStep ==
  ASSUME IVInv, NEW v \in VM, ReceiveMessage(v)
  PROVE  Channel!Receive \/ Channel!ReceiveSpoilt
<1>1. /\ pc[v] \in {"main", "blocked"}
      /\ message_list[v].num_messages # 0
      /\ received' = [received EXCEPT ![v] = Truncated(First(message_list[v]))]
      /\ message_list' = [message_list EXCEPT ![v] = Drop(@)]
      /\ pc' = [pc EXCEPT ![v] = "main"]
      /\ UNCHANGED <<messages, cleared, spoilt, ret>>
  BY DEF ReceiveMessage, TakeFirst
<1>2. /\ message_list'[v] = Drop(message_list[v])
      /\ \A w \in VM \ {v} : message_list'[w] = message_list[w]
  BY <1>1 DEF IVInv
<1>3. \A w \in VM \ {v} : Inbox(w)' = Inbox(w)
  BY <1>1, <1>2, SameInbox
<1>4. [w \in VM |-> pc[w] \in {"main", "blocked"}]' = [w \in VM |-> pc[w] \in {"main", "blocked"}]
  BY <1>1 DEF IVInv
<1>5. [w \in VM |-> pc[w] \in {"main", "blocked"}][v]
  BY <1>1
<1>6. CASE v \in spoilt
  <2>1. [w \in VM |-> Inbox(w)]' = [w \in VM |-> Inbox(w)]
    <3>1. Inbox(v)' = Inbox(v)
      BY <1>1, <1>6 DEF Inbox
    <3>2. QED
      BY <1>3, <3>1
  <2>2. received' = [received EXCEPT ![v] = received'[v]]
    <3>1. received'[v] = Truncated(First(message_list[v]))
      BY <1>1 DEF IVInv
    <3>2. QED
      BY <1>1, <3>1
  <2>3. QED
    BY <1>1, <1>4, <1>5, <1>6, <2>1, <2>2 DEF Channel!ReceiveSpoilt
<1>7. CASE v \notin spoilt
  <2>1. ~ HalfCleared(v) /\ RingInv(message_list[v])
    <3>1. StageInv(v) /\ LibraryInv(v)
      BY <1>7 DEF IVInv
    <3>2. QED
      BY <1>1, <3>1, PartsFact DEF StageInv, LibraryInv, HalfCleared
  <2>2. /\ Contents(message_list[v]) \in Seq(Message) /\ Contents(messages[v]) \in Seq(Message)
        /\ Inbox(v) = Contents(message_list[v]) \o Contents(messages[v])
    BY <1>7, <2>1, Inboxes DEF Kept
  <2>3. /\ Contents(message_list[v]) # <<>>
        /\ Head(Contents(message_list[v])) = First(message_list[v])
        /\ Contents(Drop(message_list[v])) = Tail(Contents(message_list[v]))
    BY <1>1, <2>1, DropContents
  <2>4. /\ Inbox(v) # <<>> /\ Head(Inbox(v)) = First(message_list[v])
        /\ Tail(Inbox(v)) = Tail(Contents(message_list[v])) \o Contents(messages[v])
    BY <2>2, <2>3, SeqTake
  <2>5. Inbox(v)' = Tail(Inbox(v))
    BY <1>1, <1>2, <1>7, <2>1, <2>3, <2>4 DEF Inbox, Kept, HalfCleared
  <2>6. [w \in VM |-> Inbox(w)]' = [[w \in VM |-> Inbox(w)] EXCEPT ![v] = Tail(@)]
    BY <1>3, <2>5
  <2>7. [w \in VM |-> Inbox(w)][v] = Inbox(v)
    OBVIOUS
  <2>8. received' = [received EXCEPT ![v] = Truncated(Head([w \in VM |-> Inbox(w)][v]))]
    BY <1>1, <2>4
  <2>9. QED
    BY <1>1, <1>4, <1>5, <2>4, <2>6, <2>7, <2>8 DEF Channel!Receive
<1>8. QED
  BY <1>6, <1>7

\* irq_network moves messages inside the inbox of its VM, or spoils it.
LEMMA IrqNetworkStep ==
  ASSUME IVInv, NEW v \in VM, irq_network(v)
  PROVE  \/ Channel!Spoil
         \/ [w \in VM |-> Inbox(w)]' = [w \in VM |-> Inbox(w)] /\ spoilt' = spoilt
<1>1. /\ isr[v] /\ message_list[v].num_messages < MESSAGELIST_SZ
      /\ messages \in [VM -> Ring] /\ message_list \in [VM -> Ring]
      /\ UNCHANGED <<pc, cleared, received, ret>>
      /\ spoilt' = spoilt \/ (spoilt' = spoilt \cup {v} /\ Spoils(v))
  BY DEF irq_network, IVInv
<1>2. \A w \in VM \ {v} : Inbox(w)' = Inbox(w)
  <2>1. /\ \A w \in VM \ {v} : messages'[w] = messages[w] /\ message_list'[w] = message_list[w]
    BY <1>1, IrqNetworkRings
  <2>2. QED
    BY <1>1, <2>1, SameInbox
<1>3. CASE v \in spoilt
  <2>1. spoilt' = spoilt
    BY <1>1, <1>3
  <2>2. Inbox(v)' = Inbox(v)
    BY <1>3, <2>1 DEF Inbox
  <2>3. QED
    BY <1>2, <2>1, <2>2
<1>4. CASE v \notin spoilt /\ v \in spoilt'
  <2>1. pc[v] = "registered" /\ spoilt' = spoilt \cup {v}
    BY <1>1, <1>4 DEF Spoils
  <2>2. Inbox(v)' = <<>>
    BY <1>4 DEF Inbox
  <2>3. [w \in VM |-> Inbox(w)]' = [[w \in VM |-> Inbox(w)] EXCEPT ![v] = <<>>]
    BY <1>2, <2>2
  <2>4. ~ [w \in VM |-> pc[w] \in {"main", "blocked"}][v]
    BY <2>1
  <2>5. [w \in VM |-> pc[w] \in {"main", "blocked"}]' = [w \in VM |-> pc[w] \in {"main", "blocked"}]
    BY <1>1
  <2>6. QED
    BY <1>1, <2>1, <2>3, <2>4, <2>5 DEF Channel!Spoil
<1>5. CASE v \notin spoilt /\ v \notin spoilt'
  <2>1. spoilt' = spoilt
    BY <1>1, <1>5
  <2>2. /\ Kept(v) \in Seq(Message) /\ Contents(messages[v]) \in Seq(Message)
        /\ Inbox(v) = Kept(v) \o Contents(messages[v])
    BY <1>5, Inboxes
  <2>3. Inbox(v)' = Kept(v)' \o Contents(messages'[v])
    BY <1>5 DEF Inbox
  <2>4. CASE messages[v].num_messages = 0
    <3> DEFINE new == [message_list[v] EXCEPT !.list[message_list[v].in].size = MESSAGE_EMPTY]
    <3>1. message_list' = [message_list EXCEPT ![v] = new] /\ messages' = messages
      BY <2>4, Zenon DEF irq_network
    <3>2. ~ HalfCleared(v) => Contents(new) = Contents(message_list[v])
      BY <1>1, <1>5, MarkContents DEF IVInv, LibraryInv
    <3> HIDE DEF new
    <3>3. Kept(v)' = Kept(v)
      BY <1>1, <3>1, <3>2 DEF Kept, HalfCleared
    <3>4. QED
      BY <1>2, <2>1, <2>2, <2>3, <3>1, <3>3
  <2>5. CASE messages[v].num_messages # 0
    <3> DEFINE m == First(messages[v])
               new == Put(message_list[v], m)
               rest == Drop(messages[v])
               a == Contents(message_list[v])
               b == Contents(messages[v])
    <3>1. /\ message_list' = [message_list EXCEPT ![v] = new]
          /\ messages' = [messages EXCEPT ![v] = rest]
          /\ spoilt' = IF Spoils(v) THEN spoilt \cup {v} ELSE spoilt
      BY <2>5 DEF irq_network, Stored
    <3>2. ~ HalfCleared(v) /\ RingInv(message_list[v]) /\ RingInv(messages[v])
      <4>1. ~ Spoils(v)
        BY <1>5, <3>1
      <4>2. LibraryInv(v) /\ StageInv(v) /\ message_list[v].in \in Nat
        BY <1>1, <1>5, InterVMAssumption DEF IVInv, Ring, Slot
      <4>3. pc[v] \in {"boot", "enabled", "registered", "main", "blocked"}
        BY DEF IVInv
      <4>4. ~ HalfCleared(v)
        BY <4>1, <4>2, <4>3, PartsFact DEF Spoils, HalfCleared, StageInv
      <4>5. QED
        BY <4>2, <4>4 DEF LibraryInv, IVInv
    <3>3. m \in Message
      BY <2>5, <3>2, DropInv
    <3>4. b # <<>> /\ Head(b) = m /\ Contents(rest) = Tail(b)
      BY <2>5, <3>2, DropContents
    <3>5. Contents(new) = Append(a, m)
      BY <1>1, <3>2, <3>3, PutContents
    <3> HIDE DEF m, new, rest
    <3>6. message_list'[v] = new /\ messages'[v] = rest
      BY <1>1, <3>1
    <3>7. Kept(v) = a /\ Kept(v)' = Contents(new)
      BY <1>1, <3>2, <3>6 DEF Kept, HalfCleared
    <3>8. Append(a, Head(b)) \o Tail(b) = a \o b
      BY <2>2, <3>4, <3>7, SeqMove
    <3>9. Inbox(v)' = Inbox(v)
      BY <2>2, <2>3, <3>4, <3>5, <3>6, <3>7, <3>8
    <3>10. QED
      BY <1>2, <2>1, <3>9
  <2>6. QED
    BY <2>4, <2>5
<1>6. QED
  BY <1>3, <1>4, <1>5

\* memset in a ring that is not spoilt: its first step gives up what irq_network
\* had brought there, the front of the inbox; the others change nothing more.
LEMMA MemsetInbox ==
  ASSUME IVInv, NEW v \in VM, init_network_clear(v), v \notin spoilt
  PROVE  IF cleared[v] = 0
           THEN Inbox(v)' = SubSeq(Inbox(v), Len(Kept(v)) + 1, Len(Inbox(v)))
           ELSE Inbox(v)' = Inbox(v)
<1> DEFINE new == Zeroed(message_list[v], cleared[v])
<1>1. /\ pc[v] = "registered"
      /\ message_list' = [message_list EXCEPT ![v] = new]
      /\ cleared' = [cleared EXCEPT ![v] = cleared[v] + 1]
      /\ UNCHANGED <<messages, spoilt>>
  BY DEF init_network_clear
<1>2. message_list'[v] = new /\ cleared'[v] = cleared[v] + 1
  BY <1>1 DEF IVInv
<1>3. /\ cleared[v] \in Nat /\ cleared[v] \in 0 .. (Parts - 1)
      /\ message_list[v] \in Ring /\ LibraryInv(v)
  BY <1>1, PartsFact DEF IVInv, StageInv
<1>4. /\ Kept(v) \in Seq(Message) /\ Contents(messages[v]) \in Seq(Message)
      /\ Inbox(v) = Kept(v) \o Contents(messages[v])
  BY Inboxes
<1>5. Inbox(v)' = Kept(v)' \o Contents(messages[v])
  BY <1>1 DEF Inbox
<1>6. CASE cleared[v] = 0
  <2>1. Kept(v)' = <<>>
    BY <1>2, <1>6 DEF Kept, HalfCleared
  <2>2. Inbox(v)' = Contents(messages[v])
    BY <1>4, <1>5, <2>1, ConcatEmptySeq
  <2>3. QED
    BY <1>4, <1>6, <2>2, SeqClear
<1>7. CASE cleared[v] # 0
  <2>1. Kept(v)' = Kept(v)
    <3>1. CASE cleared[v] = 1
      BY <1>2, <3>1 DEF Kept, HalfCleared
    <3>2. CASE cleared[v] = 2
      <4>1. new.num_messages = 0
        BY <1>3, <3>2, ZeroedFields
      <4>2. Contents(new) = <<>>
        BY <4>1 DEF Contents
      <4>3. Kept(v) = <<>> /\ Kept(v)' = Contents(new)
        BY <1>2, <3>2 DEF Kept, HalfCleared
      <4>4. QED
        BY <4>2, <4>3
    <3>3. CASE cleared[v] >= 3
      <4>1. /\ RingInv(message_list[v]) /\ message_list[v].out = 0
            /\ message_list[v].num_messages <= cleared[v] - 3
        BY <1>1, <1>3, <3>3 DEF LibraryInv, HalfCleared
      <4>2. /\ new.out = message_list[v].out /\ new.num_messages = message_list[v].num_messages
            /\ new.list = [message_list[v].list EXCEPT ![cleared[v] - 3] = NoMessage]
            /\ message_list[v].list \in [Slot -> Cell]
        BY <1>3, <3>3, ZeroedFields DEF Ring
      <4>3. RingInv(new)
        BY <1>1, <1>3, <3>3, ZeroedInv
      <4>4. ASSUME NEW s \in Slot, Live(message_list[v], s)
            PROVE  s # cleared[v] - 3
        <5>1. /\ s \in Nat /\ MESSAGELIST_SZ \in Nat
              /\ message_list[v].num_messages \in 0 .. MESSAGELIST_SZ
          BY <1>3, InterVMAssumption DEF Slot, Ring
        <5>2. s < message_list[v].num_messages
          BY <4>1, <4>4, <5>1 DEF Live
        <5>3. QED
          BY <1>3, <4>1, <5>1, <5>2
      <4> HIDE DEF new
      <4>5. \A s \in Slot : Live(message_list[v], s) => new.list[s] = message_list[v].list[s]
        BY <4>2, <4>4
      <4>6. Contents(new) = Contents(message_list[v])
        BY <4>1, <4>2, <4>3, <4>5, SameContents
      <4>7. ~ HalfCleared(v) /\ ~ HalfCleared(v)'
        BY <1>2, <1>3, <3>3 DEF HalfCleared
      <4>8. QED
        BY <1>2, <4>6, <4>7 DEF Kept
    <3>4. QED
      BY <1>3, <1>7, <3>1, <3>2, <3>3
  <2>2. QED
    BY <1>4, <1>5, <1>7, <2>1
<1>8. QED
  BY <1>6, <1>7

\* A step of init_network's memset discards messages, ends the start-up, or is
\* one that nobody sees.
LEMMA ClearStep ==
  ASSUME IVInv, NEW v \in VM, init_network_clear(v)
  PROVE  \/ Channel!Discard \/ Channel!Start
         \/ /\ [w \in VM |-> Inbox(w)]' = [w \in VM |-> Inbox(w)]
            /\ received' = received /\ ret' = ret /\ spoilt' = spoilt
            /\ [w \in VM |-> pc[w] \in {"main", "blocked"}]'
                 = [w \in VM |-> pc[w] \in {"main", "blocked"}]
<1> DEFINE up == [w \in VM |-> pc[w] \in {"main", "blocked"}]
<1>1. /\ pc[v] = "registered"
      /\ message_list' = [message_list EXCEPT ![v] = Zeroed(@, cleared[v])]
      /\ cleared' = [cleared EXCEPT ![v] = cleared[v] + 1]
      /\ pc' = IF cleared'[v] = Parts THEN [pc EXCEPT ![v] = "main"] ELSE pc
      /\ UNCHANGED <<messages, spoilt, ret, received>>
  BY DEF init_network_clear
<1>2. cleared'[v] = cleared[v] + 1 /\ cleared[v] \in Nat /\ Parts >= 4
  BY <1>1, PartsFact DEF IVInv
<1>3. ~ up[v]
  BY <1>1
<1>4. \/ pc' = pc /\ up' = up
      \/ cleared[v] # 0 /\ up' = [up EXCEPT ![v] = TRUE]
  <2>1. CASE cleared'[v] = Parts
    <3>1. pc' = [pc EXCEPT ![v] = "main"] /\ cleared[v] # 0
      BY <1>1, <1>2, <2>1
    <3>2. QED
      BY <3>1 DEF IVInv
  <2>2. CASE cleared'[v] # Parts
    BY <1>1, <2>2
  <2>3. QED
    BY <2>1, <2>2
<1>5. \A w \in VM \ {v} : Inbox(w)' = Inbox(w)
  <2>1. \A w \in VM \ {v} : message_list'[w] = message_list[w] /\ cleared'[w] = cleared[w]
    BY <1>1 DEF IVInv
  <2>2. QED
    BY <1>1, <2>1, SameInbox
<1>6. CASE v \notin spoilt /\ cleared[v] = 0
  <2>1. Inbox(v)' = SubSeq(Inbox(v), Len(Kept(v)) + 1, Len(Inbox(v)))
    BY <1>6, MemsetInbox
  <2>2. /\ Len(Kept(v)) \in 0 .. MESSAGELIST_SZ /\ messages[v].num_messages \in Nat
        /\ Len(Inbox(v)) = Len(Kept(v)) + messages[v].num_messages
    BY <1>6, Inboxes
  <2> DEFINE k == Len(Kept(v))
  <2>3. [w \in VM |-> Inbox(w)]' = [[w \in VM |-> Inbox(w)] EXCEPT ![v] = SubSeq(@, k + 1, Len(@))]
    BY <1>5, <2>1
  <2>4. k \in 0 .. 2 * MESSAGELIST_SZ /\ k <= Len([w \in VM |-> Inbox(w)][v])
    BY <2>2, InterVMAssumption
  <2> HIDE DEF k
  <2>5. up' = up
    BY <1>4, <1>6
  <2>6. QED
    BY <1>1, <1>3, <2>3, <2>4, <2>5 DEF Channel!Discard
<1>7. CASE v \in spoilt \/ cleared[v] # 0
  <2>1. Inbox(v)' = Inbox(v)
    <3>1. CASE v \in spoilt
      BY <1>1, <3>1 DEF Inbox
    <3>2. CASE v \notin spoilt
      BY <1>7, <3>2, MemsetInbox
    <3>3. QED
      BY <3>1, <3>2
  <2>2. [w \in VM |-> Inbox(w)]' = [w \in VM |-> Inbox(w)]
    BY <1>5, <2>1
  <2>3. CASE up' = up
    BY <1>1, <2>2, <2>3
  <2>4. CASE up' = [up EXCEPT ![v] = TRUE]
    BY <1>1, <1>3, <2>2, <2>4 DEF Channel!Start
  <2>5. QED
    BY <1>4, <2>3, <2>4
<1>8. QED
  BY <1>6, <1>7

\* Every step of a guest or of the scheduler is a step of the channel, or one
\* that nobody sees.
LEMMA ChannelStep ==
  ASSUME IVInv, [IVNext]_ivVars
  PROVE  [Channel!ChannelNext]_(Channel!channelVars)
<1> DEFINE hidden == /\ [w \in VM |-> Inbox(w)]' = [w \in VM |-> Inbox(w)]
                     /\ received' = received /\ ret' = ret /\ spoilt' = spoilt
                     /\ [w \in VM |-> pc[w] \in {"main", "blocked"}]'
                          = [w \in VM |-> pc[w] \in {"main", "blocked"}]
<1>1. hidden => UNCHANGED Channel!channelVars
  BY DEF Channel!channelVars
<1>2. ASSUME UNCHANGED <<messages, message_list, cleared, spoilt, received, ret, pc>>
      PROVE  hidden
  BY <1>2, SameInboxes
<1>3. CASE dispatch
  BY <1>1, <1>2, <1>3 DEF dispatch
<1>4. ASSUME NEW v \in VM, GuestStep(v)
      PROVE  Channel!ChannelNext \/ hidden
  <2>1. CASE init_proc(v) \/ init_network_register(v) \/ ReceiveBlocks(v)
    <3>1. UNCHANGED <<messages, message_list, cleared, spoilt, received, ret>>
      BY <2>1 DEF init_proc, init_network_register, ReceiveBlocks
    <3>2. /\ \A w \in VM : (pc'[w] \in {"main", "blocked"}) = (pc[w] \in {"main", "blocked"})
      BY <2>1 DEF init_proc, init_network_register, ReceiveBlocks, IVInv
    <3>3. QED
      BY <3>1, <3>2, SameInboxes
  <2>2. CASE init_network_clear(v)
    BY <2>2, ClearStep DEF Channel!ChannelNext
  <2>3. CASE SendMessage(v)
    <3>1. PICK t \in Targets, size \in Sizes : intervm_send_msg(v, t, size)
      BY <2>3 DEF SendMessage
    <3>2. QED
      BY <2>3, <3>1, AcceptStep, RefuseStep DEF Channel!ChannelNext
  <2>4. CASE ReceiveMessage(v)
    BY <2>4, ReceiveStep DEF Channel!ChannelNext
  <2>5. CASE TakeInterrupt(v)
    BY <1>2, <2>5 DEF TakeInterrupt
  <2>6. CASE irq_network(v)
    <3>1. UNCHANGED <<received, ret, pc>>
      BY <2>6 DEF irq_network
    <3>2. QED
      BY <2>6, <3>1, IrqNetworkStep DEF Channel!ChannelNext
  <2>7. QED
    BY <1>4, <2>1, <2>2, <2>3, <2>4, <2>5, <2>6 DEF GuestStep
<1>5. CASE UNCHANGED ivVars
  BY <1>1, <1>2, <1>5 DEF ivVars
<1> HIDE DEF hidden
<1>6. QED
  BY <1>1, <1>3, <1>4, <1>5 DEF IVNext

\* The rings start empty, and with them the inboxes.
LEMMA ChannelStart == IVInit => Channel!ChannelInit
<1> SUFFICES ASSUME IVInit PROVE Channel!ChannelInit
  OBVIOUS
<1>1. \A v \in VM : Inbox(v) = <<>>
  <2>1. \A v \in VM : Contents(message_list[v]) = <<>> /\ Contents(messages[v]) = <<>>
    BY DEF IVInit, Contents, EmptyRing
  <2>2. \A v \in VM : v \notin spoilt /\ ~ HalfCleared(v)
    BY PartsFact DEF IVInit, HalfCleared
  <2>3. QED
    BY <2>1, <2>2 DEF Inbox, Kept
<1>2. [v \in VM |-> Inbox(v)] = [v \in VM |-> <<>>]
  BY <1>1
<1>3. QED
  BY <1>2 DEF IVInit, Channel!ChannelInit

\* The hypervisor's ring, the library's ring and the interrupt between them
\* (intervm_send_msg, intervm_recv_msg, irq_network, ReceiveMessage) are one
\* FIFO inbox for each VM that loses, repeats and reorders nothing once the VM
\* is up, unless irq_network stored a message inside init_network's memset.
THEOREM InboxIsAChannel == IVSpec => ImplementsChannel
<1>1. IVInit => IVInv
  BY InitInv
<1>2. IVInv /\ [IVNext]_ivVars => IVInv'
  BY NextInv
<1>3. IVInit => Channel!ChannelInit
  BY ChannelStart
<1>4. IVInv /\ [IVNext]_ivVars => [Channel!ChannelNext]_(Channel!channelVars)
  BY ChannelStep
<1>5. QED
  BY <1>1, <1>2, <1>3, <1>4, PTL DEF IVSpec, ImplementsChannel, Channel!ChannelSpec
=============================================================================
