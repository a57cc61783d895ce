--------------------------- MODULE EthernetProofs ---------------------------
(***************************************************************************)
(* Proofs about the Ethernet driver, for rings of any length, buffers and  *)
(* frames of any size. Transmit: the words of a frame on the wire can be   *)
(* lost only to the frame that waits behind it, as far as that one is      *)
(* long, and to frames that are refused. Receive: the driver's position in *)
(* the ring and the controller's stay together.                            *)
(***************************************************************************)
EXTENDS EthernetDriver, SequenceTheorems, FiniteSetTheorems, TLAPS

\* Whose word a word of tx_buf can be: a frame's, or nobody's yet.
Word == SendId \cup {0}

\* The frame that executes in send_frame, and the one under way: a transmission
\* has a word left, and the buffer has held frames as far as it reaches. A frame
\* that waits has passed the test of its size and is in the buffer.
TxTypes ==
  /\ tx_buf \in [1 .. MTU -> Word] /\ txcur \in [id : Word, size : 0 .. MTU]
  /\ txrts \in BOOLEAN /\ tx_desc \in BOOLEAN /\ refused \subseteq SendId
  /\ wire \in Seq(SendId) /\ Len(wire) <= txcur.size
  /\ txrts => Len(wire) < txcur.size
  /\ IF pc \in {"txcopy", "txwait"} THEN sending \in Outgoing ELSE sending = NoFrame
  /\ \A k \in 1 .. MTU : k <= txcur.size => tx_buf[k] \in SendId
  /\ pc = "txwait" =>
        /\ Length(sending) \in 1 .. MTU
        /\ \A k \in 1 .. MTU : k <= Length(sending) => tx_buf[k] = sending.id

\* The inductive invariant of the transmit side.
TxInv == TxTypes /\ TornByNextOnly

\* What en_ll_output takes for the size is at most the size.
LEMMA LengthBound ==
  ASSUME NEW f \in Outgoing
  PROVE  Length(f) \in Nat /\ Length(f) <= f.size
<1>1. f.size \in Nat /\ SIZE_RANGE \in Nat \ {0}
  BY EthernetAssumption DEF Outgoing
<1>2. ASSUME NEW s \in Nat, NEW r \in Nat \ {0}
      PROVE  s % r \in Nat /\ s % r <= s
  <2>1. s % r \in 0 .. (r - 1) /\ s \div r \in Nat /\ s = r * (s \div r) + (s % r)
    BY Z3
  <2>2. PICK q \in Nat, m \in Nat : q = s \div r /\ m = s % r /\ s = r * q + m
    BY <2>1
  <2>3. r * q >= 0
    BY Z3
  <2>4. QED
    BY <2>2, <2>3
<1>3. QED
  BY <1>1, <1>2 DEF Length

\* Nothing has been sent at the start.
LEMMA TxInitInv == EthInit => TxInv
<1> SUFFICES ASSUME EthInit PROVE TxInv
  OBVIOUS
<1>1. /\ wire = <<>> /\ tx_buf = [k \in 1 .. MTU |-> 0] /\ txcur = NoFrame /\ pc = "guest"
      /\ txrts = FALSE /\ tx_desc = FALSE /\ refused = {} /\ sending = NoFrame
  BY DEF EthInit
<1>2. /\ wire \in Seq(SendId) /\ Len(wire) = 0
      /\ txcur.size = 0 /\ txcur \in [id : Word, size : 0 .. MTU]
  BY <1>1, EthernetAssumption DEF NoFrame, Word
<1>3. TornByNextOnly
  BY <1>1, <1>2 DEF TornByNextOnly
<1>4. TxTypes
  <2>1. tx_buf \in [1 .. MTU -> Word]
    BY <1>1 DEF Word
  <2>2. \A k \in 1 .. MTU : ~ (k <= txcur.size)
    BY <1>2
  <2>3. txrts \in BOOLEAN /\ tx_desc \in BOOLEAN /\ ~ txrts
    BY <1>1
  <2>4. Len(wire) <= txcur.size /\ refused \subseteq SendId
    BY <1>1, <1>2
  <2>5. pc \notin {"txcopy", "txwait"} /\ pc # "txwait"
    BY <1>1
  <2>6. QED
    BY <1>1, <1>2, <2>1, <2>2, <2>3, <2>4, <2>5, Zenon DEF TxTypes
<1>5. QED
  BY <1>3, <1>4 DEF TxInv

\* The hypercall that sends a frame begins to copy it.
LEMMA SendFrameInv ==
  ASSUME TxInv, NEW f \in Outgoing, send_frame(f)
  PROVE  TxInv'
<1>1. /\ pc = "guest" /\ pc' = "txcopy" /\ sending' = f /\ sending = NoFrame
      /\ UNCHANGED <<tx_buf, tx_desc, txrts, txcur, wire, refused>>
  BY DEF send_frame, TxInv, TxTypes
<1>2. TxTypes'
  BY <1>1 DEF TxInv, TxTypes
<1>3. sending.size = 0 /\ Len(wire) \in Nat
  BY <1>1 DEF NoFrame, TxInv, TxTypes
<1>4. TornByNextOnly'
  BY <1>1, <1>3 DEF TxInv, TornByNextOnly
<1>5. QED
  BY <1>2, <1>4 DEF TxInv

\* The frame is in the buffer, and waits or is refused.
LEMMA CopiedInv ==
  ASSUME TxInv, FrameCopied
  PROVE  TxInv'
<1>1. /\ pc = "txcopy" /\ sending \in Outgoing
      /\ tx_buf' = [k \in 1 .. MTU |-> IF k <= sending.size THEN sending.id ELSE tx_buf[k]]
      /\ UNCHANGED <<tx_desc, txrts, txcur, wire>>
  BY DEF FrameCopied, TxInv, TxTypes
<1>2. /\ sending.id \in SendId /\ sending.size \in Nat /\ Length(sending) \in Nat
      /\ Length(sending) <= sending.size
  BY <1>1, LengthBound, EthernetAssumption DEF Outgoing
<1>3. /\ tx_buf' \in [1 .. MTU -> Word]
      /\ \A k \in 1 .. MTU : k <= txcur.size => tx_buf'[k] \in SendId
      /\ \A k \in 1 .. MTU : k <= Length(sending) => tx_buf'[k] = sending.id
      /\ txcur.size \in 0 .. MTU /\ Len(wire) \in Nat /\ Len(wire) <= txcur.size
  BY <1>1, <1>2, EthernetAssumption DEF TxInv, TxTypes, Word
<1>4. CASE Length(sending) \in 1 .. MTU
  <2>1. pc' = "txwait" /\ UNCHANGED <<sending, refused>>
    BY <1>4 DEF FrameCopied
  <2>2. TxTypes'
    BY <1>1, <1>3, <1>4, <2>1 DEF TxInv, TxTypes, Length
  <2>3. TornByNextOnly'
    BY <1>1, <1>2, <1>3, <2>1, EthernetAssumption DEF TxInv, TornByNextOnly
  <2>4. QED
    BY <2>2, <2>3 DEF TxInv
<1>5. CASE Length(sending) \notin 1 .. MTU
  <2>1. /\ pc' = "guest" /\ sending' = NoFrame
        /\ refused' = IF sending.size = 0 THEN refused ELSE refused \cup {sending.id}
    BY <1>5 DEF FrameCopied
  <2>2. TxTypes'
    BY <1>1, <1>2, <1>3, <2>1 DEF TxInv, TxTypes
  <2>3. TornByNextOnly'
    BY <1>1, <1>2, <1>3, <2>1, EthernetAssumption DEF TxInv, TornByNextOnly
  <2>4. QED
    BY <2>2, <2>3 DEF TxInv
<1>6. QED
  BY <1>4, <1>5

\* en_ll_output starts the frame in the buffer once the old one has ended.
LEMMA StartInv ==
  ASSUME TxInv, en_ll_output
  PROVE  TxInv'
<1>1. /\ txcur' = [sending EXCEPT !.size = Length(sending)] /\ wire' = <<>> /\ refused' = {}
      /\ txrts' = TRUE /\ tx_desc' = TRUE /\ pc' = "guest" /\ sending' = NoFrame
      /\ UNCHANGED tx_buf /\ pc = "txwait"
  BY DEF en_ll_output, StartTransmitter
<1>2. /\ sending \in Outgoing /\ Length(sending) \in 1 .. MTU
      /\ \A k \in 1 .. MTU : k <= Length(sending) => tx_buf[k] = sending.id
  BY <1>1 DEF TxInv, TxTypes
<1>3. /\ txcur' = [id |-> sending.id, size |-> Length(sending)] /\ sending.id \in SendId
      /\ wire' \in Seq(SendId) /\ Len(wire') = 0
  BY <1>1, <1>2 DEF Outgoing
<1>4. TxTypes'
  <2>1. tx_buf \in [1 .. MTU -> Word] /\ txcur' \in [id : Word, size : 0 .. MTU]
        /\ txcur'.size = Length(sending)
    BY <1>2, <1>3 DEF TxInv, TxTypes, Word
  <2>2. \A k \in 1 .. MTU : k <= txcur'.size => tx_buf[k] \in SendId
    BY <1>2, <1>3, <2>1
  <2>3. Len(wire') < txcur'.size
    BY <1>2, <1>3, <2>1
  <2>4. QED
    BY <1>1, <1>3, <2>1, <2>2, <2>3 DEF TxTypes
<1>5. TornByNextOnly'
  BY <1>1, <1>2, <1>3, EthernetAssumption DEF TornByNextOnly
<1>6. QED
  BY <1>4, <1>5 DEF TxInv

\* The controller reads the next word from the buffer.
LEMMA TxWordInv ==
  ASSUME TxInv, TxWord
  PROVE  TxInv'
<1>1. PICK w \in Found(Len(wire) + 1) : wire' = Append(wire, w)
  BY DEF TxWord
<1>2. /\ txrts /\ txrts' = (Len(wire) + 1 < txcur.size) /\ tx_desc' = (tx_desc /\ txrts')
      /\ UNCHANGED <<pc, sending, tx_buf, txcur, refused>>
  BY DEF TxWord
<1>3. /\ Len(wire) \in Nat /\ Len(wire) < txcur.size /\ txcur.size \in 0 .. MTU
      /\ wire \in Seq(SendId)
  BY <1>2, LenProperties DEF TxInv, TxTypes
<1> DEFINE next == Len(wire) + 1
<1>5. next \in 1 .. txcur.size /\ next \in 1 .. MTU
  BY <1>3, EthernetAssumption
<1>6. w = tx_buf[next] \/ (pc = "txcopy" /\ next <= sending.size /\ w = sending.id)
  <2>1. w \in Found(next)
    BY <1>1
  <2>2. QED
    BY <2>1 DEF Found
<1>7. w \in SendId
  BY <1>3, <1>5, <1>6 DEF TxInv, TxTypes, Outgoing
<1>8. /\ wire' \in Seq(SendId) /\ Len(wire') = next
      /\ \A k \in 1 .. Len(wire) : wire'[k] = wire[k]
      /\ wire'[next] = w
  BY <1>1, <1>3, <1>7, AppendProperties
<1>9. TxTypes'
  <2>1. txrts' \in BOOLEAN /\ tx_desc' \in BOOLEAN
    BY <1>2
  <2>2. txrts' => Len(wire') < txcur'.size
    BY <1>2, <1>8, Zenon
  <2>3. Len(wire') <= txcur'.size
    BY <1>2, <1>5, <1>8
  <2>4. QED
    BY <1>2, <1>8, <2>1, <2>2, <2>3 DEF TxInv, TxTypes, Length
<1>10. ASSUME NEW k \in 1 .. Len(wire')
       PROVE  (\/ wire[k] = txcur.id \/ wire[k] \in refused
               \/ k <= sending.size /\ wire[k] = sending.id)'
  <2>1. CASE k \in 1 .. Len(wire)
    BY <1>2, <1>8, <2>1 DEF TxInv, TornByNextOnly
  <2>2. CASE k = next
    BY <1>2, <1>5, <1>6, <1>8, <2>2 DEF TxInv, TornByNextOnly
  <2>3. QED
    BY <1>3, <1>8, <2>1, <2>2
<1>11. TornByNextOnly'
  BY <1>2, <1>10 DEF TxInv, TornByNextOnly
<1>12. QED
  BY <1>9, <1>11 DEF TxInv

\* Every step of software or of the controller keeps the invariant.
LEMMA TxNextInv == TxInv /\ [EthNext]_ethVars => TxInv'
<1> SUFFICES ASSUME TxInv, [EthNext]_ethVars PROVE TxInv'
  OBVIOUS
<1>1. ASSUME UNCHANGED <<sending, tx_buf, txcur, wire, refused>>,
             txrts' = txrts \/ txrts' = FALSE, tx_desc' = tx_desc \/ tx_desc' = FALSE,
             \/ pc' = pc
             \/ pc \notin {"txcopy", "txwait"} /\ pc' \notin {"txcopy", "txwait"}
      PROVE  TxInv'
  <2>1. txrts \in BOOLEAN /\ tx_desc \in BOOLEAN
    BY DEF TxInv, TxTypes
  <2>2. txrts' \in BOOLEAN /\ tx_desc' \in BOOLEAN
    BY <1>1, <2>1, Zenon
  <2>3. txrts' => txrts
    BY <1>1, Zenon
  <2>4. txrts' => Len(wire') < txcur'.size
    BY <1>1, <2>3 DEF TxInv, TxTypes
  <2>5. (pc' = "txwait" => pc = "txwait") /\ (pc = "txwait" => pc' = "txwait")
        /\ (pc' \in {"txcopy", "txwait"} <=> pc \in {"txcopy", "txwait"})
    BY <1>1
  <2>6. TxTypes'
    BY <1>1, <2>2, <2>4, <2>5 DEF TxInv, TxTypes, Length
  <2>7. TornByNextOnly'
    BY <1>1, <2>5 DEF TxInv, TornByNextOnly
  <2>8. QED
    BY <2>6, <2>7 DEF TxInv
<1>2. CASE ReceiveNothing \/ ReceiveStart \/ CopyDescriptor \/ FreeDescriptor
  BY <1>1, <1>2 DEF ReceiveNothing, ReceiveStart, CopyDescriptor, CopyPiece,
                    FreeDescriptor, txVars
<1>3. CASE en_watchdog \/ ReceiverStopped
  BY <1>1, <1>3 DEF en_watchdog, LinkActivated, LinkLost, LinkSame, en_setup_dma,
                    ReceiverStopped, txVars
<1>4. CASE (\E f \in Frame : RxFrame(f)) \/ RxWriteBack \/ TxNothing
  <2>1. CASE (\E f \in Frame : RxFrame(f)) \/ RxWriteBack
    <3>1. UNCHANGED <<pc, txVars>>
      BY <2>1 DEF RxFrame, RxWriteBack
    <3>2. QED
      BY <1>1, <3>1 DEF txVars
  <2>2. CASE TxNothing
    BY <1>1, <2>2 DEF TxNothing
  <2>3. QED
    BY <1>4, <2>1, <2>2
<1>5. CASE UNCHANGED ethVars
  BY <1>1, <1>5 DEF ethVars, txVars
<1>6. QED
  BY <1>2, <1>3, <1>4, <1>5, SendFrameInv, CopiedInv, StartInv, TxWordInv
     DEF EthNext, Software, Controller

\* The transmit side's invariant holds from start-up.
LEMMA TxInvAlways == EthSpec => [](TxTypes /\ TornByNextOnly)
<1>1. TxInv => TxTypes /\ TornByNextOnly
  BY DEF TxInv
<1>2. QED
  BY <1>1, TxInitInv, TxNextInv, PTL DEF EthSpec

\* send_frame copies into the one transmit buffer before en_ll_output looks at the
\* size and waits: the words of a frame that are lost are lost to the frame that
\* waits, as far as that one is long, or to frames that are refused, whatever the
\* sizes and the speed of the controller (ethernet.c lines 92, 532 and 533).
THEOREM TornByNextOnlyAlways == EthSpec => []TornByNextOnly
<1>1. QED
  BY TxInvAlways, PTL
-----------------------------------------------------------------------------
(***************************************************************************)
(* The receive side, for a ring of any size and frames of any size that    *)
(* fits it. The invariant says how far the pieces software owns extend, and *)
(* that the frames in them are complete.                                   *)
(***************************************************************************)

\* b descriptors behind descriptor a.
Fwd(a, b) == IF a + b < RX_DESCRIPTORS THEN a + b ELSE a + b - RX_DESCRIPTORS

\* The descriptor j places behind the oldest one.
At(j) == ring[Fwd(receive_index, j)]

Offset == 0 .. (RX_DESCRIPTORS - 1)

\* The descriptor belongs to the frame under way and has been written.
Written(n, j) == dma.left > 0 /\ n + dma.left <= j /\ j < n + PieceCount(dma.size)

Arriving(n, j) == [id |-> dma.id, size |-> dma.size, k |-> j - n + 1]

\* Piece m of the frame that the piece at j is one of.
Place(j, m) == j - At(j).k + m

\* Software owns the first n descriptors.
Owned(n) ==
  /\ n \in 0 .. RX_DESCRIPTORS
  /\ dma.next = Fwd(receive_index, n)
  /\ \A j \in 0 .. (n - 1) : At(j) \in Piece /\ At(j).k <= PieceCount(At(j).size)

\* The others are the controller's, which has written the end of a frame.
Free(n) ==
  /\ \A j \in n .. (RX_DESCRIPTORS - 1) :
        At(j) = IF Written(n, j) THEN Arriving(n, j) ELSE NicOwned
  /\ dma.left > 0 => n + PieceCount(dma.size) <= RX_DESCRIPTORS

\* With a piece all later ones of its frame are there, in order, and the earlier
\* ones too that have not been given back. Only a frame whose first pieces are
\* being given back is without them.
Whole(n) ==
  /\ \A j \in 0 .. (n - 1) : \A m \in 1 .. PieceCount(At(j).size) :
        Place(j, m) >= 0 => Place(j, m) < n /\ At(Place(j, m)) = [At(j) EXCEPT !.k = m]
  /\ n > 0 /\ pc # "free" => At(0).k = 1

\* While a frame is copied, the statics are inside it.
Copying(n) ==
  pc = "copy" =>
    /\ n > 0 /\ rd.size = At(0).size
    /\ Len(rd.data) < PieceCount(rd.size)
    /\ rd.index = Fwd(receive_index, Len(rd.data))

Extent(n) == Owned(n) /\ Free(n) /\ Whole(n) /\ Copying(n)

\* Ring, engines and statics hold what they can hold; Copies as a set of
\* sequences of bounded length.
Copied == {s \in Seq(FrameId \X (1 .. RX_DESCRIPTORS)) : Len(s) <= RX_DESCRIPTORS}

RxTypes ==
  /\ pc \in {"guest", "copy", "free", "rxbusy", "txcopy", "txwait"}
  /\ ring \in [Index -> Piece \cup {NicOwned}]
  /\ receive_index \in Index
  /\ rd \in [index : Index, size : FrameSize \cup {0}, frame_size : Nat, read_nbytes : Nat,
             data : Copied]
  /\ is_up \in BOOLEAN /\ rxen \in BOOLEAN
  /\ dma \in [next : Index, id : FrameId \cup {0}, size : FrameSize \cup {0},
              left : 0 .. RX_DESCRIPTORS]
  /\ handed \in [size : FrameSize \cup {0}, data : Copied]

DmaInv ==
  /\ dma.left > 0 => /\ dma.id \in FrameId /\ dma.size \in FrameSize
                     /\ dma.left <= PieceCount(dma.size)
  /\ ~ rxen /\ pc # "rxbusy" => dma.left = 0

RxInv == RxTypes /\ DmaInv /\ \E n \in 0 .. RX_DESCRIPTORS : Extent(n)

\* A remainder of less than two turns of the ring.
LEMMA FwdIsMod ==
  ASSUME NEW a \in Index, NEW b \in 0 .. RX_DESCRIPTORS
  PROVE  (a + b) % RX_DESCRIPTORS = Fwd(a, b) /\ Fwd(a, b) \in Index
<1> DEFINE x == a + b
<1>1. RX_DESCRIPTORS \in Nat \ {0} /\ x \in Nat /\ x < 2 * RX_DESCRIPTORS
  BY EthernetAssumption DEF Index
<1>2. Fwd(a, b) \in Index
  BY EthernetAssumption DEF Fwd, Index
<1> HIDE DEF x
<1>3. x % RX_DESCRIPTORS = IF x < RX_DESCRIPTORS THEN x ELSE x - RX_DESCRIPTORS
  BY <1>1
<1>4. Fwd(a, b) = IF x < RX_DESCRIPTORS THEN x ELSE x - RX_DESCRIPTORS
  BY EthernetAssumption DEF Fwd, x, Index
<1>5. x % RX_DESCRIPTORS = Fwd(a, b)
  BY <1>3, <1>4
<1>6. QED
  BY <1>2, <1>5, Zenon DEF x

\* Going on from a place in the ring.
LEMMA FwdFwd ==
  ASSUME NEW a \in Index, NEW b \in 0 .. RX_DESCRIPTORS, NEW c \in 0 .. RX_DESCRIPTORS,
         b + c <= RX_DESCRIPTORS
  PROVE  Fwd(a, b) \in Index /\ Fwd(Fwd(a, b), c) = Fwd(a, b + c)
BY EthernetAssumption DEF Fwd, Index

\* Different offsets are different descriptors.
LEMMA FwdApart ==
  ASSUME NEW a \in Index, NEW b \in Offset, NEW c \in Offset, Fwd(a, b) = Fwd(a, c)
  PROVE  b = c
BY EthernetAssumption DEF Fwd, Index, Offset

\* A frame has a piece, no more pieces than the ring has descriptors, and only
\* its last piece is shorter than a buffer.
LEMMA PieceCountBounds ==
  ASSUME NEW size \in FrameSize
  PROVE  /\ PieceCount(size) \in 1 .. RX_DESCRIPTORS
         /\ (PieceCount(size) - 1) * RX_BYTES_PER_DESC < size
<1> DEFINE B == RX_BYTES_PER_DESC  N == RX_DESCRIPTORS  q == PieceCount(size)
<1>1. B \in Nat /\ B >= 1 /\ N \in Nat /\ N >= 1 /\ size \in Nat /\ size >= 1 /\ size <= N * B
  BY EthernetAssumption
<1>2. q = (size + B - 1) \div B
  BY DEF PieceCount
<1> HIDE DEF B, N, q
<1>3. q \in Int /\ B * q <= size + B - 1 /\ size + B - 1 < B * (q + 1)
  BY <1>1, <1>2, Z3
<1>4. q >= 1
  <2>1. CASE q <= 0
    <3>1. B * (q + 1) <= B
      BY <1>1, <1>3, <2>1, Z3
    <3>2. QED
      BY <1>1, <1>3, <3>1
  <2>2. QED
    BY <1>3, <2>1
<1>5. q <= N
  <2>1. CASE q >= N + 1
    <3>1. B * q >= B * (N + 1)
      BY <1>1, <1>3, <2>1, Z3
    <3>2. B * (N + 1) = N * B + B
      BY <1>1, Z3
    <3>3. QED
      BY <1>1, <1>3, <3>1, <3>2
  <2>2. QED
    BY <1>1, <1>3, <2>1
<1>6. (q - 1) * B = B * q - B
  BY <1>1, <1>3, Z3
<1>7. (q - 1) * B < size
  BY <1>1, <1>3, <1>6
<1>8. QED
  BY <1>1, <1>3, <1>4, <1>5, <1>7 DEF B, N, q

\* A place in the ring, and what it can hold.
LEMMA AtType ==
  ASSUME RxTypes, NEW j \in Offset
  PROVE  /\ Fwd(receive_index, j) \in Index
         /\ At(j) \in Piece \cup {NicOwned}
         /\ At(j) = NicOwned => At(j) \notin Piece
<1>1. Fwd(receive_index, j) \in Index
  BY EthernetAssumption DEF RxTypes, Fwd, Index, Offset
<1>2. NicOwned \notin Piece
  BY EthernetAssumption DEF NicOwned, Piece
<1>3. QED
  BY <1>1, <1>2 DEF RxTypes, At

\* The oldest descriptor is at receive_index.
LEMMA AtFirst ==
  ASSUME RxTypes
  PROVE  0 \in Offset /\ At(0) = ring[receive_index]
<1>1. receive_index + 0 = receive_index /\ receive_index < RX_DESCRIPTORS /\ 0 \in Offset
  BY EthernetAssumption DEF RxTypes, Index, Offset
<1>2. QED
  BY <1>1 DEF At, Fwd

\* With no descriptor of software's the oldest one belongs to the controller.
LEMMA NoneOwned ==
  ASSUME RxInv, Extent(0)
  PROVE  At(0) = NicOwned
<1>1. 0 \in 0 .. (RX_DESCRIPTORS - 1)
  BY EthernetAssumption
<1>2. ~ Written(0, 0)
  BY DEF Written, RxInv, RxTypes
<1>3. QED
  BY <1>1, <1>2 DEF Extent, Free

\* Steps that leave the ring and the receive engine alone.
LEMMA SameRing ==
  ASSUME NEW n, Extent(n), UNCHANGED <<ring, receive_index, dma>>,
         pc = "free" /\ pc' # "free" => n = 0,
         Copying(n)'
  PROVE  Extent(n)'
<1>1. \A j : At(j)' = At(j)
  BY DEF At
<1>2. Owned(n)' /\ Free(n)'
  BY <1>1 DEF Extent, Owned, Free, Written, Arriving
<1>3. Whole(n)'
  BY <1>1 DEF Extent, Whole, Place, Owned
<1>4. QED
  BY <1>2, <1>3 DEF Extent

\* The piece that is copied next is the one behind what has been copied.
LEMMA CopyPlace ==
  ASSUME RxTypes, NEW n \in 0 .. RX_DESCRIPTORS, Extent(n), pc = "copy"
  PROVE  LET d == Len(rd.data) IN
         /\ d \in Nat /\ d < n /\ rd.size \in FrameSize
         /\ d < PieceCount(rd.size) /\ PieceCount(rd.size) \in 1 .. RX_DESCRIPTORS
         /\ ring[rd.index] \in Piece /\ ring[rd.index] = At(d)
         /\ ring[rd.index].size = rd.size /\ ring[rd.index].k = d + 1
         /\ ring[rd.index].id = At(0).id /\ At(0) \in Piece /\ At(0).k = 1
         /\ At(0).size = rd.size
<1> DEFINE d == Len(rd.data)
<1>1. /\ n > 0 /\ rd.size = At(0).size /\ d < PieceCount(rd.size)
      /\ rd.index = Fwd(receive_index, d)
  BY DEF Extent, Copying
<1>2. At(0) \in Piece /\ At(0).k = 1
  BY <1>1 DEF Extent, Owned, Whole
<1>3. rd.size \in FrameSize /\ d \in Nat
  BY <1>1, <1>2 DEF Piece, RxTypes, Copied
<1>4. PieceCount(rd.size) \in 1 .. RX_DESCRIPTORS
  BY <1>3, PieceCountBounds
<1> HIDE DEF d
<1>5. d + 1 \in 1 .. PieceCount(At(0).size) /\ Place(0, d + 1) = d
  BY <1>1, <1>2, <1>3, <1>4 DEF Place
<1>6. d < n /\ At(d) = [At(0) EXCEPT !.k = d + 1]
  BY <1>1, <1>3, <1>5 DEF Extent, Whole
<1>7. At(d) \in Piece
  BY <1>3, <1>6 DEF Extent, Owned
<1>8. At(d).size = rd.size /\ At(d).k = d + 1 /\ At(d).id = At(0).id
  BY <1>1, <1>2, <1>6 DEF Piece
<1>9. ring[rd.index] = At(d)
  BY <1>1 DEF At
<1>10. QED
  BY <1>1, <1>2, <1>3, <1>4, <1>6, <1>7, <1>8, <1>9 DEF d

\* The copy ends inside the frame: at its last piece at the latest.
LEMMA CopyInv ==
  ASSUME RxInv, CopyDescriptor
  PROVE  RxInv'
<1>1. PICK n \in 0 .. RX_DESCRIPTORS : Extent(n)
  BY DEF RxInv
<1> DEFINE d == Len(rd.data)  p == ring[rd.index]  B == RX_BYTES_PER_DESC
           nbytes == DESC_BYTECNT(p)
           cb == IF nbytes <= rd.frame_size THEN nbytes ELSE rd.frame_size
           left == rd.frame_size - cb
           read == rd.read_nbytes + cb
<1>2. RxTypes /\ DmaInv /\ pc = "copy"
  BY DEF RxInv, CopyDescriptor
<1>3. /\ d \in Nat /\ d < n /\ rd.size \in FrameSize
      /\ d < PieceCount(rd.size) /\ PieceCount(rd.size) \in 1 .. RX_DESCRIPTORS
      /\ p \in Piece /\ p = At(d) /\ p.size = rd.size /\ p.k = d + 1
  BY <1>1, <1>2, CopyPlace
<1>4. p # NicOwned
  BY <1>3, EthernetAssumption DEF Piece, NicOwned
<1>5. CopyPiece(p) /\ UNCHANGED <<ring, receive_index, is_up, rxen, dma, handed, txVars>>
  BY <1>4 DEF CopyDescriptor
<1>6. DESC_EOP(p) <=> d + 1 = PieceCount(rd.size)
  BY <1>3 DEF DESC_EOP
<1>7. nbytes \in Nat
  <2> rd.size \in FrameSize
    BY <1>3
  <2>1. B \in Nat /\ rd.size \in Nat
    <3>1. B \in Nat
      BY EthernetAssumption
    <3>2. rd.size \in 1 .. (RX_DESCRIPTORS * RX_BYTES_PER_DESC)
      BY EthernetAssumption, Zenon
    <3>3. RX_DESCRIPTORS * RX_BYTES_PER_DESC \in Int
      BY EthernetAssumption
    <3> HIDE DEF B
    <3>4. QED
      BY <3>1, <3>2, <3>3
  <2> HIDE DEF B
  <2>0. (PieceCount(rd.size) - 1) * B < rd.size
    BY PieceCountBounds, Zenon DEF B
  <2>2. CASE d + 1 = PieceCount(rd.size)
    <3>1. d = PieceCount(rd.size) - 1 /\ p.k - 1 = d
      BY <1>3, <2>2
    <3>2. nbytes = rd.size - (PieceCount(rd.size) - 1) * B
      BY <1>3, <1>6, <2>2, <3>1 DEF DESC_BYTECNT, B
    <3>3. (PieceCount(rd.size) - 1) * B \in Int
      BY <1>3, <2>1
    <3>4. QED
      BY <2>0, <2>1, <3>2, <3>3
  <2>3. CASE d + 1 # PieceCount(rd.size)
    BY <1>6, <2>1, <2>3 DEF DESC_BYTECNT, B
  <2>4. QED
    BY <2>2, <2>3
<1>8. /\ rd' = [rd EXCEPT !.index = IF cb = nbytes THEN INCR_RX_INDEX(@) ELSE @,
                          !.frame_size = left, !.read_nbytes = read,
                          !.data = Append(@, <<p.id, p.k>>)]
      /\ pc' = IF CopyEnds(p, cb, left, read) THEN "free" ELSE "copy"
  BY <1>5 DEF CopyPiece
<1> HIDE DEF d, p, nbytes
<1>9. cb \in Nat /\ left \in Nat /\ read \in Nat /\ (left # 0 => cb = nbytes)
  BY <1>2, <1>7 DEF RxTypes
<1> HIDE DEF cb, left, read
<1>10. rd.index = Fwd(receive_index, d) /\ rd.index \in Index
  BY <1>1, <1>2 DEF Extent, Copying, RxTypes, d
<1>11. INCR_RX_INDEX(rd.index) = Fwd(receive_index, d + 1) /\ INCR_RX_INDEX(rd.index) \in Index
  <2>1. INCR_RX_INDEX(rd.index) = Fwd(rd.index, 1) /\ Fwd(rd.index, 1) \in Index
    BY <1>10, FwdIsMod, EthernetAssumption DEF INCR_RX_INDEX
  <2>2. Fwd(Fwd(receive_index, d), 1) = Fwd(receive_index, d + 1)
    BY <1>2, <1>3, FwdFwd, EthernetAssumption DEF RxTypes
  <2>3. QED
    BY <1>10, <2>1, <2>2
<1>12. /\ Append(rd.data, <<p.id, p.k>>) \in Copied
       /\ Len(Append(rd.data, <<p.id, p.k>>)) = d + 1
  <2>1. <<p.id, p.k>> \in FrameId \X (1 .. RX_DESCRIPTORS)
    BY <1>3 DEF Piece
  <2>2. rd.data \in Seq(FrameId \X (1 .. RX_DESCRIPTORS))
    BY <1>2 DEF RxTypes, Copied
  <2>3. QED
    BY <1>3, <2>1, <2>2, AppendProperties DEF Copied, d
<1>13. /\ rd'.size = rd.size /\ rd'.data = Append(rd.data, <<p.id, p.k>>)
       /\ rd'.index = IF cb = nbytes THEN INCR_RX_INDEX(rd.index) ELSE rd.index
       /\ rd' \in [index : Index, size : FrameSize \cup {0}, frame_size : Nat,
                   read_nbytes : Nat, data : Copied]
  BY <1>2, <1>8, <1>9, <1>10, <1>11, <1>12 DEF RxTypes
<1>14. RxTypes' /\ DmaInv'
  BY <1>2, <1>5, <1>8, <1>13 DEF RxTypes, DmaInv
<1>15. Copying(n)'
  <2>1. SUFFICES ASSUME pc' = "copy" PROVE Copying(n)'
    BY DEF Copying
  <2>2. cb = nbytes /\ ~ DESC_EOP(p)
    BY <1>8, <1>9, <2>1 DEF CopyEnds, nbytes
  <2>3. d + 1 < PieceCount(rd.size)
    BY <1>3, <1>6, <2>2
  <2>4. At(0)' = At(0) /\ receive_index' = receive_index
    BY <1>5 DEF At
  <2>5. n > 0 /\ rd.size = At(0).size
    BY <1>1, <1>2 DEF Extent, Copying
  <2>6. QED
    BY <1>11, <1>12, <1>13, <2>2, <2>3, <2>4, <2>5 DEF Copying
<1>16. Extent(n)'
  BY <1>1, <1>2, <1>5, <1>15, SameRing
<1>17. QED
  BY <1>1, <1>14, <1>16 DEF RxInv

\* What the receive calls find: the oldest frame from its first piece on.
LEMMA ReceiveInv ==
  ASSUME RxInv, ReceiveNothing \/ ReceiveStart
  PROVE  RxInv'
<1>1. PICK n \in 0 .. RX_DESCRIPTORS : Extent(n)
  BY DEF RxInv
<1>2. RxTypes /\ DmaInv
  BY DEF RxInv
<1>3. CASE ReceiveNothing
  <2>1. RxTypes' /\ DmaInv'
    <3>1. Nothing \in [size : FrameSize \cup {0}, data : Copied]
      <4>1. <<>> \in Copied
        BY EthernetAssumption DEF Copied
      <4>2. QED
        BY <4>1 DEF Nothing
    <3>2. QED
      BY <1>2, <1>3, <3>1 DEF ReceiveNothing, RxTypes, DmaInv
  <2>2. Extent(n)'
    <3>1. pc' = "guest" /\ pc = "guest" /\ UNCHANGED <<ring, receive_index, dma>>
      BY <1>3 DEF ReceiveNothing
    <3>2. Copying(n)'
      BY <3>1 DEF Copying
    <3>3. QED
      BY <1>1, <3>1, <3>2, SameRing
  <2>3. QED
    BY <1>1, <2>1, <2>2 DEF RxInv
<1>4. CASE ReceiveStart
  <2> DEFINE size == ring[receive_index].size
  <2>1. /\ pc = "guest" /\ pc' = "copy" /\ ring[receive_index] # NicOwned
        /\ rd' = [index |-> receive_index, size |-> size, frame_size |-> size,
                  read_nbytes |-> 0, data |-> <<>>]
        /\ UNCHANGED <<ring, receive_index, is_up, rxen, dma, handed>>
    BY <1>4 DEF ReceiveStart, FrameReady
  <2>2. n > 0
    BY <1>1, <1>2, <2>1, NoneOwned, AtFirst
  <2>3. At(0) = ring[receive_index] /\ At(0) \in Piece /\ size \in FrameSize
    BY <1>1, <1>2, <2>2, AtFirst DEF Extent, Owned, Piece
  <2>4. size \in Nat /\ PieceCount(size) >= 1
    BY <2>3, PieceCountBounds, EthernetAssumption
  <2> HIDE DEF size
  <2>5. <<>> \in Copied /\ Len(<<>>) = 0
    BY EthernetAssumption DEF Copied
  <2>6. RxTypes' /\ DmaInv'
    <3>1. rd' \in [index : Index, size : FrameSize \cup {0}, frame_size : Nat,
                   read_nbytes : Nat, data : Copied]
      BY <1>2, <2>1, <2>3, <2>4, <2>5 DEF RxTypes
    <3>2. QED
      BY <1>2, <2>1, <3>1 DEF RxTypes, DmaInv
  <2>7. Copying(n)'
    <3>1. At(0)' = At(0)
      BY <2>1 DEF At
    <3>2. receive_index = Fwd(receive_index, 0)
      BY <1>2, EthernetAssumption DEF Fwd, RxTypes, Index
    <3>3. At(0).size = size
      BY <2>3 DEF size
    <3>4. /\ rd'.size = size /\ Len(rd'.data) = 0 /\ rd'.index = receive_index'
          /\ receive_index' = receive_index
      BY <2>1, <2>5
    <3>5. 0 < PieceCount(size)
      BY <2>4, <2>3, PieceCountBounds
    <3>6. QED
      BY <2>2, <3>1, <3>2, <3>3, <3>4, <3>5 DEF Copying
  <2>8. Extent(n)'
    BY <1>1, <2>1, <2>7, SameRing
  <2>9. QED
    BY <1>1, <2>6, <2>8 DEF RxInv
<1>5. QED
  BY <1>3, <1>4

\* Giving the oldest descriptor back: the others move up, and the place at the end
\* is the controller's.
LEMMA FreeAt ==
  ASSUME RxTypes, FreeDescriptor, At(0) # NicOwned
  PROVE  /\ ring' = [ring EXCEPT ![receive_index] = NicOwned]
         /\ receive_index' = Fwd(receive_index, 1) /\ receive_index' \in Index
         /\ pc' = IF DESC_EOP(At(0)) THEN "guest" ELSE "free"
         /\ \A j \in 0 .. (RX_DESCRIPTORS - 2) : At(j)' = At(j + 1)
         /\ At(RX_DESCRIPTORS - 1)' = NicOwned
<1>1. At(0) = ring[receive_index]
  BY AtFirst
<1>2. /\ ring' = [ring EXCEPT ![receive_index] = NicOwned]
      /\ receive_index' = INCR_RX_INDEX(receive_index)
      /\ pc' = IF DESC_EOP(At(0)) THEN "guest" ELSE "free"
  BY <1>1 DEF FreeDescriptor, FreeEnds
<1>3. receive_index \in Index /\ RX_DESCRIPTORS \in Nat \ {0}
  BY EthernetAssumption DEF RxTypes
<1>4. receive_index' = Fwd(receive_index, 1) /\ receive_index' \in Index
  BY <1>2, <1>3, FwdIsMod DEF INCR_RX_INDEX
<1>5. ASSUME NEW j \in 0 .. (RX_DESCRIPTORS - 2)
      PROVE  At(j)' = At(j + 1)
  <2>1. Fwd(receive_index', j) = Fwd(receive_index, j + 1)
    BY <1>3, <1>4, FwdFwd
  <2>2. Fwd(receive_index, j + 1) # Fwd(receive_index, 0) /\ Fwd(receive_index, 0) = receive_index
    BY <1>3 DEF Fwd, Index
  <2>3. Fwd(receive_index, j + 1) \in Index
    BY <1>3, FwdFwd
  <2>4. QED
    BY <1>2, <2>1, <2>2, <2>3 DEF At, RxTypes
<1>6. At(RX_DESCRIPTORS - 1)' = NicOwned
  <2>1. Fwd(receive_index', RX_DESCRIPTORS - 1) = receive_index
    BY <1>3, <1>4 DEF Fwd, Index
  <2>2. QED
    BY <1>2, <1>3, <2>1 DEF At, RxTypes
<1>7. QED
  BY <1>2, <1>4, <1>5, <1>6

\* The receive call gives descriptors back, whatever they hold.
LEMMA FreeInv ==
  ASSUME RxInv, FreeDescriptor
  PROVE  RxInv'
<1>1. PICK n \in 0 .. RX_DESCRIPTORS : Extent(n)
  BY DEF RxInv
<1>2. RxTypes /\ DmaInv /\ pc = "free" /\ pc' \in {"guest", "free"}
      /\ rd' = NotReading /\ UNCHANGED <<is_up, rxen, dma>>
  BY DEF RxInv, FreeDescriptor
<1>3. /\ rd' \in [index : Index, size : FrameSize \cup {0}, frame_size : Nat,
                  read_nbytes : Nat, data : Copied]
      /\ handed' \in [size : FrameSize \cup {0}, data : Copied]
  <2>1. <<>> \in Copied /\ 0 \in Index
    BY EthernetAssumption DEF Copied, Index
  <2>2. rd.size \in FrameSize \cup {0} /\ rd.data \in Copied
    BY <1>2 DEF RxTypes
  <2>3. handed' = handed \/ handed' = [size |-> rd.size, data |-> rd.data]
    BY DEF FreeDescriptor
  <2>4. handed' \in [size : FrameSize \cup {0}, data : Copied]
    BY <1>2, <2>2, <2>3 DEF RxTypes
  <2>5. QED
    BY <1>2, <2>1, <2>4 DEF NotReading
<1>4. CASE ring[receive_index] = NicOwned
  <2>1. pc' = "guest" /\ UNCHANGED <<ring, receive_index>>
    BY <1>4 DEF FreeDescriptor
  <2>2. n = 0
    <3>1. SUFFICES ASSUME n > 0 PROVE FALSE
      BY <1>1
    <3>2. At(0) \in Piece
      BY <1>1, <3>1 DEF Extent, Owned
    <3>3. QED
      BY <1>2, <1>4, <3>2, AtFirst, AtType
  <2>3. Copying(n)'
    BY <2>1 DEF Copying
  <2>4. Extent(n)'
    BY <1>1, <1>2, <2>1, <2>2, <2>3, SameRing
  <2>5. RxTypes' /\ DmaInv'
    BY <1>2, <1>3, <2>1 DEF RxTypes, DmaInv
  <2>6. QED
    BY <1>1, <2>4, <2>5 DEF RxInv
<1>5. CASE ring[receive_index] # NicOwned
  <2>1. /\ ring' = [ring EXCEPT ![receive_index] = NicOwned]
        /\ receive_index' = Fwd(receive_index, 1) /\ receive_index' \in Index
        /\ pc' = IF DESC_EOP(At(0)) THEN "guest" ELSE "free"
        /\ \A j \in 0 .. (RX_DESCRIPTORS - 2) : At(j)' = At(j + 1)
        /\ At(RX_DESCRIPTORS - 1)' = NicOwned
    BY <1>2, <1>5, FreeAt, AtFirst
  <2>2. receive_index \in Index /\ RX_DESCRIPTORS \in Nat \ {0}
    BY <1>2, EthernetAssumption DEF RxTypes
  <2>3. receive_index' = Fwd(receive_index, 1) /\ receive_index' \in Index
    BY <2>1
  <2>4. n > 0
    BY <1>1, <1>2, <1>5, NoneOwned, AtFirst
  <2>5. \A j \in 0 .. (RX_DESCRIPTORS - 2) : At(j)' = At(j + 1)
    BY <2>1
  <2>6. At(RX_DESCRIPTORS - 1)' = NicOwned
    BY <2>1
  <2>7. RxTypes' /\ DmaInv'
    <3>1. ring' \in [Index -> Piece \cup {NicOwned}]
      BY <1>2, <2>1, <2>2 DEF RxTypes
    <3>2. QED
      BY <1>2, <1>3, <2>3, <3>1 DEF RxTypes, DmaInv
  <2>8. Owned(n - 1)'
    <3>1. dma.next = Fwd(receive_index', n - 1)
      BY <1>1, <2>2, <2>3, <2>4, FwdFwd DEF Extent, Owned
    <3>2. ASSUME NEW j \in 0 .. (n - 2)
          PROVE  At(j)' \in Piece /\ At(j)'.k <= PieceCount(At(j)'.size)
      BY <1>1, <2>2, <2>4, <2>5 DEF Extent, Owned
    <3>3. QED
      BY <1>1, <1>2, <2>2, <2>4, <3>1, <3>2 DEF Owned
  <2>9. Free(n - 1)'
    <3>1. dma.left > 0 => n + PieceCount(dma.size) <= RX_DESCRIPTORS
                          /\ PieceCount(dma.size) \in Nat /\ dma.left \in Nat
      BY <1>1, <1>2, PieceCountBounds DEF Extent, Free, DmaInv, RxTypes
    <3>2. ASSUME NEW j \in (n - 1) .. (RX_DESCRIPTORS - 1)
          PROVE  At(j)' = IF Written(n - 1, j)' THEN Arriving(n - 1, j)' ELSE NicOwned
      <4>1. CASE j < RX_DESCRIPTORS - 1
        <5>1. At(j)' = At(j + 1)
          BY <1>1, <2>2, <2>4, <2>5, <4>1
        <5>2. Written(n - 1, j)' <=> Written(n, j + 1)
          BY <1>1, <1>2, <3>1 DEF Written
        <5>3. Arriving(n - 1, j)' = Arriving(n, j + 1)
          BY <1>1, <1>2, <3>1 DEF Arriving
        <5>4. At(j + 1) = IF Written(n, j + 1) THEN Arriving(n, j + 1) ELSE NicOwned
          BY <1>1, <2>2, <4>1 DEF Extent, Free
        <5>5. QED
          BY <5>1, <5>2, <5>3, <5>4
      <4>2. CASE j = RX_DESCRIPTORS - 1
        BY <1>1, <1>2, <2>2, <2>6, <3>1, <4>2 DEF Written
      <4>3. QED
        BY <1>1, <2>2, <4>1, <4>2
    <3>3. QED
      BY <1>1, <1>2, <2>2, <3>1, <3>2 DEF Free
  <2>10. Whole(n - 1)'
    <3>1. ASSUME NEW j \in 0 .. (n - 2), NEW m \in 1 .. PieceCount(At(j)'.size), Place(j, m)' >= 0
          PROVE  (Place(j, m) < n - 1 /\ At(Place(j, m)) = [At(j) EXCEPT !.k = m])'
      <4>1. At(j)' = At(j + 1) /\ j + 1 \in 0 .. (n - 1) /\ At(j + 1) \in Piece
        BY <1>1, <2>2, <2>4, <2>5 DEF Extent, Owned
      <4>2. PieceCount(At(j + 1).size) \in Nat /\ At(j + 1).k \in Nat
        BY <4>1, PieceCountBounds DEF Piece
      <4>3. Place(j, m)' = Place(j + 1, m) - 1 /\ Place(j + 1, m) \in Int
        BY <1>1, <4>1, <4>2 DEF Place
      <4>4. Place(j + 1, m) < n /\ At(Place(j + 1, m)) = [At(j + 1) EXCEPT !.k = m]
        BY <1>1, <3>1, <4>1, <4>3 DEF Extent, Whole
      <4>5. PICK q \in Int : q = Place(j + 1, m) - 1 /\ q = Place(j, m)'
        BY <4>3
      <4>6. At(q)' = At(q + 1)
        BY <1>1, <2>2, <2>5, <3>1, <4>3, <4>4, <4>5
      <4>7. At(Place(j, m))' = At(q)'
        BY <4>5 DEF At
      <4>8. QED
        BY <1>1, <4>1, <4>3, <4>4, <4>5, <4>6, <4>7
    <3>2. ASSUME n - 1 > 0, pc' # "free"
          PROVE  At(0)'.k = 1
      <4>1. At(0)' = At(1) /\ At(1) \in Piece /\ At(1).k <= PieceCount(At(1).size)
        BY <1>1, <2>2, <2>5, <3>2 DEF Extent, Owned
      <4>2. DESC_EOP(At(0))
        BY <2>1, <3>2
      <4>3. At(1).k \in 1 .. RX_DESCRIPTORS /\ PieceCount(At(1).size) \in Nat
        BY <4>1, PieceCountBounds DEF Piece
      <4>4. CASE At(1).k > 1
        <5>1. At(1).k - 1 \in 1 .. PieceCount(At(1).size) /\ Place(1, At(1).k - 1) = 0
          BY <2>2, <4>1, <4>3, <4>4 DEF Place
        <5>2. At(0) = [At(1) EXCEPT !.k = At(1).k - 1]
          BY <1>1, <3>2, <5>1 DEF Extent, Whole
        <5>3. At(0).k = At(1).k - 1 /\ At(0).size = At(1).size
          BY <4>1, <5>2 DEF Piece
        <5>4. QED
          BY <4>1, <4>2, <4>3, <5>3 DEF DESC_EOP
      <4>5. QED
        BY <4>1, <4>3, <4>4
    <3>3. QED
      BY <3>1, <3>2 DEF Whole
  <2>11. Copying(n - 1)'
    BY <1>2 DEF Copying
  <2>12. n - 1 \in 0 .. RX_DESCRIPTORS
    BY <1>1, <2>2, <2>4
  <2>13. QED
    BY <2>7, <2>8, <2>9, <2>10, <2>11, <2>12 DEF RxInv, Extent
<1>6. QED
  BY <1>4, <1>5

\* en_watchdog: the ring is built anew only when the receive engine is idle.
LEMMA WatchdogInv ==
  ASSUME RxInv, en_watchdog
  PROVE  RxInv'
<1>1. PICK n \in 0 .. RX_DESCRIPTORS : Extent(n)
  BY DEF RxInv
<1>2. RxTypes /\ DmaInv /\ pc = "guest" /\ UNCHANGED <<rd, handed>>
  BY DEF RxInv, en_watchdog
<1>3. ASSUME NEW status, LinkActivated(status) PROVE RxInv'
  <2>1. /\ ring' = EmptyRing /\ receive_index' = 0 /\ dma' = [dma EXCEPT !.next = 0]
        /\ is_up' = TRUE /\ rxen' = TRUE /\ pc' = pc /\ ~ rxen
    BY <1>3 DEF LinkActivated, en_setup_dma
  <2>2. dma.left = 0 /\ dma'.left = 0 /\ dma'.next = 0
    BY <1>2, <2>1 DEF DmaInv, RxTypes
  <2>3. 0 \in Index /\ RX_DESCRIPTORS \in Nat \ {0}
    BY EthernetAssumption DEF Index
  <2>4. RxTypes' /\ DmaInv'
    BY <1>2, <2>1, <2>2, <2>3 DEF RxTypes, DmaInv, EmptyRing
  <2>5. ASSUME NEW j \in 0 .. (RX_DESCRIPTORS - 1) PROVE At(j)' = NicOwned
    BY <2>1, <2>3 DEF At, EmptyRing, Fwd, Index
  <2>6. Extent(0)'
    BY <1>2, <2>1, <2>2, <2>3, <2>5
       DEF Extent, Owned, Free, Whole, Copying, Written, Fwd
  <2>7. QED
    BY <2>3, <2>4, <2>6 DEF RxInv
<1>4. ASSUME NEW status, LinkLost(status) \/ LinkSame(status) PROVE RxInv'
  <2>1. /\ UNCHANGED <<ring, receive_index, dma>> /\ pc' \in {"guest", "rxbusy"}
        /\ is_up' \in BOOLEAN /\ rxen' \in BOOLEAN
        /\ ~ rxen' /\ pc' # "rxbusy" => ~ rxen
    BY <1>2, <1>4 DEF LinkLost, LinkSame, is_phy_linked, RxTypes
  <2>2. RxTypes' /\ DmaInv'
    BY <1>2, <2>1 DEF RxTypes, DmaInv
  <2>3. Extent(n)'
    BY <1>1, <1>2, <2>1, SameRing DEF Copying
  <2>4. QED
    BY <1>1, <2>2, <2>3 DEF RxInv
<1>5. QED
  BY <1>3, <1>4 DEF en_watchdog

\* A frame is received only into descriptors the controller owns.
LEMMA RxFrameInv ==
  ASSUME RxInv, NEW f \in Frame, RxFrame(f)
  PROVE  RxInv'
<1>1. PICK n \in 0 .. RX_DESCRIPTORS : Extent(n)
  BY DEF RxInv
<1> DEFINE P == PieceCount(f.size)  N == RX_DESCRIPTORS
<1>2. RxTypes /\ DmaInv
  BY DEF RxInv
<1>3. /\ rxen /\ dma.left = 0 /\ \A k \in 1 .. P : ring[DmaIndex(k)] = NicOwned
      /\ dma' = [dma EXCEPT !.id = f.id, !.size = f.size, !.left = P]
      /\ UNCHANGED <<pc, ring, receive_index, rd, is_up, rxen, handed>>
  BY DEF RxFrame
<1>4. f.id \in FrameId /\ f.size \in FrameSize /\ P \in 1 .. N /\ N \in Nat \ {0}
  BY PieceCountBounds, EthernetAssumption DEF Frame
<1> HIDE DEF P
<1>5. n + P <= N
  <2>1. SUFFICES ASSUME n + P > N PROVE FALSE
    BY <1>1, <1>4
  <2>2. n > 0 /\ N - n + 1 \in 1 .. P /\ N - n \in 0 .. N
    BY <1>1, <1>4, <2>1
  <2>3. DmaIndex(N - n + 1) = Fwd(dma.next, N - n)
    <3>1. dma.next + (N - n + 1) - 1 = dma.next + (N - n) /\ dma.next \in Index
      BY <1>1, <1>2, <1>4 DEF RxTypes, Index
    <3>2. QED
      BY <2>2, <3>1, FwdIsMod DEF DmaIndex
  <2>4. Fwd(dma.next, N - n) = Fwd(receive_index, N)
    BY <1>1, <1>2, <1>4, <2>2, FwdFwd DEF Extent, Owned, RxTypes
  <2>5. Fwd(receive_index, N) = receive_index
    BY <1>2, <1>4 DEF Fwd, RxTypes, Index
  <2>6. At(0) = NicOwned
    BY <1>2, <1>3, <2>2, <2>3, <2>4, <2>5, AtFirst
  <2>7. QED
    BY <1>1, <1>2, <2>2, <2>6, AtType, AtFirst DEF Extent, Owned
<1>6. dma'.next = dma.next /\ dma'.size = f.size /\ dma'.left = P /\ dma'.id = f.id
  BY <1>2, <1>3 DEF RxTypes
<1>7. RxTypes' /\ DmaInv'
  <2>1. P \in 0 .. RX_DESCRIPTORS
    BY <1>4
  <2>2. dma' \in [next : Index, id : FrameId \cup {0}, size : FrameSize \cup {0},
                  left : 0 .. RX_DESCRIPTORS]
    BY <1>2, <1>3, <1>4, <2>1 DEF RxTypes
  <2>3. RxTypes'
    BY <1>2, <1>3, <2>2 DEF RxTypes
  <2>4. DmaInv'
    BY <1>2, <1>3, <1>4, <1>6 DEF DmaInv, P
  <2>5. QED
    BY <2>3, <2>4
<1>8. \A j : At(j)' = At(j)
  BY <1>3 DEF At
<1>9. Owned(n)' /\ Whole(n)' /\ Copying(n)'
  BY <1>1, <1>3, <1>6, <1>8 DEF Extent, Owned, Whole, Copying, Place
<1>10. Free(n)'
  <2>1. \A j \in n .. (N - 1) : ~ Written(n, j) /\ ~ Written(n, j)'
    BY <1>1, <1>3, <1>4, <1>6 DEF Written, P
  <2>2. QED
    BY <1>1, <1>5, <1>6, <1>8, <2>1 DEF Extent, Free, P
<1>11. QED
  BY <1>1, <1>7, <1>9, <1>10 DEF RxInv, Extent

\* The controller writes one descriptor of the frame under way, the place before
\* those it has written.
LEMMA WriteBackAt ==
  ASSUME RxTypes, DmaInv, NEW n \in 0 .. RX_DESCRIPTORS, Extent(n), RxWriteBack
  PROVE  LET P == PieceCount(dma.size)
             last == n + dma.left - 1
         IN  /\ dma.left \in 1 .. P /\ P \in 1 .. RX_DESCRIPTORS
             /\ RX_DESCRIPTORS \in Nat \ {0}
             /\ dma.id \in FrameId /\ dma.size \in FrameSize /\ n + P <= RX_DESCRIPTORS
             /\ last \in n .. (n + P - 1) /\ last \in Offset /\ last \in Nat
             /\ DmaIndex(P + 1) = Fwd(receive_index, n + P) /\ DmaIndex(P + 1) \in Index
             /\ Arriving(n, last) \in Piece
             /\ ring' \in [Index -> Piece \cup {NicOwned}]
             /\ \A j \in Offset : At(j)' = IF j = last THEN Arriving(n, last) ELSE At(j)
<1> DEFINE P == PieceCount(dma.size)  N == RX_DESCRIPTORS
           last == n + dma.left - 1
           new == [id |-> dma.id, size |-> dma.size, k |-> dma.left]
<1>1. Extent(n)
  OBVIOUS
<1>2. RxTypes /\ DmaInv
  OBVIOUS
<1>3. /\ dma.left > 0 /\ ring' = [ring EXCEPT ![DmaIndex(dma.left)] = new]
      /\ UNCHANGED <<pc, receive_index, rd, is_up, rxen, handed>>
  BY DEF RxWriteBack
<1>4. /\ dma.left \in 1 .. P /\ P \in 1 .. N /\ N \in Nat \ {0}
      /\ dma.id \in FrameId /\ dma.size \in FrameSize /\ n + P <= N
  <2>1. dma.id \in FrameId /\ dma.size \in FrameSize /\ dma.left <= PieceCount(dma.size)
    BY <1>2, <1>3 DEF DmaInv
  <2>2. P \in 1 .. N /\ N \in Nat \ {0}
    BY <2>1, PieceCountBounds, EthernetAssumption
  <2>3. dma.left \in Nat
    BY <1>2, <2>2 DEF RxTypes
  <2>4. n + P <= N
    BY <1>1, <1>3 DEF Extent, Free
  <2> HIDE DEF P
  <2>5. dma.left <= P
    BY <2>1 DEF P
  <2>6. QED
    BY <1>3, <2>1, <2>2, <2>3, <2>4, <2>5
<1>5. new \in Piece
  BY <1>4 DEF Piece
<1> HIDE DEF P
<1>6. last \in n .. (n + P - 1) /\ last \in Offset /\ last \in Nat
  BY <1>1, <1>4 DEF Offset
<1>7. ASSUME NEW k \in 1 .. (P + 1)
      PROVE  DmaIndex(k) = Fwd(receive_index, n + k - 1) /\ DmaIndex(k) \in Index
  <2>1. dma.next + k - 1 = dma.next + (k - 1) /\ k - 1 \in 0 .. N /\ dma.next \in Index
    BY <1>2, <1>4 DEF RxTypes, Index
  <2>2. DmaIndex(k) = Fwd(dma.next, k - 1) /\ DmaIndex(k) \in Index
    BY <2>1, FwdIsMod DEF DmaIndex
  <2>3. Fwd(Fwd(receive_index, n), k - 1) = Fwd(receive_index, n + (k - 1))
    BY <1>1, <1>2, <1>4, <2>1, FwdFwd DEF RxTypes
  <2>4. n + (k - 1) = n + k - 1
    BY <1>1, <1>4
  <2>5. QED
    BY <1>1, <2>2, <2>3, <2>4 DEF Extent, Owned
<1>8. DmaIndex(dma.left) = Fwd(receive_index, last) /\ DmaIndex(dma.left) \in Index
  BY <1>4, <1>7
<1>9. ASSUME NEW j \in Offset
      PROVE  At(j)' = IF j = last THEN new ELSE At(j)
  <2>1. Fwd(receive_index, j) \in Index /\ receive_index' = receive_index
    BY <1>2, <1>3, AtType
  <2>2. Fwd(receive_index, j) = Fwd(receive_index, last) => j = last
    BY <1>2, <1>6, FwdApart DEF RxTypes
  <2>3. QED
    BY <1>2, <1>3, <1>8, <2>1, <2>2 DEF At, RxTypes
<1>10. ring' \in [Index -> Piece \cup {NicOwned}]
  BY <1>2, <1>3, <1>5 DEF RxTypes
<1>11. new = Arriving(n, last)
  BY <1>1, <1>4 DEF Arriving
<1>12. DmaIndex(P + 1) = Fwd(receive_index, n + P) /\ DmaIndex(P + 1) \in Index
  <2>1. n + (P + 1) - 1 = n + P /\ P + 1 \in 1 .. (P + 1)
    BY <1>1, <1>4
  <2>2. QED
    BY <1>7, <2>1
<1> HIDE DEF new, last
<1>13. QED
  BY <1>4, <1>5, <1>6, <1>9, <1>10, <1>11, <1>12 DEF P, last

\* The pieces of a frame become software's when the first one is written.
LEMMA WriteBackInv ==
  ASSUME RxInv, RxWriteBack
  PROVE  RxInv'
<1>1. PICK n \in 0 .. RX_DESCRIPTORS : Extent(n)
  BY DEF RxInv
<1> DEFINE P == PieceCount(dma.size)  N == RX_DESCRIPTORS
           last == n + dma.left - 1
<1>2. RxTypes /\ DmaInv
  BY DEF RxInv
<1>3. dma.left > 0 /\ UNCHANGED <<pc, receive_index, rd, is_up, rxen, handed>>
  BY DEF RxWriteBack
<1>0. /\ dma.left \in 1 .. P /\ P \in 1 .. N /\ N \in Nat \ {0}
      /\ dma.id \in FrameId /\ dma.size \in FrameSize /\ n + P <= N
      /\ last \in n .. (n + P - 1) /\ last \in Offset /\ last \in Nat
      /\ DmaIndex(P + 1) = Fwd(receive_index, n + P) /\ DmaIndex(P + 1) \in Index
      /\ ring' \in [Index -> Piece \cup {NicOwned}]
      /\ \A j \in Offset : At(j)' = IF j = last THEN Arriving(n, last) ELSE At(j)
  BY <1>1, <1>2, WriteBackAt
<1> HIDE DEF P
<1>4. /\ dma.left \in 1 .. P /\ P \in 1 .. N /\ N \in Nat \ {0}
      /\ dma.id \in FrameId /\ dma.size \in FrameSize /\ n + P <= N
  BY <1>0
<1>6. last \in n .. (n + P - 1) /\ last \in Offset /\ last \in Nat
  BY <1>0
<1>9. \A j \in Offset : At(j)' = IF j = last THEN Arriving(n, last) ELSE At(j)
  BY <1>0
<1>10. ring' \in [Index -> Piece \cup {NicOwned}]
  BY <1>0
<1>12. \A j \in 0 .. (n - 1) : At(j)' = At(j) /\ j \in Offset
  BY <1>1, <1>4, <1>6, <1>9 DEF Offset
<1>13. \A j \in 0 .. (n - 1) : At(j) \in Piece /\ At(j).k <= PieceCount(At(j).size)
  BY <1>1 DEF Extent, Owned
<1>14. CASE dma.left # 1
  <2>1. dma' = [dma EXCEPT !.left = dma.left - 1]
    BY <1>14 DEF RxWriteBack
  <2>2. /\ dma'.left = dma.left - 1 /\ dma'.next = dma.next
        /\ dma'.size = dma.size /\ dma'.id = dma.id
        /\ dma' \in [next : Index, id : FrameId \cup {0}, size : FrameSize \cup {0}, left : 0 .. N]
    BY <1>2, <1>4, <1>14, <2>1 DEF RxTypes
  <2>3. RxTypes' /\ DmaInv'
    BY <1>2, <1>3, <1>4, <1>10, <1>14, <2>2 DEF RxTypes, DmaInv, P
  <2>4. Owned(n)' /\ Copying(n)'
    BY <1>1, <1>3, <1>12, <2>2 DEF Extent, Owned, Copying
  <2>5. Whole(n)'
    <3>1. ASSUME NEW j \in 0 .. (n - 1), NEW m \in 1 .. PieceCount(At(j)'.size), Place(j, m)' >= 0
          PROVE  (Place(j, m) < n /\ At(Place(j, m)) = [At(j) EXCEPT !.k = m])'
      <4>1. Place(j, m)' = Place(j, m) /\ m \in 1 .. PieceCount(At(j).size)
        BY <1>12, <3>1 DEF Place
      <4>2. Place(j, m) < n /\ At(Place(j, m)) = [At(j) EXCEPT !.k = m]
        BY <1>1, <3>1, <4>1 DEF Extent, Whole
      <4>3. Place(j, m) \in Int
        BY <1>1, <1>13, <3>1, <4>1, PieceCountBounds DEF Place, Piece
      <4>4. PICK q \in 0 .. (n - 1) : q = Place(j, m)
        BY <1>1, <3>1, <4>1, <4>2, <4>3
      <4>5. At(Place(j, m))' = At(q)'
        BY <4>1, <4>4 DEF At
      <4>6. QED
        BY <1>12, <4>1, <4>2, <4>4, <4>5
    <3>2. QED
      BY <1>1, <1>3, <1>12, <3>1 DEF Whole, Extent
  <2>6. Free(n)'
    <3>1. ASSUME NEW j \in n .. (N - 1)
          PROVE  At(j)' = IF Written(n, j)' THEN Arriving(n, j)' ELSE NicOwned
      <4>1. j \in Offset /\ j \in Nat
        BY <1>1, <1>4 DEF Offset
      <4>2. Arriving(n, j)' = Arriving(n, j)
        BY <2>2 DEF Arriving
      <4>3. Written(n, j)' <=> Written(n, j) \/ j = last
        BY <1>1, <1>4, <1>14, <2>2, <4>1 DEF Written, P
      <4>4. At(j) = IF Written(n, j) THEN Arriving(n, j) ELSE NicOwned
        BY <1>1 DEF Extent, Free
      <4>5. QED
        BY <1>9, <4>1, <4>2, <4>3, <4>4
    <3>2. QED
      BY <1>4, <2>2, <3>1 DEF Free, P
  <2>7. QED
    BY <1>1, <2>3, <2>4, <2>5, <2>6 DEF RxInv, Extent
<1>15. CASE dma.left = 1
  <2>1. dma' = [IdleDma EXCEPT !.next = DmaIndex(P + 1)]
    BY <1>15 DEF RxWriteBack, P
  <2>2. DmaIndex(P + 1) = Fwd(receive_index, n + P) /\ DmaIndex(P + 1) \in Index
    BY <1>0
  <2>3. /\ dma'.left = 0 /\ dma'.next = Fwd(receive_index, n + P)
        /\ dma' \in [next : Index, id : FrameId \cup {0}, size : FrameSize \cup {0}, left : 0 .. N]
    BY <1>4, <2>1, <2>2 DEF IdleDma
  <2>4. RxTypes' /\ DmaInv'
    BY <1>2, <1>3, <1>10, <2>3 DEF RxTypes, DmaInv
  <2>5. ASSUME NEW j \in n .. (n + P - 1)
        PROVE  /\ At(j)' = Arriving(n, j) /\ At(j)' \in Piece
               /\ At(j)'.k = j - n + 1 /\ At(j)'.size = dma.size
    <3>1. j \in Offset /\ j \in n .. (N - 1) /\ j - n + 1 \in 1 .. P
      BY <1>1, <1>4 DEF Offset
    <3>2. j = last \/ Written(n, j)
      BY <1>1, <1>4, <1>15, <3>1 DEF Written, P
    <3>3. At(j) = IF Written(n, j) THEN Arriving(n, j) ELSE NicOwned
      BY <1>1, <3>1 DEF Extent, Free
    <3>4. At(j)' = Arriving(n, j)
      BY <1>9, <3>1, <3>2, <3>3
    <3>5. Arriving(n, j) \in Piece /\ Arriving(n, j).k = j - n + 1 /\ Arriving(n, j).size = dma.size
      BY <1>4, <3>1 DEF Arriving, Piece
    <3>6. QED
      BY <3>4, <3>5
  <2>6. PICK e \in 0 .. N : e = n + P
    BY <1>1, <1>4
  <2>7. Owned(e)'
    <3>1. ASSUME NEW j \in 0 .. (e - 1)
          PROVE  At(j)' \in Piece /\ At(j)'.k <= PieceCount(At(j)'.size)
      <4>1. CASE j < n
        BY <1>1, <1>12, <1>13, <4>1
      <4>2. CASE j >= n
        <5>1. At(j)' \in Piece /\ At(j)'.k = j - n + 1 /\ At(j)'.size = dma.size
          BY <1>1, <1>4, <2>5, <2>6, <4>2
        <5>2. j - n + 1 <= P
          BY <1>1, <1>4, <2>6, <4>2
        <5>3. QED
          BY <5>1, <5>2 DEF P
      <4>3. QED
        BY <1>1, <4>1, <4>2
    <3>2. QED
      BY <1>3, <2>3, <2>6, <3>1 DEF Owned
  <2>8. Free(e)'
    <3>1. ASSUME NEW j \in e .. (N - 1) PROVE At(j)' = NicOwned
      <4>1. j \in Offset /\ j \in n .. (N - 1) /\ j # last /\ j >= n + P
        BY <1>1, <1>4, <1>6, <2>6 DEF Offset
      <4>2. ~ (j < n + P)
        BY <1>1, <1>4, <4>1
      <4>3. ~ Written(n, j)
        BY <4>2 DEF Written, P
      <4>4. QED
        BY <1>1, <1>9, <4>1, <4>3 DEF Extent, Free
    <3>2. QED
      BY <2>3, <3>1 DEF Free, Written
  <2>9. Whole(e)'
    <3>1. ASSUME NEW j \in 0 .. (e - 1), NEW m \in 1 .. PieceCount(At(j)'.size),
                 Place(j, m)' >= 0
          PROVE  (Place(j, m) < e /\ At(Place(j, m)) = [At(j) EXCEPT !.k = m])'
      <4>1. CASE j < n
        <5>1. j \in 0 .. (n - 1)
          BY <1>1, <4>1
        <5>2. Place(j, m)' = Place(j, m) /\ m \in 1 .. PieceCount(At(j).size)
          BY <1>12, <3>1, <5>1 DEF Place
        <5>3. Place(j, m) < n /\ At(Place(j, m)) = [At(j) EXCEPT !.k = m]
          BY <1>1, <3>1, <5>1, <5>2 DEF Extent, Whole
        <5>4. Place(j, m) \in Int
          BY <1>1, <1>13, <3>1, <5>1, <5>2, PieceCountBounds DEF Place, Piece
        <5>5. PICK q \in 0 .. (n - 1) : q = Place(j, m)
          BY <1>1, <3>1, <5>2, <5>3, <5>4
        <5>6. At(Place(j, m))' = At(q)'
          BY <5>2, <5>5 DEF At
        <5>7. Place(j, m)' < e
          BY <1>1, <1>4, <2>6, <5>2, <5>5
        <5>8. QED
          BY <1>12, <5>1, <5>2, <5>3, <5>5, <5>6, <5>7
      <4>2. CASE j >= n
        <5>1. j \in n .. (n + P - 1)
          BY <1>1, <1>4, <2>6, <4>2
        <5>2. At(j)' = Arriving(n, j) /\ At(j)'.k = j - n + 1 /\ m \in 1 .. P
          BY <2>5, <3>1, <5>1 DEF P
        <5>3. Place(j, m)' = n - 1 + m
          BY <1>1, <1>4, <5>1, <5>2 DEF Place
        <5>4. PICK q \in n .. (n + P - 1) : q = n - 1 + m
          BY <1>1, <1>4, <5>2
        <5>5. At(q)' = Arriving(n, q)
          BY <2>5
        <5>6. Arriving(n, q) = [Arriving(n, j) EXCEPT !.k = m]
          BY <1>1, <1>4, <5>2, <5>4 DEF Arriving
        <5>7. At(Place(j, m))' = At(q)'
          BY <5>3, <5>4 DEF At
        <5>8. Place(j, m)' < e
          BY <1>1, <1>4, <2>6, <5>3, <5>4
        <5>9. QED
          BY <5>2, <5>5, <5>6, <5>7, <5>8
      <4>3. QED
        BY <1>1, <4>1, <4>2
    <3>2. pc' # "free" => At(0)'.k = 1
      <4>1. CASE n = 0
        BY <1>4, <2>5, <4>1
      <4>2. CASE n > 0
        BY <1>1, <1>3, <1>12, <4>2 DEF Extent, Whole
      <4>3. QED
        BY <1>1, <4>1, <4>2
    <3>3. QED
      BY <3>1, <3>2 DEF Whole
  <2>10. Copying(e)'
    <3>1. pc' = pc /\ rd' = rd /\ receive_index' = receive_index
      BY <1>3
    <3>2. pc = "copy" => n > 0 /\ e > 0 /\ At(0)' = At(0)
      BY <1>1, <1>4, <1>12, <2>6 DEF Extent, Copying
    <3>3. QED
      BY <1>1, <3>1, <3>2 DEF Extent, Copying
  <2>11. QED
    BY <2>4, <2>6, <2>7, <2>8, <2>9, <2>10 DEF RxInv, Extent
<1>16. QED
  BY <1>14, <1>15

\* The transmit side does not touch the ring.
LEMMA OtherRxInv ==
  ASSUME RxInv,
         \/ ReceiverStopped \/ (\E f \in Outgoing : send_frame(f)) \/ FrameCopied
         \/ en_ll_output \/ TxNothing \/ TxWord \/ UNCHANGED ethVars
  PROVE  RxInv'
<1>1. PICK n \in 0 .. RX_DESCRIPTORS : Extent(n)
  BY DEF RxInv
<1>2. RxTypes /\ DmaInv
  BY DEF RxInv
<1>3. /\ UNCHANGED rxVars
      /\ \/ pc' = pc
         \/ pc' = "txcopy" /\ pc = "guest"
         \/ pc' \in {"txwait", "guest"} /\ pc = "txcopy"
         \/ pc' = "guest" /\ pc = "txwait"
         \/ pc' = "guest" /\ pc = "rxbusy" /\ dma.left = 0
  BY DEF ReceiverStopped, send_frame, FrameCopied, en_ll_output, StartTransmitter, TxNothing,
         TxWord,
         rxVars, ethVars
<1>4. RxTypes' /\ DmaInv'
  BY <1>2, <1>3 DEF RxTypes, DmaInv, rxVars
<1>5. Copying(n)'
  BY <1>1, <1>3 DEF Extent, Copying, rxVars, At
<1>6. Extent(n)'
  BY <1>1, <1>3, <1>5, SameRing DEF rxVars
<1>7. QED
  BY <1>1, <1>4, <1>6 DEF RxInv

\* The receive side's invariant holds from start-up.
LEMMA RxInvAlways == EthSpec => []RxInv
<1>1. EthInit => RxInv
  <2>1. SUFFICES ASSUME EthInit PROVE RxInv
    OBVIOUS
  <2>2. /\ 0 \in Index /\ RX_DESCRIPTORS \in Nat \ {0} /\ <<>> \in Copied
    BY EthernetAssumption DEF Index, Copied
  <2>3. RxTypes /\ DmaInv
    <3>1. NotReading \in [index : Index, size : FrameSize \cup {0}, frame_size : Nat,
                          read_nbytes : Nat, data : Copied]
      BY <2>2 DEF NotReading
    <3>2. IdleDma \in [next : Index, id : FrameId \cup {0}, size : FrameSize \cup {0},
                       left : 0 .. RX_DESCRIPTORS] /\ IdleDma.left = 0
      BY <2>2 DEF IdleDma
    <3>3. Nothing \in [size : FrameSize \cup {0}, data : Copied]
      BY <2>2 DEF Nothing
    <3>4. EmptyRing \in [Index -> Piece \cup {NicOwned}]
      BY DEF EmptyRing
    <3>5. pc = "guest" /\ is_up = FALSE /\ rxen = FALSE /\ receive_index = 0
          /\ ring = EmptyRing /\ rd = NotReading /\ dma = IdleDma /\ handed = Nothing
      BY <2>1 DEF EthInit
    <3>6. RxTypes
      BY <2>2, <3>1, <3>2, <3>3, <3>4, <3>5 DEF RxTypes
    <3>7. DmaInv
      BY <3>2, <3>5 DEF DmaInv
    <3>8. QED
      BY <3>6, <3>7
  <2>4. \A j \in 0 .. (RX_DESCRIPTORS - 1) : At(j) = NicOwned
    BY <2>1, <2>2 DEF EthInit, At, EmptyRing, Fwd, Index
  <2>5. Extent(0)
    BY <2>1, <2>2, <2>4
       DEF EthInit, IdleDma, Extent, Owned, Free, Whole, Copying, Written, Fwd
  <2>6. QED
    BY <2>2, <2>3, <2>5 DEF RxInv
<1>2. RxInv /\ [EthNext]_ethVars => RxInv'
  BY ReceiveInv, CopyInv, FreeInv, WatchdogInv, RxFrameInv, WriteBackInv, OtherRxInv
     DEF EthNext, Software, Controller
<1>3. QED
  BY <1>1, <1>2, PTL DEF EthSpec
-----------------------------------------------------------------------------
\* The run of RingInSync is the extent of the invariant, and its pieces are the
\* ones at the offsets from receive_index.
LEMMA RunIsExtent ==
  ASSUME RxTypes, NEW n \in 0 .. RX_DESCRIPTORS, Owned(n), Free(n)
  PROVE  /\ RunLength = n
         /\ \A j \in 1 .. n : Run[j] = At(j - 1)
         /\ dma.next = (receive_index + n) % RX_DESCRIPTORS
<1> DEFINE N == RX_DESCRIPTORS
           OwnedTo(l) == \A j \in 0 .. (l - 1) : ring[(receive_index + j) % N] # NicOwned
<1>1. N \in Nat \ {0} /\ receive_index \in Index
  BY EthernetAssumption DEF RxTypes
<1>2. ASSUME NEW j \in 0 .. N
      PROVE  ring[(receive_index + j) % N] = At(j)
  BY <1>1, FwdIsMod DEF At
<1>3. \A j \in 0 .. (n - 1) : At(j) # NicOwned
  <2>1. NicOwned \notin Piece
    BY EthernetAssumption DEF NicOwned, Piece
  <2>2. QED
    BY <2>1 DEF Owned
<1>4. n < N => At(n) = NicOwned
  <2>1. ~ Written(n, n)
    BY DEF Written, RxTypes
  <2>2. QED
    BY <1>1, <2>1 DEF Free
<1>5. ASSUME NEW l \in 1 .. N
      PROVE  OwnedTo(l) <=> l <= n
  <2>1. CASE l <= n
    <3>1. ASSUME NEW j \in 0 .. (l - 1) PROVE ring[(receive_index + j) % N] # NicOwned
      <4>1. j \in 0 .. N /\ j \in 0 .. (n - 1)
        BY <1>1, <2>1
      <4>2. QED
        BY <1>2, <1>3, <4>1
    <3>2. QED
      BY <2>1, <3>1
  <2>2. CASE l > n
    <3>1. n \in 0 .. (l - 1) /\ n \in 0 .. N /\ n < N
      BY <1>1, <2>2
    <3>2. ring[(receive_index + n) % N] = NicOwned
      BY <1>2, <1>4, <3>1
    <3>3. QED
      BY <2>2, <3>1, <3>2
  <2>3. QED
    BY <1>1, <2>1, <2>2
<1>6. {l \in 1 .. N : OwnedTo(l)} = 1 .. n
  <2> HIDE DEF OwnedTo
  <2>1. QED
    BY <1>1, <1>5
<1>7. RunLength = n
  <2>1. RunLength = Cardinality(1 .. n)
    BY <1>6 DEF RunLength
  <2>2. Cardinality(1 .. n) = n
    BY FS_Interval
  <2>3. QED
    BY <2>1, <2>2
<1>8. ASSUME NEW j \in 1 .. n
      PROVE  Run[j] = At(j - 1)
  <2>1. Run[j] = ring[(receive_index + j - 1) % N]
    BY <1>7 DEF Run
  <2>2. receive_index + j - 1 = receive_index + (j - 1) /\ j - 1 \in 0 .. N
    BY <1>1 DEF Index
  <2>3. QED
    BY <1>2, <2>1, <2>2
<1>9. dma.next = (receive_index + n) % N
  BY <1>1, FwdIsMod DEF Owned
<1>10. QED
  BY <1>7, <1>8, <1>9

\* Consecutive pieces of the run are pieces of one frame, or the last of one and
\* the first of the next; the run ends with a frame.
LEMMA RunFollows ==
  ASSUME NEW n \in 0 .. RX_DESCRIPTORS, Owned(n), Whole(n)
  PROVE  /\ \A j \in 1 .. (n - 1) :
              IF DESC_EOP(At(j - 1)) THEN At(j).k = 1
              ELSE At(j) = [At(j - 1) EXCEPT !.k = @ + 1]
         /\ n > 0 => DESC_EOP(At(n - 1))
<1>1. ASSUME NEW j \in 0 .. (n - 1)
      PROVE  /\ At(j) \in Piece /\ At(j).k \in Nat \ {0} /\ PieceCount(At(j).size) \in Nat
             /\ At(j).k <= PieceCount(At(j).size)
             /\ DESC_EOP(At(j)) <=> At(j).k = PieceCount(At(j).size)
  <2>1. At(j) \in Piece /\ At(j).k <= PieceCount(At(j).size)
    BY DEF Owned
  <2>2. At(j).k \in Nat \ {0} /\ At(j).size \in FrameSize
    BY <2>1, EthernetAssumption DEF Piece
  <2>3. PieceCount(At(j).size) \in Nat
    <3>1. PieceCount(At(j).size) \in 1 .. RX_DESCRIPTORS
      BY <2>2, PieceCountBounds, Zenon
    <3>2. QED
      BY <3>1, EthernetAssumption
  <2>4. DESC_EOP(At(j)) <=> At(j).k = PieceCount(At(j).size)
    BY DEF DESC_EOP
  <2>5. QED
    BY <2>1, <2>2, <2>3, <2>4
<1>2. ASSUME NEW j \in 0 .. (n - 1), NEW m \in 1 .. PieceCount(At(j).size), Place(j, m) >= 0
      PROVE  Place(j, m) < n /\ At(Place(j, m)) = [At(j) EXCEPT !.k = m]
  BY <1>2 DEF Whole
<1>3. ASSUME NEW j \in 1 .. (n - 1)
      PROVE  IF DESC_EOP(At(j - 1)) THEN At(j).k = 1
             ELSE At(j) = [At(j - 1) EXCEPT !.k = @ + 1]
  <2>1. j \in 0 .. (n - 1) /\ j - 1 \in 0 .. (n - 1)
    OBVIOUS
  <2>2. CASE DESC_EOP(At(j - 1))
    <3>1. SUFFICES ASSUME At(j).k # 1 PROVE FALSE
      BY <2>2
    <3>2. At(j).k - 1 \in 1 .. PieceCount(At(j).size) /\ Place(j, At(j).k - 1) = j - 1
      BY <1>1, <2>1, <3>1 DEF Place
    <3>3. At(j - 1) = [At(j) EXCEPT !.k = At(j).k - 1]
      BY <1>2, <2>1, <3>2
    <3>4. At(j - 1).k = At(j).k - 1 /\ At(j - 1).size = At(j).size
      BY <1>1, <2>1, <3>3 DEF Piece
    <3>5. QED
      BY <1>1, <2>1, <2>2, <3>4
  <2>3. CASE ~ DESC_EOP(At(j - 1))
    <3>1. At(j - 1).k + 1 \in 1 .. PieceCount(At(j - 1).size)
          /\ Place(j - 1, At(j - 1).k + 1) = j
      BY <1>1, <2>1, <2>3 DEF Place
    <3>2. At(j) = [At(j - 1) EXCEPT !.k = At(j - 1).k + 1]
      BY <1>2, <2>1, <3>1
    <3>3. QED
      BY <2>3, <3>2
  <2>4. QED
    BY <2>2, <2>3
<1>4. ASSUME n > 0, ~ DESC_EOP(At(n - 1)) PROVE FALSE
  <2>1. n - 1 \in 0 .. (n - 1)
    BY <1>4
  <2>2. At(n - 1).k + 1 \in 1 .. PieceCount(At(n - 1).size)
        /\ Place(n - 1, At(n - 1).k + 1) = n
    BY <1>1, <1>4, <2>1 DEF Place
  <2>3. QED
    BY <1>2, <2>1, <2>2
<1>5. QED
  BY <1>3, <1>4

\* The driver and the controller agree on where they are in the ring: the pieces
\* software owns are the frames that were received and not given back, whole
\* and in order, and the controller goes on behind them, for a ring of any
\* length and frames of any size that fits it (en_ll_input, en_setup_dma).
THEOREM RingInSyncAlways == EthSpec => []RingInSync
<1>1. RxInv => RingInSync
  <2>1. SUFFICES ASSUME RxInv PROVE RingInSync
    OBVIOUS
  <2>2. PICK n \in 0 .. RX_DESCRIPTORS : Extent(n)
    BY <2>1 DEF RxInv
  <2>3. /\ RunLength = n
        /\ \A j \in 1 .. n : Run[j] = At(j - 1)
        /\ dma.next = (receive_index + n) % RX_DESCRIPTORS
    BY <2>1, <2>2, RunIsExtent DEF RxInv, Extent
  <2>4. /\ \A j \in 1 .. (n - 1) :
             IF DESC_EOP(At(j - 1)) THEN At(j).k = 1
             ELSE At(j) = [At(j - 1) EXCEPT !.k = @ + 1]
        /\ n > 0 => DESC_EOP(At(n - 1))
    BY <2>2, RunFollows DEF Extent
  <2>5. ASSUME NEW j \in 1 .. n
        PROVE  /\ j = 1 => Run[j].k = 1 \/ pc = "free"
               /\ j > 1 => IF DESC_EOP(Run[j - 1]) THEN Run[j].k = 1
                           ELSE Run[j] = [Run[j - 1] EXCEPT !.k = @ + 1]
               /\ j = n => DESC_EOP(Run[j])
    <3>1. Run[j] = At(j - 1)
      BY <2>3
    <3>2. j = 1 => Run[j].k = 1 \/ pc = "free"
      BY <2>2, <3>1 DEF Extent, Whole
    <3>3. ASSUME j > 1
          PROVE  IF DESC_EOP(Run[j - 1]) THEN Run[j].k = 1
                 ELSE Run[j] = [Run[j - 1] EXCEPT !.k = @ + 1]
      <4>1. PICK i \in 1 .. (n - 1) : i = j - 1
        BY <3>3
      <4>2. Run[j] = At(i) /\ Run[j - 1] = At(i - 1) /\ i \in 1 .. n
        BY <2>3, <3>1, <4>1
      <4>3. QED
        BY <2>4, <4>2
    <3>4. j = n => DESC_EOP(Run[j])
      BY <2>4, <3>1
    <3>5. QED
      BY <3>2, <3>3, <3>4
  <2>6. QED
    BY <2>3, <2>5 DEF RingInSync
<1>2. QED
  BY <1>1, RxInvAlways, PTL
-----------------------------------------------------------------------------
\* Indices stay inside the ring, the statics of en_ll_input inside the frame that
\* is copied and a transmission inside its frame, for every ring and every size.
THEOREM EthTypeCorrect == EthSpec => []EthTypeOK
<1>1. ASSUME NEW s \in Copied PROVE s \in Copies
  <2>1. s \in [1 .. Len(s) -> FrameId \X (1 .. RX_DESCRIPTORS)]
    BY LenProperties DEF Copied
  <2>2. Len(s) \in 0 .. RX_DESCRIPTORS
    BY LenProperties, EthernetAssumption DEF Copied
  <2>3. QED
    BY <2>1, <2>2 DEF Copies
<1>2. RxInv /\ TxTypes => EthTypeOK
  <2>1. SUFFICES ASSUME RxTypes, TxTypes PROVE EthTypeOK
    BY DEF RxInv
  <2>2. rd \in [index : Index, size : FrameSize \cup {0}, frame_size : FrameSize \cup Nat,
                read_nbytes : Nat, data : Copies]
    BY <1>1, <2>1 DEF RxTypes
  <2>3. handed \in [size : FrameSize \cup {0}, data : Copies]
    BY <1>1, <2>1 DEF RxTypes
  <2>4. QED
    BY <2>1, <2>2, <2>3 DEF EthTypeOK, RxTypes, TxTypes, Word
<1>3. QED
  BY <1>2, RxInvAlways, TxInvAlways, PTL
-----------------------------------------------------------------------------
(***************************************************************************)
(* The receive side implements FrameQueue. The queue is listed by the      *)
(* offsets of the first pieces that wait, and each step changes the list   *)
(* the way FrameQueue changes the queue.                                   *)
(***************************************************************************)

\* An ascending list of numbers below the length of the ring.
Ascending(s) ==
  /\ s \in Seq(Offset)
  /\ \A i, k \in 1 .. Len(s) : i < k => s[i] < s[k]

\* A set that an ascending list enumerates has as many members as the list, and
\* its i-th member is the list's.
LEMMA NthIs ==
  ASSUME NEW s, Ascending(s), NEW S, \A j : j \in S <=> \E i \in 1 .. Len(s) : s[i] = j
  PROVE  Cardinality(S) = Len(s) /\ \A i \in 1 .. Len(s) : Nth(S, i) = s[i]
<1> DEFINE n == Len(s)
           UpTo(m) == {s[i] : i \in 1 .. m}
<1>1. n \in Nat /\ s \in [1 .. n -> Offset] /\ Offset \subseteq Nat
  BY LenProperties, EthernetAssumption DEF Ascending, Offset
<1>2. ASSUME NEW m \in 0 .. n
      PROVE  Cardinality(UpTo(m)) = m
  <2>1. m \in Nat /\ 1 .. m \subseteq 1 .. n
    BY <1>1, <1>2
  <2> DEFINE f == [i \in 1 .. m |-> s[i]]
  <2>2. f \in [1 .. m -> UpTo(m)]
    OBVIOUS
  <2>3. \A i, k \in 1 .. m : f[i] = f[k] => i = k
    <3>1. ASSUME NEW i \in 1 .. m, NEW k \in 1 .. m, f[i] = f[k], i < k
          PROVE  FALSE
      <4>1. i \in 1 .. n /\ k \in 1 .. n /\ s[i] = s[k]
        BY <2>1, <3>1
      <4>2. s[i] < s[k] /\ s[i] \in Nat
        BY <1>1, <3>1, <4>1 DEF Ascending
      <4>3. QED
        BY <4>1, <4>2
    <3>2. QED
      BY <2>1, <3>1
  <2>4. \A v \in UpTo(m) : \E i \in 1 .. m : f[i] = v
    OBVIOUS
  <2>5. f \in Bijection(1 .. m, UpTo(m))
    BY <2>2, <2>3, <2>4 DEF Bijection, Injection, Surjection, IsInjective
  <2>6. QED
    BY <2>1, <2>5, FS_CountingElements DEF ExistsBijection
<1>3. S = UpTo(n)
  OBVIOUS
<1>4. ASSUME NEW i \in 1 .. n
      PROVE  {l \in S : l <= s[i]} = UpTo(i)
  <2>1. ASSUME NEW k \in 1 .. n
        PROVE  s[k] <= s[i] <=> k <= i
    <3>1. s[i] \in Nat /\ s[k] \in Nat
      BY <1>1
    <3>2. k < i => s[k] < s[i]
      BY DEF Ascending
    <3>3. i < k => s[i] < s[k]
      BY DEF Ascending
    <3>4. k = i => s[k] = s[i]
      OBVIOUS
    <3>5. QED
      BY <1>1, <3>1, <3>2, <3>3, <3>4
  <2>2. ASSUME NEW l \in S, l <= s[i] PROVE l \in UpTo(i)
    <3>1. PICK k \in 1 .. n : s[k] = l
      OBVIOUS
    <3>2. k \in 1 .. i
      BY <1>1, <2>1, <2>2, <3>1
    <3>3. QED
      BY <3>1, <3>2
  <2>3. ASSUME NEW l \in UpTo(i) PROVE l \in S /\ l <= s[i]
    <3>1. PICK k \in 1 .. i : s[k] = l
      OBVIOUS
    <3>2. k \in 1 .. n /\ k <= i
      BY <1>1, <3>1
    <3>3. QED
      BY <2>1, <3>1, <3>2
  <2>4. QED
    BY <2>2, <2>3
<1>5. ASSUME NEW i \in 1 .. n
      PROVE  Cardinality({l \in S : l <= s[i]}) = i
  BY <1>1, <1>2, <1>4, <1>5
<1>6. ASSUME NEW i \in 1 .. n
      PROVE  Nth(S, i) = s[i]
  <2> DEFINE Is(j) == Cardinality({l \in S : l <= j}) = i
  <2>1. s[i] \in S /\ Is(s[i])
    BY <1>5
  <2>2. ASSUME NEW j \in S, Is(j) PROVE j = s[i]
    <3>1. PICK k \in 1 .. n : s[k] = j
      OBVIOUS
    <3>2. k = i
      BY <1>5, <2>2, <3>1
    <3>3. QED
      BY <3>1, <3>2
  <2>3. Nth(S, i) = CHOOSE j \in S : Is(j)
    BY DEF Nth
  <2> HIDE DEF Is
  <2>4. QED
    BY <2>1, <2>2, <2>3
<1>7. QED
  BY <1>1, <1>2, <1>3, <1>6

\* The descriptors from the oldest on, as the other proofs call them.
LEMMA BehindIsAt == RxTypes => \A j \in Offset : Behind(j) = At(j)
<1> SUFFICES ASSUME RxTypes, NEW j \in Offset PROVE Behind(j) = At(j)
  OBVIOUS
<1>1. receive_index \in Index /\ j \in 0 .. RX_DESCRIPTORS
  BY EthernetAssumption DEF RxTypes, Offset
<1>2. QED
  BY <1>1, FwdIsMod DEF Behind, At

\* The first piece of a frame with all pieces before it.
Waits(j) == At(j).k = 1 /\ \A l \in 0 .. j : At(l) # NicOwned

\* The list names the offsets at which a frame waits.
Lists(s) ==
  /\ Ascending(s)
  /\ \A j \in Offset : Waits(j) <=> \E i \in 1 .. Len(s) : s[i] = j

FrameAt(j) == [id |-> At(j).id, size |-> At(j).size]

\* The queue q is what the list names.
Holds(s, q) ==
  /\ Lists(s)
  /\ q = [i \in 1 .. Len(s) |-> FrameAt(s[i])]

\* The queue of the refinement is the listed one.
QueueListed == RxTypes => \A s, q : Holds(s, q) => QueuedFrames = q

\* It is so in every state, whatever the list.
LEMMA QueueIs == QueueListed
<1> SUFFICES ASSUME RxTypes, NEW s, NEW q, Holds(s, q) PROVE QueuedFrames = q
  BY DEF QueueListed
<1> DEFINE S == {j \in Index : FrameWaits(j)}
<1>1. /\ Ascending(s) /\ s \in [1 .. Len(s) -> Offset] /\ Len(s) \in Nat
      /\ \A j \in Offset : Waits(j) <=> \E i \in 1 .. Len(s) : s[i] = j
      /\ q = [i \in 1 .. Len(s) |-> FrameAt(s[i])]
  BY LenProperties DEF Holds, Lists, Ascending
<1>2. \A j \in Offset : Behind(j) = At(j)
  BY BehindIsAt
<1>3. ASSUME NEW j \in Offset
      PROVE  FrameWaits(j) <=> Waits(j)
  <2>1. \A l \in 0 .. j : l \in Offset
    BY EthernetAssumption DEF Offset
  <2>2. QED
    BY <1>2, <2>1 DEF FrameWaits, Waits
<1>4. \A j : j \in S <=> \E i \in 1 .. Len(s) : s[i] = j
  BY <1>1, <1>3 DEF Index, Offset
<1> HIDE DEF S
<1>5. Cardinality(S) = Len(s) /\ \A i \in 1 .. Len(s) : Nth(S, i) = s[i]
  BY <1>1, <1>4, NthIs
<1>6. QueuedFrames = [i \in 1 .. Cardinality(S) |->
                        [id |-> Behind(Nth(S, i)).id, size |-> Behind(Nth(S, i)).size]]
  BY DEF QueuedFrames, S
<1>7. ASSUME NEW i \in 1 .. Len(s)
      PROVE  [id |-> Behind(Nth(S, i)).id, size |-> Behind(Nth(S, i)).size] = FrameAt(s[i])
  BY <1>1, <1>2, <1>5 DEF FrameAt
<1>8. QED
  BY <1>1, <1>5, <1>6, <1>7

\* Where no first piece waits, the queue is empty.
LEMMA EmptyList == (\A j \in Offset : ~ Waits(j)) => Holds(<<>>, <<>>)
<1> SUFFICES ASSUME \A j \in Offset : ~ Waits(j) PROVE Holds(<<>>, <<>>)
  OBVIOUS
<1>1. <<>> \in Seq(Offset) /\ Len(<<>>) = 0
  BY EmptySeq
<1>2. Lists(<<>>)
  BY <1>1 DEF Lists, Ascending
<1>3. <<>> = [i \in 1 .. Len(<<>>) |-> FrameAt(<<>>[i])]
  BY <1>1
<1>4. QED
  BY <1>2, <1>3 DEF Holds

\* A list and its queue, entry by entry.
LEMMA HoldsEntries ==
  ASSUME NEW s, NEW q, Holds(s, q)
  PROVE  /\ Len(s) \in Nat /\ s \in Seq(Offset)
         /\ q \in [1 .. Len(s) -> {FrameAt(j) : j \in Offset}]
         /\ q \in Seq({FrameAt(j) : j \in Offset}) /\ Len(q) = Len(s)
         /\ \A i \in 1 .. Len(s) : s[i] \in Offset /\ Waits(s[i]) /\ q[i] = FrameAt(s[i])
         /\ \A i, k \in 1 .. Len(s) : i < k => s[i] < s[k]
<1>1. s \in Seq(Offset) /\ Len(s) \in Nat
  BY LenProperties DEF Holds, Lists, Ascending
<1>2. \A i \in 1 .. Len(s) : s[i] \in Offset
  BY <1>1
<1>3. \A i \in 1 .. Len(s) : Waits(s[i])
  BY <1>2 DEF Holds, Lists
<1>4. q = [i \in 1 .. Len(s) |-> FrameAt(s[i])]
  BY DEF Holds
<1>5. \A i \in 1 .. Len(s) : q[i] = FrameAt(s[i])
  BY <1>4
<1> DEFINE F == {FrameAt(j) : j \in Offset}
<1>6. \A i \in 1 .. Len(s) : FrameAt(s[i]) \in F
  BY <1>2
<1> HIDE DEF F
<1>7. q \in [1 .. Len(s) -> F]
  BY <1>4, <1>6
<1>8. q \in Seq(F) /\ Len(q) = Len(s)
  BY <1>1, <1>7
<1>9. \A i, k \in 1 .. Len(s) : i < k => s[i] < s[k]
  BY DEF Holds, Lists, Ascending
<1>10. QED
  BY <1>1, <1>2, <1>3, <1>5, <1>7, <1>8, <1>9 DEF F

\* A step that moves no frame that waits leaves the queue alone.
LEMMA SameList ==
  ASSUME NEW s, NEW q, Holds(s, q),
         \A j \in Offset : Waits(j)' <=> Waits(j),
         \A j \in Offset : Waits(j) => FrameAt(j)' = FrameAt(j)
  PROVE  Holds(s, q)'
<1>1. Lists(s)'
  BY DEF Holds, Lists
<1>2. \A i \in 1 .. Len(s) : FrameAt(s[i])' = FrameAt(s[i])
  BY HoldsEntries
<1>3. (q = [i \in 1 .. Len(s) |-> FrameAt(s[i])])'
  <2>1. q = [i \in 1 .. Len(s) |-> FrameAt(s[i])]
    BY DEF Holds
  <2>2. [i \in 1 .. Len(s) |-> FrameAt(s[i])] = [i \in 1 .. Len(s) |-> FrameAt(s[i])']
    BY <1>2
  <2>3. QED
    BY <2>1, <2>2
<1>4. QED
  BY <1>1, <1>3 DEF Holds

\* A frame that is complete behind all others is the last of the queue.
LEMMA LongerList ==
  ASSUME NEW s, NEW q, Holds(s, q), NEW n \in Offset, NEW f,
         \A j \in Offset : Waits(j)' <=> Waits(j) \/ j = n,
         \A j \in Offset : Waits(j) => j < n /\ FrameAt(j)' = FrameAt(j),
         FrameAt(n)' = f
  PROVE  Holds(Append(s, n), Append(q, f))'
<1> DEFINE t == Append(s, n)
<1>1. /\ Len(s) \in Nat /\ s \in Seq(Offset) /\ Len(q) = Len(s)
      /\ q \in Seq({FrameAt(j) : j \in Offset})
      /\ \A i \in 1 .. Len(s) : s[i] \in Offset /\ Waits(s[i]) /\ q[i] = FrameAt(s[i])
      /\ \A i, k \in 1 .. Len(s) : i < k => s[i] < s[k]
  BY HoldsEntries
<1>2. /\ t \in Seq(Offset) /\ Len(t) = Len(s) + 1 /\ t[Len(s) + 1] = n
      /\ \A i \in 1 .. Len(s) : t[i] = s[i]
  BY <1>1, AppendProperties
<1> HIDE DEF t
<1>3. \A i, k \in 1 .. Len(t) : i < k => t[i] < t[k]
  <2>1. SUFFICES ASSUME NEW i \in 1 .. Len(t), NEW k \in 1 .. Len(t), i < k PROVE t[i] < t[k]
    OBVIOUS
  <2>2. i \in 1 .. Len(s)
    BY <1>1, <1>2, <2>1
  <2>3. CASE k \in 1 .. Len(s)
    BY <1>1, <1>2, <2>1, <2>2, <2>3
  <2>4. CASE k = Len(s) + 1
    BY <1>1, <1>2, <2>2, <2>4
  <2>5. QED
    BY <1>1, <1>2, <2>3, <2>4
<1>4. ASSUME NEW j \in Offset
      PROVE  Waits(j)' <=> \E i \in 1 .. Len(t) : t[i] = j
  <2>1. Waits(j) <=> \E i \in 1 .. Len(s) : s[i] = j
    BY DEF Holds, Lists
  <2>2. (\E i \in 1 .. Len(t) : t[i] = j) <=> (\E i \in 1 .. Len(s) : s[i] = j) \/ j = n
    BY <1>1, <1>2
  <2>3. QED
    BY <2>1, <2>2
<1>5. Lists(t)'
  BY <1>2, <1>3, <1>4 DEF Lists, Ascending
<1>6. (Append(q, f) = [i \in 1 .. Len(t) |-> FrameAt(t[i])])'
  <2>1. ASSUME NEW i \in 1 .. Len(t)
        PROVE  Append(q, f)[i] = FrameAt(t[i])'
    <3>1. CASE i \in 1 .. Len(s)
      BY <1>1, <1>2, <3>1, AppendProperties
    <3>2. CASE i = Len(s) + 1
      BY <1>1, <1>2, <3>2, AppendProperties
    <3>3. QED
      BY <1>1, <1>2, <3>1, <3>2
  <2>2. Append(q, f) = [i \in 1 .. Len(t) |-> Append(q, f)[i]]
    <3> DEFINE F == {FrameAt(j) : j \in Offset} \cup {f}
    <3>1. q \in Seq(F) /\ f \in F
      BY <1>1
    <3> HIDE DEF F
    <3>2. Append(q, f) \in Seq(F) /\ Len(Append(q, f)) = Len(t)
      BY <1>1, <1>2, <3>1, AppendProperties
    <3>3. QED
      BY <3>2, LenProperties
  <2> DEFINE g == Append(q, f)
  <2> HIDE DEF g
  <2>3. [i \in 1 .. Len(t) |-> g[i]] = [i \in 1 .. Len(t) |-> FrameAt(t[i])']
    BY <2>1 DEF g
  <2>4. QED
    BY <2>2, <2>3 DEF g
<1>7. QED
  BY <1>5, <1>6 DEF Holds, t

\* When the oldest descriptor is given back all others move up by one place: the
\* queue loses its first frame when that was a first piece, and only then.
LEMMA ShorterList ==
  ASSUME NEW s, NEW q, Holds(s, q),
         \A j \in Offset : Waits(j)' <=> j + 1 \in Offset /\ Waits(j + 1),
         \A j \in Offset : j + 1 \in Offset => FrameAt(j)' = FrameAt(j + 1)
  PROVE  /\ Waits(0) => /\ q # <<>> /\ Head(q) = FrameAt(0)
                        /\ \E t : Holds(t, Tail(q))'
         /\ ~ Waits(0) => \E t : Holds(t, q)'
<1>0. 0 \in Offset /\ Offset \subseteq Nat /\ \A j \in Offset : j > 0 => j - 1 \in Offset
  BY EthernetAssumption DEF Offset
<1>1. /\ Len(s) \in Nat /\ s \in Seq(Offset) /\ Len(q) = Len(s)
      /\ q \in Seq({FrameAt(j) : j \in Offset})
      /\ \A i \in 1 .. Len(s) : s[i] \in Offset /\ Waits(s[i]) /\ q[i] = FrameAt(s[i])
      /\ \A i, k \in 1 .. Len(s) : i < k => s[i] < s[k]
  BY HoldsEntries
<1>2. \A j \in Offset : Waits(j) <=> \E i \in 1 .. Len(s) : s[i] = j
  BY DEF Holds, Lists
<1>3. ASSUME NEW c \in Nat, c <= Len(s),
             \A i \in 1 .. Len(s) : i <= c <=> s[i] = 0
      PROVE  LET t == [i \in 1 .. (Len(s) - c) |-> s[i + c] - 1]
                 r == [i \in 1 .. (Len(s) - c) |-> q[i + c]]
             IN  Holds(t, r)'
  <2> DEFINE m == Len(s) - c
             t == [i \in 1 .. m |-> s[i + c] - 1]
             r == [i \in 1 .. m |-> q[i + c]]
  <2>1. /\ m \in Nat /\ m + c = Len(s)
        /\ \A i \in 1 .. m : i + c \in 1 .. Len(s) /\ ~ (i + c <= c)
    BY <1>1, <1>3
  <2> HIDE DEF m
  <2>2. ASSUME NEW i \in 1 .. m
        PROVE  /\ s[i + c] \in Offset /\ s[i + c] # 0 /\ s[i + c] \in Nat
               /\ t[i] = s[i + c] - 1 /\ t[i] \in Offset /\ t[i] + 1 = s[i + c]
    <3>1. s[i + c] \in Offset /\ s[i + c] # 0
      <4>1. PICK k \in 1 .. Len(s) : k = i + c /\ ~ (k <= c)
        BY <2>1
      <4>2. s[k] \in Offset
        BY <1>1
      <4>3. s[k] # 0
        BY <1>3, <4>1
      <4>4. QED
        BY <4>1, <4>2, <4>3
    <3>2. \A a \in Offset : a # 0 => a \in Nat /\ a - 1 \in Offset /\ a - 1 + 1 = a
      BY EthernetAssumption DEF Offset
    <3>3. s[i + c] \in Nat /\ s[i + c] - 1 \in Offset /\ s[i + c] - 1 + 1 = s[i + c]
      BY <3>1, <3>2, Zenon
    <3>4. t[i] = s[i + c] - 1
      OBVIOUS
    <3>5. QED
      BY <3>1, <3>3, <3>4, Zenon
  <2>3. t \in Seq(Offset) /\ Len(t) = m
    <3>1. \A i \in 1 .. m : s[i + c] - 1 \in Offset
      BY <2>2
    <3>2. t \in [1 .. m -> Offset]
      BY <3>1
    <3> HIDE DEF t
    <3>3. QED
      BY <2>1, <3>2
  <2> HIDE DEF t
  <2>4. \A i, k \in 1 .. m : i < k => t[i] < t[k]
    <3>1. SUFFICES ASSUME NEW i \in 1 .. m, NEW k \in 1 .. m, i < k PROVE t[i] < t[k]
      OBVIOUS
    <3>2. i + c < k + c
      BY <2>1, <1>3, <3>1
    <3>3. s[i + c] < s[k + c]
      BY <1>1, <2>1, <3>2
    <3>4. QED
      BY <2>2, <3>3
  <2>5. ASSUME NEW j \in Offset
        PROVE  Waits(j)' <=> \E i \in 1 .. m : t[i] = j
    <3>1. ASSUME Waits(j)' PROVE \E i \in 1 .. m : t[i] = j
      <4>1. j + 1 \in Offset /\ Waits(j + 1)
        BY <3>1
      <4>2. PICK k \in 1 .. Len(s) : s[k] = j + 1
        BY <1>2, <4>1
      <4>3. ~ (k <= c)
        BY <1>0, <1>3, <4>2
      <4>4. PICK i \in 1 .. m : i + c = k
        <5>1. k - c \in 1 .. m /\ (k - c) + c = k
          BY <1>1, <1>3, <2>1, <4>3
        <5>2. QED
          BY <5>1
      <4>5. t[i] = j
        <5>1. t[i] + 1 = s[k] /\ t[i] \in Offset
          BY <2>2, <4>4
        <5>2. t[i] \in Nat /\ j \in Nat
          BY <1>0, <5>1
        <5>3. QED
          BY <4>2, <5>1, <5>2
      <4>6. QED
        BY <4>5
    <3>2. ASSUME NEW i \in 1 .. m, t[i] = j PROVE Waits(j)'
      <4>1. s[i + c] = j + 1
        BY <2>2, <3>2
      <4>2. j + 1 \in Offset /\ Waits(j + 1)
        BY <1>1, <2>1, <4>1
      <4>3. QED
        BY <4>2
    <3>3. QED
      BY <3>1, <3>2
  <2>6. Lists(t)'
    BY <2>3, <2>4, <2>5 DEF Lists, Ascending
  <2>7. ASSUME NEW i \in 1 .. m
        PROVE  q[i + c] = FrameAt(t[i])'
    <3>1. q[i + c] = FrameAt(s[i + c])
      BY <1>1, <2>1
    <3>2. FrameAt(t[i])' = FrameAt(t[i] + 1)
      BY <2>2
    <3>3. QED
      BY <2>2, <3>1, <3>2
  <2>8. (r = [i \in 1 .. Len(t) |-> FrameAt(t[i])])'
    <3>1. r = [i \in 1 .. m |-> FrameAt(t[i])']
      BY <2>7
    <3>2. QED
      BY <2>3, <3>1
  <2>9. Holds(t, r)'
    BY <2>6, <2>8 DEF Holds
  <2>10. QED
    BY <2>9 DEF t, m
<1>4. ASSUME Waits(0)
      PROVE  q # <<>> /\ Head(q) = FrameAt(0) /\ \E t : Holds(t, Tail(q))'
  <2>1. PICK a \in 1 .. Len(s) : s[a] = 0
    BY <1>0, <1>2, <1>4
  <2>2. a = 1
    <3>1. SUFFICES ASSUME 1 < a PROVE FALSE
      BY <1>1
    <3>2. Len(s) \in Nat
      BY <1>1
    <3>3. 1 \in 1 .. Len(s)
      BY <3>2
    <3>4. s[1] < s[a]
      BY <1>1, <3>1, <3>3
    <3>5. s[1] \in Nat
      BY <1>0, <1>1, <3>3
    <3>6. QED
      BY <2>1, <3>4, <3>5
  <2>3. q # <<>> /\ Head(q) = FrameAt(0)
    BY <1>1, <2>1, <2>2
  <2>4. \A i \in 1 .. Len(s) : i <= 1 <=> s[i] = 0
    <3>1. SUFFICES ASSUME NEW i \in 1 .. Len(s), 1 < i PROVE s[i] # 0
      BY <1>1, <2>1, <2>2
    <3>2. s[1] < s[i] /\ s[i] \in Nat
      BY <1>0, <1>1, <2>1, <2>2, <3>1
    <3>3. QED
      BY <2>1, <2>2, <3>2
  <2> DEFINE r == [i \in 1 .. (Len(s) - 1) |-> q[i + 1]]
  <2>5. 1 \in Nat /\ 1 <= Len(s)
    BY <1>1, <2>1
  <2>6. \E t : Holds(t, r)'
    BY <1>3, <2>4, <2>5
  <2>7. r = Tail(q)
    <3>1. Len(q) = Len(s)
      BY <1>1
    <3> DEFINE F == {FrameAt(j) : j \in Offset}
    <3>2. q \in Seq(F)
      BY <1>1
    <3> HIDE DEF F
    <3>3. /\ Tail(q) \in Seq(F) /\ Len(Tail(q)) = Len(q) - 1
          /\ \A i \in 1 .. Len(Tail(q)) : Tail(q)[i] = q[i + 1]
      BY <2>3, <3>2, HeadTailProperties
    <3>4. Tail(q) = [i \in 1 .. (Len(q) - 1) |-> Tail(q)[i]]
      BY <3>3, LenProperties
    <3>5. QED
      BY <3>1, <3>3, <3>4
  <2>8. QED
    BY <2>3, <2>6, <2>7
<1>5. ASSUME ~ Waits(0)
      PROVE  \E t : Holds(t, q)'
  <2>1. \A i \in 1 .. Len(s) : i <= 0 <=> s[i] = 0
    BY <1>1, <1>5
  <2> DEFINE r == [i \in 1 .. (Len(s) - 0) |-> q[i + 0]]
  <2>2. 0 \in Nat /\ 0 <= Len(s)
    BY <1>1
  <2>3. \E t : Holds(t, r)'
    BY <1>3, <2>1, <2>2
  <2>4. r = q
    BY <1>1, LenProperties
  <2>5. QED
    BY <2>3, <2>4
<1>6. QED
  BY <1>4, <1>5
-----------------------------------------------------------------------------
\* How many pieces of a frame are copied. Either the frame is two halves of whole
\* buffers and the copy ends with the first of them, or no turn of the loop ends
\* with as much copied as is left, and all pieces are copied.
LEMMA HalfOrWhole ==
  ASSUME NEW size \in FrameSize
  PROVE  LET c == PieceCount(size)
             h == Queue!PiecesCopied(size)
         IN  /\ c \in Nat /\ h \in 1 .. c
             /\ \A d \in Nat : d < h =>
                  /\ d + 1 = c => h = c
                  /\ d + 1 < c => (2 * ((d + 1) * RX_BYTES_PER_DESC) = size <=> d + 1 = h)
<1> DEFINE B == RX_BYTES_PER_DESC  c == PieceCount(size)  h == Queue!PiecesCopied(size)
<1>1. B \in Nat /\ B >= 1 /\ size \in Nat /\ size >= 1
  <2>1. size \in 1 .. (RX_DESCRIPTORS * RX_BYTES_PER_DESC)
    BY EthernetAssumption, Zenon
  <2>2. RX_DESCRIPTORS * RX_BYTES_PER_DESC \in Int
    BY EthernetAssumption
  <2>3. QED
    BY <2>1, <2>2, EthernetAssumption
<1>2. c = (size + B - 1) \div B /\ c = Queue!PieceCount(size)
  BY DEF PieceCount, Queue!PieceCount
<1>3. h = IF size % (2 * B) = 0 THEN c \div 2 ELSE c
  BY <1>2 DEF Queue!PiecesCopied, Queue!SplitsInHalf
<1>4. c \in 1 .. RX_DESCRIPTORS
  BY PieceCountBounds
<1> HIDE DEF B, c, h
<1>5. c \in Nat /\ c >= 1
  BY <1>4, EthernetAssumption
<1>6. B * c <= size + B - 1 /\ size + B - 1 < B * (c + 1)
  BY <1>1, <1>2, <1>5, Z3
<1> DEFINE D == 2 * B
<1>7. D \in Nat /\ D >= 1
  BY <1>1
<1>8. PICK m \in Nat, r \in Nat : size = D * m + r /\ r < D /\ r = size % D
  <2> HIDE DEF D
  <2>1. PICK m, r : m = size \div D /\ r = size % D
    OBVIOUS
  <2>2. m \in Nat /\ r \in Nat /\ r < D
    BY <1>1, <1>7, <2>1, Z3
  <2>3. size = D * m + r
    BY <1>1, <1>7, <2>1, Z3
  <2>4. QED
    BY <2>1, <2>2, <2>3
<1>9. CASE r = 0
  <2>1. size = B * (2 * m)
    <3>1. m \in Nat /\ size = 2 * B * m + 0
      BY <1>8, <1>9
    <3>2. 2 * B * m = B * (2 * m)
      BY <1>1, <3>1, Z3
    <3>3. 2 * B * m \in Int
      BY <1>1, <3>1
    <3> HIDE DEF D
    <3>4. QED
      BY <3>1, <3>2, <3>3
  <2>2. c = 2 * m
    <3>1. CASE c >= 2 * m + 1
      <4>1. B * c >= B * (2 * m + 1)
        BY <1>1, <1>5, <1>8, <3>1, Z3
      <4>2. B * (2 * m + 1) = B * (2 * m) + B
        BY <1>1, <1>8, Z3
      <4>3. QED
        BY <1>1, <1>5, <1>6, <1>8, <2>1, <4>1, <4>2, Z3
    <3>2. CASE c + 1 <= 2 * m
      <4>1. B * (c + 1) <= B * (2 * m)
        BY <1>1, <1>5, <1>8, <3>2, Z3
      <4>2. QED
        BY <1>1, <1>5, <1>6, <1>8, <2>1, <4>1, Z3
    <3>3. QED
      BY <1>5, <1>8, <3>1, <3>2
  <2>3. h = m /\ m >= 1
    <3>1. m \in Nat /\ 0 = size % (2 * B)
      BY <1>8, <1>9
    <3>2. h = c \div 2
      BY <1>3, <3>1
    <3>3. (2 * m) \div 2 = m
      BY <3>1
    <3>4. QED
      BY <1>5, <2>2, <3>1, <3>2, <3>3
  <2>4. ASSUME NEW d \in Nat
        PROVE  2 * ((d + 1) * B) = size <=> d + 1 = m
    <3>1. PICK e \in Nat : e = d + 1
      OBVIOUS
    <3>2. 2 * (e * B) = B * (2 * e)
      BY <1>1, <3>1, Z3
    <3>3. B * (2 * e) = B * (2 * m) <=> e = m
      BY <1>1, <1>8, <3>1, Z3
    <3>4. QED
      BY <2>1, <3>1, <3>2, <3>3
  <2>5. QED
    BY <1>5, <1>8, <2>2, <2>3, <2>4 DEF B, c, h
<1>10. CASE r # 0
  <2>1. h = c
    BY <1>3, <1>8, <1>10
  <2>2. ASSUME NEW d \in Nat, 2 * ((d + 1) * B) = size
        PROVE  FALSE
    <3>1. PICK e \in Nat : e = d + 1
      OBVIOUS
    <3>2. 2 * (e * B) = D * e
      BY <1>1, <3>1, Z3
    <3>3. D * e = D * m + r
      BY <1>8, <2>2, <3>1, <3>2
    <3> HIDE DEF D
    <3>4. CASE e <= m
      <4>1. D * e <= D * m
        BY <1>7, <1>8, <3>1, <3>4, Z3
      <4>2. D * e \in Int /\ D * m \in Int
        BY <1>7, <1>8, <3>1
      <4>3. QED
        BY <1>8, <1>10, <3>3, <4>1, <4>2
    <3>5. CASE e >= m + 1
      <4>1. D * e >= D * (m + 1) /\ D * (m + 1) = D * m + D
        BY <1>7, <1>8, <3>1, <3>5, Z3
      <4>2. D * e \in Int /\ D * m \in Int
        BY <1>7, <1>8, <3>1
      <4>3. QED
        BY <1>7, <1>8, <3>3, <4>1, <4>2
    <3>6. QED
      BY <1>8, <3>1, <3>4, <3>5
  <2>3. QED
    BY <1>5, <2>1, <2>2 DEF B, c, h
<1>11. QED
  BY <1>9, <1>10

\* The first m pieces of a frame.
Pieces(id, m) == [k \in 1 .. m |-> <<id, k>>]

\* While a frame is copied, the statics count what has been copied of the oldest
\* frame; what is handed over is the pieces FrameQueue says.
CopyCounts ==
  pc = "copy" =>
    LET d == Len(rd.data) IN
    /\ is_up
    /\ rd.data = Pieces(At(0).id, d)
    /\ rd.read_nbytes = d * RX_BYTES_PER_DESC
    /\ rd.frame_size + d * RX_BYTES_PER_DESC = rd.size
    /\ d < Queue!PiecesCopied(rd.size)

\* Where descriptors are given back one is software's. It is the first of the
\* frame that was copied until the statics are cleared, and a later one then.
FreeFrom ==
  pc = "free" =>
    /\ At(0) # NicOwned
    /\ rd = NotReading => At(0).k > 1
    /\ rd # NotReading => /\ is_up
                          /\ At(0).k = 1 /\ rd.size = At(0).size
                          /\ rd.data = Pieces(At(0).id, Queue!PiecesCopied(rd.size))

Reads == is_up = rxen /\ CopyCounts /\ FreeFrom

\* What FrameQueue may do when its queue is q and becomes r.
Moves(q, r) ==
  \/ r = q /\ UNCHANGED <<is_up, handed>>
  \/ r = q /\ ~ is_up' /\ is_up /\ UNCHANGED handed
  \/ r = q /\ (~ is_up \/ q = <<>>) /\ handed' = Nothing /\ UNCHANGED is_up
  \/ (\E f \in Frame : r = Append(q, f)) /\ UNCHANGED <<is_up, handed>>
  \/ r = <<>> /\ ~ is_up /\ is_up' = TRUE /\ UNCHANGED handed
  \/ /\ r = Tail(q) /\ q # <<>> /\ is_up
     /\ handed' = Queue!Copy(Head(q)) /\ UNCHANGED is_up

\* The steps of the receive side keep what the statics say and list the queue of
\* the next state, which FrameQueue allows.
Step(q) == Reads' /\ \E t, r : Holds(t, r)' /\ Moves(q, r)

\* Steps that leave the ring alone.
LEMMA RingSame ==
  ASSUME NEW s, NEW q, Holds(s, q), UNCHANGED <<ring, receive_index>>
  PROVE  Holds(s, q)' /\ \A j : At(j)' = At(j)
<1>1. \A j : At(j)' = At(j)
  BY DEF At
<1>2. \A j \in Offset : Waits(j)' <=> Waits(j)
  BY <1>1 DEF Waits
<1>3. \A j \in Offset : Waits(j) => FrameAt(j)' = FrameAt(j)
  BY <1>1 DEF FrameAt
<1>4. QED
  BY <1>1, <1>2, <1>3, SameList

\* No frame waits behind a descriptor of the controller's.
LEMMA NothingWaits ==
  ASSUME NEW s, NEW q, Holds(s, q), At(0) = NicOwned
  PROVE  q = <<>>
<1>1. ASSUME NEW j \in Offset PROVE ~ Waits(j)
  <2>1. 0 \in 0 .. j
    BY EthernetAssumption DEF Offset
  <2>2. QED
    BY <2>1 DEF Waits
<1>2. /\ Len(s) \in Nat /\ q \in Seq({FrameAt(j) : j \in Offset}) /\ Len(q) = Len(s)
      /\ \A i \in 1 .. Len(s) : s[i] \in Offset /\ Waits(s[i])
  BY HoldsEntries
<1>3. Len(s) = 0
  <2>1. SUFFICES ASSUME Len(s) > 0 PROVE FALSE
    BY <1>2
  <2>2. 1 \in 1 .. Len(s)
    BY <1>2, <2>1
  <2>3. QED
    BY <1>1, <1>2, <2>2
<1> DEFINE F == {FrameAt(j) : j \in Offset}
<1>4. q \in Seq(F) /\ Len(q) = 0
  BY <1>2, <1>3
<1> HIDE DEF F
<1>5. QED
  BY <1>4, EmptySeq

\* A call that finds no frame, or a link that is down.
LEMMA ReceiveNothingStep ==
  ASSUME RxInv, Reads, NEW s, NEW q, Holds(s, q), ReceiveNothing
  PROVE  Step(q)
<1>1. /\ pc = "guest" /\ ~ FrameReady /\ handed' = Nothing
      /\ UNCHANGED <<pc, ring, receive_index, rd, is_up, rxen>>
  BY DEF ReceiveNothing
<1>2. Holds(s, q)'
  BY <1>1, RingSame
<1>3. ~ is_up \/ q = <<>>
  BY <1>1, NothingWaits, AtFirst DEF FrameReady, RxInv
<1>4. Moves(q, q)
  BY <1>1, <1>3 DEF Moves
<1>5. Reads'
  BY <1>1 DEF Reads, CopyCounts, FreeFrom
<1>6. QED
  BY <1>2, <1>4, <1>5 DEF Step

\* A call that finds a frame: nothing of it has been copied yet.
LEMMA ReceiveStartStep ==
  ASSUME RxInv, Reads, NEW s, NEW q, Holds(s, q), ReceiveStart
  PROVE  Step(q)
<1> DEFINE size == ring[receive_index].size
<1>1. /\ pc' = "copy" /\ is_up /\ ring[receive_index] # NicOwned
      /\ rd' = [index |-> receive_index, size |-> size, frame_size |-> size,
                read_nbytes |-> 0, data |-> <<>>]
      /\ UNCHANGED <<ring, receive_index, is_up, rxen, handed>>
  BY DEF ReceiveStart, FrameReady
<1>2. Holds(s, q)' /\ At(0)' = At(0)
  BY <1>1, RingSame
<1>3. Moves(q, q)
  BY <1>1 DEF Moves
<1>4. size \in FrameSize
  BY <1>1, AtFirst, AtType DEF RxInv, Piece
<1> HIDE DEF size
<1>5. Queue!PiecesCopied(size) \in 1 .. PieceCount(size) /\ PieceCount(size) \in Nat
  BY <1>4, HalfOrWhole
<1>6. size \in Nat /\ RX_BYTES_PER_DESC \in Nat
  <2>1. size \in 1 .. (RX_DESCRIPTORS * RX_BYTES_PER_DESC)
    BY <1>4, EthernetAssumption, Zenon
  <2>2. RX_DESCRIPTORS * RX_BYTES_PER_DESC \in Int
    BY EthernetAssumption
  <2>3. QED
    BY <2>1, <2>2, EthernetAssumption
<1>7. /\ rd'.data = <<>> /\ Len(rd'.data) = 0 /\ rd'.size = size
      /\ rd'.read_nbytes = 0 /\ rd'.frame_size = size
  BY <1>1
<1>8. rd'.data = Pieces(At(0)'.id, 0)
  BY <1>7 DEF Pieces
<1>9. 0 < Queue!PiecesCopied(size) /\ size + 0 * RX_BYTES_PER_DESC = size
      /\ 0 = 0 * RX_BYTES_PER_DESC
  BY <1>5, <1>6
<1>10. CopyCounts'
  BY <1>1, <1>7, <1>8, <1>9 DEF CopyCounts
<1>11. is_up' = rxen' /\ FreeFrom'
  BY <1>1 DEF Reads, FreeFrom
<1>12. QED
  BY <1>2, <1>3, <1>10, <1>11 DEF Step, Reads

\* Steps of the transmit side, and a frame that begins to arrive.
LEMMA OtherStep ==
  ASSUME RxInv, Reads, NEW s, NEW q, Holds(s, q),
         \/ ReceiverStopped \/ (\E f \in Outgoing : send_frame(f)) \/ FrameCopied
         \/ en_ll_output \/ TxNothing \/ TxWord \/ UNCHANGED ethVars
         \/ \E f \in Frame : RxFrame(f)
  PROVE  Step(q)
<1>1. /\ UNCHANGED <<ring, receive_index, rd, is_up, rxen, handed>>
      /\ pc' = pc \/ pc' \in {"guest", "txcopy", "txwait"}
  BY DEF ReceiverStopped, send_frame, FrameCopied, en_ll_output, StartTransmitter, TxNothing,
         TxWord,
         RxFrame, rxVars, ethVars
<1>2. Holds(s, q)' /\ At(0)' = At(0)
  BY <1>1, RingSame
<1>3. Moves(q, q)
  BY <1>1 DEF Moves
<1>4. CopyCounts' /\ FreeFrom'
  BY <1>1, <1>2 DEF Reads, CopyCounts, FreeFrom
<1>5. QED
  BY <1>1, <1>2, <1>3, <1>4 DEF Step, Reads

\* en_watchdog: a link that comes up discards what waits, as FrameQueue does.
LEMMA WatchdogStep ==
  ASSUME RxInv, Reads, NEW s, NEW q, Holds(s, q), en_watchdog
  PROVE  Step(q)
<1>1. pc = "guest" /\ UNCHANGED <<rd, handed>> /\ is_up \in BOOLEAN /\ rxen \in BOOLEAN
  BY DEF en_watchdog, RxInv, RxTypes
<1>2. ASSUME NEW status, LinkActivated(status) PROVE Step(q)
  <2>1. /\ ring' = EmptyRing /\ receive_index' = 0 /\ pc' = "guest"
        /\ ~ rxen /\ is_up' = TRUE /\ rxen' = TRUE
    BY <1>1, <1>2 DEF LinkActivated, en_setup_dma
  <2>2. ASSUME NEW j \in Offset PROVE ~ Waits(j)'
    <3>1. j \in Index /\ Fwd(0, j) = j /\ 0 # 1
      BY EthernetAssumption DEF Offset, Index, Fwd
    <3>2. At(j)' = NicOwned
      BY <2>1, <3>1 DEF At, EmptyRing
    <3>3. QED
      BY <3>2 DEF Waits, NicOwned
  <2>3. ((\A j \in Offset : ~ Waits(j)) => Holds(<<>>, <<>>))'
    BY EmptyList, PTL
  <2>4. Holds(<<>>, <<>>)'
    BY <2>2, <2>3
  <2>5. Moves(q, <<>>)
    BY <1>1, <2>1 DEF Moves, Reads
  <2>6. Reads'
    BY <2>1 DEF Reads, CopyCounts, FreeFrom
  <2>7. QED
    BY <2>4, <2>5, <2>6 DEF Step
<1>3. ASSUME NEW status, LinkLost(status) \/ LinkSame(status) PROVE Step(q)
  <2>1. /\ UNCHANGED <<ring, receive_index>>
        /\ pc' # "copy" /\ pc' # "free"
        /\ \/ rxen /\ is_up' = FALSE /\ rxen' = FALSE
           \/ is_up' = rxen /\ rxen' = rxen
    BY <1>1, <1>3 DEF LinkLost, LinkSame, is_phy_linked
  <2>2. Holds(s, q)'
    BY <2>1, RingSame
  <2>3. Moves(q, q)
    BY <1>1, <2>1 DEF Moves, Reads
  <2>4. Reads'
    BY <2>1 DEF Reads, CopyCounts, FreeFrom
  <2>5. QED
    BY <2>2, <2>3, <2>4 DEF Step
<1>4. QED
  BY <1>2, <1>3 DEF en_watchdog

\* Descriptors are given back: the first of a frame, with which the frame leaves
\* the queue and its result is settled, or a later one.
LEMMA FreeStep ==
  ASSUME RxInv, Reads, NEW s, NEW q, Holds(s, q), FreeDescriptor
  PROVE  Step(q)
<1>1. PICK n \in 0 .. RX_DESCRIPTORS : Extent(n)
  BY DEF RxInv
<1>2. /\ RxTypes /\ pc = "free" /\ At(0) # NicOwned
      /\ handed' = IF rd = NotReading THEN handed ELSE [size |-> rd.size, data |-> rd.data]
      /\ rd' = NotReading /\ UNCHANGED <<is_up, rxen>>
  BY DEF RxInv, FreeDescriptor, Reads, FreeFrom
<1>3. /\ pc' = IF DESC_EOP(At(0)) THEN "guest" ELSE "free"
      /\ \A j \in 0 .. (RX_DESCRIPTORS - 2) : At(j)' = At(j + 1)
      /\ At(RX_DESCRIPTORS - 1)' = NicOwned
  BY <1>2, FreeAt
<1>4. RX_DESCRIPTORS \in Nat \ {0} /\ 0 \in Offset
  BY EthernetAssumption DEF Offset
<1>5. ASSUME NEW j \in Offset
      PROVE  Waits(j)' <=> j + 1 \in Offset /\ Waits(j + 1)
  <2>1. CASE j = RX_DESCRIPTORS - 1
    <3>1. At(j)'.k # 1
      BY <1>3, <2>1 DEF NicOwned
    <3>2. j + 1 \notin Offset
      BY <1>4, <2>1 DEF Offset
    <3>3. QED
      BY <3>1, <3>2 DEF Waits
  <2>2. CASE j # RX_DESCRIPTORS - 1
    <3>1. j \in 0 .. (RX_DESCRIPTORS - 2) /\ j \in Nat /\ j + 1 \in Offset
      BY <1>4, <2>2 DEF Offset
    <3>2. ASSUME NEW l \in 0 .. j
          PROVE  At(l)' = At(l + 1)
      <4>1. l \in 0 .. (RX_DESCRIPTORS - 2)
        BY <1>4, <3>1
      <4>2. QED
        BY <1>3, <4>1
    <3>3. (\A l \in 0 .. j : At(l + 1) # NicOwned) <=> \A l \in 0 .. (j + 1) : At(l) # NicOwned
      <4>1. ASSUME \A l \in 0 .. j : At(l + 1) # NicOwned, NEW l \in 0 .. (j + 1)
            PROVE  At(l) # NicOwned
        <5>1. CASE l = 0
          BY <1>2, <5>1
        <5>2. CASE l > 0
          <6>1. PICK i \in 0 .. j : i + 1 = l
            <7>1. l - 1 \in 0 .. j /\ (l - 1) + 1 = l
              BY <3>1, <5>2
            <7>2. QED
              BY <7>1
          <6>2. QED
            BY <4>1, <6>1
        <5>3. QED
          BY <3>1, <5>1, <5>2
      <4>2. ASSUME \A l \in 0 .. (j + 1) : At(l) # NicOwned, NEW l \in 0 .. j
            PROVE  At(l + 1) # NicOwned
        <5>1. l + 1 \in 0 .. (j + 1)
          BY <3>1
        <5>2. QED
          BY <4>2, <5>1
      <4>3. QED
        BY <4>1, <4>2
    <3>4. At(j)' = At(j + 1)
      BY <1>3, <3>1
    <3>5. QED
      BY <3>1, <3>2, <3>3, <3>4 DEF Waits
  <2>3. QED
    BY <2>1, <2>2
<1>6. ASSUME NEW j \in Offset, j + 1 \in Offset
      PROVE  FrameAt(j)' = FrameAt(j + 1)
  <2>1. j \in 0 .. (RX_DESCRIPTORS - 2)
    BY <1>4, <1>6 DEF Offset
  <2>2. QED
    BY <1>3, <2>1 DEF FrameAt
<1>7. /\ Waits(0) => q # <<>> /\ Head(q) = FrameAt(0) /\ \E t : Holds(t, Tail(q))'
      /\ ~ Waits(0) => \E t : Holds(t, q)'
  BY <1>5, <1>6, ShorterList
<1>8. FreeFrom'
  <2>1. SUFFICES ASSUME pc' = "free" PROVE (At(0) # NicOwned /\ At(0).k > 1)'
    BY <1>2 DEF FreeFrom
  <2>2. ~ DESC_EOP(At(0))
    BY <1>3, <2>1
  <2>3. n > 0 /\ At(0) \in Piece
    BY <1>1, <1>2, <1>4, NoneOwned, AtType DEF RxInv
  <2>4. n # 1
    BY <1>1, <2>2, RunFollows DEF Extent
  <2>5. At(1) = [At(0) EXCEPT !.k = @ + 1]
    <3>1. 1 \in 1 .. (n - 1) /\ 1 - 1 = 0
      BY <1>1, <1>4, <2>3, <2>4
    <3>2. IF DESC_EOP(At(1 - 1)) THEN At(1).k = 1
          ELSE At(1) = [At(1 - 1) EXCEPT !.k = @ + 1]
      BY <1>1, <3>1, RunFollows DEF Extent
    <3>3. QED
      BY <2>2, <3>1, <3>2
  <2>6. At(0)' = At(1)
    <3>1. 0 \in 0 .. (RX_DESCRIPTORS - 2) /\ 0 + 1 = 1
      BY <1>1, <1>4, <2>3, <2>4
    <3>2. QED
      BY <1>3, <3>1
  <2>7. At(1).k = At(0).k + 1 /\ At(0).k \in 1 .. RX_DESCRIPTORS
    BY <2>3, <2>5 DEF Piece
  <2>8. At(1).k > 1
    BY <1>4, <2>7
  <2>9. At(1) # NicOwned
    BY <2>8 DEF NicOwned
  <2>10. QED
    BY <2>6, <2>8, <2>9
<1>9. Reads'
  BY <1>2, <1>3, <1>8 DEF Reads, CopyCounts
<1>10. CASE rd = NotReading
  <2>1. At(0).k > 1
    BY <1>2, <1>10 DEF Reads, FreeFrom
  <2>2. ~ Waits(0)
    <3>1. At(0).k # 1
      BY <2>1
    <3>2. QED
      BY <3>1 DEF Waits
  <2>3. Moves(q, q)
    BY <1>2, <1>10 DEF Moves
  <2>4. QED
    BY <1>7, <1>9, <2>2, <2>3 DEF Step
<1>11. CASE rd # NotReading
  <2>1. /\ is_up /\ At(0).k = 1 /\ rd.size = At(0).size
        /\ rd.data = Pieces(At(0).id, Queue!PiecesCopied(rd.size))
    BY <1>2, <1>11 DEF Reads, FreeFrom
  <2>2. Waits(0)
    <3>1. \A l \in 0 .. 0 : l = 0
      OBVIOUS
    <3>2. QED
      BY <1>2, <2>1, <3>1 DEF Waits
  <2>3. q # <<>> /\ Head(q) = FrameAt(0)
    BY <1>7, <2>2
  <2>4. handed' = Queue!Copy(FrameAt(0))
    BY <1>2, <1>11, <2>1 DEF Queue!Copy, FrameAt, Pieces
  <2>5. Moves(q, Tail(q))
    BY <1>2, <2>1, <2>3, <2>4 DEF Moves
  <2>6. QED
    BY <1>7, <1>9, <2>2, <2>5 DEF Step
<1>12. QED
  BY <1>10, <1>11

\* One piece more.
LEMMA PiecesAppend ==
  ASSUME NEW id, NEW d \in Nat
  PROVE  Append(Pieces(id, d), <<id, d + 1>>) = Pieces(id, d + 1)
<1> DEFINE S == {<<id, k>> : k \in Nat}
           x == Append(Pieces(id, d), <<id, d + 1>>)
<1>1. Pieces(id, d) \in Seq(S) /\ Len(Pieces(id, d)) = d
  <2>1. \A k \in 1 .. d : <<id, k>> \in S
    OBVIOUS
  <2> HIDE DEF S
  <2>2. Pieces(id, d) \in [1 .. d -> S]
    BY <2>1 DEF Pieces
  <2>3. QED
    BY <2>2
<1>2. <<id, d + 1>> \in S
  OBVIOUS
<1> HIDE DEF S
<1>3. /\ x \in Seq(S) /\ Len(x) = d + 1 /\ x[d + 1] = <<id, d + 1>>
      /\ \A k \in 1 .. d : x[k] = Pieces(id, d)[k]
  BY <1>1, <1>2, AppendProperties
<1> HIDE DEF x
<1>4. \A k \in 1 .. (d + 1) : x[k] = <<id, k>>
  <2>1. ASSUME NEW k \in 1 .. d PROVE x[k] = <<id, k>>
    BY <1>3 DEF Pieces
  <2>2. QED
    BY <1>3, <2>1
<1>5. x = [k \in 1 .. (d + 1) |-> x[k]]
  BY <1>3, LenProperties
<1>6. QED
  BY <1>4, <1>5 DEF Pieces, x

\* The copy goes on piece by piece and ends where FrameQueue says.
LEMMA CopyStep ==
  ASSUME RxInv, Reads, NEW s, NEW q, Holds(s, q), CopyDescriptor
  PROVE  Step(q)
<1>1. PICK n \in 0 .. RX_DESCRIPTORS : Extent(n)
  BY DEF RxInv
<1> DEFINE d == Len(rd.data)  p == ring[rd.index]  B == RX_BYTES_PER_DESC
           size == rd.size  c == PieceCount(size)  h == Queue!PiecesCopied(size)
           nbytes == DESC_BYTECNT(p)
           cb == IF nbytes <= rd.frame_size THEN nbytes ELSE rd.frame_size
           left == rd.frame_size - cb
           read == rd.read_nbytes + cb
<1>2. RxTypes /\ pc = "copy"
  BY DEF RxInv, CopyDescriptor
<1>3. /\ d \in Nat /\ size \in FrameSize /\ d < c
      /\ p \in Piece /\ p.size = size /\ p.k = d + 1 /\ p.id = At(0).id
      /\ At(0) \in Piece /\ At(0).k = 1 /\ At(0).size = size
  BY <1>1, <1>2, CopyPlace
<1>4. /\ is_up /\ is_up = rxen /\ rd.data = Pieces(At(0).id, d)
      /\ rd.read_nbytes = d * B /\ rd.frame_size + d * B = size /\ d < h
  BY <1>2 DEF Reads, CopyCounts
<1>5. p # NicOwned
  BY <1>3, EthernetAssumption DEF Piece, NicOwned
<1>6. CopyPiece(p) /\ UNCHANGED <<ring, receive_index, is_up, rxen, handed>>
  BY <1>5 DEF CopyDescriptor
<1>7. /\ rd' = [rd EXCEPT !.index = IF cb = nbytes THEN INCR_RX_INDEX(@) ELSE @,
                          !.frame_size = left, !.read_nbytes = read,
                          !.data = Append(@, <<p.id, p.k>>)]
      /\ pc' = IF CopyEnds(p, cb, left, read) THEN "free" ELSE "copy"
  BY <1>6 DEF CopyPiece
<1>8. DESC_EOP(p) <=> d + 1 = c
  BY <1>3 DEF DESC_EOP
<1>9. nbytes = IF d + 1 = c THEN size - d * B ELSE B
  <2>1. p.k - 1 = d
    BY <1>3
  <2>2. QED
    BY <1>3, <1>8, <2>1 DEF DESC_BYTECNT
<1>10. CopyEnds(p, cb, left, read) <=>
          left = 0 \/ (cb = nbytes /\ (DESC_EOP(p) \/ read = left))
  BY DEF CopyEnds
<1>11. /\ rd'.size = size /\ rd'.frame_size = left /\ rd'.read_nbytes = read
       /\ rd'.data = Append(rd.data, <<p.id, p.k>>)
  BY <1>2, <1>7 DEF RxTypes
<1> HIDE DEF p, nbytes, cb, left, read
<1>12. rd'.data = Pieces(At(0).id, d + 1) /\ Len(rd'.data) = d + 1
  <2>1. rd'.data = Append(Pieces(At(0).id, d), <<At(0).id, d + 1>>)
    BY <1>3, <1>4, <1>11, Zenon
  <2>2. rd'.data = Pieces(At(0).id, d + 1)
    BY <1>3, <2>1, PiecesAppend
  <2>3. Len(Pieces(At(0).id, d + 1)) = d + 1
    BY <1>3 DEF Pieces
  <2>4. QED
    BY <2>2, <2>3
<1>13. /\ B \in Nat /\ B >= 1 /\ size \in Nat /\ (c - 1) * B < size
       /\ c \in Nat /\ h \in 1 .. c
       /\ d + 1 = c => h = c
       /\ d + 1 < c => (2 * ((d + 1) * B) = size <=> d + 1 = h)
  <2>1. size \in 1 .. (RX_DESCRIPTORS * RX_BYTES_PER_DESC)
    BY <1>3, EthernetAssumption, Zenon
  <2>2. RX_DESCRIPTORS * RX_BYTES_PER_DESC \in Int
    BY EthernetAssumption
  <2>3. B \in Nat /\ B >= 1 /\ size \in Nat
    BY <2>1, <2>2, EthernetAssumption
  <2>4. (c - 1) * B < size
    BY <1>3, PieceCountBounds, Zenon
  <2>5. /\ c \in Nat /\ h \in 1 .. c
        /\ \A e \in Nat : e < h =>
             /\ e + 1 = c => h = c
             /\ e + 1 < c => (2 * ((e + 1) * B) = size <=> e + 1 = h)
    BY <1>3, HalfOrWhole, Zenon
  <2> HIDE DEF B, c, h, d, size
  <2>6. QED
    BY <1>3, <1>4, <2>3, <2>4, <2>5
<1>14. Holds(s, q)' /\ At(0)' = At(0)
  BY <1>6, RingSame
<1>15. Moves(q, q)
  BY <1>6 DEF Moves
<1>16. rd' # NotReading /\ At(0) # NicOwned
  BY <1>3, <1>11, EthernetAssumption DEF NotReading, NicOwned, Piece
<1> HIDE DEF B, c, h, d, size
<1>17. PICK D \in Nat : D = d * B
  BY <1>3, <1>13
<1>18. (d + 1) * B = D + B
  BY <1>3, <1>13, <1>17, Z3
<1>19. rd.read_nbytes = D /\ rd.frame_size + D = size /\ rd.frame_size \in Nat
  BY <1>2, <1>4, <1>17 DEF RxTypes
<1>20. CASE d + 1 = c
  <2>1. nbytes = size - D
    BY <1>9, <1>17, <1>20
  <2>2. left = 0
    BY <1>13, <1>17, <1>19, <2>1 DEF cb, left
  <2>3. pc' = "free" /\ h = d + 1
    BY <1>7, <1>10, <1>13, <1>20, <2>2
  <2>4. FreeFrom' /\ CopyCounts'
    BY <1>3, <1>4, <1>6, <1>11, <1>12, <1>14, <1>16, <2>3 DEF FreeFrom, CopyCounts, h, size
  <2>5. QED
    BY <1>4, <1>6, <1>14, <1>15, <2>4 DEF Step, Reads
<1>21. CASE d + 1 # c
  <2>1. d + 1 < c
    BY <1>3, <1>13, <1>21
  <2>2. nbytes = B
    BY <1>9, <1>21
  <2>3. D + B < size
    <3>1. d + 1 <= c - 1
      BY <1>3, <1>13, <2>1
    <3>2. (d + 1) * B <= (c - 1) * B
      BY <1>3, <1>13, <3>1, Z3
    <3>3. (c - 1) * B \in Int
      BY <1>13
    <3>4. QED
      BY <1>13, <1>17, <1>18, <3>2, <3>3
  <2>4. cb = B /\ left = size - (D + B) /\ read = D + B /\ left # 0
    BY <1>13, <1>17, <1>19, <2>2, <2>3 DEF cb, left, read
  <2>5. read = left <=> d + 1 = h
    <3>1. 2 * (D + B) = size <=> d + 1 = h
      BY <1>13, <1>18, <2>1
    <3>2. read = left <=> 2 * (D + B) = size
      <4>1. D \in Nat /\ B \in Nat /\ size \in Nat
        BY <1>13, <1>17
      <4>2. D + B = size - (D + B) <=> 2 * (D + B) = size
        BY <4>1
      <4>3. read = D + B /\ left = size - (D + B)
        BY <2>4
      <4>4. QED
        BY <4>2, <4>3, Zenon
    <3>3. QED
      BY <3>1, <3>2
  <2>6. CopyEnds(p, cb, left, read) <=> d + 1 = h
    BY <1>8, <1>10, <1>21, <2>2, <2>4, <2>5
  <2>7. CASE d + 1 = h
    <3>1. pc' = "free"
      BY <1>7, <2>6, <2>7
    <3>2. FreeFrom' /\ CopyCounts'
      BY <1>3, <1>4, <1>6, <1>11, <1>12, <1>14, <1>16, <2>7, <3>1
         DEF FreeFrom, CopyCounts, h, size
    <3>3. QED
      BY <1>4, <1>6, <1>14, <1>15, <3>2 DEF Step, Reads
  <2>8. CASE d + 1 # h
    <3>1. pc' = "copy"
      BY <1>7, <2>6, <2>8
    <3>2. d + 1 < h /\ left + (D + B) = size
      BY <1>3, <1>4, <1>13, <1>17, <2>4, <2>8
    <3>3. rd'.read_nbytes = (d + 1) * B /\ rd'.frame_size + (d + 1) * B = size
      BY <1>11, <1>18, <2>4, <3>2
    <3>4. CopyCounts'
      BY <1>4, <1>6, <1>11, <1>12, <1>14, <3>2, <3>3 DEF CopyCounts, B, h, size
    <3>5. FreeFrom'
      BY <3>1 DEF FreeFrom
    <3>6. QED
      BY <1>4, <1>6, <1>14, <1>15, <3>4, <3>5 DEF Step, Reads
  <2>9. QED
    BY <2>7, <2>8
<1>22. QED
  BY <1>20, <1>21

\* A frame joins the queue when its first descriptor, the last to be written, is
\* handed back; those written before are not reached from receive_index.
LEMMA WriteBackStep ==
  ASSUME RxInv, Reads, NEW s, NEW q, Holds(s, q), RxWriteBack
  PROVE  Step(q)
<1>1. PICK n \in 0 .. RX_DESCRIPTORS : Extent(n)
  BY DEF RxInv
<1> DEFINE P == PieceCount(dma.size)  N == RX_DESCRIPTORS
           last == n + dma.left - 1
<1>2. RxTypes /\ DmaInv /\ UNCHANGED <<pc, rd, is_up, rxen, handed>>
  BY DEF RxInv, RxWriteBack
<1>3. /\ dma.left \in 1 .. P /\ P \in 1 .. N /\ N \in Nat \ {0}
      /\ dma.id \in FrameId /\ dma.size \in FrameSize /\ n + P <= N
      /\ last \in n .. (n + P - 1) /\ last \in Offset
      /\ \A j \in Offset : At(j)' = IF j = last THEN Arriving(n, last) ELSE At(j)
  BY <1>1, <1>2, WriteBackAt
<1> HIDE DEF P
<1>4. n \in Offset /\ n \in Nat /\ 0 \in Offset
  BY <1>1, <1>3 DEF Offset
<1>5. \A j \in 0 .. (n - 1) : j \in Offset /\ At(j) # NicOwned /\ At(j)' = At(j)
  <2>1. ASSUME NEW j \in 0 .. (n - 1)
        PROVE  j \in Offset /\ At(j) # NicOwned /\ At(j)' = At(j)
    <3>1. j \in Offset /\ j # last
      BY <1>1, <1>3 DEF Offset
    <3>2. At(j) \in Piece
      BY <1>1 DEF Extent, Owned
    <3>3. QED
      BY <1>2, <1>3, <3>1, <3>2, AtType
  <2>2. QED
    BY <2>1
<1>6. At(n) = NicOwned
  <2>1. n \in n .. (N - 1)
    BY <1>1, <1>3
  <2>2. ~ Written(n, n)
    BY <1>3, <1>4 DEF Written
  <2>3. QED
    BY <1>1, <2>1, <2>2 DEF Extent, Free
<1>7. ASSUME NEW j \in Offset
      PROVE  /\ j < n => (Waits(j)' <=> Waits(j)) /\ FrameAt(j)' = FrameAt(j)
             /\ Waits(j) => j < n
  <2>1. j \in Nat
    BY <1>3 DEF Offset
  <2>2. ASSUME j < n
        PROVE  (Waits(j)' <=> Waits(j)) /\ FrameAt(j)' = FrameAt(j)
    <3>1. \A l \in 0 .. j : At(l)' = At(l)
      <4>1. \A l \in 0 .. j : l \in 0 .. (n - 1)
        BY <1>4, <2>1, <2>2
      <4>2. QED
        BY <1>5, <4>1
    <3>2. At(j)' = At(j)
      BY <2>1, <3>1
    <3>3. QED
      BY <3>1, <3>2 DEF Waits, FrameAt
  <2>3. ASSUME Waits(j) PROVE j < n
    <3>1. SUFFICES ASSUME n <= j PROVE FALSE
      BY <1>4, <2>1
    <3>2. n \in 0 .. j
      BY <1>4, <2>1, <3>1
    <3>3. QED
      BY <1>6, <2>3, <3>2 DEF Waits
  <2>4. QED
    BY <2>2, <2>3
<1>8. Reads'
  <2>1. ASSUME pc = "copy" \/ pc = "free" PROVE At(0)' = At(0)
    <3>1. n > 0
      <4>1. CASE pc = "copy"
        BY <1>1, <4>1 DEF Extent, Copying
      <4>2. CASE pc = "free"
        BY <1>1, <1>4, <4>2, NoneOwned DEF Reads, FreeFrom
      <4>3. QED
        BY <2>1, <4>1, <4>2
    <3>2. 0 \in 0 .. (n - 1)
      BY <1>4, <3>1
    <3>3. QED
      BY <1>5, <3>2
  <2>2. CopyCounts' /\ FreeFrom'
    BY <1>2, <2>1 DEF Reads, CopyCounts, FreeFrom
  <2>3. QED
    BY <1>2, <2>2 DEF Reads
<1>9. CASE dma.left # 1
  <2>1. n # last
    BY <1>3, <1>4, <1>9
  <2>2. At(n)' = NicOwned
    BY <1>3, <1>4, <1>6, <2>1
  <2>3. ASSUME NEW j \in Offset, Waits(j)' PROVE j < n
    <3>1. j \in Nat
      BY <1>3 DEF Offset
    <3>2. SUFFICES ASSUME n <= j PROVE FALSE
      BY <1>4, <3>1
    <3>3. n \in 0 .. j
      BY <1>4, <3>1, <3>2
    <3>4. QED
      BY <2>2, <2>3, <3>3 DEF Waits
  <2>4. \A j \in Offset : Waits(j)' <=> Waits(j)
    BY <1>7, <2>3
  <2>5. \A j \in Offset : Waits(j) => FrameAt(j)' = FrameAt(j)
    BY <1>7
  <2>6. Holds(s, q)'
    BY <2>4, <2>5, SameList
  <2>7. Moves(q, q)
    BY <1>2 DEF Moves
  <2>8. QED
    BY <1>8, <2>6, <2>7 DEF Step
<1>10. CASE dma.left = 1
  <2>1. PICK f \in Frame : f = [id |-> dma.id, size |-> dma.size]
    BY <1>3 DEF Frame
  <2>2. last = n
    BY <1>3, <1>4, <1>10
  <2>3. /\ At(n)' = [id |-> dma.id, size |-> dma.size, k |-> 1]
    <3>1. n - n + 1 = 1
      BY <1>4
    <3>2. QED
      BY <1>3, <1>4, <2>2, <3>1 DEF Arriving
  <2>4. Waits(n)' /\ FrameAt(n)' = f
    <3>1. ASSUME NEW l \in 0 .. n PROVE At(l)' # NicOwned
      <4>1. CASE l = n
        BY <2>3, <4>1 DEF NicOwned
      <4>2. CASE l # n
        <5>1. l \in 0 .. (n - 1)
          BY <1>4, <4>2
        <5>2. QED
          BY <1>5, <5>1
      <4>3. QED
        BY <4>1, <4>2
    <3>2. QED
      BY <2>3, <2>1, <3>1 DEF Waits, FrameAt
  <2>5. ASSUME NEW j \in Offset, j > n PROVE ~ Waits(j)'
    <3>1. At(j)' = At(j) /\ j \in n .. (N - 1)
      BY <1>3, <1>4, <2>2, <2>5 DEF Offset
    <3>2. At(j) = IF Written(n, j) THEN Arriving(n, j) ELSE NicOwned
      BY <1>1, <3>1 DEF Extent, Free
    <3>3. Arriving(n, j).k # 1
      <4>1. j - n + 1 # 1
        BY <1>3, <1>4, <2>5, <3>1
      <4>2. QED
        BY <4>1 DEF Arriving
    <3>4. At(j)'.k # 1
      BY <3>1, <3>2, <3>3 DEF NicOwned
    <3>5. QED
      BY <3>4 DEF Waits
  <2>6. \A j \in Offset : Waits(j)' <=> Waits(j) \/ j = n
    <3>1. ASSUME NEW j \in Offset PROVE Waits(j)' <=> Waits(j) \/ j = n
      <4>1. j \in Nat
        BY <1>3 DEF Offset
      <4>2. CASE j < n
        BY <1>4, <1>7, <4>1, <4>2
      <4>3. CASE j = n
        BY <2>4, <4>3
      <4>4. CASE j > n
        BY <1>4, <1>7, <2>5, <4>1, <4>4
      <4>5. QED
        BY <1>4, <4>1, <4>2, <4>3, <4>4
    <3>2. QED
      BY <3>1
  <2>7. \A j \in Offset : Waits(j) => j < n /\ FrameAt(j)' = FrameAt(j)
    BY <1>7
  <2>8. Holds(Append(s, n), Append(q, f))'
    BY <1>4, <2>4, <2>6, <2>7, LongerList
  <2>9. Moves(q, Append(q, f))
    BY <1>2, <2>1 DEF Moves
  <2>10. QED
    BY <1>8, <2>8, <2>9 DEF Step
<1>11. QED
  BY <1>9, <1>10

\* Every step of the driver or of the controller, seen from the queue.
LEMMA NextStep ==
  ASSUME RxInv, Reads, NEW s, NEW q, Holds(s, q), [EthNext]_ethVars
  PROVE  Step(q)
BY ReceiveNothingStep, ReceiveStartStep, CopyStep, FreeStep, WatchdogStep, WriteBackStep,
   OtherStep DEF EthNext, Software, Controller

\* The invariant of the refinement: some list names the frames that wait.
QueueInv == RxInv /\ Reads /\ \E s, q : Holds(s, q)

\* At the start the ring is the controller's and the queue is empty.
LEMMA QueueInvInit == EthInit => Reads /\ Holds(<<>>, <<>>)
<1> SUFFICES ASSUME EthInit PROVE Reads /\ Holds(<<>>, <<>>)
  OBVIOUS
<1>1. /\ pc = "guest" /\ is_up = FALSE /\ rxen = FALSE
      /\ ring = EmptyRing /\ receive_index = 0
  BY DEF EthInit
<1>2. Reads
  BY <1>1 DEF Reads, CopyCounts, FreeFrom
<1>3. ASSUME NEW j \in Offset PROVE ~ Waits(j)
  <2>1. j \in Index /\ Fwd(0, j) = j /\ 0 # 1
    BY EthernetAssumption DEF Offset, Index, Fwd
  <2>2. At(j) = NicOwned
    BY <1>1, <2>1 DEF At, EmptyRing
  <2>3. QED
    BY <2>2 DEF Waits, NicOwned
<1>4. QED
  BY <1>2, <1>3, EmptyList

\* What FrameQueue may do with the listed queues, its next-state relation allows.
LEMMA MovesAreQueueSteps ==
  ASSUME NEW q, NEW r, QueuedFrames = q, QueuedFrames' = r, Moves(q, r),
         is_up \in BOOLEAN, is_up' \in BOOLEAN
  PROVE  [Queue!QueueNext]_(Queue!queueVars)
<1>1. CASE r = q /\ UNCHANGED <<is_up, handed>>
  BY <1>1 DEF Queue!queueVars
<1>2. CASE r = q /\ ~ is_up' /\ is_up /\ UNCHANGED handed
  BY <1>2 DEF Queue!QueueNext, Queue!LinkDown
<1>3. CASE r = q /\ (~ is_up \/ q = <<>>) /\ handed' = Nothing /\ UNCHANGED is_up
  BY <1>3 DEF Queue!QueueNext, Queue!HandNothing, Nothing, Queue!Nothing
<1>4. CASE (\E f \in Frame : r = Append(q, f)) /\ UNCHANGED <<is_up, handed>>
  BY <1>4 DEF Queue!QueueNext, Queue!Arrive, Frame, Queue!Frame
<1>5. CASE r = <<>> /\ ~ is_up /\ is_up' = TRUE /\ UNCHANGED handed
  BY <1>5 DEF Queue!QueueNext, Queue!LinkUp
<1>6. CASE /\ r = Tail(q) /\ q # <<>> /\ is_up
           /\ handed' = Queue!Copy(Head(q)) /\ UNCHANGED is_up
  BY <1>6 DEF Queue!QueueNext, Queue!HandOver
<1>7. QED
  BY <1>1, <1>2, <1>3, <1>4, <1>5, <1>6 DEF Moves

\* The receive side of the driver implements FrameQueue, for a ring of any length
\* and frames of any size that fits it: each call hands over the oldest frame, once,
\* with its size and the pieces FrameQueue says, whatever the controller does
\* meanwhile; only a link that comes up discards frames (en_ll_input, en_watchdog).
THEOREM ImplementsQueueAlways == EthSpec => ImplementsQueue
<1>1. EthInit /\ RxInv => QueueInv /\ Queue!QueueInit
  <2>1. SUFFICES ASSUME EthInit, RxInv PROVE QueueInv /\ Queue!QueueInit
    OBVIOUS
  <2>2. Reads /\ Holds(<<>>, <<>>)
    BY <2>1, QueueInvInit
  <2>3. QueuedFrames = <<>>
    BY <2>1, <2>2, QueueIs DEF RxInv, QueueListed
  <2>4. is_up = FALSE /\ handed = Nothing
    BY <2>1 DEF EthInit
  <2>5. QED
    BY <2>1, <2>2, <2>3, <2>4 DEF QueueInv, Queue!QueueInit, Nothing, Queue!Nothing
<1>2. QueueListed'
  BY QueueIs, PTL
<1>3. QueueInv /\ RxInv' /\ [EthNext]_ethVars =>
        QueueInv' /\ [Queue!QueueNext]_(Queue!queueVars)
  <2>1. SUFFICES ASSUME QueueInv, RxInv', [EthNext]_ethVars
                 PROVE  QueueInv' /\ [Queue!QueueNext]_(Queue!queueVars)
    OBVIOUS
  <2>2. PICK s, q : Holds(s, q)
    BY <2>1 DEF QueueInv
  <2>3. Step(q)
    BY <2>1, <2>2, NextStep DEF QueueInv
  <2>4. PICK t, r : Holds(t, r)' /\ Moves(q, r)
    BY <2>3 DEF Step
  <2>5. QueuedFrames = q /\ is_up \in BOOLEAN
    BY <2>1, <2>2, QueueIs DEF QueueInv, RxInv, RxTypes, QueueListed
  <2>6. QueuedFrames' = r /\ is_up' \in BOOLEAN
    BY <1>2, <2>1, <2>4 DEF RxInv, RxTypes, QueueListed
  <2>7. [Queue!QueueNext]_(Queue!queueVars)
    BY <2>4, <2>5, <2>6, MovesAreQueueSteps
  <2>8. QueueInv'
    BY <2>1, <2>3, <2>4 DEF QueueInv, Step
  <2>9. QED
    BY <2>7, <2>8
<1>4. QED
  BY <1>1, <1>3, RxInvAlways, PTL DEF EthSpec, ImplementsQueue, Queue!QueueSpec

\* What a receive call gives is nothing, or what FrameQueue copies of a frame.
HandedCopy == handed = Nothing \/ \E f : handed = Queue!Copy(f)

\* en_ll_input's copy ends early for nothing but frames that are two halves of
\* whole buffers: where HandedWhole fails, that is the size of the frame.
THEOREM HandedWholeOrHalf ==
  EthSpec => [](HandedWhole \/ Queue!SplitsInHalf(handed.size))
<1>1. EthInit => Reads /\ (\E s, q : Holds(s, q)) /\ HandedCopy
  BY QueueInvInit DEF EthInit, HandedCopy
<1>2. RxInv /\ Reads /\ (\E s, q : Holds(s, q)) /\ HandedCopy /\ [EthNext]_ethVars =>
        Reads' /\ (\E s, q : Holds(s, q))' /\ HandedCopy'
  <2>1. SUFFICES ASSUME RxInv, Reads, NEW s, NEW q, Holds(s, q), HandedCopy, [EthNext]_ethVars
                 PROVE  Reads' /\ (\E t, r : Holds(t, r))' /\ HandedCopy'
    OBVIOUS
  <2>2. Step(q)
    BY <2>1, NextStep
  <2>3. PICK t, r : Holds(t, r)' /\ Moves(q, r)
    BY <2>2 DEF Step
  <2>4. handed' = handed \/ handed' = Nothing \/ handed' = Queue!Copy(Head(q))
    BY <2>3 DEF Moves
  <2>5. HandedCopy'
    BY <2>1, <2>4 DEF HandedCopy
  <2>6. QED
    BY <2>2, <2>3, <2>5 DEF Step
<1>3. RxInv /\ HandedCopy => HandedWhole \/ Queue!SplitsInHalf(handed.size)
  <2>1. SUFFICES ASSUME RxInv, HandedCopy, ~ Queue!SplitsInHalf(handed.size)
                 PROVE  HandedWhole
    OBVIOUS
  <2>2. handed.size \in FrameSize
    <3>1. handed.size \in FrameSize \cup {0}
      BY <2>1 DEF RxInv, RxTypes
    <3>2. 0 % (2 * RX_BYTES_PER_DESC) = 0
      BY EthernetAssumption
    <3>3. handed.size # 0
      BY <2>1, <3>2 DEF Queue!SplitsInHalf
    <3>4. QED
      BY <3>1, <3>3
  <2>3. handed # Nothing
    BY <2>2, EthernetAssumption DEF Nothing
  <2>4. PICK f : handed = Queue!Copy(f)
    BY <2>1, <2>3 DEF HandedCopy
  <2>5. /\ handed.size = f.size
        /\ handed.data = [k \in 1 .. Queue!PiecesCopied(f.size) |-> <<f.id, k>>]
    BY <2>4 DEF Queue!Copy
  <2>6. Queue!PiecesCopied(f.size) = PieceCount(handed.size)
    BY <2>1, <2>5 DEF Queue!PiecesCopied, Queue!PieceCount, PieceCount
  <2>7. PieceCount(handed.size) \in Nat
    <3>1. PieceCount(handed.size) \in 1 .. RX_DESCRIPTORS
      BY <2>2, PieceCountBounds
    <3>2. QED
      BY <3>1, EthernetAssumption
  <2>8. Len(handed.data) = PieceCount(handed.size)
    BY <2>5, <2>6, <2>7
  <2>9. QED
    BY <2>8 DEF HandedWhole
<1>4. QED
  BY <1>1, <1>2, <1>3, RxInvAlways, PTL DEF EthSpec
-----------------------------------------------------------------------------
(***************************************************************************)
(* A call advances. The copy goes on inside its frame, the descriptors     *)
(* that are given back are those of one frame, and what a call waits for   *)
(* is finite, for the receiver is off while RXBUSY is awaited and no other *)
(* transmission is started while TXRTS is.                                 *)
(***************************************************************************)

\* While the driver waits for RXBUSY the receiver is off.
OffWhileBusy == pc = "rxbusy" => ~ rxen

\* What is known where a call is under way.
CallInv == RxInv /\ Reads /\ TxTypes /\ OffWhileBusy

\* What CallAdvances says of one step.
Advance ==
  pc # "guest" =>
    \/ Phases[pc'] < Phases[pc]
    \/ pc' = pc /\ WorkLeft' < WorkLeft
    \/ /\ pc' = pc /\ WorkLeft' = WorkLeft
       /\ UNCHANGED <<receive_index, rd, is_up, rxen, handed, sending, tx_buf, txcur>>

\* Only en_watchdog waits for RXBUSY, and it has turned the receiver off.
LEMMA OffStep == OffWhileBusy /\ [EthNext]_ethVars => OffWhileBusy'
<1> SUFFICES ASSUME OffWhileBusy, [EthNext]_ethVars PROVE OffWhileBusy'
  OBVIOUS
<1>1. ASSUME rxen' = rxen, pc' = pc \/ pc' # "rxbusy"
      PROVE  OffWhileBusy'
  BY <1>1 DEF OffWhileBusy
<1>2. CASE ReceiveNothing \/ ReceiveStart \/ CopyDescriptor \/ FreeDescriptor
  BY <1>1, <1>2 DEF ReceiveNothing, ReceiveStart, CopyDescriptor, CopyPiece, FreeDescriptor
<1>3. CASE en_watchdog
  BY <1>1, <1>3 DEF en_watchdog, LinkActivated, LinkLost, LinkSame, OffWhileBusy
<1>4. CASE ReceiverStopped \/ FrameCopied \/ en_ll_output \/ \E f \in Outgoing : send_frame(f)
  BY <1>1, <1>4 DEF ReceiverStopped, FrameCopied, en_ll_output, StartTransmitter, send_frame, rxVars
<1>5. CASE Controller
  BY <1>1, <1>5 DEF Controller, RxFrame, RxWriteBack, TxNothing, TxWord, rxVars
<1>6. CASE UNCHANGED ethVars
  BY <1>1, <1>6 DEF ethVars, rxVars
<1>7. QED
  BY <1>2, <1>3, <1>4, <1>5, <1>6 DEF EthNext, Software

\* Each turn of the copy takes one more piece of the ring (en_ll_input).
LEMMA CopyAdvances ==
  ASSUME CallInv, CopyDescriptor
  PROVE  Advance
<1>1. pc = "copy" /\ pc' \in {"copy", "free"}
  BY DEF CopyDescriptor, CopyPiece
<1>2. CASE pc' = "free"
  BY <1>1, <1>2 DEF Advance, Phases
<1>3. CASE pc' = "copy"
  <2>1. RxInv /\ RxTypes /\ RxTypes'
    BY CopyInv DEF CallInv, RxInv
  <2>2. PICK p : rd' = [rd EXCEPT !.index = rd'.index, !.frame_size = rd'.frame_size,
                                  !.read_nbytes = rd'.read_nbytes, !.data = Append(@, p)]
                 /\ p \in FrameId \X (1 .. RX_DESCRIPTORS)
    <3>1. PICK n \in 0 .. RX_DESCRIPTORS : Extent(n)
      BY <2>1 DEF RxInv
    <3>2. ring[rd.index] \in Piece
      BY <1>1, <2>1, <3>1, CopyPlace
    <3>3. CopyPiece(ring[rd.index])
      BY <1>1, <1>3 DEF CopyDescriptor
    <3>4. <<ring[rd.index].id, ring[rd.index].k>> \in FrameId \X (1 .. RX_DESCRIPTORS)
      BY <3>2 DEF Piece
    <3>5. QED
      BY <2>1, <3>3, <3>4 DEF CopyPiece, RxTypes
  <2>3. rd'.data = Append(rd.data, p) /\ rd.data \in Copied /\ rd'.data \in Copied
    BY <2>1, <2>2 DEF RxTypes
  <2>4. rd.data \in Seq(FrameId \X (1 .. RX_DESCRIPTORS)) /\ Len(rd'.data) <= RX_DESCRIPTORS
    BY <2>3 DEF Copied
  <2>5. PICK d : d = Len(rd.data)
    OBVIOUS
  <2>6. d \in Nat /\ Len(rd'.data) = d + 1 /\ d + 1 <= RX_DESCRIPTORS
    BY <2>2, <2>3, <2>4, <2>5, AppendProperties, LenProperties
  <2>7. WorkLeft = RX_DESCRIPTORS - d /\ WorkLeft' = RX_DESCRIPTORS - (d + 1)
    BY <1>1, <1>3, <2>5, <2>6 DEF WorkLeft
  <2>8. WorkLeft' < WorkLeft
    BY <2>6, <2>7, EthernetAssumption
  <2>9. QED
    BY <1>1, <1>3, <2>8 DEF Advance
<1>4. QED
  BY <1>1, <1>2, <1>3

\* Each turn that gives a descriptor back and goes on comes to the next piece of the
\* same frame (en_ll_input lines 501-511).
LEMMA FreeAdvances ==
  ASSUME CallInv, FreeDescriptor
  PROVE  Advance
<1>1. pc = "free" /\ pc' \in {"free", "guest"}
  BY DEF FreeDescriptor
<1>2. CASE pc' = "guest"
  BY <1>1, <1>2 DEF Advance, Phases
<1>3. CASE pc' = "free"
  <2>1. RxInv /\ RxTypes /\ RxTypes' /\ At(0) # NicOwned
    BY <1>1, FreeInv DEF CallInv, RxInv, Reads, FreeFrom
  <2>2. PICK n \in 0 .. RX_DESCRIPTORS : Extent(n)
    BY <2>1 DEF RxInv
  <2>3. n > 0
    BY <2>1, <2>2, NoneOwned
  <2>4. At(0) \in Piece /\ At(0).k <= PieceCount(At(0).size) /\ ~ DESC_EOP(At(0))
    BY <1>3, <2>1, <2>2, <2>3, FreeAt DEF Extent, Owned
  <2>5. PICK k, c : k = At(0).k /\ c = PieceCount(At(0).size)
    OBVIOUS
  <2>6. k \in 1 .. RX_DESCRIPTORS /\ c \in 1 .. RX_DESCRIPTORS /\ k < c
    <3>1. k \in 1 .. RX_DESCRIPTORS /\ c \in 1 .. RX_DESCRIPTORS
      BY <2>4, <2>5, PieceCountBounds DEF Piece
    <3>2. k <= c /\ k # c
      BY <2>4, <2>5 DEF DESC_EOP
    <3>3. QED
      BY <3>1, <3>2, EthernetAssumption
  <2>7. Place(0, k + 1) = 1
    BY <2>5, <2>6, EthernetAssumption DEF Place
  <2>8. 1 < n /\ At(1) = [At(0) EXCEPT !.k = k + 1]
    <3>1. 0 \in 0 .. (n - 1) /\ k + 1 \in 1 .. PieceCount(At(0).size)
      BY <2>3, <2>5, <2>6, EthernetAssumption
    <3>2. Place(0, k + 1) < n /\ At(Place(0, k + 1)) = [At(0) EXCEPT !.k = k + 1]
      BY <2>2, <2>7, <3>1 DEF Extent, Whole
    <3>3. QED
      BY <2>7, <3>2
  <2>9. At(0)' = At(1)
    <3>1. \A j \in 0 .. (RX_DESCRIPTORS - 2) : At(j)' = At(j + 1)
      BY <2>1, FreeAt
    <3>2. 0 \in 0 .. (RX_DESCRIPTORS - 2)
      BY <2>2, <2>8, EthernetAssumption
    <3>3. At(0)' = At(0 + 1)
      BY <3>1, <3>2
    <3>4. QED
      BY <3>3
  <2>10. At(0)'.k = k + 1 /\ At(0)'.size = At(0).size
    BY <2>4, <2>8, <2>9 DEF Piece
  <2>11. At(0) = ring[receive_index] /\ At(0)' = ring'[receive_index']
    <3>1. PICK i : i = receive_index'
      OBVIOUS
    <3>2. i \in Index
      BY <2>1, <3>1 DEF RxTypes
    <3>3. i + 0 = i /\ i < RX_DESCRIPTORS
      BY <3>2, EthernetAssumption DEF Index
    <3>4. At(0)' = ring'[receive_index']
      BY <3>1, <3>3 DEF At, Fwd
    <3>5. QED
      BY <2>1, <3>4, AtFirst
  <2>12. WorkLeft = c - k /\ WorkLeft' = c - (k + 1)
    <3>1. WorkLeft = c - k
      BY <1>1, <2>5, <2>11 DEF WorkLeft
    <3>2. WorkLeft' = PieceCount(ring'[receive_index'].size) - ring'[receive_index'].k
      BY <1>3 DEF WorkLeft, PieceCount
    <3>3. PieceCount(ring'[receive_index'].size) = c /\ ring'[receive_index'].k = k + 1
      BY <2>5, <2>10, <2>11 DEF PieceCount
    <3>4. QED
      BY <3>1, <3>2, <3>3
  <2>13. WorkLeft' < WorkLeft
    BY <2>6, <2>12, EthernetAssumption
  <2>14. QED
    BY <1>1, <1>3, <2>13 DEF Advance
<1>4. QED
  BY <1>1, <1>2, <1>3

\* A frame begins while a call is under way: not while RXBUSY is awaited, and in the
\* ring nothing is written yet.
LEMMA RxFrameAdvances ==
  ASSUME CallInv, NEW f \in Frame, RxFrame(f)
  PROVE  Advance
<1>1. rxen /\ UNCHANGED <<pc, ring, receive_index, rd, is_up, rxen, handed, txVars>>
  BY DEF RxFrame
<1>2. pc # "rxbusy"
  BY <1>1 DEF CallInv, OffWhileBusy
<1>3. WorkLeft' = WorkLeft
  BY <1>1, <1>2 DEF WorkLeft, txVars
<1>4. QED
  BY <1>1, <1>3 DEF Advance, txVars

\* A descriptor that is handed back is none that is being given back, and brings the
\* end of RXBUSY nearer.
LEMMA WriteBackAdvances ==
  ASSUME CallInv, RxWriteBack
  PROVE  Advance
<1>1. UNCHANGED <<pc, receive_index, rd, is_up, rxen, handed, txVars>> /\ dma.left > 0
  BY DEF RxWriteBack
<1>2. CASE pc = "rxbusy"
  <2>1. dma.left \in Nat
    BY EthernetAssumption DEF CallInv, RxInv, RxTypes
  <2>2. dma'.left = dma.left - 1
    BY <1>1, <2>1 DEF RxWriteBack, IdleDma, CallInv, RxInv, RxTypes
  <2>3. WorkLeft = dma.left /\ WorkLeft' = dma'.left
    BY <1>1, <1>2 DEF WorkLeft
  <2>4. WorkLeft' < WorkLeft
    BY <2>1, <2>2, <2>3
  <2>5. QED
    BY <1>1, <2>4 DEF Advance
<1>3. CASE pc = "free"
  <2>1. RxInv /\ RxTypes /\ DmaInv /\ At(0) # NicOwned
    BY <1>3 DEF CallInv, RxInv, Reads, FreeFrom
  <2>2. PICK n \in 0 .. RX_DESCRIPTORS : Extent(n)
    BY <2>1 DEF RxInv
  <2>3. n > 0
    BY <2>1, <2>2, NoneOwned
  <2>4. At(0)' = At(0)
    <3>1. n + dma.left - 1 # 0
      BY <1>1, <2>1, <2>2, <2>3, EthernetAssumption DEF RxTypes
    <3>2. 0 \in Offset
      BY <2>1, AtFirst
    <3>3. QED
      BY <2>1, <2>2, <3>1, <3>2, WriteBackAt
  <2>5. ring'[receive_index'] = ring[receive_index]
    <3>1. receive_index \in Index /\ Fwd(receive_index, 0) = receive_index
      BY <2>1, EthernetAssumption DEF RxTypes, Fwd, Index
    <3>2. QED
      BY <1>1, <2>4, <3>1 DEF At
  <2>6. WorkLeft' = WorkLeft
    BY <1>1, <1>3, <2>5 DEF WorkLeft, PieceCount
  <2>7. QED
    BY <1>1, <2>6 DEF Advance, txVars
<1>4. CASE pc \notin {"rxbusy", "free"}
  <2>1. WorkLeft' = WorkLeft
    BY <1>1, <1>4 DEF WorkLeft, txVars
  <2>2. QED
    BY <1>1, <2>1 DEF Advance, txVars
<1>5. QED
  BY <1>2, <1>3, <1>4

\* A word that is sent, and a transmission that ends, bring the end of TXRTS nearer.
LEMMA TxAdvances ==
  ASSUME CallInv, TxNothing \/ TxWord
  PROVE  Advance
<1>1. UNCHANGED <<pc, rxVars, sending, tx_buf, txcur>> /\ txrts
  BY DEF TxNothing, TxWord
<1>2. Len(wire) \in Nat /\ txcur.size \in Nat /\ Len(wire) < txcur.size
  BY <1>1, LenProperties, EthernetAssumption DEF CallInv, TxTypes
<1>3. CASE pc = "txwait"
  <2>1. WorkLeft = txcur.size - Len(wire)
    BY <1>1, <1>3 DEF WorkLeft
  <2>2. CASE ~ txrts'
    <3>1. WorkLeft' = 0
      BY <1>1, <1>3, <2>2 DEF WorkLeft
    <3>2. QED
      BY <1>1, <1>2, <2>1, <3>1, EthernetAssumption DEF Advance
  <2>3. CASE txrts'
    <3>1. TxWord
      BY <2>3 DEF TxNothing
    <3>2. Len(wire') = Len(wire) + 1
      BY <3>1 DEF TxWord
    <3>3. WorkLeft' = txcur.size - Len(wire')
      BY <1>1, <1>3, <2>3 DEF WorkLeft
    <3>4. WorkLeft' < WorkLeft
      BY <1>2, <2>1, <3>2, <3>3, EthernetAssumption
    <3>5. QED
      BY <1>1, <3>4 DEF Advance
  <2>4. QED
    BY <2>2, <2>3
<1>4. CASE pc # "txwait"
  <2>1. WorkLeft' = WorkLeft
    BY <1>1, <1>4 DEF WorkLeft, rxVars, PieceCount
  <2>2. QED
    BY <1>1, <2>1 DEF Advance, rxVars
<1>5. QED
  BY <1>3, <1>4

\* Every step inside a call brings its end nearer or is none of the driver's, for a
\* ring, frames and transmissions of any size (en_ll_input, en_ll_output,
\* en_watchdog): the bounded half of CallReturns, which adds that the steps are taken.
THEOREM CallAdvancesAlways == EthSpec => CallAdvances
<1>1. EthInit => Reads /\ (\E s, q : Holds(s, q)) /\ OffWhileBusy
  BY QueueInvInit DEF EthInit, OffWhileBusy
<1>2. RxInv /\ Reads /\ (\E s, q : Holds(s, q)) /\ [EthNext]_ethVars =>
        Reads' /\ (\E s, q : Holds(s, q))'
  BY NextStep DEF Step
<1>3. CallInv /\ [EthNext]_ethVars => Advance
  <2>1. SUFFICES ASSUME CallInv, [EthNext]_ethVars PROVE Advance
    OBVIOUS
  <2>2. CASE ReceiveNothing \/ ReceiveStart \/ en_watchdog \/ \E f \in Outgoing : send_frame(f)
    BY <2>2 DEF ReceiveNothing, ReceiveStart, en_watchdog, send_frame, Advance
  <2>3. CASE ReceiverStopped \/ FrameCopied \/ en_ll_output
    BY <2>3 DEF ReceiverStopped, FrameCopied, en_ll_output, StartTransmitter, Advance, Phases
  <2>4. CASE UNCHANGED ethVars
    BY <2>4 DEF ethVars, rxVars, txVars, WorkLeft, PieceCount, Advance
  <2>5. QED
    BY <2>1, <2>2, <2>3, <2>4, CopyAdvances, FreeAdvances, RxFrameAdvances, WriteBackAdvances,
       TxAdvances DEF EthNext, Software, Controller
<1>4. (CallInv /\ [EthNext]_ethVars => Advance) =>
        (CallInv /\ [EthNext]_ethVars =>
           [pc # "guest" =>
              \/ Phases[pc'] < Phases[pc]
              \/ pc' = pc /\ WorkLeft' < WorkLeft
              \/ /\ pc' = pc /\ WorkLeft' = WorkLeft
                 /\ UNCHANGED <<receive_index, rd, is_up, rxen, handed, sending, tx_buf, txcur>>
           ]_ethVars)
  BY DEF Advance
<1>5. RxInv /\ Reads /\ TxTypes /\ OffWhileBusy => CallInv
  BY DEF CallInv
<1>6. QED
  BY <1>1, <1>2, <1>3, <1>4, <1>5, OffStep, RxInvAlways, TxInvAlways, PTL
     DEF EthSpec, CallAdvances
=============================================================================
