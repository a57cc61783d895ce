--------------------------- MODULE EthernetDriver ---------------------------
(***************************************************************************)
(* The data path of drivers/pic32mz-ethernet.c. Software and the           *)
(* controller's DMA engines share a ring of receive descriptors and one    *)
(* transmit buffer. A hypercall is not interrupted by other software (pc   *)
(* tells where it is), but the controller works on while it executes.      *)
(*                                                                         *)
(* The controller is external. The driver takes the size of a frame from   *)
(* its first descriptor as soon as it owns that one; the controller can    *)
(* know the size only when the frame has ended. So the model hands the     *)
(* descriptors of a frame back when it has ended, the first one last.      *)
(***************************************************************************)
EXTENDS Naturals, Sequences, FiniteSets

CONSTANTS
    RX_DESCRIPTORS,     \* descriptors in the receive ring
    RX_BYTES_PER_DESC,  \* bytes in one receive buffer
    FrameId,            \* what tells one frame that arrives from another
    FrameSize,          \* sizes of the frames that arrive, in bytes
    SendId,             \* what tells one frame that is sent from another
    MTU,                \* words in tx_buf; a word is what the DMA reads at once
    SendSize,           \* sizes of the frames guests send, in words
    SIZE_RANGE          \* en_ll_output takes the size as a uint16_t: 2^16

ASSUME EthernetAssumption ==
    /\ RX_DESCRIPTORS \in Nat \ {0}
    /\ RX_BYTES_PER_DESC \in Nat \ {0}
    /\ FrameSize \subseteq 1 .. (RX_DESCRIPTORS * RX_BYTES_PER_DESC)
    /\ FrameId # {} /\ 0 \notin FrameId /\ 0 \notin SendId
    /\ MTU \in Nat \ {0} /\ SendSize \subseteq Nat /\ SIZE_RANGE \in Nat \ {0}

VARIABLES
    pc,             \* where the executing hypercall is; "guest": none executes
    ring,           \* rx_desc: NicOwned, or the piece of a frame it describes
    receive_index,  \* the oldest descriptor software has not given back
    rd,             \* the statics of en_ll_input and what it has copied
    is_up,          \* e->is_up
    rxen,           \* ETHCON1.RXEN
    dma,            \* the receive engine: next descriptor, frame under way
    handed,         \* what the last receive call gave the guest
    sending,        \* the frame send_frame was called with, while it runs
    tx_buf,         \* whose word each word of the transmit buffer is
    tx_desc,        \* whether the transmit descriptor belongs to the controller
    txrts,          \* ETHCON1.TXRTS
    txcur,          \* the frame whose transmission was started last
    wire,           \* the frames the words sent since then belong to
    refused         \* history: frames copied since then that were not sent

rxVars == <<ring, receive_index, rd, is_up, rxen, dma, handed>>
txVars == <<sending, tx_buf, tx_desc, txrts, txcur, wire, refused>>
ethVars == <<pc, rxVars, txVars>>

Index == 0 .. (RX_DESCRIPTORS - 1)

INCR_RX_INDEX_no_wrap(i) == i + 1

INCR_RX_INDEX(i) == (i + 1) % RX_DESCRIPTORS

PieceCount(size) == (size + RX_BYTES_PER_DESC - 1) \div RX_BYTES_PER_DESC

\* The fields of a descriptor software owns: piece k of a frame of that size.
Piece == [id : FrameId, size : FrameSize, k : 1 .. RX_DESCRIPTORS]

\* EOWN is set. The other fields are not read before the controller has
\* written them.
NicOwned == [id |-> 0, size |-> 0, k |-> 0]

DESC_EOP(p) == p.k = PieceCount(p.size)

DESC_BYTECNT(p) ==
    IF DESC_EOP(p) THEN p.size - (p.k - 1) * RX_BYTES_PER_DESC ELSE RX_BYTES_PER_DESC

NotReading == [index |-> 0, size |-> 0, frame_size |-> 0, read_nbytes |-> 0, data |-> <<>>]

Nothing == [size |-> 0, data |-> <<>>]

\* A frame a guest sends, and none.
Outgoing == [id : SendId, size : SendSize]

NoFrame == [id |-> 0, size |-> 0]

EmptyRing == [i \in Index |-> NicOwned]

IdleDma == [next |-> 0, id |-> 0, size |-> 0, left |-> 0]

EthInit ==
    /\ pc = "guest"
    /\ ring = EmptyRing
    /\ receive_index = 0
    /\ rd = NotReading
    /\ is_up = FALSE
    /\ rxen = FALSE
    /\ dma = IdleDma
    /\ handed = Nothing
    /\ sending = NoFrame
    /\ tx_buf = [k \in 1 .. MTU |-> 0]
    /\ tx_desc = FALSE
    /\ txrts = FALSE
    /\ txcur = NoFrame
    /\ wire = <<>>
    /\ refused = {}
-----------------------------------------------------------------------------
(***************************************************************************)
(* en_ll_input, for the hypercall receive_frame.                           *)
(***************************************************************************)

FrameReady == is_up /\ ring[receive_index] # NicOwned

ReceiveNothing ==
    /\ pc = "guest"
    /\ ~ FrameReady
    /\ handed' = Nothing
    /\ UNCHANGED <<pc, ring, receive_index, rd, is_up, rxen, dma, txVars>>

ReceiveStart ==
    /\ pc = "guest"
    /\ FrameReady
    /\ pc' = "copy"
    /\ LET size == ring[receive_index].size IN
       rd' = [index |-> receive_index, size |-> size, frame_size |-> size,
              read_nbytes |-> 0, data |-> <<>>]
    /\ UNCHANGED <<ring, receive_index, is_up, rxen, dma, handed, txVars>>

\* The test that ends the copy: left is what is left of the frame, read what
\* has been copied.
CopyEnds(p, cb, left, read) ==
    \/ left = 0
    \/ cb = DESC_BYTECNT(p) /\ (DESC_EOP(p) \/ read = left)

\* One turn of the loop that copies. The descriptor at read_index may belong to
\* the controller, which ends the copy too.
CopyPiece(p) ==
    LET nbytes == DESC_BYTECNT(p)
        cb == IF nbytes <= rd.frame_size THEN nbytes ELSE rd.frame_size
        left == rd.frame_size - cb
        read == rd.read_nbytes + cb
    IN  /\ rd' = [rd EXCEPT !.index = IF cb = nbytes THEN INCR_RX_INDEX(@) ELSE @,
                            !.frame_size = left,
                            !.read_nbytes = read,
                            !.data = Append(@, <<p.id, p.k>>)]
        /\ pc' = IF CopyEnds(p, cb, left, read) THEN "free" ELSE "copy"

CopyDescriptor ==
    /\ pc = "copy"
    /\ IF ring[rd.index] = NicOwned
       THEN pc' = "free" /\ UNCHANGED rd
       ELSE CopyPiece(ring[rd.index])
    /\ UNCHANGED <<ring, receive_index, is_up, rxen, dma, handed, txVars>>

FreeEnds_on_short_piece(p) == DESC_BYTECNT(p) # RX_BYTES_PER_DESC

FreeEnds(p) == DESC_EOP(p)

\* One turn of the loop that gives descriptors back. The result of the call is
\* settled here; the statics are cleared.
FreeDescriptor ==
    /\ pc = "free"
    /\ LET p == ring[receive_index] IN
       IF p = NicOwned
       THEN pc' = "guest" /\ UNCHANGED <<ring, receive_index>>
       ELSE /\ ring' = [ring EXCEPT ![receive_index] = NicOwned]
            /\ receive_index' = INCR_RX_INDEX(receive_index)
            /\ pc' = IF FreeEnds(p) THEN "guest" ELSE "free"
    /\ handed' = IF rd = NotReading THEN handed ELSE [size |-> rd.size, data |-> rd.data]
    /\ rd' = NotReading
    /\ UNCHANGED <<is_up, rxen, dma, txVars>>
-----------------------------------------------------------------------------
(***************************************************************************)
(* en_watchdog. Reading the PHY may time out; the link counts as up when   *)
(* the status is read and says so.                                         *)
(***************************************************************************)

PhyStatus == {"timeout", "no link", "negotiating", "linked"}

is_phy_linked(status) == status = "linked"

\* All receive descriptors go to the controller, which starts at the first one;
\* the transmit descriptors are cleared, also while TXRTS asks for them.
en_setup_dma ==
    /\ ring' = EmptyRing
    /\ receive_index' = 0
    /\ dma' = [dma EXCEPT !.next = 0]
    /\ tx_desc' = FALSE

LinkActivated(status) ==
    /\ is_phy_linked(status) /\ ~ rxen
    /\ is_up' = TRUE
    /\ en_setup_dma
    /\ rxen' = TRUE
    /\ UNCHANGED pc

LinkLost_receives_on(status) ==
    /\ ~ is_phy_linked(status) /\ rxen
    /\ is_up' = FALSE
    /\ pc' = "rxbusy"
    /\ UNCHANGED <<ring, receive_index, rxen, dma, tx_desc>>

LinkLost(status) ==
    /\ ~ is_phy_linked(status) /\ rxen
    /\ is_up' = FALSE
    /\ rxen' = FALSE
    /\ pc' = "rxbusy"
    /\ UNCHANGED <<ring, receive_index, dma, tx_desc>>

\* When the state of the link and of the receiver agree, is_up is only refreshed.
LinkSame(status) ==
    /\ is_phy_linked(status) = rxen
    /\ is_up' = is_phy_linked(status)
    /\ UNCHANGED <<pc, ring, receive_index, rxen, dma, tx_desc>>

en_watchdog ==
    /\ pc = "guest"
    /\ \E status \in PhyStatus :
          LinkActivated(status) \/ LinkLost(status) \/ LinkSame(status)
    /\ UNCHANGED <<rd, handed, sending, tx_buf, txrts, txcur, wire, refused>>

ReceiverStopped_no_wait ==
    /\ pc = "rxbusy"
    /\ pc' = "guest"
    /\ UNCHANGED <<rxVars, txVars>>

\* The wait for RXBUSY.
ReceiverStopped ==
    /\ pc = "rxbusy"
    /\ dma.left = 0
    /\ pc' = "guest"
    /\ UNCHANGED <<rxVars, txVars>>
-----------------------------------------------------------------------------
(***************************************************************************)
(* send_frame: the frame is copied to the one transmit buffer first, then  *)
(* en_ll_output looks at its size and waits for the transmission under     *)
(* way. A frame it does not send has been copied all the same. One that is *)
(* longer than tx_buf overruns it; what that does to the memory behind     *)
(* the buffer is left out.                                                 *)
(***************************************************************************)

send_frame(f) ==
    /\ pc = "guest"
    /\ pc' = "txcopy"
    /\ sending' = f
    /\ UNCHANGED <<rxVars, tx_buf, tx_desc, txrts, txcur, wire, refused>>

\* The size en_ll_output gets to see.
Length(f) == f.size % SIZE_RANGE

\* The end of memcpy, and the test of the size.
FrameCopied ==
    /\ pc = "txcopy"
    /\ tx_buf' = [k \in 1 .. MTU |-> IF k <= sending.size THEN sending.id ELSE tx_buf[k]]
    /\ \/ /\ Length(sending) \in 1 .. MTU
          /\ pc' = "txwait"
          /\ UNCHANGED <<sending, refused>>
       \/ /\ Length(sending) \notin 1 .. MTU
          /\ pc' = "guest"
          /\ sending' = NoFrame
          /\ refused' = IF sending.size = 0 THEN refused ELSE refused \cup {sending.id}
    /\ UNCHANGED <<rxVars, tx_desc, txrts, txcur, wire>>

StartTransmitter ==
    /\ tx_desc' = TRUE
    /\ txrts' = TRUE
    /\ txcur' = [sending EXCEPT !.size = Length(sending)]
    /\ wire' = <<>>
    /\ refused' = {}
    /\ pc' = "guest"
    /\ sending' = NoFrame
    /\ UNCHANGED <<rxVars, tx_buf>>

en_ll_output_gives_up ==
    /\ pc = "txwait"
    /\ \/ ~ txrts /\ StartTransmitter
       \/ /\ txrts /\ pc' = "guest" /\ sending' = NoFrame
          /\ UNCHANGED <<rxVars, tx_buf, tx_desc, txrts, txcur, wire, refused>>

en_ll_output_waits_for_start ==
    /\ pc = "txwait"
    /\ IF txrts THEN StartTransmitter ELSE UNCHANGED ethVars

en_ll_output ==
    /\ pc = "txwait"
    /\ ~ txrts
    /\ StartTransmitter
-----------------------------------------------------------------------------
(***************************************************************************)
(* The controller.                                                         *)
(***************************************************************************)

\* The descriptor of piece k of the frame that starts at dma.next.
DmaIndex(k) == (dma.next + k - 1) % RX_DESCRIPTORS

\* A frame arrives and the controller owns enough descriptors to store it.
RxFrame(f) ==
    /\ rxen
    /\ dma.left = 0
    /\ \A k \in 1 .. PieceCount(f.size) : ring[DmaIndex(k)] = NicOwned
    /\ dma' = [dma EXCEPT !.id = f.id, !.size = f.size, !.left = PieceCount(f.size)]
    /\ UNCHANGED <<pc, ring, receive_index, rd, is_up, rxen, handed, txVars>>

\* A descriptor of the finished frame is handed back, the first one last.
RxWriteBack ==
    /\ dma.left > 0
    /\ ring' = [ring EXCEPT ![DmaIndex(dma.left)] =
                    [id |-> dma.id, size |-> dma.size, k |-> dma.left]]
    /\ dma' = IF dma.left = 1
              THEN [IdleDma EXCEPT !.next = DmaIndex(PieceCount(dma.size) + 1)]
              ELSE [dma EXCEPT !.left = @ - 1]
    /\ UNCHANGED <<pc, receive_index, rd, is_up, rxen, handed, txVars>>

\* The transmit engine fetches the descriptor before the first word; one that
\* was taken away ends the transmission with nothing sent.
TxNothing ==
    /\ txrts
    /\ wire = <<>> /\ ~ tx_desc
    /\ txrts' = FALSE
    /\ UNCHANGED <<pc, rxVars, sending, tx_buf, tx_desc, txcur, wire, refused>>

\* What the controller finds in word k of the buffer; while memcpy runs, it may
\* have been there or not.
Found(k) ==
    {tx_buf[k]} \cup IF pc = "txcopy" /\ k <= sending.size THEN {sending.id} ELSE {}

\* The next word is read from the buffer; after the last one of the frame the
\* descriptor goes back and TXRTS is cleared.
TxWord ==
    /\ txrts
    /\ wire # <<>> \/ tx_desc
    /\ \E w \in Found(Len(wire) + 1) : wire' = Append(wire, w)
    /\ txrts' = (Len(wire) + 1 < txcur.size)
    /\ tx_desc' = (tx_desc /\ txrts')
    /\ UNCHANGED <<pc, rxVars, sending, tx_buf, txcur, refused>>
-----------------------------------------------------------------------------
Frame == [id : FrameId, size : FrameSize]

Software ==
    \/ ReceiveNothing \/ ReceiveStart \/ CopyDescriptor \/ FreeDescriptor
    \/ en_watchdog \/ ReceiverStopped
    \/ (\E f \in Outgoing : send_frame(f)) \/ FrameCopied \/ en_ll_output

Controller == (\E f \in Frame : RxFrame(f)) \/ RxWriteBack \/ TxNothing \/ TxWord

EthNext == Software \/ Controller

\* A hypercall goes on while it is not waiting for the controller, and the
\* controller finishes what it has begun.
EthFairness ==
    /\ WF_ethVars(CopyDescriptor \/ FreeDescriptor \/ ReceiverStopped \/ FrameCopied
                    \/ en_ll_output)
    /\ WF_ethVars(RxWriteBack)
    /\ WF_ethVars(TxNothing \/ TxWord)

EthSpec == EthInit /\ [][EthNext]_ethVars /\ EthFairness
-----------------------------------------------------------------------------
Copies == UNION {[1 .. n -> FrameId \X (1 .. RX_DESCRIPTORS)] : n \in 0 .. RX_DESCRIPTORS}

\* Indices stay inside the ring and the statics inside the frame.
EthTypeOK ==
    /\ pc \in {"guest", "copy", "free", "rxbusy", "txcopy", "txwait"}
    /\ ring \in [Index -> Piece \cup {NicOwned}]
    /\ receive_index \in Index
    /\ rd \in [index : Index, size : FrameSize \cup {0}, frame_size : FrameSize \cup Nat,
               read_nbytes : Nat, data : Copies]
    /\ is_up \in BOOLEAN /\ rxen \in BOOLEAN
    /\ dma \in [next : Index, id : FrameId \cup {0}, size : FrameSize \cup {0},
                left : 0 .. RX_DESCRIPTORS]
    /\ handed \in [size : FrameSize \cup {0}, data : Copies]
    /\ tx_buf \in [1 .. MTU -> SendId \cup {0}] /\ sending \in Outgoing \cup {NoFrame}
    /\ txcur \in [id : SendId \cup {0}, size : 0 .. MTU]
    /\ txrts \in BOOLEAN /\ tx_desc \in BOOLEAN /\ refused \subseteq SendId
    /\ wire \in Seq(SendId) /\ Len(wire) <= txcur.size

\* The descriptors software owns, from receive_index on.
RunLength ==
    Cardinality({l \in 1 .. RX_DESCRIPTORS :
        \A j \in 0 .. (l - 1) : ring[(receive_index + j) % RX_DESCRIPTORS] # NicOwned})

Run == [j \in 1 .. RunLength |-> ring[(receive_index + j - 1) % RX_DESCRIPTORS]]

\* The driver's position and the controller's never drift apart, whatever the
\* link does and while descriptors are given back under the controller's eyes:
\* the pieces software owns end where the controller writes next, and they
\* follow each other frame by frame (en_ll_input lines 474-511, en_setup_dma).
RingInSync ==
    /\ dma.next = (receive_index + RunLength) % RX_DESCRIPTORS
    /\ \A j \in 1 .. RunLength :
          /\ j = 1 => Run[j].k = 1 \/ pc = "free"
          /\ j > 1 => IF DESC_EOP(Run[j - 1]) THEN Run[j].k = 1
                      ELSE Run[j] = [Run[j - 1] EXCEPT !.k = @ + 1]
          /\ j = RunLength => DESC_EOP(Run[j])

\* send_frame copies before en_ll_output tests the size and waits (lines 92, 532
\* and 533), so a frame on the wire may be torn: by the one frame that waits, in
\* the words that one is long, which has not started yet itself; and by frames
\* that are refused, copied and never waited for. Nothing else is ever sent in
\* its place, and the buffer holds the frame until one of these is copied.
TornByNextOnly ==
    /\ \A k \in 1 .. Len(wire) :
          \/ wire[k] = txcur.id \/ wire[k] \in refused
          \/ k <= sending.size /\ wire[k] = sending.id
    /\ \A k \in 1 .. txcur.size :
          \/ tx_buf[k] = txcur.id \/ tx_buf[k] \in refused
          \/ pc = "txwait" /\ k <= sending.size /\ tx_buf[k] = sending.id

\* Every hypercall of the driver ends, those that wait for the controller
\* without a limit too (lines 533 and 602).
CallReturns == (pc # "guest") ~> (pc = "guest")

\* The phases of a call still to come.
Phases == [copy |-> 2, free |-> 1, rxbusy |-> 1, txcopy |-> 2, txwait |-> 1, guest |-> 0]

\* In its phase: turns of the loop, or what the controller has still to do.
WorkLeft ==
    CASE pc = "copy" -> RX_DESCRIPTORS - Len(rd.data)
      [] pc = "free" -> PieceCount(ring[receive_index].size) - ring[receive_index].k
      [] pc = "rxbusy" -> dma.left
      [] pc = "txwait" /\ txrts -> txcur.size - Len(wire)
      [] OTHER -> 0

\* A call never goes back, and the controller never adds to what it waits for: each
\* turn of a loop brings its end nearer, while frames arrive in the ring, and no
\* frame is begun after RXEN is cleared or TXRTS set (lines 474-511, 533, 602).
\* What changes nothing of this is no step of the driver.
CallAdvances ==
    [][pc # "guest" =>
          \/ Phases[pc'] < Phases[pc]
          \/ pc' = pc /\ WorkLeft' < WorkLeft
          \/ /\ pc' = pc /\ WorkLeft' = WorkLeft
             /\ UNCHANGED <<receive_index, rd, is_up, rxen, handed, sending, tx_buf, txcur>>
      ]_ethVars

\* The descriptor j places behind the oldest one.
Behind(j) == ring[(receive_index + j) % RX_DESCRIPTORS]

\* A frame waits there: its first piece, and software owns all there is before.
FrameWaits(j) == Behind(j).k = 1 /\ \A l \in 0 .. j : Behind(l) # NicOwned

\* The member of a set of numbers that has i members up to it.
Nth(S, i) == CHOOSE j \in S : Cardinality({l \in S : l <= j}) = i

\* The frames in the ring, seen as the queue of FrameQueue.
QueuedFrames ==
    LET waiting == {j \in Index : FrameWaits(j)}
    IN  [i \in 1 .. Cardinality(waiting) |->
            LET p == Behind(Nth(waiting, i)) IN [id |-> p.id, size |-> p.size]]

Queue == INSTANCE FrameQueue WITH queue <- QueuedFrames

\* Receiving behaves like FrameQueue: frames come out in order, each once, with
\* their size and exactly the pieces that FrameQueue says are copied; only the
\* restart of the ring discards frames (en_ll_input, en_watchdog).
ImplementsQueue == Queue!QueueSpec

\* A frame that is handed over is handed over whole: "a raw ethernet frame is
\* fetched from the reception buffer [...] and copied to the application buffer"
\* (lines 450-451).
HandedWhole == Len(handed.data) = PieceCount(handed.size)
=============================================================================
