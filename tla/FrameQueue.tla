----------------------------- MODULE FrameQueue -----------------------------
(***************************************************************************)
(* What the receive side of the Ethernet driver gives a guest: frames that *)
(* arrive wait in order, and each receive call takes the oldest one, or    *)
(* nothing when the link is down or no frame waits. A frame is its pieces, *)
(* one for each receive buffer. The call reports the size of the frame,    *)
(* but of a frame whose size is a multiple of two buffers it only copies   *)
(* the first half.                                                         *)
(***************************************************************************)
EXTENDS Naturals, Sequences

CONSTANTS
    FrameId,            \* what tells one frame from another
    FrameSize,          \* the sizes of frames, in bytes
    RX_BYTES_PER_DESC   \* bytes in one receive buffer

VARIABLES
    queue,   \* frames received and not handed over, oldest first
    is_up,   \* whether the link is up
    handed   \* what the last receive call gave: a size and the pieces copied

queueVars == <<queue, is_up, handed>>

Frame == [id : FrameId, size : FrameSize]

PieceCount(size) == (size + RX_BYTES_PER_DESC - 1) \div RX_BYTES_PER_DESC

\* Whether half of a frame ends where a buffer ends.
SplitsInHalf(size) == size % (2 * RX_BYTES_PER_DESC) = 0

PiecesCopied(size) ==
    IF SplitsInHalf(size) THEN PieceCount(size) \div 2 ELSE PieceCount(size)

Nothing == [size |-> 0, data |-> <<>>]

Copy(f) == [size |-> f.size,
            data |-> [k \in 1 .. PiecesCopied(f.size) |-> <<f.id, k>>]]

QueueInit ==
    /\ queue = <<>>
    /\ is_up = FALSE
    /\ handed = Nothing

Arrive ==
    /\ \E f \in Frame : queue' = Append(queue, f)
    /\ UNCHANGED <<is_up, handed>>

HandOver ==
    /\ is_up
    /\ queue # <<>>
    /\ handed' = Copy(Head(queue))
    /\ queue' = Tail(queue)
    /\ UNCHANGED is_up

HandNothing ==
    /\ ~ is_up \/ queue = <<>>
    /\ handed' = Nothing
    /\ UNCHANGED <<queue, is_up>>

\* The ring is built anew when the link comes up: what it held is discarded.
LinkUp ==
    /\ ~ is_up
    /\ is_up' = TRUE
    /\ queue' = <<>>
    /\ UNCHANGED handed

LinkDown ==
    /\ is_up
    /\ is_up' = FALSE
    /\ UNCHANGED <<queue, handed>>

QueueNext == Arrive \/ HandOver \/ HandNothing \/ LinkUp \/ LinkDown

QueueSpec == QueueInit /\ [][QueueNext]_queueVars
=============================================================================
