--------------------------- MODULE MessageChannel ---------------------------
(***************************************************************************)
(* What inter-VM communication promises: every VM has one inbox, a bounded *)
(* FIFO queue.  An accepted message is stored once, carries its sender,    *)
(* and stays until the receiver gets it, in the order of acceptance.  A    *)
(* sender is told its size if and only if the message was accepted, and    *)
(* "full" only when the queue holds a guaranteed number of messages.  It  *)
(* has two weaknesses: what a VM was sent before it is up may be           *)
(* discarded, oldest first; and its inbox may be spoilt then, after which  *)
(* nothing is promised of it, while all others are as good as before.      *)
(* InterVM.tla (the hypervisor's ring, the guest library's ring and the    *)
(* interrupt that moves messages between them) implements it.              *)
(***************************************************************************)
EXTENDS Integers, Sequences

CONSTANTS VM,         \* ids of the virtual machines
          Message,    \* records with a source_id
          Capacity,   \* messages an inbox can hold
          Guaranteed, \* messages an inbox holds before any is refused as full
          Error,      \* answers to a refused send
          Full,       \* the one for a full inbox
          Truncate(_),  \* a message cut to the receiver's buffer
          NoMessage   \* what received[v] is before the first receive

VARIABLES inbox,      \* inbox[v]: accepted for v, not yet received
          received,   \* received[v]: the message v received last
          reply,      \* reply[v]: the answer to the last send of v
          up,         \* up[v]: v has finished its start-up
          spoilt      \* the VMs whose inbox promises nothing any more

channelVars == <<inbox, received, reply, up, spoilt>>

ChannelInit ==
  /\ inbox = [v \in VM |-> <<>>]
  /\ received = [v \in VM |-> NoMessage]
  /\ reply = [v \in VM |-> 0]
  /\ up \in [VM -> BOOLEAN]
  /\ spoilt = {}

\* A spoilt inbox takes messages too, and nobody knows what becomes of them.
Accept ==
  /\ \E v \in VM, m \in Message :
       /\ m.source_id \in VM
       /\ IF v \in spoilt THEN UNCHANGED inbox
          ELSE /\ Len(inbox[v]) < Capacity
               /\ inbox' = [inbox EXCEPT ![v] = Append(@, m)]
       /\ reply' = [reply EXCEPT ![m.source_id] = m.size]
  /\ UNCHANGED <<received, up, spoilt>>

Refuse ==
  /\ \E s \in VM, e \in Error :
       /\ e = Full => \E v \in VM : v \in spoilt \/ Len(inbox[v]) >= Guaranteed
       /\ reply' = [reply EXCEPT ![s] = e]
  /\ UNCHANGED <<inbox, received, up, spoilt>>

Receive ==
  \E v \in VM :
    /\ inbox[v] # <<>>
    /\ received' = [received EXCEPT ![v] = Truncate(Head(inbox[v]))]
    /\ inbox' = [inbox EXCEPT ![v] = Tail(@)]
    /\ up[v]
    /\ UNCHANGED <<reply, up, spoilt>>

\* A VM whose inbox is spoilt receives whatever it finds.
ReceiveSpoilt ==
  \E v \in spoilt :
    /\ up[v]
    /\ received' = [received EXCEPT ![v] = received'[v]]
    /\ UNCHANGED <<inbox, reply, up, spoilt>>

\* Before a VM is up: the first k messages of its inbox are discarded.
Discard ==
  \E v \in VM, k \in 0..Capacity :
    /\ ~up[v]
    /\ k <= Len(inbox[v])
    /\ inbox' = [inbox EXCEPT ![v] = SubSeq(@, k + 1, Len(@))]
    /\ UNCHANGED <<received, reply, up, spoilt>>

\* Before a VM is up: its inbox is spoilt.
Spoil ==
  \E v \in VM :
    /\ ~up[v]
    /\ spoilt' = spoilt \cup {v}
    /\ inbox' = [inbox EXCEPT ![v] = <<>>]
    /\ UNCHANGED <<received, reply, up>>

Start ==
  \E v \in VM :
    /\ ~up[v]
    /\ up' = [up EXCEPT ![v] = TRUE]
    /\ UNCHANGED <<inbox, received, reply, spoilt>>

ChannelNext ==
  Accept \/ Refuse \/ Receive \/ ReceiveSpoilt \/ Discard \/ Spoil \/ Start

ChannelSpec == ChannelInit /\ [][ChannelNext]_channelVars
=============================================================================
