------------------------------ MODULE InterVM -------------------------------
(***************************************************************************)
(* Inter-VM communication: the hypercalls of drivers/inter-vm-comm.c, the  *)
(* guest library bare-metal-apps/lib/network.c with its interrupt handler, *)
(* and the part of the context switch that carries GUEST_INTERVM_INT.  A   *)
(* hypercall is one step.  Guests are preempted between any two steps, by  *)
(* the dispatch policy that scheduler.c implements.                        *)
(***************************************************************************)
EXTENDS DispatchPolicy, Integers, Sequences

CONSTANTS MESSAGELIST_SZ,   \* slots of a ring, the same in both rings
          MESSAGE_SZ,       \* largest message
          Sizes,            \* sizes guests pass to SendMessage
          BufSize,          \* buffer size guests pass to ReceiveMessage
          Senders,          \* VMs that send
          Targets,          \* target ids they use, valid or not
          Window,           \* unreceived messages at which senders hold back
          IdMod,            \* messages are numbered modulo IdMod
          ColdStart         \* start at power-on, or with every guest in main

ASSUME InterVMAssumption ==
  /\ MESSAGELIST_SZ \in Nat \ {0}
  /\ MESSAGE_SZ \in Nat /\ BufSize \in Nat
  /\ Sizes \subseteq Nat
  /\ Senders \subseteq VM /\ Targets \subseteq Nat
  /\ Window \in Nat /\ IdMod \in Nat \ {0}
  /\ ColdStart \in BOOLEAN

VARIABLES init,          \* vcpu->init
          messages,      \* vcpu->messages: the hypervisor's ring of each VM
          guestclt2,     \* vcpu->guestclt2 has GUEST_INTERVM_INT
          GuestCTL2,     \* hardware GRIPL has GUEST_INTERVM_INT
          message_list,  \* the ring in each guest's network library
          pc,            \* where each guest is
          isr,           \* isr[v]: v is in the loop of irq_network
          cleared,       \* how many parts of v's ring its memset has cleared
          spoilt,        \* history: VMs that stored a message where memset was
                         \* still to come
          ret,           \* ret[v]: what v's last SendMessage returned
          received,      \* received[v]: what v's last ReceiveMessage returned
          serial         \* number of the next message

ivVars == <<running, turn, lent, init, messages, guestclt2, GuestCTL2,
            message_list, pc, isr, cleared, spoilt, ret, received, serial>>

\* Return values (vcpu.h, network.h).
MESSAGE_VCPU_NOT_FOUND == -1
MESSAGE_FULL == -2
MESSAGE_TOO_BIG == -3
MESSAGE_EMPTY == -4
MESSAGE_VCPU_NOT_INIT == -5

SendErrors == {MESSAGE_VCPU_NOT_FOUND, MESSAGE_FULL, MESSAGE_TOO_BIG, MESSAGE_VCPU_NOT_INIT}

NoMessage == [source_id |-> 0, size |-> 0, id |-> 0]

\* A message as a ring slot holds it; size is MESSAGE_EMPTY in a slot that
\* irq_network wrote when the hypervisor's ring was empty.
Message == [source_id : VM, size : Sizes, id : 0..(IdMod - 1)]

Slot == 0..(MESSAGELIST_SZ - 1)

EmptyRing ==
  [in |-> 0, out |-> 0, num_messages |-> 0, list |-> [s \in Slot |-> NoMessage]]

\* Store a message in slot in and advance.
Put(ring, m) ==
  [ring EXCEPT !.list[ring.in] = m,
               !.num_messages = @ + 1,
               !.in = (@ + 1) % MESSAGELIST_SZ]

\* A plausible bug: the slot is given back but out stays where it was.
Drop_forgets_out(ring) == [ring EXCEPT !.num_messages = @ - 1]

\* Free the slot at out.
Drop(ring) ==
  [ring EXCEPT !.num_messages = @ - 1, !.out = (@ + 1) % MESSAGELIST_SZ]

First(ring) == ring.list[ring.out]

\* The messages a ring holds, oldest first.
Contents(ring) ==
  [k \in 1..ring.num_messages |-> ring.list[(ring.out + k - 1) % MESSAGELIST_SZ]]

\* memset goes through message_list_t from its lowest address: in, out,
\* num_messages, then the slots.
Parts == MESSAGELIST_SZ + 3

\* A ring after memset has cleared part k of it.
Zeroed(ring, k) ==
  CASE k = 0 -> [ring EXCEPT !.in = 0]
    [] k = 1 -> [ring EXCEPT !.out = 0]
    [] k = 2 -> [ring EXCEPT !.num_messages = 0]
    [] OTHER -> [ring EXCEPT !.list[k - 3] = NoMessage]

\* v is inside memset, at a place where a message stored now is zeroed
\* afterwards, or counted in a counter that is.
Spoils(v) ==
  pc[v] = "registered" /\ cleared[v] # 0 /\ message_list[v].in + 3 >= cleared[v]

\* in is cleared and num_messages is not.
HalfCleared(v) == cleared[v] \in {1, 2}

\* What the library's ring keeps: memset has given up all of it with in.
Kept(v) == IF HalfCleared(v) THEN <<>> ELSE Contents(message_list[v])

\* Everything accepted for v and not yet received, unless memset has spoilt it.
Inbox(v) == IF v \in spoilt THEN <<>> ELSE Kept(v) \o Contents(messages[v])

-----------------------------------------------------------------------------
IVInit ==
  /\ PolicyInit
  /\ init = [v \in VM |-> ColdStart]
  /\ messages = [v \in VM |-> EmptyRing]
  /\ guestclt2 = [v \in VM |-> FALSE]
  /\ GuestCTL2 = FALSE
  /\ message_list = [v \in VM |-> EmptyRing]
  /\ pc = [v \in VM |-> IF ColdStart THEN "boot" ELSE "main"]
  /\ isr = [v \in VM |-> FALSE]
  /\ cleared = [v \in VM |-> IF ColdStart THEN 0 ELSE Parts]
  /\ spoilt = {}
  /\ ret = [v \in VM |-> 0]
  /\ received = [v \in VM |-> NoMessage]
  /\ serial = 0

\* contextSave of the VM in execution and contextRestore of the next.
dispatch ==
  /\ PolicyNext
  /\ LET saved == [v \in VM |-> guestclt2[v] \/ (v = running /\ ~init[v] /\ GuestCTL2)]
     IN  /\ GuestCTL2' = saved[running']
         /\ guestclt2' = [saved EXCEPT ![running'] = FALSE]
  /\ init' = [init EXCEPT ![running'] = FALSE]
  /\ UNCHANGED <<messages, message_list, pc, isr, cleared, spoilt, ret, received, serial>>

\* A guest runs code outside its interrupt handler.
InThread(v) == running = v /\ ~isr[v]

\* Start-up code (crt0.s): init_proc ends with ei, then init_network
\* registers irq_network, then it clears the library's ring with a memset
\* that the handler interrupts wherever it wants.
init_proc(v) ==
  /\ InThread(v) /\ pc[v] = "boot"
  /\ pc' = [pc EXCEPT ![v] = "enabled"]
  /\ UNCHANGED <<running, turn, lent, init, messages, guestclt2, GuestCTL2,
                 message_list, isr, cleared, spoilt, ret, received, serial>>

init_network_register(v) ==
  /\ InThread(v) /\ pc[v] = "enabled"
  /\ pc' = [pc EXCEPT ![v] = "registered"]
  /\ UNCHANGED <<running, turn, lent, init, messages, guestclt2, GuestCTL2,
                 message_list, isr, cleared, spoilt, ret, received, serial>>

init_network_clear(v) ==
  /\ InThread(v) /\ pc[v] = "registered"
  /\ message_list' = [message_list EXCEPT ![v] = Zeroed(@, cleared[v])]
  /\ cleared' = [cleared EXCEPT ![v] = @ + 1]
  /\ pc' = IF cleared'[v] = Parts THEN [pc EXCEPT ![v] = "main"] ELSE pc
  /\ UNCHANGED <<running, turn, lent, init, messages, guestclt2, GuestCTL2,
                 isr, spoilt, ret, received, serial>>

-----------------------------------------------------------------------------
\* A send the hypervisor refuses: the checks in their order.
SendError(t, size) ==
  CASE size > MESSAGE_SZ -> MESSAGE_TOO_BIG
    [] size <= MESSAGE_SZ /\ t \notin VM -> MESSAGE_VCPU_NOT_FOUND
    [] size <= MESSAGE_SZ /\ t \in VM /\ init[t] -> MESSAGE_VCPU_NOT_INIT
    [] OTHER -> MESSAGE_FULL

\* A plausible bug: the full test compares with the wrong bound.
Accepts_one_too_many(t, size) ==
  /\ size <= MESSAGE_SZ
  /\ t \in VM
  /\ ~init[t]
  /\ messages[t].num_messages <= MESSAGELIST_SZ

\* A send the hypervisor takes.
Accepts(t, size) ==
  /\ size <= MESSAGE_SZ
  /\ t \in VM
  /\ ~init[t]
  /\ messages[t].num_messages # MESSAGELIST_SZ

intervm_send_msg(v, t, size) ==
  \/ /\ Accepts(t, size)
     /\ messages' = [messages EXCEPT ![t] =
                       Put(@, [source_id |-> v, size |-> size, id |-> serial])]
     /\ guestclt2' = [guestclt2 EXCEPT ![t] = TRUE]
     /\ ret' = [ret EXCEPT ![v] = size]
     /\ serial' = (serial + 1) % IdMod
  \/ /\ ~Accepts(t, size)
     /\ ret' = [ret EXCEPT ![v] = SendError(t, size)]
     /\ guestclt2' = IF SendError(t, size) = MESSAGE_FULL
                       THEN [guestclt2 EXCEPT ![t] = TRUE] ELSE guestclt2
     /\ UNCHANGED <<messages, serial>>

SendMessage(v) ==
  /\ InThread(v) /\ pc[v] = "main" /\ v \in Senders
  /\ \E t \in Targets, size \in Sizes :
       /\ t \in VM => Len(Inbox(t)) < Window
       /\ intervm_send_msg(v, t, size)
  /\ UNCHANGED <<running, turn, lent, init, GuestCTL2, message_list, pc, isr, cleared, spoilt,
                 received>>

\* A message that does not fit the buffer is cut.
Truncated(m) == [m EXCEPT !.size = IF @ > BufSize THEN BufSize ELSE @]

\* ReceiveMessage with a message in the ring: with interrupts disabled, copy
\* the oldest, truncated to the buffer, and free its slot.
TakeFirst(v) ==
  /\ message_list[v].num_messages # 0
  /\ received' = [received EXCEPT ![v] =
                    Truncated(First(message_list[v]))]
  /\ message_list' = [message_list EXCEPT ![v] = Drop(@)]
  /\ pc' = [pc EXCEPT ![v] = "main"]

\* Called with a message there, or spinning in the blocking call until one is.
ReceiveMessage(v) ==
  /\ InThread(v) /\ pc[v] \in {"main", "blocked"}
  /\ TakeFirst(v)
  /\ UNCHANGED <<running, turn, lent, init, messages, guestclt2, GuestCTL2,
                 isr, cleared, spoilt, ret, serial>>

\* Called with an empty ring and block: spins with interrupts enabled.
ReceiveBlocks(v) ==
  /\ InThread(v) /\ pc[v] = "main"
  /\ message_list[v].num_messages = 0
  /\ pc' = [pc EXCEPT ![v] = "blocked"]
  /\ UNCHANGED <<running, turn, lent, init, messages, guestclt2, GuestCTL2,
                 message_list, isr, cleared, spoilt, ret, received, serial>>

\* The guest takes GUEST_INTERVM_INT.  Without a registered handler it is
\* dropped; irq_network returns at once when the library's ring is full.
TakeInterrupt(v) ==
  /\ InThread(v) /\ GuestCTL2
  /\ pc[v] # "boot"
  /\ GuestCTL2' = FALSE
  /\ isr' = [isr EXCEPT ![v] =
               pc[v] # "enabled" /\ message_list[v].num_messages # MESSAGELIST_SZ]
  /\ UNCHANGED <<running, turn, lent, init, messages, guestclt2,
                 message_list, pc, cleared, spoilt, ret, received, serial>>

\* A plausible bug: an empty message is taken for an empty queue.
Stored_skips_empty(ring, m) == IF m.size = 0 THEN ring ELSE Put(ring, m)

\* The library's ring with a fetched message in it.
Stored(ring, m) == Put(ring, m)

\* A plausible bug: the handler fetches one message for each interrupt.
LoopsOn_once(ring, size) == FALSE

\* The loop of irq_network goes on after a message of this size.
LoopsOn(ring, size) == size # 0 /\ ring.num_messages < MESSAGELIST_SZ

\* One iteration of irq_network: the intervm_recv_msg hypercall, and the
\* message stored in the library's ring.
irq_network(v) ==
  /\ running = v /\ isr[v]
  /\ \/ /\ messages[v].num_messages = 0
        /\ message_list' = [message_list EXCEPT
                              ![v].list[message_list[v].in].size = MESSAGE_EMPTY]
        /\ isr' = [isr EXCEPT ![v] = FALSE]
        /\ UNCHANGED <<messages, spoilt>>
     \/ /\ messages[v].num_messages # 0
        /\ message_list' = [message_list EXCEPT ![v] = Stored(@, First(messages[v]))]
        /\ messages' = [messages EXCEPT ![v] = Drop(@)]
        /\ spoilt' = IF Spoils(v) THEN spoilt \cup {v} ELSE spoilt
        /\ isr' = [isr EXCEPT ![v] =
                     LoopsOn(message_list'[v], First(messages[v]).size)]
  /\ UNCHANGED <<running, turn, lent, init, guestclt2, GuestCTL2, pc, cleared, ret, received,
                 serial>>

GuestStep(v) ==
  \/ init_proc(v) \/ init_network_register(v) \/ init_network_clear(v)
  \/ SendMessage(v) \/ ReceiveMessage(v) \/ ReceiveBlocks(v)
  \/ TakeInterrupt(v) \/ irq_network(v)

IVNext == dispatch \/ \E v \in VM : GuestStep(v)

\* The policy's turns never cease; a guest that is dispatched again and
\* again gets on with its start-up, its interrupts and a receive it blocks
\* in.  Nothing forces a guest to send or to call ReceiveMessage.
IVFairness ==
  /\ WF_ivVars(Turn /\ dispatch)
  /\ \A v \in VM :
       /\ SF_ivVars(init_proc(v) \/ init_network_register(v) \/ init_network_clear(v))
       /\ SF_ivVars(TakeInterrupt(v))
       /\ SF_ivVars(irq_network(v))
       /\ SF_ivVars(pc[v] = "blocked" /\ ReceiveMessage(v))

IVSpec == IVInit /\ [][IVNext]_ivVars /\ IVFairness

-----------------------------------------------------------------------------
RingOK(ring) ==
  /\ ring.in \in Slot /\ ring.out \in Slot
  /\ ring.num_messages \in 0..MESSAGELIST_SZ
  /\ DOMAIN ring.list = Slot

IVTypeOK ==
  /\ PolicyTypeOK
  /\ init \in [VM -> BOOLEAN] /\ isr \in [VM -> BOOLEAN]
  /\ guestclt2 \in [VM -> BOOLEAN] /\ GuestCTL2 \in BOOLEAN
  /\ \A v \in VM : RingOK(messages[v]) /\ RingOK(message_list[v])
  /\ pc \in [VM -> {"boot", "enabled", "registered", "main", "blocked"}]
  /\ \A v \in VM : ret[v] \in Sizes \cup SendErrors \cup {0}
  /\ cleared \in [VM -> 0..Parts] /\ spoilt \subseteq VM
  /\ serial \in 0..(IdMod - 1)

\* in, out and num_messages are three counters kept by hand in two places;
\* they describe the same ring: in is num_messages slots after out.  The
\* hypervisor's ring always; a library's ring except while its memset is
\* between in and num_messages, and for good if a message was stored where
\* memset had still to come.
RingsConsistent ==
  \A v \in VM :
    \A ring \in {messages[v]}
                 \cup IF HalfCleared(v) \/ v \in spoilt THEN {} ELSE {message_list[v]} :
      ring.in = (ring.out + ring.num_messages) % MESSAGELIST_SZ

\* The two rings and the interrupt between them are one FIFO inbox for each
\* VM: nothing accepted is lost, repeated, reordered or given to another VM,
\* and the sender's return value says which messages were accepted.  Two
\* exceptions: init_network clears a ring that irq_network may have filled,
\* and nothing is promised of a VM whose memset met a message.
Channel == INSTANCE MessageChannel WITH
  Capacity <- 2 * MESSAGELIST_SZ,
  Guaranteed <- MESSAGELIST_SZ,
  Error <- SendErrors,
  Full <- MESSAGE_FULL,
  Truncate <- Truncated,
  inbox <- [v \in VM |-> Inbox(v)],
  reply <- ret,
  up <- [v \in VM |-> pc[v] \in {"main", "blocked"}]

ImplementsChannel == Channel!ChannelSpec

\* No silent backlog: while the hypervisor holds messages for a VM, the VM
\* is in its handler or an interrupt is pending that will bring it there.
BacklogIsAnnounced ==
  \A v \in VM :
    messages[v].num_messages # 0 =>
      isr[v] \/ guestclt2[v] \/ (running = v /\ GuestCTL2)

\* The user guide, 7.2: a blocking receive "will block the application until
\* a message is received".  A VM blocked in ReceiveMessage with a message in
\* its inbox gets it.
BlockedWakes ==
  \A v \in VM :
    (pc[v] = "blocked" /\ Inbox(v) # <<>>) ~> (pc[v] # "blocked")
=============================================================================
