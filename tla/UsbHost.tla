------------------------------ MODULE UsbHost ------------------------------
(***************************************************************************)
(* drivers/pic32mz-usb.c: the host driver finds a device, reads its        *)
(* descriptor and sends it one vendor request. The state machine is moved  *)
(* by the guest's polling hypercall and by the interrupt handler; neither  *)
(* interrupts the other.                                                   *)
(*                                                                         *)
(* External: the controller, the device and the supply. Endpoint 0 does    *)
(* what is outstanding in the order setup, data; each ends with EP0IF,     *)
(* with an error too. A setup packet discards what was received and not    *)
(* read. The driver looks neither at RXSTALL nor at ERROR.                 *)
(*                                                                         *)
(* A device sends what it likes: packets of any length, and any length and *)
(* packet size in its descriptor, which the driver believes. What a packet *)
(* that overruns descriptor_data does to the memory behind it is left out. *)
(***************************************************************************)
EXTENDS Integers

CONSTANTS
    DESCRIPTOR_SZ,  \* bytes in a device descriptor, and in descriptor_data
    SIZE_AT,        \* where in it the device states its packet size: 7
    MAX_PACKET,     \* packet size of a device that keeps to the standard
    Counts, Bytes,  \* lengths of other packets, and what bytes in them say
    MAX_REQUESTS    \* how often the request for the descriptor is repeated

ASSUME UsbAssumption ==
    /\ DESCRIPTOR_SZ \in Nat /\ SIZE_AT \in Nat /\ SIZE_AT < DESCRIPTOR_SZ
    /\ MAX_PACKET \in Nat /\ SIZE_AT < MAX_PACKET
    /\ Counts \subseteq Nat /\ Bytes \subseteq Nat
    /\ MAX_REQUESTS \in Nat

VARIABLES
    state,                 \* usb_status.state
    connected,             \* usb_status.connected
    descriptor_available,  \* usb_status.descriptor_available
    elapsed,               \* time since wait_debounce: 0, 1 (over 100 ms), 2 (over 500)
    request_count,         \* the static of update_state_machine
    descr,                 \* descriptor_data, sizes only
    transfer,              \* usb_transfer_status.state
    device,                \* a device is plugged in
    power,                 \* the supply is on
    interrupts,            \* USBCSR2.INTERRUPTS, cleared when read
    ep,                    \* what endpoint 0 has been asked to do
    ep0if,                 \* USBCSR0.EP0IF
    rx,                    \* the packet received and not read
    delivered,             \* bytes the device has sent since the last setup packet was due
    overdue,               \* a hypercall has run since the pending interrupt came
    faults                 \* history: a VBUS error, a connect and a disconnect served
                           \* at once, a failure or no answer of endpoint 0, a
                           \* packet no standard device sends, too many bytes

statusVars == <<state, connected, descriptor_available, elapsed>>
descrVars == <<request_count, descr>>
epVars == <<ep, ep0if, rx, delivered>>
usbVars == <<statusVars, descrVars, transfer, device, power, interrupts, epVars,
             overdue, faults>>

State == {"IDLE", "DEBOUNCE", "USB_RESET", "AFTER_RESET_DELAY", "HANDSHAKE",
          "REQUEST_DESCRIPTOR", "WAIT_TX_INT", "WAIT_DESCRIPTOR", "READ_DESCRIPTOR",
          "RUNNING", "VBUSERROR", "GENERALERROR"}

TransferState == {"IDLE", "START", "SENDING", "DONE"}

Fault == {"vbus", "coalesced", "ep0", "device", "overlong"}

\* A packet of n bytes, with what it says of the first byte of descriptor_data and
\* of the one at SIZE_AT when it is the first packet: memset's 0, as far as it does
\* not reach.
Packet(n, length, size) ==
    [count |-> n, length |-> IF n > 0 THEN length ELSE 0, size |-> IF n > SIZE_AT THEN size ELSE 0]

NoPacket == [count |-> 0, length |-> 0, size |-> 0]

EmptyDescr == [received |-> 0, descr_sz |-> 0, tranfer_sz |-> 0]

AtMost(m, n) == IF n <= m THEN n ELSE m

UsbInit ==
    /\ state = "IDLE"
    /\ connected = FALSE
    /\ descriptor_available = FALSE
    /\ elapsed = 0
    /\ request_count = 0
    /\ descr = EmptyDescr
    /\ transfer = "IDLE"
    /\ device = FALSE
    /\ power = TRUE
    /\ interrupts = {}
    /\ ep = {}
    /\ ep0if = FALSE
    /\ rx = NoPacket
    /\ delivered = 0
    /\ overdue = FALSE
    /\ faults = {}
-----------------------------------------------------------------------------
(***************************************************************************)
(* usb_int_handler: connect, disconnect, VBUS error and endpoint 0, in     *)
(* this order, whatever the order in which they happened.                  *)
(***************************************************************************)

InterruptPending == interrupts # {} \/ ep0if

AfterGeneral_keeps_flags ==
    [state |-> IF "VBUSERR" \in interrupts THEN "VBUSERROR"
               ELSE IF "DISCONN" \in interrupts THEN "IDLE"
               ELSE IF "CONN" \in interrupts THEN "DEBOUNCE" ELSE state,
     connected |-> "CONN" \in interrupts \/ connected,
     available |-> descriptor_available]

\* What the three general interrupts leave: the later assignment wins.
AfterGeneral ==
    [state |-> IF "VBUSERR" \in interrupts THEN "VBUSERROR"
               ELSE IF "DISCONN" \in interrupts THEN "IDLE"
               ELSE IF "CONN" \in interrupts THEN "DEBOUNCE" ELSE state,
     connected |-> IF {"DISCONN", "VBUSERR"} \cap interrupts # {} THEN FALSE
                   ELSE "CONN" \in interrupts \/ connected,
     available |-> descriptor_available /\ {"DISCONN", "VBUSERR"} \cap interrupts = {}]

AfterEP0(s) == IF ~ ep0if THEN s
               ELSE CASE s = "WAIT_TX_INT" -> "HANDSHAKE"
                      [] s = "WAIT_DESCRIPTOR" -> "READ_DESCRIPTOR"
                      [] OTHER -> s

TransferAfter_keeps == transfer

\* A disconnect ends the transfer. EP0IF moves it on in WAIT_TX_INT only, where it
\* never is.
TransferAfter == IF "DISCONN" \in interrupts THEN "IDLE" ELSE transfer

usb_int_handler ==
    /\ InterruptPending
    /\ state' = AfterEP0(AfterGeneral.state)
    /\ connected' = AfterGeneral.connected
    /\ descriptor_available' = AfterGeneral.available
    /\ elapsed' = IF "CONN" \in interrupts THEN 0 ELSE elapsed
    /\ transfer' = TransferAfter
    /\ interrupts' = {}
    /\ ep0if' = FALSE
    /\ overdue' = FALSE
    /\ faults' = IF {"CONN", "DISCONN"} \subseteq interrupts THEN faults \cup {"coalesced"}
                 ELSE faults
    /\ UNCHANGED <<descrVars, device, power, ep, rx, delivered>>
-----------------------------------------------------------------------------
(***************************************************************************)
(* update_state_machine, called by usb_polling unless the state is RUNNING.*)
(* Each action is one case of the switch. Every call ends with the test    *)
(* for overcurrent (over), which replaces the state that the switch chose, *)
(* and cuts the supply for good. In IDLE, VBUSERROR and WAIT_TX_INT the    *)
(* switch changes nothing the model keeps.                                 *)
(***************************************************************************)

calc_wait_time_longer(ms) == elapsed > ms

\* For 100 ms (1) and for 500 ms (2).
calc_wait_time(ms) == elapsed >= ms

MoveTo(s, new, over) ==
    /\ state' = IF over THEN "GENERALERROR" ELSE s
    /\ connected' = (connected /\ ~ over)
    /\ power' = (power /\ ~ over)
    /\ faults' = faults \cup new

Restamp == elapsed' = 0

Debounced(over) ==
    /\ state = "DEBOUNCE" /\ calc_wait_time(2)
    /\ MoveTo("USB_RESET", {}, over)
    /\ UNCHANGED <<descriptor_available, elapsed, descrVars, epVars>>

ResetDone(over) ==
    /\ state = "USB_RESET" /\ calc_wait_time(1)
    /\ MoveTo("AFTER_RESET_DELAY", {}, over)
    /\ Restamp
    /\ UNCHANGED <<descriptor_available, descrVars, epVars>>

Stable(over) ==
    /\ state = "AFTER_RESET_DELAY" /\ calc_wait_time(1)
    /\ MoveTo("REQUEST_DESCRIPTOR", {}, over)
    /\ UNCHANGED <<descriptor_available, elapsed, descrVars, epVars>>

setup_packet_send ==
    /\ ep' = ep \cup {"setup"}
    /\ rx' = NoPacket
    /\ delivered' = 0
    /\ UNCHANGED ep0if

RequestDescriptor(over) ==
    /\ state = "REQUEST_DESCRIPTOR"
    /\ MoveTo("WAIT_TX_INT", {}, over)
    /\ descr' = EmptyDescr
    /\ Restamp
    /\ setup_packet_send
    /\ UNCHANGED <<descriptor_available, request_count>>

\* The next packet is asked for.
RequestPacket == ep' = ep \cup {"in"} /\ UNCHANGED <<ep0if, delivered>>

Handshake(over) ==
    /\ state = "HANDSHAKE"
    /\ MoveTo("WAIT_DESCRIPTOR", {}, over)
    /\ Restamp
    /\ RequestPacket
    /\ UNCHANGED <<descriptor_available, descrVars, rx>>

GivesUp_late == request_count > MAX_REQUESTS

GivesUp == request_count >= MAX_REQUESTS

NoAnswer(over) ==
    /\ state = "WAIT_DESCRIPTOR" /\ calc_wait_time(2)
    /\ IF GivesUp
       THEN MoveTo("GENERALERROR", {}, over) /\ UNCHANGED request_count
       ELSE /\ MoveTo("REQUEST_DESCRIPTOR", {"ep0"}, over)
            /\ request_count' = request_count + 1
    /\ UNCHANGED <<descriptor_available, elapsed, descr, epVars>>

\* Until the descriptor has a length the packet tells it and the packet size.
SizedBy(packet) ==
    IF descr.descr_sz = 0
    THEN [descr EXCEPT !.descr_sz = packet.length, !.tranfer_sz = packet.size]
    ELSE descr

read_descriptor_one_packet ==
    LET received == descr.received + rx.count
    IN  [SizedBy(rx) EXCEPT !.received = received, !.descr_sz = received]

read_descriptor_waits_for_full ==
    [SizedBy(rx) EXCEPT !.received = @ + rx.count]

\* A packet that is not full ends the descriptor.
read_descriptor ==
    LET received == descr.received + rx.count
        sized == SizedBy(rx)
    IN  [sized EXCEPT
            !.received = received,
            !.descr_sz = IF rx.count < sized.tranfer_sz THEN received ELSE @]

ReadDescriptor(over) ==
    /\ state = "READ_DESCRIPTOR"
    /\ descr' = read_descriptor
    /\ rx' = NoPacket
    /\ \/ /\ descr'.received < descr'.descr_sz
          /\ MoveTo("WAIT_DESCRIPTOR", {}, over)
          /\ Restamp
          /\ RequestPacket
          /\ UNCHANGED descriptor_available
       \/ /\ descr'.received >= descr'.descr_sz
          /\ MoveTo("RUNNING", {}, over)
          /\ descriptor_available' = TRUE
          /\ UNCHANGED <<elapsed, ep, ep0if, delivered>>
    /\ UNCHANGED request_count

GeneralError(over) ==
    /\ state = "GENERALERROR"
    /\ MoveTo("GENERALERROR", {}, over)
    /\ request_count' = 0
    /\ UNCHANGED <<descriptor_available, elapsed, descr, epVars>>

Waits(over) ==
    /\ \/ state \in {"IDLE", "VBUSERROR", "WAIT_TX_INT"}
       \/ state \in {"DEBOUNCE", "WAIT_DESCRIPTOR"} /\ ~ calc_wait_time(2)
       \/ state \in {"USB_RESET", "AFTER_RESET_DELAY"} /\ ~ calc_wait_time(1)
    /\ MoveTo(state, {}, over)
    /\ UNCHANGED <<descriptor_available, elapsed, descrVars, epVars>>

update_state_machine(over) ==
    /\ \/ Debounced(over) \/ ResetDone(over) \/ Stable(over) \/ RequestDescriptor(over)
       \/ Handshake(over) \/ NoAnswer(over) \/ ReadDescriptor(over)
       \/ GeneralError(over) \/ Waits(over)
    /\ UNCHANGED <<transfer, device, interrupts>>
-----------------------------------------------------------------------------
(***************************************************************************)
(* update_transfer_state_machine, called by usb_polling in RUNNING, and    *)
(* the hypercall that starts a transfer. Its answer for a transfer under   *)
(* way is overwritten, so it restarts one at any time and in any state.    *)
(***************************************************************************)

StartTransfer ==
    /\ transfer = "START" /\ transfer' = "SENDING"
    /\ setup_packet_send
    /\ UNCHANGED elapsed

\* The request has 3 bytes, which fit one packet: nothing is left to wait for.
SendData ==
    /\ transfer = "SENDING" /\ transfer' = "DONE"
    /\ ep' = ep \cup {"out"}
    /\ Restamp
    /\ UNCHANGED <<ep0if, rx, delivered>>

TransferDone ==
    /\ transfer = "DONE" /\ transfer' = "IDLE"
    /\ UNCHANGED <<elapsed, epVars>>

update_transfer_state_machine ==
    /\ StartTransfer \/ SendData \/ TransferDone
    /\ UNCHANGED <<state, connected, descriptor_available, descrVars, device, power,
                   interrupts, faults>>

\* An interrupt that comes while a hypercall executes is taken when it ends, and
\* before the next one.
Hypercall == ~ overdue /\ overdue' = InterruptPending

usb_polling(over) ==
    /\ Hypercall
    /\ \/ state = "RUNNING" /\ update_transfer_state_machine
       \/ state # "RUNNING" /\ update_state_machine(over)

usb_send_data ==
    /\ Hypercall
    /\ transfer' = "START"
    /\ UNCHANGED <<statusVars, descrVars, device, power, interrupts, epVars, faults>>
-----------------------------------------------------------------------------
(***************************************************************************)
(* The controller, the device and time.                                    *)
(***************************************************************************)

driverVars == <<state, connected, descriptor_available, descrVars, transfer>>

\* What was outstanding ends with the session.
Plug ==
    /\ power /\ ~ device
    /\ device' = TRUE
    /\ interrupts' = interrupts \cup {"CONN"}
    /\ ep' = {}
    /\ UNCHANGED <<driverVars, elapsed, power, ep0if, rx, delivered, overdue, faults>>

Unplug ==
    /\ device
    /\ device' = FALSE
    /\ interrupts' = interrupts \cup {"DISCONN"}
    /\ ep' = {}
    /\ UNCHANGED <<driverVars, elapsed, power, ep0if, rx, delivered, overdue, faults>>

VbusError ==
    /\ interrupts' = interrupts \cup {"VBUSERR"}
    /\ faults' = faults \cup {"vbus"}
    /\ UNCHANGED <<driverVars, elapsed, device, power, epVars, overdue>>

SetupSent ==
    /\ device /\ "setup" \in ep
    /\ ep' = ep \ {"setup"}
    /\ ep0if' = TRUE
    /\ UNCHANGED <<driverVars, elapsed, device, power, interrupts, rx, delivered, overdue, faults>>

\* The next packet of a device that keeps to the standard, and any other.
StandardPacket ==
    LET left == IF delivered < DESCRIPTOR_SZ THEN DESCRIPTOR_SZ - delivered ELSE 0
    IN  Packet(AtMost(MAX_PACKET, left), DESCRIPTOR_SZ, MAX_PACKET)

OddPacket == {Packet(n, length, size) : n \in Counts, length \in Bytes, size \in Bytes}

\* How much more than fits has been sent does not matter.
Sent(packet) == AtMost(DESCRIPTOR_SZ + 1, delivered + packet.count)

\* Bytes beyond descriptor_data count as every fault: after them nothing is promised.
Oddities(packet) ==
    IF Sent(packet) > DESCRIPTOR_SZ THEN Fault
    ELSE IF packet = StandardPacket THEN {} ELSE {"device"}

PacketReceived(packet) ==
    /\ device /\ "in" \in ep /\ "setup" \notin ep /\ rx.count = 0
    /\ rx' = packet
    /\ delivered' = Sent(packet)
    /\ ep' = ep \ {"in"}
    /\ ep0if' = TRUE
    /\ faults' = faults \cup Oddities(packet)
    /\ UNCHANGED <<driverVars, elapsed, device, power, interrupts, overdue>>

DataSent ==
    /\ device /\ "out" \in ep /\ "setup" \notin ep
    /\ ep' = ep \ {"out"}
    /\ ep0if' = TRUE
    /\ UNCHANGED <<driverVars, elapsed, device, power, interrupts, rx, delivered, overdue, faults>>

\* A stall or an error ends what is outstanding.
EpError ==
    /\ ep # {}
    /\ ep' = {}
    /\ ep0if' = TRUE
    /\ faults' = faults \cup {"ep0"}
    /\ UNCHANGED <<driverVars, elapsed, device, power, interrupts, rx, delivered, overdue>>

\* Count wraps after some 40 seconds: then the wait begins again.
Tick ==
    /\ elapsed' = (elapsed + 1) % 3
    /\ UNCHANGED <<driverVars, device, power, interrupts, epVars, overdue, faults>>
-----------------------------------------------------------------------------
UsbNext ==
    \/ usb_int_handler \/ usb_send_data
    \/ \E over \in BOOLEAN : usb_polling(over)
    \/ Plug \/ Unplug \/ VbusError \/ SetupSent \/ DataSent \/ EpError \/ Tick
    \/ \E packet \in OddPacket \cup {StandardPacket} : PacketReceived(packet)

\* Interrupts are taken, a setup packet is sent or fails, a device without supply
\* is gone, and the guest polls each 100 ms, so that no wait of 500 ms passes
\* unseen again and again until Count has wrapped. Polls are fair in the case
\* without overcurrent, so an overcurrent may never happen.
UsbFairness ==
    /\ WF_usbVars(usb_int_handler)
    /\ WF_usbVars(SetupSent)
    /\ WF_usbVars(~ power /\ Unplug)
    /\ WF_usbVars(Tick)
    /\ WF_usbVars(usb_polling(FALSE))
    /\ SF_usbVars(elapsed = 2 /\ usb_polling(FALSE))

UsbSpec == UsbInit /\ [][UsbNext]_usbVars /\ UsbFairness
-----------------------------------------------------------------------------
\* The bytes received stay inside descriptor_data as long as no device sends more than
\* fits, for the loop at line 391 does not look; the retry counter keeps its limit.
UsbTypeOK ==
    /\ state \in State
    /\ connected \in BOOLEAN /\ descriptor_available \in BOOLEAN
    /\ elapsed \in 0 .. 2
    /\ request_count \in 0 .. MAX_REQUESTS
    /\ descr \in [received : Nat, descr_sz : Nat, tranfer_sz : Nat]
    /\ "overlong" \notin faults => descr.received <= DESCRIPTOR_SZ
    /\ transfer \in TransferState
    /\ device \in BOOLEAN /\ power \in BOOLEAN
    /\ interrupts \subseteq {"CONN", "DISCONN", "VBUSERR"}
    /\ ep \subseteq {"setup", "in", "out"} /\ ep0if \in BOOLEAN
    /\ rx \in [count : Nat, length : Nat, size : Nat]
    /\ delivered \in 0 .. (DESCRIPTOR_SZ + 1)
    /\ overdue \in BOOLEAN
    /\ faults \subseteq Fault

\* A guest is told of a descriptor exactly while the device runs, as long as no
\* overcurrent has cut the supply (usb_polling line 113, the handler, line 293): an
\* overcurrent seen by the call that reads the last packet leaves it set.
AvailableIffRunning == power => (descriptor_available <=> state = "RUNNING")

\* The descriptor a guest is told of was received whole, unless the request was
\* repeated or endpoint 0 failed, for then a late EP0IF is taken for the answer and
\* an empty descriptor is given out (lines 157-163, 283-293), and unless a device
\* did not keep to the standard.
AvailableIsWhole ==
    descriptor_available /\ {"ep0", "device"} \cap faults = {}
        => descr.received = DESCRIPTOR_SZ

\* When all interrupts are served the driver knows whether a device is there,
\* unless it was plugged in and out between two services (or out and in), or
\* the supply failed (usb_int_handler).
PresenceIsKnown ==
    interrupts = {} /\ {"coalesced", "vbus"} \cap faults = {} /\ power
        => (connected <=> device)

\* The data of a request goes out only in the session in which its setup packet
\* was sent: no half of a transfer outlives RUNNING, after whatever disconnects,
\* errors and restarts (usb_int_handler line 145); a VBUS error does not end it.
NoHalfTransfer ==
    transfer \in {"SENDING", "DONE"} /\ "vbus" \notin faults => state = "RUNNING"

\* The states between finding a device and reading the last byte of its
\* descriptor, and how many are left when all goes well.
StatesLeft ==
    [DEBOUNCE |-> 6, USB_RESET |-> 5, AFTER_RESET_DELAY |-> 4, REQUEST_DESCRIPTOR |-> 3,
     WAIT_TX_INT |-> 2, HANDSHAKE |-> 1, WAIT_DESCRIPTOR |-> 0, READ_DESCRIPTOR |-> 0]

\* What is left of the descriptor, in visits to the last two states.
VisitsLeft ==
    2 * (DESCRIPTOR_SZ - descr.received) + (IF state = "WAIT_DESCRIPTOR" THEN 1 ELSE 0)

\* The driver does not know the packet size: the device says 0, or its first packet
\* ended before that byte (lines 396-399).
Unsized == descr.descr_sz > 0 /\ descr.tranfer_sz = 0

\* An empty packet then passes for a full one, and is followed by the next.
ReadsNothing == state = "READ_DESCRIPTOR" /\ Unsized /\ rx.count = 0

\* A detection never returns to a state it has left, but to repeat its request,
\* and then with one attempt less; from packet to packet the descriptor grows, so
\* a device can hold the driver in it in one way only, with empty packets after it
\* has stated no packet size (update_state_machine, read_descriptor); what follows an
\* overrun of descriptor_data is left out. Only a connect interrupt begins anew.
DetectionAdvances ==
    [][(/\ {state, state'} \subseteq DOMAIN StatesLeft /\ state' \notin {state, "DEBOUNCE"}
        /\ ~ ReadsNothing /\ "overlong" \notin faults) =>
          \/ request_count' > request_count
          \/ /\ request_count' = request_count
             /\ \/ StatesLeft[state'] < StatesLeft[state]
                \/ StatesLeft[state'] = StatesLeft[state] /\ VisitsLeft' < VisitsLeft
      ]_usbVars

\* Every detection comes to an end, with lost interrupts, a silent device and
\* retries, unless the driver gets to know no packet size or descriptor_data is
\* overrun (update_state_machine).
EnumerationEnds ==
    state = "DEBOUNCE" ~>
        \/ state \in {"RUNNING", "GENERALERROR", "IDLE", "VBUSERROR"}
        \/ Unsized \/ "overlong" \in faults
=============================================================================
