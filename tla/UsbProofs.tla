------------------------------ MODULE UsbProofs ------------------------------
(***************************************************************************)
(* Proofs about UsbHost, for every size of descriptor and packet, every    *)
(* device and every limit of retries. The inductive invariant says what    *)
(* the interrupts that are still pending mean for the flags of the driver. *)
(***************************************************************************)
EXTENDS UsbHost, TLAPS

Flags ==
    /\ connected \in BOOLEAN /\ descriptor_available \in BOOLEAN
    /\ device \in BOOLEAN /\ power \in BOOLEAN

Settled == {"IDLE", "VBUSERROR", "GENERALERROR"}

\* Only a device that was noticed is being detected or runs.
DetectedIsConnected == state \notin Settled => connected

\* A device that is gone, or came, has left its interrupt.
PendingTellsWhy ==
    /\ "CONN" \in interrupts => device \/ "DISCONN" \in interrupts
    /\ "CONN" \in interrupts => ~ connected \/ "DISCONN" \in interrupts
    /\ connected => device \/ "DISCONN" \in interrupts

VbusIsRecorded == "VBUSERR" \in interrupts => "vbus" \in faults

\* The flag, corrected by what is pending, tells whether a device is there.
FlagIsKnown ==
    {"coalesced", "vbus"} \cap faults = {} /\ power =>
        /\ "DISCONN" \in interrupts /\ "CONN" \notin interrupts => ~ device
        /\ {"CONN", "DISCONN"} \cap interrupts = {} => (connected <=> device)

AnyPacketReceived ==
    \E packet \in OddPacket \cup {StandardPacket} : PacketReceived(packet)

UsbInv ==
    /\ Flags
    /\ DetectedIsConnected
    /\ PendingTellsWhy
    /\ VbusIsRecorded
    /\ FlagIsKnown
    /\ AvailableIffRunning
    /\ NoHalfTransfer

\* A call of update_state_machine keeps the invariant, whatever case it takes.
LEMMA MoveStep ==
    ASSUME UsbInv, NEW over \in BOOLEAN, NEW s \in State, NEW new,
           MoveTo(s, new, over),
           state # "RUNNING",
           s \in Settled => state \in Settled \/ s = "GENERALERROR",
           s \notin Settled => state \notin Settled,
           descriptor_available' = (IF s = "RUNNING" THEN TRUE ELSE descriptor_available),
           UNCHANGED <<transfer, device, interrupts>>
    PROVE  UsbInv'
  <1> USE DEF UsbInv, MoveTo
  <1>1. Flags'
    BY DEF Flags
  <1>2. DetectedIsConnected'
    BY DEF DetectedIsConnected, Settled, Flags
  <1>3. PendingTellsWhy'
    BY DEF PendingTellsWhy, Flags
  <1>4. VbusIsRecorded'
    BY DEF VbusIsRecorded
  <1>5. FlagIsKnown'
    BY DEF FlagIsKnown, Flags
  <1>6. AvailableIffRunning'
    BY DEF AvailableIffRunning, Flags
  <1>7. NoHalfTransfer'
    BY DEF NoHalfTransfer
  <1> QED BY <1>1, <1>2, <1>3, <1>4, <1>5, <1>6, <1>7

\* The interrupt handler keeps the invariant, also with several interrupts at once.
LEMMA HandlerStep == UsbInv /\ usb_int_handler => UsbInv'
  <1> SUFFICES ASSUME UsbInv, usb_int_handler PROVE UsbInv'
    OBVIOUS
  <1> USE DEF UsbInv, usb_int_handler, AfterGeneral
  <1>1. Flags'
    BY DEF Flags
  <1>2. DetectedIsConnected'
    BY DEF DetectedIsConnected, Settled, AfterEP0, Flags
  <1>3. PendingTellsWhy'
    BY DEF PendingTellsWhy, Flags
  <1>4. VbusIsRecorded'
    BY DEF VbusIsRecorded
  <1>5. FlagIsKnown'
    BY DEF FlagIsKnown, PendingTellsWhy, VbusIsRecorded, Flags
  <1>6. AvailableIffRunning'
    BY DEF AvailableIffRunning, DetectedIsConnected, Settled, PendingTellsWhy, AfterEP0, Flags
  <1>7. NoHalfTransfer'
    BY DEF NoHalfTransfer, DetectedIsConnected, Settled, PendingTellsWhy, VbusIsRecorded,
           TransferAfter, AfterEP0, Flags
  <1> QED BY <1>1, <1>2, <1>3, <1>4, <1>5, <1>6, <1>7

\* Polling keeps the invariant.
LEMMA PollStep ==
    ASSUME UsbInv, NEW over \in BOOLEAN, usb_polling(over)
    PROVE  UsbInv'
  <1>1. CASE state = "RUNNING" /\ update_transfer_state_machine
    BY <1>1
    DEF update_transfer_state_machine, StartTransfer, SendData, TransferDone, UsbInv, Flags,
        DetectedIsConnected, PendingTellsWhy, VbusIsRecorded, FlagIsKnown,
        AvailableIffRunning, NoHalfTransfer
  <1>2. CASE state # "RUNNING" /\ update_state_machine(over)
    <2> USE DEF update_state_machine, State, Settled
    <2>1. CASE Debounced(over) \/ ResetDone(over) \/ Stable(over)
      BY <1>2, <2>1, MoveStep DEF Debounced, ResetDone, Stable
    <2>2. CASE RequestDescriptor(over) \/ Handshake(over)
      BY <1>2, <2>2, MoveStep DEF RequestDescriptor, Handshake
    <2>3. CASE NoAnswer(over)
      BY <1>2, <2>3, MoveStep DEF NoAnswer
    <2>4. CASE ReadDescriptor(over)
      <3>1. CASE MoveTo("WAIT_DESCRIPTOR", {}, over) /\ UNCHANGED descriptor_available
        BY <1>2, <2>4, <3>1, MoveStep DEF ReadDescriptor
      <3>2. CASE MoveTo("RUNNING", {}, over) /\ descriptor_available' = TRUE
        BY <1>2, <2>4, <3>2, MoveStep DEF ReadDescriptor
      <3> QED BY <2>4, <3>1, <3>2 DEF ReadDescriptor
    <2>5. CASE GeneralError(over) \/ Waits(over)
      BY <1>2, <2>5, MoveStep DEF GeneralError, Waits
    <2> QED BY <1>2, <2>1, <2>2, <2>3, <2>4, <2>5
  <1> QED BY <1>1, <1>2 DEF usb_polling

\* So does every other step.
LEMMA EnvironmentStep ==
    ASSUME UsbInv,
           \/ usb_send_data \/ Plug \/ Unplug \/ VbusError \/ SetupSent \/ AnyPacketReceived
           \/ DataSent \/ EpError \/ Tick \/ UNCHANGED usbVars
    PROVE  UsbInv'
  <1> USE DEF UsbInv, Flags, DetectedIsConnected, PendingTellsWhy, VbusIsRecorded, FlagIsKnown,
              AvailableIffRunning, NoHalfTransfer, statusVars, driverVars
  <1>1. CASE usb_send_data
    BY <1>1 DEF usb_send_data
  <1>2. CASE Plug
    BY <1>2 DEF Plug
  <1>3. CASE Unplug
    BY <1>3 DEF Unplug
  <1>4. CASE VbusError
    BY <1>4 DEF VbusError
  <1>5. CASE SetupSent \/ AnyPacketReceived \/ DataSent \/ EpError
    BY <1>5 DEF SetupSent, AnyPacketReceived, PacketReceived, DataSent, EpError
  <1>6. CASE Tick \/ UNCHANGED usbVars
    BY <1>6 DEF Tick, usbVars
  <1> QED BY <1>1, <1>2, <1>3, <1>4, <1>5, <1>6

\* The invariant holds from start-up.
LEMMA UsbInvAlways == UsbSpec => []UsbInv
  <1>1. UsbInit => UsbInv
    BY DEF UsbInit, UsbInv, Flags, DetectedIsConnected, Settled, PendingTellsWhy,
           VbusIsRecorded, FlagIsKnown, AvailableIffRunning, NoHalfTransfer
  <1>2. UsbInv /\ [UsbNext]_usbVars => UsbInv'
    BY HandlerStep, PollStep, EnvironmentStep DEF UsbNext, AnyPacketReceived
  <1> QED BY <1>1, <1>2, PTL DEF UsbSpec

\* The guest is told of a descriptor exactly while the device runs, unless an
\* overcurrent has cut the supply (usb_polling, usb_int_handler).
THEOREM AvailableIffRunningAlways == UsbSpec => []AvailableIffRunning
  <1>1. UsbInv => AvailableIffRunning
    BY DEF UsbInv
  <1> QED BY <1>1, UsbInvAlways, PTL

\* As long as no connect has been served together with a disconnect, VBUS has not
\* failed, and no overcurrent has cut the supply, the driver knows with all interrupts
\* served whether a device is there (usb_int_handler lines 136-155). In those three
\* cases it may be wrong.
THEOREM PresenceIsKnownAlways == UsbSpec => []PresenceIsKnown
  <1>1. UsbInv => PresenceIsKnown
    BY DEF UsbInv, FlagIsKnown, PresenceIsKnown
  <1> QED BY <1>1, UsbInvAlways, PTL

\* No half-sent request survives its device (usb_int_handler line 145), except
\* over a VBUS error, which leaves the transfer alone.
THEOREM NoHalfTransferAlways == UsbSpec => []NoHalfTransfer
  <1>1. UsbInv => NoHalfTransfer
    BY DEF UsbInv
  <1> QED BY <1>1, UsbInvAlways, PTL
-----------------------------------------------------------------------------
(***************************************************************************)
(* The bytes of the descriptor. Endpoint 0 counts what the device has sent *)
(* since the last setup packet, the driver what it has read.               *)
(***************************************************************************)

Session == {"WAIT_TX_INT", "HANDSHAKE", "WAIT_DESCRIPTOR", "READ_DESCRIPTOR"}

\* While a descriptor is read the driver never has more than the device sent,
\* and what was sent fits until a device sends too much.
BytesCounted ==
    "overlong" \notin faults =>
        /\ delivered <= DESCRIPTOR_SZ
        /\ state \in Session => descr.received + rx.count <= delivered

\* An empty packet says nothing of a length.
EmptySaysNothing == rx.count = 0 => rx.length = 0

BytesInv == UsbTypeOK /\ BytesCounted /\ EmptySaysNothing

Descr == [received : Nat, descr_sz : Nat, tranfer_sz : Nat]

Rx == [count : Nat, length : Nat, size : Nat]

\* What a device can send, and how it is counted until it is too much.
LEMMA PacketType ==
    ASSUME UsbTypeOK, NEW packet \in OddPacket \cup {StandardPacket}
    PROVE  /\ packet \in Rx /\ (packet.count = 0 => packet.length = 0)
           /\ Sent(packet) \in 0 .. (DESCRIPTOR_SZ + 1)
           /\ Sent(packet) <= DESCRIPTOR_SZ => Sent(packet) = delivered + packet.count
  <1>1. PICK n \in Nat, length \in Nat, size \in Nat : packet = Packet(n, length, size)
    <2>1. CASE packet \in OddPacket
      BY <2>1, UsbAssumption DEF OddPacket
    <2>2. CASE packet = StandardPacket
      <3>1. PICK left : left = IF delivered < DESCRIPTOR_SZ THEN DESCRIPTOR_SZ - delivered ELSE 0
        OBVIOUS
      <3>2. left \in Nat /\ AtMost(MAX_PACKET, left) \in Nat
        BY <3>1, UsbAssumption DEF UsbTypeOK, AtMost
      <3>3. packet = Packet(AtMost(MAX_PACKET, left), DESCRIPTOR_SZ, MAX_PACKET)
        BY <2>2, <3>1 DEF StandardPacket
      <3> QED BY <3>2, <3>3, UsbAssumption
    <2> QED BY <2>1, <2>2
  <1>2. packet \in Rx /\ (packet.count = 0 => packet.length = 0)
    BY <1>1 DEF Packet, Rx
  <1>3. PICK count : count = packet.count
    OBVIOUS
  <1>4. count \in Nat /\ delivered \in Nat
    BY <1>2, <1>3, UsbAssumption DEF Rx, UsbTypeOK
  <1>5. Sent(packet) = IF delivered + count <= DESCRIPTOR_SZ + 1
                       THEN delivered + count ELSE DESCRIPTOR_SZ + 1
    BY <1>3 DEF Sent, AtMost
  <1>6. /\ Sent(packet) \in 0 .. (DESCRIPTOR_SZ + 1)
        /\ Sent(packet) <= DESCRIPTOR_SZ => Sent(packet) = delivered + count
    BY <1>4, <1>5, UsbAssumption
  <1> QED BY <1>2, <1>3, <1>6

\* The parts of what read_descriptor stores (usb_read_descriptor).
LEMMA ReadDescriptorParts ==
    ASSUME UsbTypeOK
    PROVE  /\ read_descriptor \in Descr
           /\ SizedBy(rx) \in Descr
           /\ read_descriptor.received = descr.received + rx.count
           /\ read_descriptor.tranfer_sz = SizedBy(rx).tranfer_sz
           /\ read_descriptor.descr_sz =
                  IF rx.count < SizedBy(rx).tranfer_sz THEN descr.received + rx.count
                  ELSE SizedBy(rx).descr_sz
  <1>1. PICK received : received = descr.received + rx.count
    OBVIOUS
  <1>2. PICK sized : sized = SizedBy(rx)
    OBVIOUS
  <1>3. received \in Nat /\ descr \in Descr /\ rx \in Rx
    BY <1>1 DEF UsbTypeOK, Descr, Rx
  <1>4. sized \in Descr
    BY <1>2, <1>3 DEF SizedBy, Descr, Rx
  <1>5. read_descriptor = [sized EXCEPT !.received = received,
            !.descr_sz = IF rx.count < sized.tranfer_sz THEN received ELSE @]
    BY <1>1, <1>2 DEF read_descriptor
  <1>6. /\ read_descriptor \in Descr
        /\ read_descriptor.received = received
        /\ read_descriptor.tranfer_sz = sized.tranfer_sz
        /\ read_descriptor.descr_sz =
               IF rx.count < sized.tranfer_sz THEN received ELSE sized.descr_sz
    BY <1>3, <1>4, <1>5 DEF Descr
  <1> QED BY <1>1, <1>2, <1>4, <1>6

\* The interrupt handler moves the state only.
LEMMA HandlerBytes == BytesInv /\ usb_int_handler => BytesInv'
  <1> SUFFICES ASSUME BytesInv, usb_int_handler PROVE BytesInv'
    OBVIOUS
  <1> USE DEF BytesInv, usb_int_handler, AfterGeneral, AfterEP0, descrVars
  <1>1. state' \in State /\ (state' \in Session => state \in Session)
    BY DEF UsbTypeOK, State, Session
  <1>2. UsbTypeOK'
    <2>1. connected' \in BOOLEAN /\ descriptor_available' \in BOOLEAN
      BY DEF UsbTypeOK
    <2>2. transfer' \in TransferState /\ faults' \subseteq Fault
      BY DEF UsbTypeOK, TransferAfter, TransferState, Fault
    <2> HIDE DEF usb_int_handler, AfterGeneral, AfterEP0
    <2>3. elapsed' \in {0, elapsed} /\ overdue' = FALSE
      BY DEF usb_int_handler
    <2>4. UNCHANGED <<descr, request_count, device, power, ep, rx, delivered>>
          /\ interrupts' = {} /\ ep0if' = FALSE
          /\ ("overlong" \in faults' <=> "overlong" \in faults)
      BY DEF usb_int_handler
    <2>5. elapsed' \in 0 .. 2
      BY <2>3 DEF UsbTypeOK
    <2>6. /\ descr' \in [received : Nat, descr_sz : Nat, tranfer_sz : Nat]
          /\ "overlong" \notin faults' => descr'.received <= DESCRIPTOR_SZ
      BY <2>4 DEF UsbTypeOK
    <2>7. /\ request_count' \in 0 .. MAX_REQUESTS
          /\ rx' \in [count : Nat, length : Nat, size : Nat]
          /\ delivered' \in 0 .. (DESCRIPTOR_SZ + 1)
      BY <2>4 DEF UsbTypeOK
    <2>8. /\ device' \in BOOLEAN /\ power' \in BOOLEAN /\ ep' \subseteq {"setup", "in", "out"}
          /\ interrupts' \subseteq {"CONN", "DISCONN", "VBUSERR"}
          /\ ep0if' \in BOOLEAN /\ overdue' \in BOOLEAN
      BY <2>3, <2>4 DEF UsbTypeOK
    <2> QED BY <1>1, <2>1, <2>2, <2>5, <2>6, <2>7, <2>8 DEF UsbTypeOK
  <1>3. BytesCounted' /\ EmptySaysNothing'
    BY <1>1 DEF BytesCounted, EmptySaysNothing
  <1> QED BY <1>2, <1>3

\* The end of every poll keeps the types of what it sets.
LEMMA MoveType ==
    ASSUME UsbTypeOK, NEW over \in BOOLEAN, NEW s \in State, NEW new \in SUBSET Fault,
           MoveTo(s, new, over)
    PROVE  /\ state' \in {s, "GENERALERROR"}
           /\ connected' \in BOOLEAN /\ power' \in BOOLEAN /\ faults' \subseteq Fault
  BY DEF MoveTo, UsbTypeOK

\* Each case of update_state_machine keeps the counts.
LEMMA PollBytes ==
    ASSUME BytesInv, NEW over \in BOOLEAN, update_state_machine(over), state # "RUNNING",
           overdue' \in BOOLEAN
    PROVE  BytesInv'
  <1> USE DEF BytesInv
  <1> {} \in SUBSET Fault /\ {"ep0"} \in SUBSET Fault
    BY DEF Fault
  <1> UNCHANGED <<transfer, device, interrupts>>
    BY DEF update_state_machine
  <1> DEFINE Kept == UNCHANGED <<descriptor_available, elapsed, descrVars, epVars>>
  <1>1. ASSUME NEW s \in State \ Session, NEW new \in SUBSET Fault, MoveTo(s, new, over),
               descriptor_available' \in BOOLEAN, elapsed' \in 0 .. 2,
               request_count' \in 0 .. MAX_REQUESTS,
               UNCHANGED <<descr, epVars>>
        PROVE  BytesInv'
    BY <1>1, MoveType DEF UsbTypeOK, BytesCounted, EmptySaysNothing, epVars, Session, State, MoveTo
  <1>2. CASE Debounced(over) \/ Stable(over)
    BY <1>1, <1>2 DEF Debounced, Stable, State, Session, UsbTypeOK, descrVars
  <1>3. CASE ResetDone(over)
    BY <1>1, <1>3 DEF ResetDone, Restamp, State, Session, UsbTypeOK, descrVars
  <1>4. CASE RequestDescriptor(over)
    <2>1. state' \in State
      BY <1>4, MoveType DEF RequestDescriptor, State
    <2>2. /\ descr' = EmptyDescr /\ rx' = NoPacket /\ delivered' = 0 /\ elapsed' = 0
          /\ ep' = ep \cup {"setup"}
          /\ UNCHANGED <<descriptor_available, request_count, ep0if>>
      BY <1>4 DEF RequestDescriptor, Restamp, setup_packet_send
    <2>3. UsbTypeOK'
      BY <1>4, <2>1, <2>2, MoveType, UsbAssumption
      DEF UsbTypeOK, RequestDescriptor, EmptyDescr, NoPacket, State
    <2>4. BytesCounted' /\ EmptySaysNothing'
      BY <2>2, UsbAssumption DEF BytesCounted, EmptySaysNothing, EmptyDescr, NoPacket
    <2> QED BY <2>3, <2>4
  <1>5. CASE Handshake(over)
    <2>1. state' \in State
      BY <1>5, MoveType DEF Handshake, State
    <2>2. /\ ep' = ep \cup {"in"} /\ elapsed' = 0
          /\ UNCHANGED <<descriptor_available, descrVars, rx, ep0if, delivered, faults>>
      BY <1>5 DEF Handshake, Restamp, RequestPacket, MoveTo
    <2>3. UsbTypeOK'
      BY <1>5, <2>1, <2>2, MoveType DEF UsbTypeOK, Handshake, State, descrVars
    <2>4. BytesCounted' /\ EmptySaysNothing'
      BY <1>5, <2>2 DEF BytesCounted, EmptySaysNothing, Handshake, Session, descrVars
    <2> QED BY <2>3, <2>4
  <1>6. CASE NoAnswer(over)
    <2>1. CASE GivesUp
      BY <1>1, <1>6, <2>1 DEF NoAnswer, State, Session, UsbTypeOK
    <2>2. CASE ~ GivesUp
      <3>1. request_count' = request_count + 1 /\ request_count < MAX_REQUESTS
        BY <1>6, <2>2, UsbAssumption DEF NoAnswer, GivesUp, UsbTypeOK
      <3>2. request_count' \in 0 .. MAX_REQUESTS
        BY <3>1, UsbAssumption DEF UsbTypeOK
      <3> QED BY <1>1, <1>6, <2>2, <3>2 DEF NoAnswer, State, Session, UsbTypeOK
    <2> QED BY <2>1, <2>2
  <1>7. CASE ReadDescriptor(over)
    <2>1. "overlong" \notin faults =>
              descr.received + rx.count <= delivered /\ delivered <= DESCRIPTOR_SZ
      BY <1>7 DEF ReadDescriptor, BytesCounted, Session
    <2>2. /\ descr' \in [received : Nat, descr_sz : Nat, tranfer_sz : Nat]
          /\ descr'.received = descr.received + rx.count
      BY <1>7, ReadDescriptorParts DEF ReadDescriptor, Descr
    <2>3. "overlong" \notin faults => descr'.received <= DESCRIPTOR_SZ
      BY <2>1, <2>2, UsbAssumption DEF UsbTypeOK
    <2>4. /\ rx' = NoPacket /\ ep' \subseteq ep \cup {"in"} /\ elapsed' \in 0 .. 2
          /\ descriptor_available' \in BOOLEAN
          /\ UNCHANGED <<request_count, ep0if, delivered, faults>>
      <3>1. CASE MoveTo("WAIT_DESCRIPTOR", {}, over) /\ Restamp /\ RequestPacket
                 /\ UNCHANGED descriptor_available
        BY <1>7, <3>1 DEF ReadDescriptor, Restamp, RequestPacket, UsbTypeOK, MoveTo
      <3>2. CASE /\ MoveTo("RUNNING", {}, over)
                 /\ descriptor_available' = TRUE /\ UNCHANGED <<elapsed, ep, ep0if, delivered>>
        BY <1>7, <3>2 DEF ReadDescriptor, UsbTypeOK, MoveTo
      <3> QED BY <1>7, <3>1, <3>2 DEF ReadDescriptor
    <2>5. /\ state' \in State
          /\ connected' \in BOOLEAN /\ power' \in BOOLEAN /\ faults' \subseteq Fault
      BY <1>7, MoveType DEF ReadDescriptor, State
    <2>6. rx' \in [count : Nat, length : Nat, size : Nat] /\ rx'.count = 0
          /\ EmptySaysNothing'
      BY <2>4 DEF NoPacket, EmptySaysNothing
    <2>7. UsbTypeOK'
      BY <2>2, <2>3, <2>4, <2>5, <2>6, UsbAssumption DEF UsbTypeOK
    <2>8. BytesCounted'
      <3>1. descr'.received + rx'.count = descr.received + rx.count
        BY <2>2, <2>6, UsbAssumption DEF UsbTypeOK
      <3> QED BY <2>1, <2>4, <3>1 DEF BytesCounted
    <2> QED BY <2>6, <2>7, <2>8
  <1>8. CASE GeneralError(over)
    BY <1>1, <1>8, UsbAssumption DEF GeneralError, State, Session, UsbTypeOK
  <1>9. CASE Waits(over)
    <2>1. state \in State
      BY DEF UsbTypeOK
    <2>2. state' \in {state, "GENERALERROR"} /\ connected' \in BOOLEAN /\ power' \in BOOLEAN
          /\ faults' \subseteq Fault
      BY <1>9, <2>1, MoveType DEF Waits
    <2> QED BY <1>9, <2>1, <2>2
            DEF Waits, UsbTypeOK, BytesCounted, EmptySaysNothing, Session, State, descrVars,
                epVars, MoveTo
  <1> QED BY <1>2, <1>3, <1>4, <1>5, <1>6, <1>7, <1>8, <1>9 DEF update_state_machine

\* So do transfers, the controller, the device and time.
LEMMA OtherBytes ==
    ASSUME BytesInv,
           \/ /\ state = "RUNNING" /\ overdue' \in BOOLEAN
              /\ update_transfer_state_machine
           \/ usb_send_data \/ Plug \/ Unplug \/ VbusError \/ SetupSent \/ AnyPacketReceived
           \/ DataSent \/ EpError \/ Tick \/ UNCHANGED usbVars
    PROVE  BytesInv'
  <1> USE UsbAssumption
      DEF BytesInv, UsbTypeOK, EmptySaysNothing, driverVars, statusVars, descrVars, epVars
  <1>1. CASE state = "RUNNING" /\ overdue' \in BOOLEAN /\ update_transfer_state_machine
    <2>1. /\ transfer' \in TransferState /\ elapsed' \in 0 .. 2
          /\ ep' \subseteq {"setup", "in", "out"} /\ UNCHANGED ep0if
          /\ \/ UNCHANGED <<rx, delivered>>
             \/ rx' = NoPacket /\ delivered' = 0
      <3>1. CASE StartTransfer
        BY <3>1 DEF StartTransfer, setup_packet_send, TransferState
      <3>2. CASE SendData
        BY <3>2 DEF SendData, Restamp, TransferState
      <3>3. CASE TransferDone
        BY <3>3 DEF TransferDone, TransferState
      <3> QED BY <1>1, <3>1, <3>2, <3>3 DEF update_transfer_state_machine
    <2>2. UNCHANGED <<state, connected, descriptor_available, descrVars, device, power,
                      interrupts, faults>>
      BY <1>1 DEF update_transfer_state_machine
    <2>3. /\ rx' \in [count : Nat, length : Nat, size : Nat] /\ EmptySaysNothing'
          /\ delivered' \in 0 .. (DESCRIPTOR_SZ + 1)
          /\ "overlong" \notin faults => delivered' <= DESCRIPTOR_SZ
      BY <2>1 DEF NoPacket, BytesCounted
    <2> QED BY <1>1, <2>1, <2>2, <2>3 DEF BytesCounted, Session
  <1>2. CASE usb_send_data
    BY <1>2 DEF usb_send_data, Hypercall, InterruptPending, BytesCounted, TransferState
  <1>3. CASE Plug \/ Unplug \/ VbusError
    <2>1. CASE Plug
      BY <1>3, <2>1 DEF Plug, BytesCounted
    <2>2. CASE Unplug
      BY <1>3, <2>2 DEF Unplug, BytesCounted
    <2>3. CASE VbusError
      BY <1>3, <2>3 DEF VbusError, BytesCounted, Fault
    <2> QED BY <1>3, <2>1, <2>2, <2>3
  <1>4. CASE SetupSent
    BY <1>4 DEF SetupSent, BytesCounted
  <1>5. CASE AnyPacketReceived
    <2>1. PICK packet \in OddPacket \cup {StandardPacket} : PacketReceived(packet)
      BY <1>5 DEF AnyPacketReceived
    <2>2. PICK sent : sent = Sent(packet)
      OBVIOUS
    <2>3. /\ packet \in Rx /\ (packet.count = 0 => packet.length = 0)
          /\ sent \in 0 .. (DESCRIPTOR_SZ + 1)
          /\ sent <= DESCRIPTOR_SZ => sent = delivered + packet.count
      BY <2>2, PacketType
    <2>4. /\ rx' = packet /\ delivered' = sent /\ rx.count = 0 /\ ep' \subseteq ep
          /\ ep0if' = TRUE
          /\ UNCHANGED <<driverVars, elapsed, device, power, interrupts, overdue>>
      BY <2>1, <2>2 DEF PacketReceived
    <2>5. /\ faults' \subseteq Fault /\ faults \subseteq faults'
          /\ ~ (sent <= DESCRIPTOR_SZ) => "overlong" \in faults'
      <3>1. faults' = faults \cup Oddities(packet)
        BY <2>1 DEF PacketReceived
      <3>2. Oddities(packet) \subseteq Fault
        BY DEF Oddities, Fault
      <3>3. ~ (sent <= DESCRIPTOR_SZ) => Oddities(packet) = Fault
        BY <2>2, <2>3 DEF Oddities
      <3> QED BY <3>1, <3>2, <3>3 DEF Fault
    <2>6. rx' \in [count : Nat, length : Nat, size : Nat] /\ EmptySaysNothing'
      BY <2>3, <2>4 DEF Rx
    <2>7. UsbTypeOK'
      BY <2>3, <2>4, <2>5, <2>6
    <2>8. ASSUME "overlong" \notin faults' PROVE /\ delivered' <= DESCRIPTOR_SZ
                                                /\ delivered' = delivered + rx'.count
      BY <2>3, <2>4, <2>5, <2>8
    <2>9. ASSUME "overlong" \notin faults', state' \in Session
          PROVE  descr'.received + rx'.count <= delivered'
      <3>1. descr.received + rx.count <= delivered
        BY <2>4, <2>5, <2>9 DEF BytesCounted
      <3>2. /\ descr.received \in Nat /\ delivered \in Nat /\ rx'.count \in Nat
            /\ descr'.received = descr.received /\ rx.count = 0
        BY <2>4, <2>6
      <3> QED BY <2>8, <2>9, <3>1, <3>2
    <2>10. BytesCounted'
      BY <2>8, <2>9 DEF BytesCounted
    <2> QED BY <2>6, <2>7, <2>10
  <1>6. CASE DataSent \/ EpError
    BY <1>6 DEF DataSent, EpError, BytesCounted, Fault
  <1>7. CASE Tick
    BY <1>7 DEF Tick, BytesCounted
  <1>8. CASE UNCHANGED usbVars
    BY <1>8 DEF usbVars, BytesCounted
  <1> QED BY <1>1, <1>2, <1>3, <1>4, <1>5, <1>6, <1>7, <1>8

\* The counts are right from start-up.
LEMMA BytesInvAlways == UsbSpec => []BytesInv
  <1>1. UsbInit => BytesInv
    <2> SUFFICES ASSUME UsbInit PROVE BytesInv
      OBVIOUS
    <2>1. /\ descr \in [received : Nat, descr_sz : Nat, tranfer_sz : Nat]
          /\ descr.received = 0 /\ 0 <= DESCRIPTOR_SZ
          /\ rx \in [count : Nat, length : Nat, size : Nat] /\ EmptySaysNothing
          /\ delivered = 0 /\ delivered \in 0 .. (DESCRIPTOR_SZ + 1)
          /\ request_count \in 0 .. MAX_REQUESTS /\ elapsed \in 0 .. 2
      BY UsbAssumption DEF UsbInit, EmptyDescr, NoPacket, EmptySaysNothing
    <2>2. state \in State \ Session /\ transfer \in TransferState
      BY DEF UsbInit, State, Session, TransferState
    <2> QED BY <2>1, <2>2 DEF UsbInit, BytesInv, UsbTypeOK, BytesCounted
  <1>2. ASSUME BytesInv, NEW over \in BOOLEAN, usb_polling(over) PROVE BytesInv'
    <2>1. overdue' \in BOOLEAN
      BY <1>2 DEF usb_polling, Hypercall, InterruptPending, BytesInv, UsbTypeOK
    <2> QED BY <1>2, <2>1, PollBytes, OtherBytes DEF usb_polling
  <1>3. BytesInv /\ [UsbNext]_usbVars => BytesInv'
    BY <1>2, HandlerBytes, OtherBytes DEF UsbNext, AnyPacketReceived
  <1> QED BY <1>1, <1>3, PTL DEF UsbSpec

\* As long as no device sends more bytes than a descriptor has, the driver stores none
\* beyond descriptor_data (read_descriptor, whose loop does not look), whatever lengths
\* devices state and however they divide the bytes, with stalls, retries and devices
\* that change in between; and it never repeats a request too often.
THEOREM UsbTypeCorrect == UsbSpec => []UsbTypeOK
  <1>1. BytesInv => UsbTypeOK
    BY DEF BytesInv
  <1> QED BY <1>1, BytesInvAlways, PTL
-----------------------------------------------------------------------------
(***************************************************************************)
(* The order of an enumeration. Without a failure of endpoint 0, without a *)
(* repeated request and with devices that keep to the standard, every EP0IF*)
(* the driver takes for an answer is one.                                  *)
(***************************************************************************)

Before == {"DEBOUNCE", "USB_RESET", "AFTER_RESET_DELAY", "REQUEST_DESCRIPTOR"}

\* The first packet has told the size of the descriptor and of a packet.
Sized ==
    \/ descr.received = 0 /\ descr.descr_sz = 0
    \/ descr.received > 0 /\ descr.descr_sz = DESCRIPTOR_SZ /\ descr.tranfer_sz = MAX_PACKET

PacketThere ==
    /\ ep = {} /\ rx.count > 0
    /\ descr.received = 0 => rx.length = DESCRIPTOR_SZ /\ rx.size = MAX_PACKET
    /\ descr.received + rx.count = delivered
    /\ delivered <= DESCRIPTOR_SZ
    /\ rx.count = MAX_PACKET \/ delivered = DESCRIPTOR_SZ

PacketAwaited ==
    /\ ep \subseteq {"in"} /\ rx = NoPacket
    /\ descr.received = delivered /\ delivered < DESCRIPTOR_SZ

InOrder ==
    /\ state \in Before => ep = {} /\ ~ ep0if
    /\ "CONN" \in interrupts /\ "DISCONN" \notin interrupts => ep = {}
    /\ state = "WAIT_TX_INT" =>
          /\ descr = EmptyDescr /\ rx = NoPacket /\ delivered = 0
          /\ \/ ~ ep0if /\ ep \subseteq {"setup"}
             \/ ep0if /\ ep = {}
    /\ state = "HANDSHAKE" =>
          ep = {} /\ ~ ep0if /\ descr = EmptyDescr /\ rx = NoPacket /\ delivered = 0
    /\ state = "WAIT_DESCRIPTOR" => Sized
    /\ state = "WAIT_DESCRIPTOR" /\ ep0if => PacketThere
    /\ state = "WAIT_DESCRIPTOR" /\ ~ ep0if => PacketAwaited
    /\ state = "READ_DESCRIPTOR" => Sized /\ ~ ep0if /\ PacketThere
    /\ descriptor_available => descr.received = DESCRIPTOR_SZ

\* A descriptor stays announced after an overcurrent, but then nothing is
\* detected any more before the disconnect has been served.
AvailableIsSettled ==
    descriptor_available =>
        /\ state \in {"RUNNING", "GENERALERROR"}
        /\ "CONN" \in interrupts => "DISCONN" \in interrupts

Undisturbed == {"ep0", "device"} \cap faults = {}

OrderInv ==
    /\ UsbInv /\ BytesInv /\ AvailableIsSettled
    /\ Undisturbed => InOrder

\* A packet in the middle of the descriptor is full and is followed by a
\* request for the next one; after the last packet the driver has it all.
LEMMA ReadDescriptorWhole ==
    ASSUME UsbTypeOK, Sized, PacketThere
    PROVE  LET d == read_descriptor
           IN  /\ d.received = delivered
               /\ d.received < d.descr_sz =>
                     /\ delivered < DESCRIPTOR_SZ
                     /\ d.received > 0 /\ d.descr_sz = DESCRIPTOR_SZ
                     /\ d.tranfer_sz = MAX_PACKET
               /\ d.received >= d.descr_sz => delivered = DESCRIPTOR_SZ
  <1>1. PICK count, had, size : count = rx.count /\ had = descr.received
                              /\ size = SizedBy(rx).tranfer_sz
    OBVIOUS
  <1>2. count \in Nat /\ had \in Nat /\ delivered \in Nat
    BY <1>1, UsbAssumption DEF UsbTypeOK
  <1>3. /\ had + count = delivered /\ delivered > 0
        /\ delivered <= DESCRIPTOR_SZ
        /\ count = MAX_PACKET \/ delivered = DESCRIPTOR_SZ
    BY <1>1, <1>2, UsbAssumption DEF PacketThere
  <1>4. SizedBy(rx).descr_sz = DESCRIPTOR_SZ /\ size = MAX_PACKET
    BY <1>1, UsbAssumption DEF SizedBy, Sized, PacketThere, UsbTypeOK
  <1>5. /\ read_descriptor.received = delivered
        /\ read_descriptor.tranfer_sz = MAX_PACKET
        /\ read_descriptor.descr_sz = IF count < MAX_PACKET THEN delivered ELSE DESCRIPTOR_SZ
    BY <1>1, <1>3, <1>4, ReadDescriptorParts
  <1> QED BY <1>2, <1>3, <1>5, UsbAssumption

\* The interrupt handler takes EP0IF for what it is, and nothing is
\* outstanding when a device has been noticed.
LEMMA HandlerOrder == OrderInv /\ usb_int_handler => OrderInv'
  <1> SUFFICES ASSUME OrderInv, usb_int_handler PROVE OrderInv'
    OBVIOUS
  <1>1. UsbInv' /\ BytesInv'
    BY HandlerStep, HandlerBytes DEF OrderInv
  <1>2. AvailableIsSettled'
    BY DEF OrderInv, AvailableIsSettled, usb_int_handler, AfterGeneral, AfterEP0
  <1>3. ASSUME Undisturbed' PROVE InOrder'
    <2>1. InOrder
      BY <1>3 DEF usb_int_handler, OrderInv, Undisturbed
    <2>2. /\ interrupts' = {} /\ ep0if' = FALSE
          /\ UNCHANGED <<descr, ep, rx, delivered>>
      BY DEF usb_int_handler, descrVars
    <2>3. descriptor_available' => descriptor_available
      BY DEF usb_int_handler, AfterGeneral
    <2>4. \/ state' \in {"VBUSERROR", "IDLE"}
          \/ state' = "DEBOUNCE" /\ "CONN" \in interrupts /\ "DISCONN" \notin interrupts
          \/ state' = "HANDSHAKE" /\ state = "WAIT_TX_INT" /\ ep0if
          \/ state' = "READ_DESCRIPTOR" /\ state = "WAIT_DESCRIPTOR" /\ ep0if
          \/ state' = state
             /\ ~ (ep0if /\ state \in {"WAIT_TX_INT", "WAIT_DESCRIPTOR"})
      BY DEF usb_int_handler, AfterGeneral, AfterEP0
    <2>5. Sized' = Sized /\ PacketThere' = PacketThere /\ PacketAwaited' = PacketAwaited
      BY <2>2 DEF Sized, PacketThere, PacketAwaited
    <2> QED BY <2>1, <2>2, <2>3, <2>4, <2>5 DEF InOrder, Before
  <1> QED BY <1>1, <1>2, <1>3 DEF OrderInv

\* The cases of update_state_machine, one after the other.
LEMMA PollOrder ==
    ASSUME OrderInv, NEW over \in BOOLEAN, update_state_machine(over), state # "RUNNING",
           Undisturbed'
    PROVE  InOrder'
  <1>1. InOrder
    BY DEF OrderInv, Undisturbed, update_state_machine, MoveTo, Debounced, ResetDone, Stable,
           RequestDescriptor, Handshake, NoAnswer, ReadDescriptor, GeneralError, Waits
  <1>2. UNCHANGED <<transfer, device, interrupts>>
    BY DEF update_state_machine
  <1>3. state \notin Settled =>
            ("CONN" \in interrupts /\ "DISCONN" \notin interrupts => FALSE)
    BY DEF OrderInv, UsbInv, DetectedIsConnected, PendingTellsWhy
  <1>4. ASSUME NEW s, NEW new, MoveTo(s, new, over),
               s = state \/ s \in Before \cup Settled,
               s \in Before => state \in Before,
               UNCHANGED <<descriptor_available, descr, epVars>>
        PROVE  InOrder'
    <2>1. state' \in {s, "GENERALERROR"}
      BY <1>4 DEF MoveTo
    <2>2. Sized' = Sized /\ PacketThere' = PacketThere /\ PacketAwaited' = PacketAwaited
      BY <1>4 DEF Sized, PacketThere, PacketAwaited, epVars
    <2> QED BY <1>1, <1>2, <1>4, <2>1, <2>2 DEF InOrder, Before, Settled, epVars
  <1>5. CASE Debounced(over) \/ ResetDone(over) \/ Stable(over)
    BY <1>4, <1>5 DEF Debounced, ResetDone, Stable, Before, descrVars
  <1>6. CASE RequestDescriptor(over)
    <2>1. /\ descr' = EmptyDescr /\ rx' = NoPacket /\ delivered' = 0
          /\ ep' = ep \cup {"setup"}
          /\ UNCHANGED <<descriptor_available, ep0if>>
          /\ state' \in {"WAIT_TX_INT", "GENERALERROR"}
      BY <1>6 DEF RequestDescriptor, setup_packet_send, MoveTo
    <2>2. state = "REQUEST_DESCRIPTOR" /\ ep = {} /\ ~ ep0if
      BY <1>1, <1>6 DEF RequestDescriptor, InOrder, Before
    <2>3. ~ descriptor_available
      BY <2>2 DEF OrderInv, AvailableIsSettled
    <2> QED BY <1>2, <1>3, <2>1, <2>2, <2>3 DEF InOrder, Before, Settled
  <1>7. CASE Handshake(over)
    <2>1. /\ ep' = ep \cup {"in"} /\ UNCHANGED <<descriptor_available, descr, rx, ep0if, delivered>>
          /\ state' \in {"WAIT_DESCRIPTOR", "GENERALERROR"}
      BY <1>7 DEF Handshake, RequestPacket, MoveTo, descrVars
    <2>2. /\ state = "HANDSHAKE" /\ ep = {} /\ ~ ep0if
          /\ descr = EmptyDescr /\ rx = NoPacket /\ delivered = 0
      BY <1>1, <1>7 DEF Handshake, InOrder
    <2>3. ~ descriptor_available
      BY <2>2 DEF OrderInv, AvailableIsSettled
    <2>4. Sized' /\ PacketAwaited'
      BY <2>1, <2>2, UsbAssumption DEF Sized, PacketAwaited, EmptyDescr
    <2> QED BY <1>2, <1>3, <2>1, <2>2, <2>3, <2>4 DEF InOrder, Before, Settled
  <1>8. CASE NoAnswer(over)
    <2>1. GivesUp /\ MoveTo("GENERALERROR", {}, over)
      BY <1>8 DEF NoAnswer, MoveTo, Undisturbed
    <2> QED BY <1>4, <1>8, <2>1 DEF NoAnswer, Settled, Before
  <1>9. CASE ReadDescriptor(over)
    <2>1. state = "READ_DESCRIPTOR" /\ Sized /\ ~ ep0if /\ PacketThere
      BY <1>1, <1>9 DEF ReadDescriptor, InOrder
    <2>2. descr' = read_descriptor /\ rx' = NoPacket
      BY <1>9 DEF ReadDescriptor
    <2>3. ~ descriptor_available
      BY <2>1 DEF OrderInv, AvailableIsSettled
    <2>4. UsbTypeOK
      BY DEF OrderInv, BytesInv
    <2>5. CASE descr'.received < descr'.descr_sz
      <3>1. /\ ep' = {"in"} /\ UNCHANGED <<ep0if, delivered, descriptor_available>>
            /\ state' \in {"WAIT_DESCRIPTOR", "GENERALERROR"}
        <4>1. ~ (descr'.received >= descr'.descr_sz)
          <5>1. descr' \in Descr
            BY <2>2, <2>4, ReadDescriptorParts
          <5> QED BY <2>5, <5>1 DEF Descr
        <4> QED BY <1>9, <2>1, <4>1 DEF ReadDescriptor, RequestPacket, MoveTo, PacketThere
      <3>2. Sized' /\ PacketAwaited'
        BY <2>1, <2>2, <2>4, <2>5, <3>1, ReadDescriptorWhole DEF Sized, PacketAwaited
      <3> QED BY <1>2, <1>3, <2>1, <2>3, <3>1, <3>2 DEF InOrder, Before, Settled
    <2>6. CASE ~ (descr'.received < descr'.descr_sz)
      <3>1. /\ UNCHANGED <<ep, ep0if, delivered>> /\ descr'.received >= descr'.descr_sz
            /\ state' \in {"RUNNING", "GENERALERROR"}
        BY <1>9, <2>6 DEF ReadDescriptor, MoveTo
      <3>2. descr'.received = DESCRIPTOR_SZ
        BY <2>1, <2>2, <2>4, <3>1, ReadDescriptorWhole
      <3> QED BY <1>2, <1>3, <2>1, <3>1, <3>2 DEF InOrder, Before, Settled, PacketThere
    <2> QED BY <2>5, <2>6
  <1>10. CASE GeneralError(over)
    BY <1>4, <1>10 DEF GeneralError, Settled, Before
  <1>11. CASE Waits(over)
    BY <1>4, <1>11 DEF Waits, descrVars
  <1> QED BY <1>5, <1>6, <1>7, <1>8, <1>9, <1>10, <1>11 DEF update_state_machine

\* A poll announces a descriptor only when it moves on to RUNNING.
LEMMA PollSettled ==
    ASSUME OrderInv, NEW over \in BOOLEAN, update_state_machine(over), state # "RUNNING"
    PROVE  AvailableIsSettled'
  <1>1. UNCHANGED <<transfer, device, interrupts>>
    BY DEF update_state_machine
  <1>2. ASSUME UNCHANGED descriptor_available,
               state = "GENERALERROR" => state' = "GENERALERROR"
        PROVE  AvailableIsSettled'
    BY <1>1, <1>2 DEF OrderInv, AvailableIsSettled
  <1>3. CASE ReadDescriptor(over) /\ ~ UNCHANGED descriptor_available
    <2>1. state = "READ_DESCRIPTOR" /\ state' \in {"RUNNING", "GENERALERROR"}
      BY <1>3 DEF ReadDescriptor, MoveTo
    <2>2. "CONN" \in interrupts => "DISCONN" \in interrupts
      BY <2>1 DEF OrderInv, UsbInv, DetectedIsConnected, PendingTellsWhy, Settled
    <2> QED BY <1>1, <2>1, <2>2 DEF AvailableIsSettled
  <1>4. CASE UNCHANGED descriptor_available
    <2>1. state = "GENERALERROR" => state' = "GENERALERROR"
      BY DEF update_state_machine, MoveTo, Debounced, ResetDone, Stable, RequestDescriptor,
             Handshake, NoAnswer, ReadDescriptor, GeneralError, Waits
    <2> QED BY <1>2, <1>4, <2>1
  <1> QED BY <1>3, <1>4 DEF update_state_machine, Debounced, ResetDone, Stable,
             RequestDescriptor, Handshake, NoAnswer, GeneralError, Waits

\* Transfers run in RUNNING only; the controller serves the one thing the driver
\* has asked for; a device that comes or goes ends what was outstanding.
LEMMA OtherOrder ==
    ASSUME OrderInv,
           \/ /\ state = "RUNNING"
              /\ update_transfer_state_machine
           \/ usb_send_data \/ Plug \/ Unplug \/ VbusError \/ SetupSent \/ AnyPacketReceived
           \/ DataSent \/ EpError \/ Tick \/ UNCHANGED usbVars
    PROVE  AvailableIsSettled' /\ (Undisturbed' => InOrder')
  <1> UsbTypeOK
    BY DEF OrderInv, BytesInv
  <1> USE DEF driverVars, statusVars, descrVars, epVars, Undisturbed
  <1>1. CASE state = "RUNNING" /\ update_transfer_state_machine
    <2>1. UNCHANGED <<state, descriptor_available, descr, interrupts, faults>>
      BY <1>1 DEF update_transfer_state_machine
    <2>2. "CONN" \in interrupts => "DISCONN" \in interrupts
      BY <1>1 DEF OrderInv, UsbInv, DetectedIsConnected, PendingTellsWhy, Settled
    <2> QED BY <1>1, <2>1, <2>2 DEF OrderInv, AvailableIsSettled, InOrder, Before
  <1>2. CASE usb_send_data \/ VbusError \/ Tick \/ UNCHANGED usbVars
    <2>1. /\ UNCHANGED <<state, descriptor_available, descr, ep, ep0if, rx, delivered>>
          /\ ("CONN" \in interrupts' <=> "CONN" \in interrupts)
          /\ ("DISCONN" \in interrupts' <=> "DISCONN" \in interrupts)
          /\ faults \subseteq faults'
      BY <1>2 DEF usb_send_data, VbusError, Tick, usbVars
    <2> QED BY <2>1 DEF OrderInv, AvailableIsSettled, InOrder, Sized, PacketThere, PacketAwaited
  <1>3. CASE Plug
    <2>1. descriptor_available => "DISCONN" \in interrupts
      BY <1>3 DEF Plug, OrderInv, UsbInv, AvailableIffRunning, DetectedIsConnected, Settled,
                  PendingTellsWhy, Flags
    <2> QED BY <1>3, <2>1
            DEF Plug, OrderInv, AvailableIsSettled, InOrder, Sized, PacketThere, PacketAwaited
  <1>4. CASE Unplug
    BY <1>4 DEF Unplug, OrderInv, AvailableIsSettled, InOrder, Sized, PacketThere, PacketAwaited
  <1>5. CASE SetupSent
    BY <1>5 DEF SetupSent, OrderInv, AvailableIsSettled, InOrder, Before, Sized, PacketThere,
                PacketAwaited
  <1>6. CASE AnyPacketReceived
    <2>1. PICK packet \in OddPacket \cup {StandardPacket} : PacketReceived(packet)
      BY <1>6 DEF AnyPacketReceived
    <2>2. /\ "in" \in ep /\ ep' = ep \ {"in"} /\ ep0if' = TRUE
          /\ rx' = packet /\ rx.count = 0 /\ delivered' = Sent(packet)
          /\ faults' = faults \cup Oddities(packet)
          /\ UNCHANGED <<state, descriptor_available, descr, interrupts>>
      BY <2>1 DEF PacketReceived
    <2>3. AvailableIsSettled'
      BY <2>2 DEF OrderInv, AvailableIsSettled
    <2>4. ASSUME Undisturbed' PROVE InOrder'
      <3>1. InOrder
        BY <2>2, <2>4 DEF OrderInv
      <3>2. packet = StandardPacket /\ Sent(packet) <= DESCRIPTOR_SZ
        <4>1. Oddities(packet) = {}
          BY <2>2, <2>4 DEF Oddities, Fault
        <4>2. Sent(packet) \in 0 .. (DESCRIPTOR_SZ + 1)
          BY PacketType
        <4> QED BY <4>1, <4>2, UsbAssumption DEF Oddities, Fault
      <3>3. ASSUME PacketAwaited PROVE PacketThere'
        <4>1. PICK left : left = DESCRIPTOR_SZ - delivered
          OBVIOUS
        <4>2. /\ delivered \in Nat /\ descr.received = delivered /\ left \in Nat \ {0}
              /\ delivered < DESCRIPTOR_SZ /\ delivered + left = DESCRIPTOR_SZ
          BY <3>3, <4>1, UsbAssumption DEF PacketAwaited, UsbTypeOK
        <4>3. packet = Packet(AtMost(MAX_PACKET, left), DESCRIPTOR_SZ, MAX_PACKET)
          BY <3>2, <4>1, <4>2 DEF StandardPacket
        <4>4. PICK n : n = AtMost(MAX_PACKET, left)
          OBVIOUS
        <4>5. n \in Nat \ {0} /\ (n = MAX_PACKET \/ n = left)
              /\ (left = DESCRIPTOR_SZ => n > SIZE_AT)
          BY <4>2, <4>4, UsbAssumption DEF AtMost
        <4>6. packet.count = n /\ packet.length = DESCRIPTOR_SZ
              /\ (left = DESCRIPTOR_SZ => packet.size = MAX_PACKET)
          BY <4>3, <4>4, <4>5, UsbAssumption DEF Packet
        <4>7. delivered' = delivered + n /\ delivered' <= DESCRIPTOR_SZ
          BY <2>2, <3>2, <4>6, PacketType
        <4>8. descr.received = 0 => left = DESCRIPTOR_SZ
          BY <4>2, UsbAssumption
        <4>9. ep' = {}
          BY <2>2, <3>3 DEF PacketAwaited
        <4> QED BY <2>2, <4>2, <4>5, <4>6, <4>7, <4>8, <4>9, UsbAssumption DEF PacketThere
      <3> QED BY <2>2, <3>1, <3>3 DEF InOrder, Before, Sized, PacketThere
    <2> QED BY <2>3, <2>4
  <1>7. CASE DataSent
    <2>1. /\ "out" \in ep
          /\ UNCHANGED <<state, descriptor_available, descr, interrupts, faults>>
      BY <1>7 DEF DataSent
    <2>2. AvailableIsSettled'
      BY <2>1 DEF OrderInv, AvailableIsSettled
    <2>3. Undisturbed =>
            state \notin Before \cup Session
      BY <2>1 DEF OrderInv, InOrder, PacketThere, PacketAwaited, Session
    <2>4. ep' \subseteq ep
      BY <1>7 DEF DataSent
    <2> QED BY <2>1, <2>2, <2>3, <2>4 DEF OrderInv, InOrder, Session
  <1>8. CASE EpError
    BY <1>8 DEF EpError, OrderInv, AvailableIsSettled
  <1> QED BY <1>1, <1>2, <1>3, <1>4, <1>5, <1>6, <1>7, <1>8

\* The order holds from start-up.
LEMMA OrderInvAlways == UsbSpec => []OrderInv
  <1>1. UsbInit => AvailableIsSettled /\ InOrder
    BY DEF UsbInit, AvailableIsSettled, InOrder, Before
  <1>2. OrderInv /\ UsbInv' /\ BytesInv' /\ [UsbNext]_usbVars => OrderInv'
    <2> SUFFICES ASSUME OrderInv, UsbInv', BytesInv', [UsbNext]_usbVars PROVE OrderInv'
      OBVIOUS
    <2>1. ASSUME NEW over \in BOOLEAN, usb_polling(over) PROVE OrderInv'
      BY <2>1, PollOrder, PollSettled, OtherOrder DEF usb_polling, OrderInv
    <2> QED BY <2>1, HandlerOrder, OtherOrder DEF UsbNext, OrderInv, AnyPacketReceived
  <1>3. UsbInv /\ BytesInv /\ AvailableIsSettled /\ InOrder => OrderInv
    BY DEF OrderInv
  <1> QED BY <1>1, <1>2, <1>3, UsbInvAlways, BytesInvAlways, PTL DEF UsbSpec

\* A descriptor that is announced was received whole, whatever its size and the
\* size of the packets, unless endpoint 0 failed, a request was repeated or a device
\* did not keep to the standard (read_descriptor, update_state_machine lines 283-293).
THEOREM AvailableIsWholeAlways == UsbSpec => []AvailableIsWhole
  <1>1. OrderInv => AvailableIsWhole
    BY DEF OrderInv, InOrder, AvailableIsWhole, Undisturbed
  <1> QED BY <1>1, OrderInvAlways, PTL
-----------------------------------------------------------------------------
(***************************************************************************)
(* A detection advances. An empty packet ends the descriptor, unless the   *)
(* driver has a length for it and no packet size.                          *)
(***************************************************************************)

\* Reading nothing ends the descriptor of a device whose packet size is known, or that
\* has sent nothing yet (usb_read_descriptor).
LEMMA ReadNothingEnds ==
    ASSUME BytesInv, rx.count = 0, ~ Unsized
    PROVE  read_descriptor.received >= read_descriptor.descr_sz
  <1>1. descr.received \in Nat /\ descr.descr_sz \in Nat /\ descr.tranfer_sz \in Nat
    BY DEF BytesInv, UsbTypeOK
  <1>2. CASE descr.descr_sz = 0
    <2>1. SizedBy(rx).descr_sz = 0
      BY <1>2 DEF SizedBy, BytesInv, EmptySaysNothing, UsbTypeOK
    <2> QED BY <1>1, <2>1, ReadDescriptorParts DEF BytesInv
  <1>3. CASE descr.descr_sz # 0
    <2>1. SizedBy(rx) = descr /\ descr.tranfer_sz > 0
      BY <1>1, <1>3 DEF SizedBy, Unsized
    <2> QED BY <1>1, <2>1, ReadDescriptorParts DEF BytesInv
  <1> QED BY <1>2, <1>3

\* What DetectionAdvances says of one step.
Advance ==
    (/\ {state, state'} \subseteq DOMAIN StatesLeft /\ state' \notin {state, "DEBOUNCE"}
     /\ ~ ReadsNothing /\ "overlong" \notin faults) =>
        \/ request_count' > request_count
        \/ /\ request_count' = request_count
           /\ \/ StatesLeft[state'] < StatesLeft[state]
              \/ StatesLeft[state'] = StatesLeft[state] /\ VisitsLeft' < VisitsLeft

\* The interrupt handler only ever moves a detection one state on.
LEMMA HandlerAdvances == UsbTypeOK /\ usb_int_handler => Advance
  <1> SUFFICES ASSUME UsbTypeOK, usb_int_handler,
                      state' \in DOMAIN StatesLeft, state' \notin {state, "DEBOUNCE"}
               PROVE  /\ request_count' = request_count
                      /\ \/ StatesLeft[state'] < StatesLeft[state]
                         \/ StatesLeft[state'] = StatesLeft[state] /\ VisitsLeft' < VisitsLeft
    BY DEF Advance
  <1>1. UNCHANGED <<request_count, descr>>
    BY DEF usb_int_handler, descrVars
  <1>2. \/ state = "WAIT_TX_INT" /\ state' = "HANDSHAKE"
        \/ state = "WAIT_DESCRIPTOR" /\ state' = "READ_DESCRIPTOR"
    BY DEF usb_int_handler, AfterEP0, AfterGeneral, StatesLeft
  <1>3. CASE state = "WAIT_TX_INT" /\ state' = "HANDSHAKE"
    BY <1>1, <1>3 DEF StatesLeft
  <1>4. CASE state = "WAIT_DESCRIPTOR" /\ state' = "READ_DESCRIPTOR"
    <2>1. StatesLeft[state'] = StatesLeft[state]
      BY <1>4 DEF StatesLeft
    <2>2. PICK left : left = 2 * (DESCRIPTOR_SZ - descr.received)
      OBVIOUS
    <2>3. left \in Int
      BY <2>2, UsbAssumption DEF UsbTypeOK
    <2>4. VisitsLeft = left + 1
      BY <1>4, <2>2 DEF VisitsLeft
    <2>5. VisitsLeft' = left + 0
      BY <1>1, <1>4, <2>2 DEF VisitsLeft
    <2> QED BY <1>1, <2>1, <2>3, <2>4, <2>5
  <1> QED BY <1>2, <1>3, <1>4

\* A poll moves a detection one state on, repeats the request, or has read at least
\* a byte of the descriptor.
LEMMA PollAdvances ==
    ASSUME BytesInv, NEW over \in BOOLEAN, update_state_machine(over)
    PROVE  Advance
  <1> SUFFICES ASSUME state' \in DOMAIN StatesLeft, state' \notin {state, "DEBOUNCE"},
                      ~ ReadsNothing
               PROVE  \/ request_count' > request_count
                      \/ /\ request_count' = request_count
                         /\ \/ StatesLeft[state'] < StatesLeft[state]
                            \/ StatesLeft[state'] = StatesLeft[state] /\ VisitsLeft' < VisitsLeft
    BY DEF Advance
  <1> UsbTypeOK
    BY DEF BytesInv
  <1>1. CASE Debounced(over) \/ ResetDone(over) \/ Stable(over) \/ RequestDescriptor(over)
             \/ Handshake(over)
    <2>1. request_count' = request_count
      BY <1>1 DEF Debounced, ResetDone, Stable, RequestDescriptor, Handshake, descrVars
    <2>2. \/ state = "DEBOUNCE" /\ state' = "USB_RESET"
          \/ state = "USB_RESET" /\ state' = "AFTER_RESET_DELAY"
          \/ state = "AFTER_RESET_DELAY" /\ state' = "REQUEST_DESCRIPTOR"
          \/ state = "REQUEST_DESCRIPTOR" /\ state' = "WAIT_TX_INT"
          \/ state = "HANDSHAKE" /\ state' = "WAIT_DESCRIPTOR"
      BY <1>1 DEF Debounced, ResetDone, Stable, RequestDescriptor, Handshake, MoveTo, StatesLeft
    <2>3. StatesLeft[state'] < StatesLeft[state]
      BY <2>2 DEF StatesLeft
    <2> QED BY <2>1, <2>3
  <1>2. CASE NoAnswer(over)
    <2>1. request_count' = request_count + 1
      BY <1>2 DEF NoAnswer, MoveTo, StatesLeft
    <2> QED BY <2>1, UsbAssumption DEF UsbTypeOK
  <1>3. CASE ReadDescriptor(over)
    <2>1. /\ state = "READ_DESCRIPTOR" /\ state' = "WAIT_DESCRIPTOR"
          /\ descr' = read_descriptor /\ request_count' = request_count
          /\ descr'.received < descr'.descr_sz
      BY <1>3 DEF ReadDescriptor, MoveTo, StatesLeft
    <2>2. descr' \in Descr /\ descr'.received = descr.received + rx.count
      BY <2>1, ReadDescriptorParts
    <2>3. ~ (descr'.received >= descr'.descr_sz)
      BY <2>1, <2>2 DEF Descr
    <2>4. rx.count # 0
      BY <2>1, <2>3, ReadNothingEnds DEF ReadsNothing
    <2>5. PICK had, has, count : had = descr.received /\ has = descr'.received /\ count = rx.count
      OBVIOUS
    <2>6. had \in Nat /\ has \in Nat /\ has > had
      <3>1. count \in Nat /\ had \in Nat /\ has = had + count /\ count # 0
        BY <2>2, <2>4, <2>5 DEF UsbTypeOK
      <3> QED BY <3>1
    <2>7. VisitsLeft = 2 * (DESCRIPTOR_SZ - had) + 0
      BY <2>1, <2>5 DEF VisitsLeft
    <2>8. VisitsLeft' = 2 * (DESCRIPTOR_SZ - has) + 1
      BY <2>1, <2>5 DEF VisitsLeft
    <2>9. VisitsLeft' < VisitsLeft
      BY <2>6, <2>7, <2>8, UsbAssumption
    <2>10. StatesLeft[state'] = StatesLeft[state]
      BY <2>1 DEF StatesLeft
    <2> QED BY <2>1, <2>9, <2>10
  <1>4. CASE GeneralError(over) \/ Waits(over)
    BY <1>4 DEF GeneralError, Waits, MoveTo, StatesLeft
  <1> QED BY <1>1, <1>2, <1>3, <1>4 DEF update_state_machine

\* A detection moves on, repeats its request, each time with one attempt less, or reads
\* more of the descriptor, unless the packet it reads is empty and the device has stated
\* a length and no packet size, or descriptor_data has been overrun
\* (update_state_machine lines 198-299, read_descriptor lines 387-412).
THEOREM DetectionAdvancesAlways == UsbSpec => DetectionAdvances
  <1>1. BytesInv /\ [UsbNext]_usbVars => Advance
    <2> SUFFICES ASSUME BytesInv, [UsbNext]_usbVars PROVE Advance
      OBVIOUS
    <2>1. CASE state' = state
      BY <2>1 DEF Advance
    <2>2. CASE usb_int_handler
      BY <2>2, HandlerAdvances DEF BytesInv
    <2>3. ASSUME NEW over \in BOOLEAN, usb_polling(over) PROVE Advance
      <3>1. CASE update_transfer_state_machine
        BY <2>1, <3>1 DEF update_transfer_state_machine
      <3> QED BY <2>3, <3>1, PollAdvances DEF usb_polling
    <2>4. CASE \/ usb_send_data \/ Plug \/ Unplug \/ VbusError \/ SetupSent \/ AnyPacketReceived
               \/ DataSent \/ EpError \/ Tick \/ UNCHANGED usbVars
      BY <2>1, <2>4
      DEF usb_send_data, Plug, Unplug, VbusError, SetupSent, AnyPacketReceived, PacketReceived,
          DataSent, EpError, Tick, usbVars, driverVars, statusVars
    <2> QED BY <2>2, <2>3, <2>4 DEF UsbNext, AnyPacketReceived
  <1>2. (BytesInv /\ [UsbNext]_usbVars => Advance)
        => (BytesInv /\ [UsbNext]_usbVars =>
            [(/\ {state, state'} \subseteq DOMAIN StatesLeft /\ state' \notin {state, "DEBOUNCE"}
              /\ ~ ReadsNothing /\ "overlong" \notin faults) =>
                 \/ request_count' > request_count
                 \/ /\ request_count' = request_count
                    /\ \/ StatesLeft[state'] < StatesLeft[state]
                       \/ StatesLeft[state'] = StatesLeft[state] /\ VisitsLeft' < VisitsLeft
            ]_usbVars)
    BY DEF Advance
  <1> QED BY <1>1, <1>2, BytesInvAlways, PTL DEF UsbSpec, DetectionAdvances
=============================================================================
