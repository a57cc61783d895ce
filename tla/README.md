# A TLA+ model of the prplHypervisor kernel

This directory specifies and verifies the core of the hypervisor under
`Hypervisor/`: a small MIPS (PIC32MZ) hypervisor for one processor core that
runs bare-metal guests, one VCPU for each VM. Paths below are relative to
`Hypervisor/`.

## 1. Inventory

| Component | State | Operations | Hard parts |
|---|---|---|---|
| Scheduler (`sys/kernel/scheduler.c`) | executing node, pending fast node, round-robin cursor, tick counter | `run_scheduler` (timer), `fast_interrupt_delivery` (drivers) | interrupts between ticks, quantum boundaries, counter wrap, nodes of two lists |
| VCPU context (`arch/mips/common/vcpu.c`) | `vcpu_t` of each VM, guest CP0 in hardware | `contextSave`, `contextRestore` | interrupts pending in two places |
| Timer (`arch/mips/pic32mz/timer.c`) | `past`, Compare | handler, re-arming | handler posts to the VM it has just dispatched |
| Interrupt redirection (`drivers/pic32mz-interrupt-redirect.c`) | mapping list, IFS/IEC bits | `interrupt_injection`, `reenable_interrupt` | target running or not, masked interrupts, before the first dispatch |
| Inter-VM messages (`drivers/inter-vm-comm.c`) | a ring of five messages in each `vcpu_t` | send, receive, `guest_is_up`, `get_vm_id` | full rings, self sends, targets still starting |
| Guest network library (`bare-metal-apps/lib/network.c`) | a second ring in each guest | `SendMessage`, `ReceiveMessage`, `irq_network`, `init_network` | handler against thread, preemption between hypercalls, lost wake-ups |
| Guest start-up and dispatch (`crt0.s`, `platform.c`) | handler table, interrupt enable | `init_proc`, `interrupt_register`, `_irq_handler` | interrupts before a handler exists |
| Exceptions, reset (`exception.c`, `reset.c`) | guest pc | hypercall return, `CRITICAL`, SW1 reset | one guest's fault stops all |
| Hypercall table, interrupt vectors | two tables | registration at start-up | limits of the tables |
| VM creation, TLB | lists, TLB entries | `create_vm`, `tlbEntryWrite`, `tlbCreateEntry` | fixed and temporary entries share a table; buffers cross pages |
| Heap (`sys/lib/malloc.c`) | free list | `malloc`, `free`, `realloc` | none that the rest depends on |
| Ethernet driver (`drivers/pic32mz-ethernet.c`) | receive descriptor ring, one transmit buffer, link state | `en_interrupt_handler`, `en_ll_input`, `en_ll_output`, `en_watchdog` | the DMA works on while a hypercall executes; the buffer is overwritten before the wire is free |
| USB driver (`drivers/pic32mz-usb.c`) | enumeration and transfer states | `usb_polling`, `usb_int_handler`, `usb_send_data`, `get_descriptor` | interrupts move the state the polls advance; timeouts and retries race late answers |
| Flash driver (`drivers/pic32mz-puf-flash.c`) | one page of guest data | `flash_write`, `flash_read` | power failing between an erase and any of 64 quad writes; NVM errors nobody looks at |
| Secure boot, VM update (`cryptography/security.c`, `hal.c`, `drivers/pic32mz-vm-update.c`, `pic32mz-remote-connection.c`) | the images in flash | `isVmTrust`, `get_allowed_vm`, `get_owned_list` | the flash driver writes into the flash that is verified |
| Configuration generator (`platform/cfg_reader/genconf.c`) | cursors for RAM, flash and TLB entries | placement of VMs, choice of page sizes | alignment of what follows a small VM, pairs of pages |
| Virtual I/O | none | range-checked read and write | bounds |

The components meet in five places. The timer handler calls the scheduler,
which calls the context switch; afterwards it may post a timer interrupt to the
VCPU that now executes. Drivers post virtual interrupts to `vcpu->guestclt2`
(the VM is not in execution) or to the hardware register GuestCtl2 (it is). And
the message hypercalls connect a ring in the hypervisor with a ring in the
guest by one of these interrupts. The flash driver writes where the images are
that the next start verifies. And what the generator places, `create_vm` maps,
and every hypercall with a buffer uses the placement again.

All hypervisor code runs with root exceptions masked, so a handler or a
hypercall is one atomic step. Guests are interrupted between any two
instructions; the model interleaves them at each hypercall and at each point
where their interrupt handler could observe a difference.

`PROJECT.json` lists every component with its status, the hazards with the
line where each bites, and the source lines of every definition.

## 2. Modules

```
DispatchPolicy      what the scheduler promises        GuestMachines   what virtualisation promises
   ^ refines                                              ^ refines
Scheduler  <--EXTENDS--  VCpu  <--EXTENDS--  VirtualInterrupts  <--  MCVirtualInterrupts
   ^ EXTENDS                                              ^ EXTENDS
SchedulerFairness  <--  SchedulerProofs, MCScheduler   InterruptProofs

MessageChannel      what messaging promises            FrameQueue      what receiving promises
   ^ refines                                              ^ refines
InterVM  --EXTENDS-->  DispatchPolicy                  EthernetDriver  <--  EthernetProofs
   ^ EXTENDS
MCInterVM, InterVMProofs  <--  InterVMRefinement

FlashStorage  <--  MCStorage, FlashProofs     UsbHost  <--  UsbProofs     MemoryMap  <--  MCMemory, MemoryProofs
```

**Scheduler** translates `scheduler.c`. `run_scheduler` has three disjuncts:
`FastSwitch` (the branch on `next_vcpu`), `QuantumSwitch` (the boundary) and
`PlainTick`; all three increment the counter, modulo `TICK_MOD` for the width of
`uint32_t`. The statics point at list nodes, and `create_vm` appends a VCPU to
two lists, so a VCPU has two nodes. The model keeps the difference
(`<<"ready", v>>` and `<<"vm", v>>`) because the code compares node pointers.
The Ethernet handler is the only caller of `fast_interrupt_delivery`, with the
node the driver looked up when it initialised.

**DispatchPolicy** is the scheduler's promise without ticks and nodes: VMs take
turns in circular order; the processor may be lent to a VM with a fast
interrupt, at most once between two turns; turns never cease. `InterVM` is
composed with this policy instead of the tick counter, which is justified by
the proved refinement.

**SchedulerFairness** adds a history variable, the number of quantum boundaries
since the last round-robin decision that were taken by fast deliveries.

**VCpu** models `contextSave` and `contextRestore` as one step, `contextSwitch`:
registers and pending interrupts go to the `vcpu_t` of the VM that leaves and
come from the one that enters. Compare is saved and not restored, as in the
code. Start values and the pc after a hypercall are here as well.

**VirtualInterrupts** composes the scheduler and the context switch with the
timer handler, the redirection driver, inter-VM notifications, guest faults and
reset, and guests that write registers, take pending interrupts, dispatch them
lowest bit first and re-enable them. Interrupts are bit positions in GRIPL;
`Shifted` keeps the width of the shift into GuestCtl2. When a virtual interrupt
is delivered the hardware clears GRIPL; this is how the code relies on it.
A guest starts with its interrupts off; `init_proc` ends with `ei`, and only after
that does main register handlers, one at a time or not at all. `_irq_handler`
skips a bit without a handler (`platform.c:63`), so a redirected interrupt that
is taken too early is gone and its IRQ stays masked; the history variable
`dropped` keeps these IRQs, and `LastChance` says when nothing else of that IRQ
is under way. Handlers follow the documented convention that the handler of a
redirected interrupt ends with `reenable_interrupt`.

**GuestMachines** says that every VM owns a machine: registers only it changes,
pending interrupts only it takes, and none lost, invented or misrouted by a
switch. Several posts of one interrupt may merge.

**InterVM** models both rings and every message operation; `Put`, `Drop` and
`First` are the ring operations both sides share. Interrupts and preemptions fall
between the points of the start-up code: interrupts enabled, handler registered,
and then the memset of the library's ring, which clears `in`, `out`,
`num_messages` and the slots one after the other (`init_network_clear`; the
counters are below 256, so the first byte of each is its value). `irq_network`
can run between any two of them: `Spoils` tells when a message it stores is
counted in a counter that is cleared later, or lies in a slot that is, and
`spoilt` keeps the VMs this happened to. A message is its sender, size and number.
`SendMessage` has a `Window`: it bounds what senders leave unreceived. It is an
assumption on guests in the wakeup run and a bound elsewhere.

**MessageChannel** is one bounded FIFO inbox for each VM. A sender's return
value tells whether its message was accepted, and MESSAGE_FULL is given only
when at least a ring's worth of messages is waiting. What was sent to a VM
during its start-up may be discarded during the start-up, and never later. An
inbox that was spoilt has no promise: its VM may receive anything from then on.

**EthernetDriver** models the data path of the Ethernet driver against the two
DMA engines of the controller. A receive call is a sequence of steps (`pc`): it
copies the pieces of the oldest frame, then gives their descriptors back one by
one, and the controller can write a descriptor as soon as it has it. A send call
copies as many words into the one transmit buffer as its frame has, while the
controller may be reading them, then tests the size, which is 16 bits wide by
then (`Length`), and waits for the previous transmission. A frame whose size
fails the test has been copied and is not sent. One that is longer than the
buffer overruns it; what lies behind the buffer is not modelled. `en_watchdog`
notices that the link went up or down and, when it went down, waits for the
receiver to stop and rebuilds the ring. The controller gives a frame's
descriptors back when the frame has ended, the first one last; the driver relies
on this, for it takes the size from the first one.

**FrameQueue** is what a guest can rely on when it receives: a queue of frames,
each handed over once and in order, with its size. That only half of the pieces
of some frames are copied is part of it; the `half_frame` run is about that.

**UsbHost** models both state machines of the USB driver, the polling hypercall
that advances them, the interrupt handler that moves them, and the device, the
supply and endpoint 0 they meet. The device answers with packets of any length,
and its bytes say any length and packet size of the descriptor; the driver
believes both (`SizedBy`) and copies what is there. What bytes beyond
`descriptor_data` overwrite is not modelled: after them every fault counts as
having happened. `MoveTo` is the end of every poll, which checks
for an overcurrent. Timers are three values of `elapsed` (below the debounce
time, above it, above the timeout), and wrap. The history variable `faults`
names what went wrong, so that properties can say what holds without it.

**FlashStorage** models the flash as quads, `flash_write` as an erase and one
action for each quad, failing or cut off at each of them, and the start that
verifies the images. SHA-256 and ECDSA are external: an image verifies if it is
what was signed. The source has had `pageFlash` at several places, and the
initial state takes it from `Layouts`.

**MemoryMap** follows the memory of the VMs through three programs: the
generator on the build machine places them and chooses page sizes
(`gen_conf_vms`), `create_vm` writes the fixed TLB entries, and `tlbCreateEntry`
maps the buffer of a hypercall, any buffer, through the one entry behind them.
`Translations` is the processor's translation through pairs of pages.

The modules ending in **Proofs** and **Refinement** hold the theorems of
section 4.

Operators named after another with a suffix (`Drop_forgets_out`) are plausible
bugs, used to see that each property can fail.

## 3. Runs

Passing runs, each exhaustive:

| Run | Checks | Distinct states |
|---|---|---|
| scheduler | SchedTypeOK, FastNotRenewed, AtMostOneSkip, EveryVmRuns, refinement of DispatchPolicy with its fairness | 179 |
| interrupts | VITypeOK, MaskedIsInFlight, ExecutingIsFlushed, refinement of GuestMachines, MaskedIsReenabled | 158 567 |
| contexts | refinement of GuestMachines with register values and notifications | 819 994 |
| channel | IVTypeOK, RingsConsistent, refinement of MessageChannel, from power-on | 394 618 |
| wakeup | BacklogIsAnnounced, BlockedWakes | 14 043 |
| ethernet | EthTypeOK, RingInSync, TornByNextOnly, refinement of FrameQueue, CallAdvances, CallReturns | 574 215 |
| usb | UsbTypeOK, AvailableIffRunning, AvailableIsWhole, PresenceIsKnown, NoHalfTransfer, DetectionAdvances, EnumerationEnds | 651 090 |
| storage | FlashTypeOK, UnexposedStarts, ReadsBack, NoMixture, KeysStayKnown | 797 538 |
| memory | MemTypeOK, VmSeesItsOwn, VmsApart, BufferIsTheCallers | 202 377 |

What they show:

* interrupts: whatever is switched, injected, reset or faults, an IRQ that is
  masked is on its way to the guest that can unmask it. The one exception is in
  the guest's own start-up: an interrupt it takes between `ei` and
  `interrupt_register` is skipped for want of a handler, and its IRQ stays masked
  until some other redirected IRQ makes `interrupt_injection` serve it again.
* channel: the inbox of a VM is a FIFO queue from power-on, through a start-up
  interrupted anywhere, except for a VM whose memset met a message in its way.
  Such a VM can be left with counters that do not fit each other, or receive a
  zeroed message nobody sent; this window is in the code, the properties exclude
  it by name and promise the rest.
* ethernet: the driver's position and the controller's never drift apart, though
  descriptors are given back while the controller writes others and the link
  comes and goes. `send_frame` writes into the buffer while it may be on the
  wire; a frame on the wire loses words only to the frame that waits, in the
  words that one is long (a shorter frame tears the middle and leaves the tail),
  or to frames that are refused for their size after the copy. Two calls wait
  for the controller without a limit, and return: `CallReturns` says that they
  do, `CallAdvances` that no step on the way adds to what is left, which needs
  no fairness.
* usb: with polls, interrupts, plugging, errors, timeouts and packets of a device
  in any order, a guest is told of a descriptor exactly while the device runs, and
  it is complete; the driver knows whether a device is there; no data of an old
  request is sent in a new session; every detection ends, and goes back on its way
  only to repeat its request, one attempt poorer, or for another packet, some bytes
  richer. Each property names the faults it does not survive: a device that does
  not keep to the standard can have an incomplete descriptor announced; one that
  states a packet size of 0, or ends its first packet before that byte, and then
  sends empty packets keeps the driver between two states for ever; one that sends
  more than 18 bytes overruns `descriptor_data`, after which nothing is promised;
  an overcurrent seen by the last poll leaves
  `descriptor_available` set; a repeated request can take the late answer of
  the first for its own and announce an empty descriptor; unplugging and plugging
  between two services is not noticed; a VBUS error does not end a transfer.
* storage: an image is in danger exactly if `flash_write` can reach it. What was
  written without an NVM error reads back, and a page whose erase succeeded never
  mixes two buffers.
* memory: from any configuration the generator accepts, each VM sees its own RAM
  and flash at the addresses guests are linked for, and none of the fixed entries
  of a VM reaches another's memory or the hypervisor's. That is a statement about
  the fixed entries, those the guest itself goes through. The entry of the
  hypercalls is written without a look at the address (`tlb.c:70`): it reaches the
  bytes the caller means if the buffer lies in the caller's RAM, is no longer
  than a page, and the RAM begins at an even page (`PromisedBuffer`). Of all other
  buffers nothing is promised, for there the code does something else. A buffer in
  the caller's flash, where its constants are, in a device or outside its RAM is
  mapped to the RAM base plus the address, which is not the caller's memory (an
  address below 0x80000000 wraps). Of a buffer longer than a page the entry covers
  two pages at most. And a VM with 4 KB of RAM puts the next one at an odd page,
  where the address `tlbCreateEntry` returns falls into the wrong half of its
  entry. `VmSeesItsOwn` leaves out a device whose base is not aligned to its pair
  of pages, which is mapped at the next aligned address under its old one
  (`genconf.c:696`). Nothing checks the sums of RAM and flash against the chip,
  so the model has no end of memory.

Runs that show a disagreement between the code and what a comment or the user
guide says (`findings` quotes each):

| Run | What happens |
|---|---|
| backlog | a blocking receive spins for ever on messages the hypervisor holds |
| half_frame | a frame of 2n full receive buffers is handed over by half, with its full size |
| brick | `flash_write` erases the end of a 32 KB VM, and the next start stops |

Each has a counterpart that says where the trouble ends: `wakeup` shows that a
receiver is woken if the messages under way to it fit the library's ring and
none is empty; `ethernet` shows that all other frames are handed over whole;
`storage` shows that with the data away from the images every start succeeds.

Reading the code for these modules showed more, which the modules translate as
it is and no run singles out:

* fast delivery reschedules a VCPU that already executes, if it does so by round
  robin: `next_vcpu` and `vcpu_executing` point at nodes of two lists
  (`FastSwitch` of `Scheduler`);
* the extra time at the end of a period is never given: `x % n >= n` is false
  (`scheduler.c`);
* a redirected IRQ before the first tick is acknowledged and then read through
  NULL (`interrupt_injection`, before anything executes);
* an IRQ masked by the driver is served along with another one, because the
  handler looks at IFS only;
* the fifth redirection of a VM is shifted out of GuestCtl2 (`Shifted`); the
  theorems that need every redirection to fit assume it by name;
* `init_network` clears a ring that may hold a message already accepted, and does
  it bytewise under the eyes of the handler (`MessageChannel` allows the loss
  during a start-up, and an inbox spoilt in the middle of it);
* an interrupt between `ei` and `interrupt_register` is skipped (`irq_handler` of
  `VirtualInterrupts`, `TakeInterrupt` of `InterVM`);
* `send_frame` copies a frame before its size is tested (`FrameCopied`);
* the sizes of a USB descriptor and the number of its bytes are the device's
  (`read_descriptor`).

### Bounds

* scheduler: three VMs, so circular order and "the first fast VM" mean
  something; a quantum of three ticks; a counter of 16 values, which is no
  multiple of the quantum, as 2^32 is none of ten, so the wrap shortens a period.
* interrupts, contexts: two VMs and a quantum of two ticks, so that every order
  of two interrupts, two switches and a hypercall occurs. One run has one
  redirected IRQ for each VM, guests that start up and register, and fixed
  registers, without fast deliveries, which the other two runs have; the other has
  no IRQ, a fast VM, two registers (the pc, and Compare, which is not restored) of
  two values, and a VM that sends to itself and to the other. The split keeps both
  exhaustive.
* channel, wakeup: two VMs, rings of two slots (the smallest that wrap
  with more than one message), sizes below, at and above the limits, a target
  that does not exist. In `channel` the window lets both rings fill and a send
  be refused, and the memset has five parts; no processor time is lent there, only
  turns, which preempt at every step as well.
* ethernet: three descriptors of two bytes and frames of one and two pieces, so
  the ring wraps inside a frame, fills, and holds two frames; a transmit buffer of
  two words, and frames of none, one, two, three and five words, so that one can
  be overtaken in its middle by a shorter one, by one too long, and by one whose
  size passes the test because only its low bits are left (5 modulo 4). half_frame
  has four descriptors and one word.
* usb: a descriptor of three bytes in packets of two, which takes a full packet and
  a short one; other packets of no byte and of one, so that the first can end
  before the packet size and the descriptor can be overrun, and a stated length or
  packet size that is more than there is; one retry, so the limit is reached.
* storage: five pages of three quads, guest data of three quads, two VMs of two
  pages each, two contents. The guest data lies inside an image (0), across two
  pages of one (4), across the end of an image and the free page (10), and in
  the free page (12).
* memory: configurations of up to three VMs, each with up to two of three
  devices; page sizes 1, 4 and 16, so sizes of 1, 4 and 8 are mapped by a single
  small page, a single large one and a pair; six fixed entries, so the
  configuration can be one entry too long. A page has two bytes, so buffers begin
  and end at either side of a boundary; they lie in RAM, across the end of every
  RAM, in flash and in a device, and are up to one byte longer than a page.

The bounds are constants of the modules (`MAX_VMS`, `MAX_MAPS`, `MAX_REQUESTS`,
`Window`, `TICK_MOD`). Only `MAX_VMS` and `MAX_MAPS` have no counterpart in the
code.

### Fairness

The timer is re-armed by its own handler, so ticks never cease (weak fairness
of the timer handler; in `InterVM`, of the policy's turn). An asserted and
enabled IRQ is served (weak fairness of `interrupt_injection`). Guests get
strong fairness for their start-up code, taking a pending interrupt and finishing
its handler, because preemption disables these steps now and then, and every
dispatch lasts at least one tick, far more than such a step needs. Nothing forces
a guest to register a handler in `VirtualInterrupts`, to send, to call receive, to re-enable early or to fault, and nobody has to press
the reset button.

In `EthernetDriver` a hypercall goes on while it does not wait for the
controller, and the controller finishes a frame it receives, a transmission, and
stopping the receiver; no frame has to arrive, no call has to be made, and the
link may stay down. In `UsbHost` interrupts are taken, a setup packet is sent or
fails, time passes, a device without supply is gone, and the guest polls each
100 ms, as the comment at `pic32mz-usb.c:209` asks. Count wraps after 40
seconds, so a wait begins again; polls 400 times in between cannot always miss
the time after the timeout, which is the strong fairness. A device need not
answer, and an overcurrent need not happen. `FlashStorage` and `MemoryMap` state
no liveness: power may fail for ever, and start-up is a loop over a finite list.

## 4. Proofs

Every theorem holds for all values of the constants that satisfy the `ASSUME`s
of the modules; further assumptions are written in the theorem and named here.

**SchedulerProofs** (`SchedulerAssumption`: number of VMs, quantum and counter
width are positive, a counter has at least two values):

* `SchedTypeCorrect`: the pointers stay inside the lists `create_vm` built;
* `FastNotRenewedAlways`: a fast-delivered VCPU is not fast-delivered again
  before round robin runs;
* `AtMostOneSkipAlways`: at most one quantum boundary in a row is skipped;
* `ImplementsPolicySafety`: `SchedSpec` implies the safety part of the policy.

`SchedTypeOK` is inductive, once `get_fast_int_vcpu_node` is known to be well
defined: the first VM of a non-empty set exists because the ids are well
ordered (`FastTargetType`). `FastNotRenewed` is inductive with it: fast delivery
leaves `next_vcpu` alone when the executing node is its own target, and there is
only one fast node. `AtMostOneSkip` is not inductive: a state with one skip and a
fast delivery pending would skip again. `FairInv` adds the missing link, that a
skipped boundary leaves the processor with a vm-list node, for which
`FastNotRenewed` rules out a pending delivery. The refinement maps the list of
the executing node to `lent` and the cursor to `turn`; its key lemma is that a
second loan before the next turn is impossible, again by `FastNotRenewed`.

**InterruptProofs**:

* `VITypeCorrect`, `ExecutingAlwaysFlushed`: what is posted for the executing
  VCPU is in the hardware at once;
* `MaskedAlwaysInFlight`: a masked IRQ is pending for its guest, or its handler
  runs, so somebody can still unmask it, unless the guest took its interrupt before
  it had registered a handler;
* `SwitchingIsInvisible`: `VISpec` implements `GuestMachines`, one machine for
  each VM that only this VM changes.

`VIInv` joins the types and `ExecutingIsFlushed` with the fact that the executing
VCPU has been restored before (`~ init`): without it `contextSave` could save
into a VCPU whose start values the next restore would load. `FlightInv` adds the
masked IRQs. Its hard case is the context switch, where a pending interrupt
leaves GuestCtl2 for one `guestclt2` and enters it from another; the interrupt
that starts a switch can be the very one that is in flight. The last two
theorems assume that every redirection has a position in GuestCtl2 (the first
four of a VM do): of a fifth, the shift leaves nothing, which is a loss that
`GuestMachines` does not allow.

**InterVMProofs** and **InterVMRefinement**:

* `IVTypeCorrect`, `RingsAlwaysConsistent`: both rings stay inside their arrays,
  always; `in`, `out` and `num_messages` of the hypervisor's never drift apart, and
  those of the library's only while memset is between them, or if it was spoilt;
* `BacklogAlwaysAnnounced`: the hypervisor holds no message of a running VM
  without an interrupt or a handler that will fetch it;
* `InboxIsAChannel`: the two rings and the interrupt between them implement one
  FIFO inbox for each VM, from power-on, for rings of any size, as long as no
  message met the memset of that VM's ring in the part still to come.

`IVInv` says of each ring that `in` is `out` plus the count, and that the slots
in between hold messages. For the library's it says so unless the ring is spoilt
(`LibraryInv`): what arrives during memset lies below the place memset has
reached, because `out` stays 0 until main, and while `in` is cleared and
`num_messages` is not, `in` is 0. It also says that `irq_network` is inside its
loop only while the library's ring has room, which is what the check before its
receive hypercall establishes and no other step of this guest can undo. The
refinement concatenates the library's contents and the hypervisor's; its lemmas
say what `Put`, `Drop` and clearing do to these contents, and that moving the
first message of one to the end of the other leaves the concatenation alone.
`BacklogInv` bounds what is under way to a VM by the library's ring; the theorem
assumes this window, no empty messages and started guests. `backlog` is a run
without these assumptions.

**EthernetProofs**, for a ring of any length, buffers and frames of any size and
any number of words in a transmission:

* `TornByNextOnlyAlways`: of the frames that are copied while one is on the wire,
  a second one that would be sent cannot come before the first has left, because
  `en_ll_output` still waits (`pc` is `txwait`); all others are in `refused`. `TxInv`
  adds that a frame that waits is in the buffer as far as its transmission will
  reach, which needs that the 16 bits of a size are no more than the size
  (`LengthBound`);
* `RingInSyncAlways`: `RxInv` gives the number n of descriptors software owns
  without counting them. The controller goes on at n places behind
  `receive_index` (`Owned`); behind that point only the end of the frame under
  way has been written (`Free`); with one piece of a frame all later ones are
  there, and all earlier ones that were not given back (`Whole`); and a copy is
  inside the oldest frame (`Copying`). Only the last step to `RingInSync` counts.
  That the pieces of a frame fit the ring rests on the assumption about
  `FrameSize`: the driver's ring holds more than the largest frame;
* `EthTypeCorrect`, from `RxInv` and `TxTypes`;
* `ImplementsQueueAlways`: the receive side implements `FrameQueue`. The queue of
  the mapping are the frames whose first piece is among the descriptors software
  owns without a gap. The proof never computes it: `Holds(s, q)` says that the
  ascending list s of offsets lists these first pieces and that q is their frames,
  and `QueueIs` that then the queue is q. A step of the code becomes a change of
  the list: nothing is listed any more when the link comes up, a write-back of a
  first piece adds the last offset (`LongerList`), giving back the first descriptor
  of a frame removes the first offset and lowers the others (`ShorterList`).
  `Reads` says what the statics of `en_ll_input` hold, so that the copy that is
  handed over is the one `FrameQueue` describes (`HalfOrWhole` follows the test
  that ends the copy, line 495);
* `HandedWholeOrHalf`: the trouble of `half_frame` is confined to frames whose half
  ends where a buffer ends; all others are handed over whole;
* `CallAdvancesAlways`: no step inside a call goes back or adds to what is left of
  it. `OffWhileBusy` keeps the receiver off while RXBUSY is awaited; `Whole` shows
  that the loop that frees descriptors stays inside one frame.

**FlashProofs**, for any sizes of flash, pages, images and data, any layout, and
any number of failures and resets:

* `FlashTypeCorrect`: the loop and every address it programs stay inside the
  buffer and the flash;
* `UnexposedStartsAlways`, from `OutsideUnchanged`: no step changes a quad outside
  the page that is erased and the region that is programmed;
* `ReadsBackAlways`, `NoMixtureAlways`: `WriteInv` tells how far a write has come
  (`Progress`), which part of the page is still blank and which holds the buffer;
  the order, erase first, makes it inductive;
* `KeysStayKnownAlways`: if no image is exposed, the key hypercalls count every
  VM that was deployed with the key.

**UsbProofs**, for any size of descriptor and packet, any number of retries, and
devices that send any packets and state any sizes:

* `AvailableIffRunningAlways`, `PresenceIsKnownAlways`, `NoHalfTransferAlways`: the
  flags of the driver and the device agree only when no interrupt is pending.
  `UsbInv` says what each pending interrupt means (`PendingTellsWhy`,
  `FlagIsKnown`), and that only a device that was noticed is being detected. Of
  the device `PresenceIsKnown` says nothing after a connect and a disconnect were
  served at once, a VBUS error, or an overcurrent that cut the supply: in these
  cases the driver can be wrong;
* `UsbTypeCorrect`: `BytesInv` adds that the bytes read never exceed the bytes the
  device has sent. The driver does not compare them with the size of
  `descriptor_data`, so that they fit it is proved up to the packet that does not;
* `AvailableIsWholeAlways`: `OrderInv` adds that, as long as no request was repeated,
  endpoint 0 has not failed and the device keeps to the standard, every endpoint
  interrupt the driver takes for the answer to a request is that answer, so the
  descriptor is announced only after its last packet was read;
* `DetectionAdvancesAlways`: a packet without bytes ends the descriptor if the
  packet size is known, or if it is the first one and so says nothing of a length
  (`ReadNothingEnds`, `EmptySaysNothing`). Only one that brought bytes lets the
  driver wait again; the state without a packet size is excluded by name
  (`ReadsNothing`), because there it is not so.

**MemoryProofs**, for any page sizes, sizes of VMs, numbers of VMs and devices:

* `MemTypeCorrect`: `CountInv` keeps where the entries of each VM begin (`Starts`),
  instead of a sum over VMCONF; the index of `create_vm` is one of these places;
* `VmsApartAlways`, about the fixed entries: `ConfInv` says that the VMs lie one
  behind the other below the two cursors and that each entry reaches its VM's
  memory or a device's pages (`EntryReach`, from what rounding a base up does);
  `TlbInv`, that every entry of a guest is one of its VMCONF. The theorem
  assumes `RegionsApart`: the RAM of the VMs ends below the flash, and their
  flash below the devices. The generator does not check that, it trusts the
  configuration;
* `VmSeesItsOwnAlways`, `BufferIsTheCallersAlways`: `SeesInv` adds that the
  entries of each VMCONF are exactly the ones its RAM, its flash and its devices
  ask for (`ExactInv`), that each of a created VM is in the table (`Present`),
  and what the temporary entry of the last hypercall maps (`CallInv`). What is
  left is how an address divides by pairs of pages: it lies in one entry of the
  VM only (`CoveredOnce`), and that one translates it (`PlaceTranslates`). Both
  theorems assume `AddressesApart`: the virtual RAM and flash begin pairs of
  pages of every size, and no two things a VM can have share a pair; the
  processor leaves two matching entries undefined. It is an assumption on the
  constants, which TLC evaluates for those of the memory run
  (`MCAddressesApart`). Hypercalls come with any buffer; `BufferIsTheCallers` is
  about those that `PromisedBuffer` names. No device is at page 0, which an
  entry could not tell from an invalid half.

Only model-checked is liveness, which needs fairness and ENABLED and which the
prover does not handle: `EveryVmRuns`, `MaskedIsReenabled`, `BlockedWakes`,
`CallReturns`, `EnumerationEnds`, and the fairness part of `ImplementsPolicy`. Each
has a safety property beside it that is proved and says that what has to happen
stays possible or comes nearer: `AtMostOneSkip`, `MaskedIsInFlight`,
`BacklogIsAnnounced`, `CallAdvances`, `DetectionAdvances`. Every other property of a
passing run is a theorem.

## 5. Not modelled

Of the components that are modelled: shadow register sets (every VCPU has its
own), HI and LO (not saved by the code), the arithmetic of elapsed time in the
timer handler (whether a guest's timer is due is a free choice), register set-up
of the Ethernet and USB controllers, cache attributes of TLB entries, message
contents, and what a frame longer than `tx_buf` or a packet longer than
`descriptor_data` overwrites behind these. The cryptography is an external predicate.

Of the whole repository:

* hypercall table and interrupt vectors: filled once at start-up and read by
  index. `register_interrupt` hands out ten vectors to five callers and never
  takes one back. There is no behaviour beyond that;
* heap: the hypervisor allocates at start-up and never frees; the guests'
  allocator has one caller, an example. Nothing modelled depends on its layout;
* virtual I/O: two range-checked hypercalls without state;
* C library, UART, guest applications: pure functions, output, and examples. The
  guests of the models do what the hypercalls allow, in any order;
* SHA-256 and micro-ecc, wolfSSL, and the example programs for a PC: third-party
  or unrelated code. wolfSSL is nearly all of the 430 000 lines of C under the
  repository. The hypervisor does not link it: it is there for a guest
  application. So only a small part of the repository's lines is, or should be,
  mapped; of the code that makes the hypervisor a hypervisor, what is left out
  is listed above.

## 6. Plan

1. A bound on how long a VM waits for its turn, as a safety property that can be
   proved beside `EveryVmRuns`.
2. What `MaskedIsReenabled` and `BlockedWakes` need beside fairness, as measures like
   `CallAdvances`.
3. The elapsed-time arithmetic of the timer handler with a wrapping Count.
4. `malloc` and `free` on a small heap against a reference, if the hypervisor
   comes to free memory.
