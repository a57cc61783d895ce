----------------------------- MODULE Scheduler ------------------------------
(***************************************************************************)
(* sys/kernel/scheduler.c: the round-robin scheduler with fast interrupt   *)
(* delivery.  run_scheduler is called by the timer interrupt handler and   *)
(* fast_interrupt_delivery by the Ethernet interrupt handler.  Both run    *)
(* with root exceptions masked (EXL), so each is one atomic step.          *)
(*                                                                         *)
(* scheduler_info points at LIST NODES, not at VCPUs.  create_vm appends   *)
(* a VCPU to two lists, the ready list and the list of its VM, so a VCPU   *)
(* has two different nodes; the pointer comparisons of the code compare    *)
(* nodes.  The model keeps that: a node is <<list, id of its VCPU>>.       *)
(***************************************************************************)
EXTENDS Naturals

CONSTANTS NVMACHINES,                \* number of VMs (config.h)
          TICKS_BEFORE_SCHEDULING,   \* scheduler quantum in timer ticks
          TICK_MOD,                  \* 2^width of tick_count (2^32 in C)
          FastInt                    \* VMs whose fast_interrupts list IRQ_ETH

ASSUME SchedulerAssumption ==
  /\ NVMACHINES \in Nat \ {0}
  /\ TICKS_BEFORE_SCHEDULING \in Nat \ {0}
  /\ TICK_MOD \in Nat /\ TICK_MOD > 1
  /\ FastInt \subseteq 1..NVMACHINES

VARIABLES vcpu_executing_nd,   \* scheduler_info.vcpu_executing_nd
          next_vcpu,           \* scheduler_info.next_vcpu
          last_scheduled,      \* static last_scheduled
          tick_count           \* static tick_count

schedVars == <<vcpu_executing_nd, next_vcpu, last_scheduled, tick_count>>

VM == 1..NVMACHINES

NULL == <<"null", 0>>

ReadyNode(v) == <<"ready", v>>     \* v's node in scheduler_info.vcpu_ready_list

VmNode(v) == <<"vm", v>>           \* v's node in vm->vcpus

ReadyNodes == {ReadyNode(v) : v \in VM}

VmNodes == {VmNode(v) : v \in VM}

\* node->elem: the VCPU a node stands for (VCPU and VM have the same id; 0 for NULL).
Elem(node) == node[2]

\* vcpu_executing of globals.h, as a VM id; 0 before the first dispatch.
vcpu_executing == Elem(vcpu_executing_nd)

\* node->next in the ready list, which holds the VCPUs in creation order.
NextReady(node) ==
  IF Elem(node) < NVMACHINES THEN ReadyNode(Elem(node) + 1) ELSE NULL

-----------------------------------------------------------------------------
\* The scheduler statics after start-up, before the first timer interrupt.
SchedInit ==
  /\ vcpu_executing_nd = NULL
  /\ next_vcpu = NULL
  /\ last_scheduled = NULL
  /\ tick_count = 0

\* The node of the first VM in virtual_machines_list whose configuration
\* lists the interrupt; drivers look it up once, when they initialise.
get_fast_int_vcpu_node ==
  IF FastInt = {}
    THEN NULL
    ELSE VmNode(CHOOSE v \in FastInt : \A w \in FastInt : v <= w)

\* A plausible bug: the first VCPU is looked up in its VM's list.
round_robin_scheduler_vm_list ==
  IF last_scheduled = NULL \/ NextReady(last_scheduled) = NULL
    THEN VmNode(1)
    ELSE NextReady(last_scheduled)

round_robin_scheduler ==
  IF last_scheduled = NULL \/ NextReady(last_scheduled) = NULL
    THEN ReadyNode(1)
    ELSE NextReady(last_scheduled)

\* A plausible bug: the "already in execution" test is dropped.
fast_interrupt_delivery_no_check(target) ==
  /\ next_vcpu' = target
  /\ UNCHANGED <<vcpu_executing_nd, last_scheduled, tick_count>>

fast_interrupt_delivery(target) ==
  /\ next_vcpu' = IF target = vcpu_executing_nd THEN next_vcpu ELSE target
  /\ UNCHANGED <<vcpu_executing_nd, last_scheduled, tick_count>>

\* The "extra execution time" assignment, with the condition as it is written.
ExtraTime ==
  IF tick_count % TICKS_BEFORE_SCHEDULING >= TICKS_BEFORE_SCHEDULING
    THEN (tick_count + TICK_MOD - 2) % TICK_MOD
    ELSE tick_count

AtQuantum == tick_count % TICKS_BEFORE_SCHEDULING = 0

\* A plausible bug: the round-robin cursor follows the fast delivery.
FastSwitch_moves_cursor ==
  /\ next_vcpu # NULL
  /\ vcpu_executing_nd' = next_vcpu
  /\ last_scheduled' = next_vcpu
  /\ next_vcpu' = NULL
  /\ tick_count' = (ExtraTime + 1) % TICK_MOD

\* A fast delivery is pending: it wins over the quantum.
FastSwitch ==
  /\ next_vcpu # NULL
  /\ vcpu_executing_nd' = next_vcpu
  /\ next_vcpu' = NULL
  /\ tick_count' = (ExtraTime + 1) % TICK_MOD
  /\ UNCHANGED last_scheduled

QuantumSwitch ==
  /\ next_vcpu = NULL
  /\ AtQuantum
  /\ last_scheduled' = round_robin_scheduler
  /\ vcpu_executing_nd' = round_robin_scheduler
  /\ tick_count' = (tick_count + 1) % TICK_MOD
  /\ UNCHANGED next_vcpu

PlainTick ==
  /\ next_vcpu = NULL
  /\ ~AtQuantum
  /\ tick_count' = (tick_count + 1) % TICK_MOD
  /\ UNCHANGED <<vcpu_executing_nd, next_vcpu, last_scheduled>>

run_scheduler == FastSwitch \/ QuantumSwitch \/ PlainTick

\* pic32mz-ethernet.c: interrupts are enabled only if some VM has them as fast.
ethernet_interrupt_handler ==
  /\ get_fast_int_vcpu_node # NULL
  /\ fast_interrupt_delivery(get_fast_int_vcpu_node)

SchedNext == run_scheduler \/ ethernet_interrupt_handler

\* calc_next_timer_interrupt re-arms the timer in every handler, so ticks
\* never cease; nothing forces an Ethernet interrupt to arrive.
SchedSpec == SchedInit /\ [][SchedNext]_schedVars /\ WF_schedVars(run_scheduler)

-----------------------------------------------------------------------------
\* The node pointers stay inside the lists create_vm built: the cursor is
\* always a node of the ready list (its ->next is followed), and the only
\* other node ever dispatched is the one the Ethernet driver looked up.
SchedTypeOK ==
  /\ vcpu_executing_nd \in {NULL, get_fast_int_vcpu_node} \cup ReadyNodes
  /\ next_vcpu \in {NULL, get_fast_int_vcpu_node}
  /\ last_scheduled \in {NULL} \cup ReadyNodes
  /\ tick_count \in 0..(TICK_MOD - 1)

\* A VCPU dispatched by fast delivery cannot be fast-delivered again before
\* round robin has run: fast_interrupt_delivery's test finds its node
\* executing.  This is what keeps a stream of Ethernet interrupts from
\* holding the processor for ever.
FastNotRenewed == vcpu_executing_nd \in VmNodes => next_vcpu = NULL

\* Every VCPU executes again and again, whatever the Ethernet traffic does.
EveryVmRuns == \A v \in VM : []<>(vcpu_executing = v)

\* scheduler.c implements the dispatch policy: the executing node's list
\* tells a turn (ready list) from a loan (vm->vcpus list).
Policy == INSTANCE DispatchPolicy WITH
  FastVMs <- FastInt,
  running <- vcpu_executing,
  turn <- Elem(last_scheduled),
  lent <- vcpu_executing_nd \in VmNodes

ImplementsPolicy == Policy!PolicySpec
=============================================================================
