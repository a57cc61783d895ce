-------------------------- MODULE SchedulerProofs ---------------------------
(***************************************************************************)
(* Proofs about scheduler.c for every number of VMs, quantum, counter      *)
(* width and assignment of fast interrupts: the list pointers stay valid,  *)
(* Ethernet interrupts delay round robin by at most one quantum boundary,  *)
(* and every step is a step of the dispatch policy.                        *)
(***************************************************************************)
EXTENDS SchedulerFairness, WellFoundedInduction, TLAPS

\* Modular increments stay within the counter's range.
LEMMA ModRange ==
  ASSUME NEW n \in Nat, NEW d \in Nat, d > 1
  PROVE  n % d \in 0..(d - 1)
OBVIOUS

\* get_fast_int_vcpu_node finds a node whenever some VM lists the interrupt:
\* the list search that returns the first such VM is well defined.
LEMMA FastTargetType ==
  get_fast_int_vcpu_node \in {NULL} \cup {VmNode(v) : v \in FastInt}
<1>1. CASE FastInt = {}
  BY <1>1 DEF get_fast_int_vcpu_node
<1>2. CASE FastInt # {}
  <2>1. FastInt \subseteq Nat
    BY SchedulerAssumption
  <2> DEFINE Less == {ss \in Nat \X Nat : ss[1] < ss[2]}
  <2>6. IsWellFoundedOn(Less, Nat)
    BY NatLessThanWellFounded, Zenon DEF OpToRel
  <2> HIDE DEF Less
  <2>2. \E x \in FastInt : \A y \in FastInt : ~ (<<y, x>> \in Less)
    BY <1>2, <2>1, <2>6, WFMin, Zenon
  <2>7. \A x, y \in Nat : <<y, x>> \notin Less => x <= y
    BY DEF Less
  <2>3. \E x \in FastInt : \A y \in FastInt : x <= y
    BY <2>1, <2>2, <2>7
  <2>4. (CHOOSE v \in FastInt : \A w \in FastInt : v <= w) \in FastInt
    BY <2>3
  <2>5. QED
    BY <1>2, <2>4 DEF get_fast_int_vcpu_node
<1>3. QED
  BY <1>1, <1>2

\* The node fast delivery uses is NULL or a node of some vm->vcpus list.
LEMMA FastTargetNode == get_fast_int_vcpu_node \in {NULL} \cup VmNodes
  BY FastTargetType, SchedulerAssumption DEF VmNodes, VM

\* The round-robin choice is a node of the ready list.
LEMMA RoundRobinType ==
  ASSUME SchedTypeOK
  PROVE  round_robin_scheduler \in ReadyNodes
<1>1. ReadyNode(1) \in ReadyNodes
  BY SchedulerAssumption DEF ReadyNodes, VM
<1>2. ASSUME last_scheduled # NULL, NextReady(last_scheduled) # NULL
      PROVE  NextReady(last_scheduled) \in ReadyNodes
  <2>1. PICK v \in VM : last_scheduled = ReadyNode(v)
    BY <1>2 DEF SchedTypeOK, ReadyNodes
  <2>2. v < NVMACHINES /\ NextReady(last_scheduled) = ReadyNode(v + 1)
    BY <1>2, <2>1 DEF NextReady, Elem, ReadyNode
  <2>3. v + 1 \in VM
    BY <2>2, SchedulerAssumption DEF VM
  <2>4. QED
    BY <2>2, <2>3 DEF ReadyNodes
<1>3. QED
  BY <1>1, <1>2 DEF round_robin_scheduler

\* The scheduler statics start with their types.
LEMMA SchedInitType == SchedInit => SchedTypeOK
  BY SchedulerAssumption DEF SchedInit, SchedTypeOK

\* The tick arithmetic keeps tick_count in range.
LEMMA TickType ==
  ASSUME SchedTypeOK
  PROVE  /\ (tick_count + 1) % TICK_MOD \in 0..(TICK_MOD - 1)
         /\ (ExtraTime + 1) % TICK_MOD \in 0..(TICK_MOD - 1)
<1>1. tick_count \in Nat /\ TICK_MOD \in Nat /\ TICK_MOD > 1
  BY SchedulerAssumption DEF SchedTypeOK
<1>2. tick_count + TICK_MOD - 2 \in Nat
  BY <1>1
<1>3. ExtraTime \in Nat
  BY <1>1, <1>2, ModRange DEF ExtraTime
<1>4. QED
  BY <1>1, <1>3, ModRange

\* Every call of run_scheduler or fast_interrupt_delivery keeps the types.
LEMMA SchedNextType == SchedTypeOK /\ [SchedNext]_schedVars => SchedTypeOK'
<1> SUFFICES ASSUME SchedTypeOK, [SchedNext]_schedVars PROVE SchedTypeOK'
  OBVIOUS
<1>1. CASE FastSwitch
  <2>1. next_vcpu \in VmNodes
    BY <1>1, FastTargetNode DEF FastSwitch, SchedTypeOK
  <2>2. QED
    BY <1>1, <2>1, TickType DEF FastSwitch, SchedTypeOK
<1>2. CASE QuantumSwitch
  BY <1>2, RoundRobinType, TickType DEF QuantumSwitch, SchedTypeOK
<1>3. CASE PlainTick
  BY <1>3, TickType DEF PlainTick, SchedTypeOK
<1>4. CASE ethernet_interrupt_handler
  BY <1>4 DEF ethernet_interrupt_handler, fast_interrupt_delivery, SchedTypeOK
<1>5. CASE UNCHANGED schedVars
  BY <1>5 DEF schedVars, SchedTypeOK
<1>6. QED
  BY <1>1, <1>2, <1>3, <1>4, <1>5 DEF SchedNext, run_scheduler

\* The pointers of scheduler_info and last_scheduled always point into the
\* lists that create_vm built, and tick_count stays within its width.
THEOREM SchedTypeCorrect == SchedSpec => []SchedTypeOK
<1>1. SchedInit => SchedTypeOK
  BY SchedInitType
<1>2. SchedTypeOK /\ [SchedNext]_schedVars => SchedTypeOK'
  BY SchedNextType
<1>3. QED
  BY <1>1, <1>2, PTL DEF SchedSpec

-----------------------------------------------------------------------------
\* A node has one tag, so the three kinds of node are disjoint.
LEMMA NodesDisjoint ==
  /\ NULL \notin ReadyNodes
  /\ NULL \notin VmNodes
  /\ \A n \in ReadyNodes : n \notin VmNodes
BY DEF NULL, ReadyNodes, VmNodes, ReadyNode, VmNode

\* A step keeps FastNotRenewed: a fast delivery is refused to the node in
\* execution, and a fast switch consumes next_vcpu.
LEMMA FastNotRenewedStep ==
  SchedTypeOK /\ FastNotRenewed /\ [SchedNext]_schedVars => FastNotRenewed'
<1> SUFFICES ASSUME SchedTypeOK, FastNotRenewed, [SchedNext]_schedVars
             PROVE  FastNotRenewed'
  OBVIOUS
<1>1. CASE FastSwitch
  BY <1>1 DEF FastSwitch, FastNotRenewed
<1>2. CASE QuantumSwitch
  BY <1>2 DEF QuantumSwitch, FastNotRenewed
<1>3. CASE PlainTick
  BY <1>3 DEF PlainTick, FastNotRenewed
<1>4. CASE ethernet_interrupt_handler
  <2>1. SUFFICES ASSUME vcpu_executing_nd \in VmNodes
                 PROVE  next_vcpu' = NULL
    BY <1>4 DEF ethernet_interrupt_handler, fast_interrupt_delivery, FastNotRenewed
  <2>2. next_vcpu = NULL
    BY <2>1 DEF FastNotRenewed
  <2>3. vcpu_executing_nd = get_fast_int_vcpu_node
    BY <2>1, NodesDisjoint DEF SchedTypeOK
  <2>4. QED
    BY <1>4, <2>2, <2>3 DEF ethernet_interrupt_handler, fast_interrupt_delivery
<1>5. CASE UNCHANGED schedVars
  BY <1>5 DEF schedVars, FastNotRenewed
<1>6. QED
  BY <1>1, <1>2, <1>3, <1>4, <1>5 DEF SchedNext, run_scheduler

\* A fast-delivered VCPU is not fast-delivered again before round robin runs.
THEOREM FastNotRenewedAlways == SchedSpec => []FastNotRenewed
<1>1. SchedInit => FastNotRenewed
  BY DEF SchedInit, FastNotRenewed
<1>2. SchedTypeOK /\ FastNotRenewed /\ [SchedNext]_schedVars => FastNotRenewed'
  BY FastNotRenewedStep
<1>3. QED
  BY <1>1, <1>2, SchedTypeCorrect, PTL DEF SchedSpec

-----------------------------------------------------------------------------
\* Every step of the observed scheduler is a step of the scheduler.
LEMMA FairNextIsSchedNext == [FairNext]_fairVars => [SchedNext]_schedVars
BY DEF FairNext, FairTick, fairVars, SchedNext, run_scheduler, schedVars

\* A step keeps FairInv: only a fast switch at a boundary counts one up, and
\* it leaves a node that fast_interrupt_delivery refuses.
LEMMA FairInvStep == SchedTypeOK /\ FairInv /\ [FairNext]_fairVars => FairInv'
<1> SUFFICES ASSUME SchedTypeOK, FairInv, [FairNext]_fairVars PROVE FairInv'
  OBVIOUS
<1>1. FastNotRenewed'
  BY FairNextIsSchedNext, FastNotRenewedStep DEF FairInv
<1>2. CASE FastSwitch /\ skipped' = IF AtQuantum THEN skipped + 1 ELSE skipped
  <2>1. next_vcpu \in VmNodes
    BY <1>2, FastTargetNode DEF FastSwitch, SchedTypeOK
  <2>2. skipped = 0
    \* A loaned processor has no pending delivery, so no boundary was skipped yet.
    BY <1>2 DEF FastSwitch, FairInv, FastNotRenewed
  <2>3. QED
    BY <1>1, <1>2, <2>1, <2>2 DEF FastSwitch, FairInv
<1>3. CASE QuantumSwitch /\ skipped' = 0
  BY <1>1, <1>3 DEF FairInv
<1>4. CASE PlainTick /\ UNCHANGED skipped
  BY <1>1, <1>4 DEF PlainTick, FairInv
<1>5. CASE ethernet_interrupt_handler /\ UNCHANGED skipped
  BY <1>1, <1>5 DEF ethernet_interrupt_handler, fast_interrupt_delivery, FairInv
<1>6. CASE UNCHANGED fairVars
  BY <1>1, <1>6 DEF fairVars, FairInv
<1>7. QED
  BY <1>2, <1>3, <1>4, <1>5, <1>6 DEF FairNext, FairTick

\* For every number of VMs, every quantum and every counter width, Ethernet
\* interrupts make round robin miss at most one quantum boundary in a row.
THEOREM AtMostOneSkipAlways == FairSpec => []AtMostOneSkip
<1>1. FairInit => SchedTypeOK /\ FairInv
  BY SchedInitType, NodesDisjoint DEF FairInit, SchedInit, FairInv, FastNotRenewed
<1>2. SchedTypeOK /\ FairInv /\ [FairNext]_fairVars => (SchedTypeOK /\ FairInv)'
  BY FairNextIsSchedNext, SchedNextType, FairInvStep
<1>3. FairInv => AtMostOneSkip
  BY DEF FairInv, AtMostOneSkip
<1>4. QED
  BY <1>1, <1>2, <1>3, PTL DEF FairSpec

-----------------------------------------------------------------------------
\* The round-robin cursor follows the policy's circular order.
LEMMA CursorFollowsPolicy ==
  ASSUME SchedTypeOK
  PROVE  round_robin_scheduler = ReadyNode(Policy!Successor(Elem(last_scheduled)))
<1>1. CASE last_scheduled = NULL
  BY <1>1, SchedulerAssumption
     DEF round_robin_scheduler, NULL, Elem, Policy!Successor
<1>2. CASE last_scheduled # NULL
  <2>1. PICK v \in VM : last_scheduled = ReadyNode(v)
    BY <1>2 DEF SchedTypeOK, ReadyNodes
  <2>2. Elem(last_scheduled) = v /\ v \in 1..NVMACHINES
    BY <2>1 DEF Elem, ReadyNode, VM
  <2>3. CASE v = NVMACHINES
    BY <1>2, <2>2, <2>3, SchedulerAssumption
       DEF round_robin_scheduler, NextReady, Policy!Successor
  <2>4. CASE v < NVMACHINES
    <3>1. NextReady(last_scheduled) = ReadyNode(v + 1) /\ ReadyNode(v + 1) # NULL
      BY <2>2, <2>4 DEF NextReady, ReadyNode, NULL
    <3>2. QED
      BY <1>2, <2>2, <2>4, <3>1, SchedulerAssumption
         DEF round_robin_scheduler, Policy!Successor
  <2>5. QED
    BY <2>2, <2>3, <2>4, SchedulerAssumption
<1>3. QED
  BY <1>1, <1>2

\* Every step of scheduler.c is a turn, a loan or a stutter of the policy.
LEMMA PolicyStep ==
  SchedTypeOK /\ FastNotRenewed /\ [SchedNext]_schedVars
    => [Policy!PolicyNext]_(Policy!policyVars)
<1> SUFFICES ASSUME SchedTypeOK, FastNotRenewed, [SchedNext]_schedVars
             PROVE  [Policy!PolicyNext]_(Policy!policyVars)
  OBVIOUS
<1>1. CASE FastSwitch
  <2>1. PICK v \in FastInt : next_vcpu = VmNode(v)
    BY <1>1, FastTargetType DEF FastSwitch, SchedTypeOK
  <2>2. vcpu_executing' = v /\ vcpu_executing_nd' \in VmNodes
    BY <1>1, <2>1, FastTargetNode
       DEF FastSwitch, vcpu_executing, Elem, VmNode, SchedTypeOK
  <2>3. vcpu_executing_nd \notin VmNodes
    BY <1>1 DEF FastSwitch, FastNotRenewed
  <2>4. UNCHANGED last_scheduled
    BY <1>1 DEF FastSwitch
  <2>5. Policy!Borrow
    BY <2>1, <2>2, <2>3, <2>4 DEF Policy!Borrow
  <2>6. QED
    BY <2>5 DEF Policy!PolicyNext
<1>2. CASE QuantumSwitch
  <2>1. /\ last_scheduled' = ReadyNode(Policy!Successor(Elem(last_scheduled)))
        /\ vcpu_executing_nd' = ReadyNode(Policy!Successor(Elem(last_scheduled)))
        /\ vcpu_executing_nd' \in ReadyNodes
    BY <1>2, CursorFollowsPolicy, RoundRobinType DEF QuantumSwitch
  <2>2. vcpu_executing_nd' \notin VmNodes
    BY <2>1, NodesDisjoint
  <2>3. Policy!Turn
    BY <2>1, <2>2 DEF Policy!Turn, vcpu_executing, Elem, ReadyNode
  <2>4. QED
    BY <2>3 DEF Policy!PolicyNext
<1>3. CASE PlainTick
  BY <1>3 DEF PlainTick, Policy!policyVars, vcpu_executing
<1>4. CASE ethernet_interrupt_handler
  BY <1>4 DEF ethernet_interrupt_handler, fast_interrupt_delivery,
              Policy!policyVars, vcpu_executing
<1>5. CASE UNCHANGED schedVars
  BY <1>5 DEF schedVars, Policy!policyVars, vcpu_executing
<1>6. QED
  BY <1>1, <1>2, <1>3, <1>4, <1>5 DEF SchedNext, run_scheduler

\* The safety part of ImplementsPolicy, for every instance: whatever the
\* timer and the Ethernet controller do, VMs take turns in circular order
\* and the processor is lent at most once between two turns.
THEOREM ImplementsPolicySafety == SchedSpec => Policy!PolicySafe
<1>1. SchedInit => Policy!PolicyInit
  BY NodesDisjoint DEF SchedInit, Policy!PolicyInit, vcpu_executing, Elem, NULL
<1>2. SchedTypeOK /\ FastNotRenewed /\ [SchedNext]_schedVars
        => [Policy!PolicyNext]_(Policy!policyVars)
  BY PolicyStep
<1>3. QED
  BY <1>1, <1>2, SchedTypeCorrect, FastNotRenewedAlways, PTL
     DEF SchedSpec, Policy!PolicySafe
=============================================================================
