------------------------------ MODULE MemoryMap ------------------------------
(***************************************************************************)
(* The memory of the virtual machines: how the configuration generator     *)
(* (platform/cfg_reader/genconf.c) places them, how create_vm turns the    *)
(* generated VMCONF into fixed TLB entries, and the one TLB entry through  *)
(* which every hypercall reaches the buffer of its caller                  *)
(* (arch/mips/common/tlb.c).                                               *)
(*                                                                         *)
(* Addresses are physical, the segment bits already removed, and counted   *)
(* in 4 KB pages; only the buffer of a hypercall is counted in bytes, of   *)
(* which PAGE make a page.                                                 *)
(***************************************************************************)
EXTENDS Integers, Sequences, FiniteSets

CONSTANTS PAGE,          \* bytes in the smallest page
          PageSizes,     \* the page sizes of the TLB, in pages
          MemSizes,      \* the sizes a configuration can ask for, in pages
          Devices,       \* the memory_maps a VM can ask for: [base, size]
          RAM_BASE,      \* VMS_RAM_INTERMEDIATE_BASE_ADDRESS
          FLASH_BASE,    \* VMS_FLASH_INTERMEDIATE_BASE_ADDRESS
          RAM_VA,        \* VMS_RAM_VIRTUAL_BASE_ADDRESS
          FLASH_VA,      \* VMS_FLASH_VIRTUAL_BASE_ADDRESS
          ENTRIES,       \* TOTAL_TLB_ENTRIES; the entry after them is the hypercalls'
          Buffers,       \* what hypercalls are given: [address, size], in bytes
          MAX_VMS,       \* bound: virtual_machines of a configuration
          MAX_MAPS       \* bound: memory_maps of a VM

ASSUME MemoryAssumption ==
  /\ PAGE \in Nat \ {0} /\ ENTRIES \in Nat \ {0}
  /\ {MAX_VMS, MAX_MAPS} \subseteq Nat
  /\ PageSizes \subseteq Nat \ {0} /\ MemSizes \subseteq Nat \ {0}
  /\ {RAM_BASE, FLASH_BASE} \subseteq Nat \ {0} /\ {RAM_VA, FLASH_VA} \subseteq Nat
  /\ Devices \subseteq [base : Nat \ {0}, size : Nat \ {0}]
  /\ Buffers \subseteq [address : Nat, size : Nat]

VARIABLES phase,         \* what runs: the generator, the start-up, the VMs, or nothing
          vmconf,        \* VMCONF, the generated configuration
          ram_next,      \* vm_ram_inter_addr
          flash_next,    \* vm_flash_inter_addr
          total,         \* total_tlb_entries
          tlbindex,      \* create_vm's counter of used entries
          created,       \* how many VMs create_vm has built; the last one's id
          tlb,           \* the entries of the root TLB
          call           \* the latest buffer mapped for a hypercall

memVars == <<phase, vmconf, ram_next, flash_next, total, tlbindex, created, tlb, call>>

-----------------------------------------------------------------------------
(* The TLB of the processor *)

Unused == [guestid |-> 0, lo0 |-> 0, lo1 |-> 0, pagemask |-> 1, hi |-> -2]

Covers(e, g, va) ==
  /\ e.guestid = g
  /\ e.hi \div (2 * e.pagemask) = va \div (2 * e.pagemask)

Half(e, va) == IF (va \div e.pagemask) % 2 = 0 THEN e.lo0 ELSE e.lo1

\* The pages a page of guest g (the hypervisor is guest 0) is translated to:
\* none, or one, or more when entries collide.
Translations(g, va) ==
  {(Half(tlb[i], va) \div tlb[i].pagemask) * tlb[i].pagemask + (va % tlb[i].pagemask) :
     i \in {j \in DOMAIN tlb : Covers(tlb[j], g, va) /\ Half(tlb[j], va) # 0}}

-----------------------------------------------------------------------------
(* The generator *)

\* A size is mapped by a pair of pages of half the size, else by one page.
DualEntry(size)  == size % 2 = 0 /\ size \div 2 \in PageSizes
PageMask(size)   == IF DualEntry(size) THEN size \div 2 ELSE size
Fits(size)       == PageMask(size) \in PageSizes

calculate_mem_base_unaligned(ps, base) == base
calculate_mem_base(ps, base) ==
  IF base % ps # 0 THEN ((base + ps) \div ps) * ps ELSE base

process_tlb_entry(size, base, va) ==
  [lo0      |-> base,
   lo1      |-> IF DualEntry(size) THEN base + size \div 2 ELSE 0,
   pagemask |-> PageMask(size),
   hi       |-> va]

\* What a VM asks for.
Requests == [ram : MemSizes, flash : MemSizes,
             maps : {m \in UNION {[1..n -> Devices] : n \in 0..MAX_MAPS} :
                       \A i, j \in DOMAIN m : i # j => m[i] # m[j]}]

EntriesOf(r) == 2 + Len(r.maps)
RamBase(r)   == calculate_mem_base(PageMask(r.ram), ram_next)
FlashBase(r) == calculate_mem_base(PageMask(r.flash), flash_next)

\* The physical address of a device is aligned, its virtual address is not.
DeviceEntry(d) ==
  process_tlb_entry(d.size, calculate_mem_base(PageMask(d.size), d.base), d.base)

\* One virtual machine of VMCONF.
Conf(r) ==
  [ram_base |-> RamBase(r), ram_size |-> r.ram,
   flash_base_add |-> FlashBase(r), flash_size |-> r.flash, maps |-> r.maps,
   tlb |-> <<process_tlb_entry(r.ram, RamBase(r), RAM_VA),
             process_tlb_entry(r.flash, FlashBase(r), FLASH_VA)>>
           \o [n \in DOMAIN r.maps |-> DeviceEntry(r.maps[n])]]

AllFit(r) == Fits(r.ram) /\ Fits(r.flash) /\ \A n \in DOMAIN r.maps : Fits(r.maps[n].size)

Possible_one_more(r) == total + EntriesOf(r) <= ENTRIES + 1 /\ AllFit(r)
Possible(r) == total + EntriesOf(r) <= ENTRIES /\ AllFit(r)

NextFree_page_only(base, size) == base + PageMask(size)
NextFree(base, size) == base + size

gen_conf_vms(r) ==
  /\ phase = "generator" /\ Len(vmconf) < MAX_VMS
  /\ Possible(r)
  /\ vmconf' = Append(vmconf, Conf(r))
  /\ total' = total + EntriesOf(r)
  /\ ram_next'   = NextFree(RamBase(r), r.ram)
  /\ flash_next' = NextFree(FlashBase(r), r.flash)
  /\ UNCHANGED <<phase, tlbindex, created, tlb, call>>

\* Too many entries, or a size no page fits: the generator exits and the
\* hypervisor is not built.
gen_conf_vms_fails(r) ==
  /\ phase = "generator" /\ Len(vmconf) < MAX_VMS
  /\ ~Possible(r)
  /\ phase' = "failed"
  /\ UNCHANGED <<vmconf, ram_next, flash_next, total, tlbindex, created, tlb, call>>

Built ==
  /\ phase = "generator"
  /\ phase' = "startup"
  /\ UNCHANGED <<vmconf, ram_next, flash_next, total, tlbindex, created, tlb, call>>

-----------------------------------------------------------------------------
(* The hypervisor's start-up *)

tlbEntryWrite(writes) ==
  tlb' = [i \in DOMAIN tlb |-> IF i \in DOMAIN writes THEN writes[i] ELSE tlb[i]]

WithId(e, g) == [guestid |-> g, lo0 |-> e.lo0, lo1 |-> e.lo1,
                 pagemask |-> e.pagemask, hi |-> e.hi]

NewIndex_restarts(n, i) == i - 1
NewIndex(n, i) == n + i - 1

\* create_vm for the next VM of VMCONF: its id is its guest id.
create_vm ==
  /\ phase = "startup" /\ created < Len(vmconf)
  /\ LET entries == vmconf[created + 1].tlb
         places  == {NewIndex(tlbindex, i) : i \in DOMAIN entries}
     IN  /\ tlbEntryWrite([p \in places |->
                WithId(entries[CHOOSE i \in DOMAIN entries : NewIndex(tlbindex, i) = p],
                       created + 1)])
         /\ tlbindex' = tlbindex + Len(entries)
  /\ created' = created + 1
  /\ UNCHANGED <<phase, vmconf, ram_next, flash_next, total, call>>

initializeMachines ==
  /\ phase = "startup" /\ created = Len(vmconf)
  /\ phase' = "running"
  /\ UNCHANGED <<vmconf, ram_next, flash_next, total, tlbindex, created, tlb, call>>

-----------------------------------------------------------------------------
(* A hypercall with a buffer *)

Crosses_never(address, size) == FALSE
Crosses(address, size) == address \div PAGE < (address + size) \div PAGE

\* Maps the page of the buffer, and the one its end is in, at the VM's base.
tlbCreateEntry(address, base, size) ==
  [guestid  |-> 0,
   lo0      |-> base + address \div PAGE,
   lo1      |-> IF Crosses(address, size) THEN base + (address + size) \div PAGE ELSE 0,
   pagemask |-> 1,
   hi       |-> base]

\* A guest gives any address, counted from the one at which its RAM begins, and any
\* size: neither tlbCreateEntry nor a caller of it compares them with anything.
hypercall(v, b) ==
  LET base == vmconf[v].ram_base
  IN  /\ phase = "running"
      /\ tlbEntryWrite([i \in {ENTRIES} |-> tlbCreateEntry(b.address, base, b.size)])
      /\ call' = [vm |-> v, address |-> b.address, size |-> b.size,
                  mapped |-> (b.address % PAGE) + base * PAGE]
      /\ UNCHANGED <<phase, vmconf, ram_next, flash_next, total, tlbindex, created>>

-----------------------------------------------------------------------------

NoCall == [vm |-> 0, address |-> 0, size |-> 0, mapped |-> 0]

MemInit ==
  /\ phase = "generator"
  /\ vmconf = <<>> /\ ram_next = RAM_BASE /\ flash_next = FLASH_BASE
  /\ total = 0 /\ tlbindex = 0 /\ created = 0
  /\ tlb = [i \in 0..ENTRIES |-> Unused]
  /\ call = NoCall

MemNext ==
  \/ \E r \in Requests : gen_conf_vms(r) \/ gen_conf_vms_fails(r)
  \/ Built \/ create_vm \/ initializeMachines
  \/ \E v \in 1..created : \E b \in Buffers : hypercall(v, b)

MemSpec == MemInit /\ [][MemNext]_memVars

-----------------------------------------------------------------------------
(* Properties *)

\* The counters of the generator and of create_vm agree with the entries they
\* count, and the fixed entries never reach the one of the hypercalls.
MemTypeOK ==
  /\ phase \in {"generator", "failed", "startup", "running"}
  /\ Len(vmconf) <= MAX_VMS /\ created \in 0..Len(vmconf)
  /\ ram_next \in Nat /\ flash_next \in Nat
  /\ tlbindex \in 0..total /\ total \in 0..ENTRIES
  /\ DOMAIN tlb = 0..ENTRIES
  /\ \A i \in 0..ENTRIES : i >= tlbindex /\ i # ENTRIES => tlb[i] = Unused
  /\ call.vm \in 0..created

\* The virtual pages that the entry for a size takes up.
Pair(va, size) ==
  LET width == 2 * PageMask(size)
      first == (va \div width) * width
  IN  first .. (first + width - 1)

\* The virtual addresses of RAM and flash begin a pair of pages of every size,
\* and nothing else that a VM can have takes up a page of the same pair: of a
\* collision the processor makes no sense. The generator relies on it.
AddressesApart ==
  LET sizes == {s \in MemSizes : Fits(s)}
  IN  /\ \A s \in sizes : {RAM_VA % (2 * PageMask(s)), FLASH_VA % (2 * PageMask(s))} = {0}
      /\ \A s, t \in sizes : Pair(RAM_VA, s) \cap Pair(FLASH_VA, t) = {}
      /\ \A s \in sizes : \A d \in Devices :
            Pair(d.base, d.size) \cap (Pair(RAM_VA, s) \cup Pair(FLASH_VA, s)) = {}
      /\ \A d, e \in Devices : d # e => Pair(d.base, d.size) \cap Pair(e.base, e.size) = {}

\* Every page of its RAM and flash, at the virtual addresses the guests are
\* linked for, takes VM v to its own memory and nowhere else, whatever sizes
\* and devices the VMs before it asked for (process_tlb_entry, create_vm,
\* tlbEntryWrite) and whatever hypercalls were made. A device is mapped at its
\* own address if that is aligned to the pair of pages its entry covers; the
\* generator does not require it.
SeesItsOwn(v) ==
  LET c == vmconf[v]
  IN  /\ \A p \in 0 .. c.ram_size - 1 : Translations(v, RAM_VA + p) = {c.ram_base + p}
      /\ \A p \in 0 .. c.flash_size - 1 :
            Translations(v, FLASH_VA + p) = {c.flash_base_add + p}
      /\ \A n \in DOMAIN c.maps :
            LET d == c.maps[n]
            IN  d.base % (2 * PageMask(d.size)) = 0 =>
                  \A p \in 0 .. d.size - 1 : Translations(v, d.base + p) = {d.base + p}

VmSeesItsOwn == \A v \in 1..created : SeesItsOwn(v)

\* Whatever its virtual addresses, the fixed entries of a VM reach no page of
\* another VM's memory, and none of the RAM and the flash below the first VM,
\* where the hypervisor is (genconf.c advances the two cursors by the sizes).
\* What a hypercall maps for the hypervisor is another matter: see below.
Block(lo, ps) == IF lo = 0 THEN {} ELSE {(lo \div ps) * ps + p : p \in 0 .. ps - 1}
Reach(v) == UNION {Block(tlb[i].lo0, tlb[i].pagemask) \cup Block(tlb[i].lo1, tlb[i].pagemask) :
                     i \in {j \in DOMAIN tlb : tlb[j].guestid = v}}
Memory(v) == {vmconf[v].ram_base + p : p \in 0 .. vmconf[v].ram_size - 1}
             \cup {vmconf[v].flash_base_add + p : p \in 0 .. vmconf[v].flash_size - 1}
Hypervisor == (0 .. RAM_BASE - 1) \cup (FLASH_VA .. FLASH_BASE - 1)

VmsApart ==
  \A v \in 1..created :
    /\ Reach(v) \cap Hypervisor = {}
    /\ \A w \in 1..Len(vmconf) \ {v} : Reach(v) \cap Memory(w) = {}

\* Through the address tlbCreateEntry returns, the hypervisor reads and writes
\* the very bytes the caller means, those behind a page boundary too, if the
\* buffer lies in the caller's RAM, is of at most a page, and the RAM begins at an
\* even page. The code requires none of the three. The bases of RAM and flash are
\* apart by another distance than their virtual addresses, so a buffer in the
\* caller's flash, where its constants are, is mapped to other memory, and so is
\* one in a device or outside the RAM; of a longer one the second page mapped is
\* that of its end; and a VM of 4 KB leaves the next one at an odd page, where the
\* mapped address falls into the half that is for the page behind the boundary.
PromisedBuffer ==
  /\ call # NoCall /\ call.size <= PAGE
  /\ call.address + call.size <= vmconf[call.vm].ram_size * PAGE
  /\ vmconf[call.vm].ram_base % 2 = 0

BufferIsTheCallers ==
  PromisedBuffer =>
    \A k \in 0 .. call.size - 1 :
      Translations(0, (call.mapped + k) \div PAGE)
        = Translations(call.vm, RAM_VA + (call.address + k) \div PAGE)

=============================================================================
