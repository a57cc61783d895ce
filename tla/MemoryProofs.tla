---------------------------- MODULE MemoryProofs ----------------------------
(***************************************************************************)
(* Proofs about the memory of the virtual machines, for any page sizes,    *)
(* any number of VMs and devices and any sizes they ask for: the counters  *)
(* of the generator and of create_vm never leave the TLB, no entry of a VM *)
(* reaches another VM's memory or the hypervisor's, every VM sees its own  *)
(* memory, and a hypercall reaches a buffer in the RAM of its caller.      *)
(***************************************************************************)
EXTENDS MemoryMap, SequenceTheorems, TLAPS

\* A page of that size begins there.
Aligned(base, ps) == (base \div ps) * ps = base

\* The pages an entry reaches.
EntryBlocks(e) == Block(e.lo0, e.pagemask) \cup Block(e.lo1, e.pagemask)

\* The memory that was given to a VM, as intervals.
Own(c) == (c.ram_base .. (c.ram_base + c.ram_size - 1))
          \cup (c.flash_base_add .. (c.flash_base_add + c.flash_size - 1))

\* The pages from a device on.
AboveDevice(p) == p \in Nat /\ \E d \in Devices : d.base <= p

Entry == [lo0 : Nat, lo1 : Nat, pagemask : Nat \ {0}, hi : Nat]

VmConf == [ram_base : Nat, ram_size : Nat \ {0}, flash_base_add : Nat,
           flash_size : Nat \ {0}, maps : Seq(Devices), tlb : Seq(Entry)]

\* A VM's memory lies between the first base and the cursor, and its entries
\* reach that memory and its devices.
Placed(c) ==
  /\ c.ram_base >= RAM_BASE /\ c.ram_base + c.ram_size <= ram_next
  /\ c.flash_base_add >= FLASH_BASE /\ c.flash_base_add + c.flash_size <= flash_next
  /\ \A n \in DOMAIN c.tlb : \A p \in EntryBlocks(c.tlb[n]) : p \in Own(c) \/ AboveDevice(p)

\* The VMs of VMCONF, one behind the other.
ConfInv ==
  /\ vmconf \in Seq(VmConf)
  /\ ram_next \in Nat /\ flash_next \in Nat
  /\ RAM_BASE <= ram_next /\ FLASH_BASE <= flash_next
  /\ \A v \in 1 .. Len(vmconf) : Placed(vmconf[v])
  /\ \A v, w \in 1 .. Len(vmconf) : v < w =>
        /\ vmconf[v].ram_base + vmconf[v].ram_size <= vmconf[w].ram_base
        /\ vmconf[v].flash_base_add + vmconf[v].flash_size <= vmconf[w].flash_base_add

\* The entries of a guest are among those of its VMCONF.
EntryInv(i) ==
  LET g == tlb[i].guestid
  IN  /\ g \in 0 .. created
      /\ g # 0 => \E n \in DOMAIN vmconf[g].tlb : tlb[i] = WithId(vmconf[g].tlb[n], g)

TlbInv == DOMAIN tlb = 0 .. ENTRIES /\ \A i \in 0 .. ENTRIES : EntryInv(i)

\* Where the entries of every VM begin: f[v] is how many those before it have.
Starts(f) ==
  /\ f \in [1 .. (Len(vmconf) + 1) -> Nat]
  /\ f[1] = 0 /\ f[Len(vmconf) + 1] = total
  /\ \A v \in 1 .. Len(vmconf) : f[v + 1] = f[v] + Len(vmconf[v].tlb)
  /\ \A v, w \in 1 .. (Len(vmconf) + 1) : v <= w => f[v] <= f[w]
  /\ tlbindex = f[created + 1]

CountInv ==
  /\ phase \in {"generator", "failed", "startup", "running"}
  /\ Len(vmconf) <= MAX_VMS /\ created \in 0 .. Len(vmconf)
  /\ phase \in {"generator", "failed"} => created = 0
  /\ total \in 0 .. ENTRIES
  /\ \E f \in [1 .. (Len(vmconf) + 1) -> Nat] : Starts(f)
  /\ \A i \in 0 .. (ENTRIES - 1) : i >= tlbindex => tlb[i] = Unused
  /\ call.vm \in 0 .. created

MemInv == ConfInv /\ TlbInv /\ CountInv
-----------------------------------------------------------------------------
\* A multiple of the page size divides to itself.
LEMMA MultipleAligned ==
  ASSUME NEW ps \in Nat \ {0}, NEW k \in Nat
  PROVE  Aligned(k * ps, ps)
<1> DEFINE a == ps * k
           r == a \div ps
<1>1. a \in Nat /\ r \in Int /\ ps * r <= a /\ a < ps * (r + 1)
  BY Z3
<1>2. r = k
  <2>1. CASE r < k
    <3>1. ps * (r + 1) <= ps * k
      BY <1>1, <2>1, Z3
    <3>2. QED
      BY <1>1, <3>1
  <2>2. CASE r > k
    <3>1. ps * r >= ps * (k + 1) /\ ps * (k + 1) = ps * k + ps
      BY <1>1, <2>2, Z3
    <3>2. QED
      BY <1>1, <3>1
  <2>3. QED
    BY <1>1, <2>1, <2>2
<1>3. k * ps = a
  BY Z3
<1>4. QED
  BY <1>2, <1>3 DEF Aligned

\* calculate_mem_base moves a base up to the next page of that size, never down.
LEMMA BaseAligned ==
  ASSUME NEW ps \in Nat \ {0}, NEW base \in Nat
  PROVE  /\ calculate_mem_base(ps, base) \in Nat
         /\ calculate_mem_base(ps, base) >= base
         /\ Aligned(calculate_mem_base(ps, base), ps)
<1>1. CASE base % ps = 0
  <2>1. calculate_mem_base(ps, base) = base
    BY <1>1 DEF calculate_mem_base
  <2>2. base = (base \div ps) * ps
    BY <1>1, Z3
  <2>3. QED
    BY <2>1, <2>2 DEF Aligned
<1>2. CASE base % ps # 0
  <2> DEFINE k == (base + ps) \div ps
  <2>1. k \in Int /\ ps * k <= base + ps /\ base + ps < ps * (k + 1) /\ base + ps \in Nat
    BY Z3
  <2>2. k >= 0
    <3>1. CASE k < 0
      <4>1. ps * (k + 1) <= 0
        BY <2>1, <3>1, Z3
      <4>2. QED
        BY <2>1, <4>1
    <3>2. QED
      BY <2>1, <3>1
  <2>3. calculate_mem_base(ps, base) = k * ps
    BY <1>2 DEF calculate_mem_base
  <2> HIDE DEF k
  <2>4. k * ps \in Nat /\ k * ps >= base
    <3>1. k * ps = ps * k /\ ps * (k + 1) = ps * k + ps /\ k * ps \in Int
      BY <2>1, Z3
    <3>2. QED
      BY <2>1, <3>1
  <2>5. Aligned(k * ps, ps)
    BY <2>1, <2>2, MultipleAligned
  <2>6. QED
    BY <2>3, <2>4, <2>5
<1>3. QED
  BY <1>1, <1>2

\* The page behind an aligned page.
LEMMA NextAligned ==
  ASSUME NEW ps \in Nat \ {0}, NEW base \in Nat, Aligned(base, ps)
  PROVE  Aligned(base + ps, ps)
<1> DEFINE q == base \div ps
<1>1. q \in Int /\ q * ps = base
  BY DEF Aligned
<1>2. q >= 0
  BY <1>1, Z3
<1> HIDE DEF q
<1>3. (q + 1) * ps = base + ps /\ q + 1 \in Nat
  BY <1>1, <1>2, Z3
<1>4. Aligned((q + 1) * ps, ps)
  BY <1>3, MultipleAligned
<1>5. QED
  BY <1>3, <1>4

\* An aligned page reaches itself.
LEMMA BlockAligned ==
  ASSUME NEW ps \in Nat \ {0}, NEW base \in Nat, Aligned(base, ps)
  PROVE  Block(base, ps) \subseteq base .. (base + ps - 1)
BY DEF Block, Aligned

\* The entry for a size at an aligned base reaches that many pages at most.
LEMMA EntryReach ==
  ASSUME NEW size \in Nat \ {0}, Fits(size), NEW base \in Nat,
         Aligned(base, PageMask(size)), NEW va \in Nat
  PROVE  /\ process_tlb_entry(size, base, va) \in Entry
         /\ EntryBlocks(process_tlb_entry(size, base, va)) \subseteq base .. (base + size - 1)
<1> DEFINE ps == PageMask(size)
           e == process_tlb_entry(size, base, va)
<1>1. ps \in Nat \ {0}
  BY MemoryAssumption DEF Fits
<1>2. /\ e.lo0 = base /\ e.pagemask = ps /\ e.hi = va
      /\ e.lo1 = IF DualEntry(size) THEN base + size \div 2 ELSE 0
  BY DEF process_tlb_entry
<1>3. e \in Entry
  BY <1>1 DEF process_tlb_entry, Entry
<1>4. CASE DualEntry(size)
  <2>1. size = 2 * ps /\ e.lo1 = base + ps
    BY <1>2, <1>4 DEF DualEntry, PageMask
  <2> HIDE DEF ps, e
  <2>2. Aligned(base, ps)
    BY DEF ps
  <2>3. Aligned(base + ps, ps) /\ base + ps \in Nat
    BY <1>1, <2>2, NextAligned
  <2>4. /\ Block(base, ps) \subseteq base .. (base + ps - 1)
        /\ Block(base + ps, ps) \subseteq (base + ps) .. (base + ps + ps - 1)
    BY <1>1, <2>2, <2>3, BlockAligned
  <2>5. EntryBlocks(e) \subseteq base .. (base + size - 1)
    BY <1>1, <1>2, <2>1, <2>4 DEF EntryBlocks
  <2>6. QED
    BY <1>3, <2>5 DEF e
<1>5. CASE ~ DualEntry(size)
  <2>1. size = ps /\ e.lo1 = 0
    BY <1>2, <1>5 DEF PageMask
  <2> HIDE DEF ps, e
  <2>2. Block(base, ps) \subseteq base .. (base + ps - 1)
    BY <1>1, BlockAligned DEF ps
  <2>3. Block(0, ps) = {}
    BY DEF Block
  <2>4. EntryBlocks(e) \subseteq base .. (base + size - 1)
    BY <1>2, <2>1, <2>2, <2>3 DEF EntryBlocks
  <2>5. QED
    BY <1>3, <2>4 DEF e
<1>6. QED
  BY <1>4, <1>5

\* What the generator writes for one VM.
LEMMA ConfPlaced ==
  ASSUME ConfInv, NEW r \in Requests, AllFit(r)
  PROVE  LET c == Conf(r) IN
         /\ c \in VmConf /\ Len(c.tlb) = EntriesOf(r) /\ EntriesOf(r) \in Nat
         /\ c.ram_base >= ram_next /\ c.flash_base_add >= flash_next
         /\ NextFree(RamBase(r), r.ram) = c.ram_base + c.ram_size
         /\ NextFree(FlashBase(r), r.flash) = c.flash_base_add + c.flash_size
         /\ \A n \in DOMAIN c.tlb : \A p \in EntryBlocks(c.tlb[n]) : p \in Own(c) \/ AboveDevice(p)
<1> DEFINE c == Conf(r)
           e1 == process_tlb_entry(r.ram, RamBase(r), RAM_VA)
           e2 == process_tlb_entry(r.flash, FlashBase(r), FLASH_VA)
           devs == [n \in DOMAIN r.maps |-> DeviceEntry(r.maps[n])]
<1>1. /\ r.ram \in Nat \ {0} /\ r.flash \in Nat \ {0}
      /\ r.maps \in UNION {[1..n -> Devices] : n \in 0..MAX_MAPS}
  BY MemoryAssumption DEF Requests
<1>2. PICK k \in 0 .. MAX_MAPS : r.maps \in [1 .. k -> Devices]
  BY <1>1
<1>3. k \in Nat /\ r.maps \in Seq(Devices) /\ Len(r.maps) = k /\ DOMAIN r.maps = 1 .. k
  BY <1>2, MemoryAssumption
<1>4. ram_next \in Nat /\ flash_next \in Nat
  BY DEF ConfInv
<1>5. \A s \in Nat : Fits(s) => PageMask(s) \in Nat \ {0}
  BY MemoryAssumption DEF Fits
<1>6. /\ Fits(r.ram) /\ Fits(r.flash) /\ \A n \in 1 .. k : Fits(r.maps[n].size)
  BY <1>3 DEF AllFit
<1>7. /\ RamBase(r) \in Nat /\ RamBase(r) >= ram_next
      /\ e1 \in Entry /\ EntryBlocks(e1) \subseteq RamBase(r) .. (RamBase(r) + r.ram - 1)
  <2>1. RamBase(r) \in Nat /\ RamBase(r) >= ram_next /\ Aligned(RamBase(r), PageMask(r.ram))
    BY <1>1, <1>4, <1>5, <1>6, BaseAligned DEF RamBase
  <2>2. RAM_VA \in Nat
    BY MemoryAssumption
  <2>3. QED
    BY <1>1, <1>6, <2>1, <2>2, EntryReach
<1>8. /\ FlashBase(r) \in Nat /\ FlashBase(r) >= flash_next
      /\ e2 \in Entry /\ EntryBlocks(e2) \subseteq FlashBase(r) .. (FlashBase(r) + r.flash - 1)
  <2>1. /\ FlashBase(r) \in Nat /\ FlashBase(r) >= flash_next
        /\ Aligned(FlashBase(r), PageMask(r.flash))
    BY <1>1, <1>4, <1>5, <1>6, BaseAligned DEF FlashBase
  <2>2. FLASH_VA \in Nat
    BY MemoryAssumption
  <2>3. QED
    BY <1>1, <1>6, <2>1, <2>2, EntryReach
<1>9. ASSUME NEW n \in 1 .. k
      PROVE  DeviceEntry(r.maps[n]) \in Entry
             /\ \A p \in EntryBlocks(DeviceEntry(r.maps[n])) : AboveDevice(p)
  <2> DEFINE d == r.maps[n]  b == calculate_mem_base(PageMask(d.size), d.base)
  <2>1. d \in Devices /\ d.base \in Nat /\ d.size \in Nat \ {0} /\ Fits(d.size)
    BY <1>2, <1>6, MemoryAssumption
  <2> HIDE DEF d
  <2>2. b \in Nat /\ b >= d.base /\ Aligned(b, PageMask(d.size))
    BY <1>5, <2>1, BaseAligned
  <2> HIDE DEF b
  <2>3. /\ process_tlb_entry(d.size, b, d.base) \in Entry
        /\ EntryBlocks(process_tlb_entry(d.size, b, d.base)) \subseteq b .. (b + d.size - 1)
    BY <2>1, <2>2, EntryReach
  <2>4. DeviceEntry(d) = process_tlb_entry(d.size, b, d.base)
    BY DEF DeviceEntry, b
  <2>5. \A p \in b .. (b + d.size - 1) : AboveDevice(p)
    BY <2>1, <2>2 DEF AboveDevice
  <2>6. QED
    BY <2>3, <2>4, <2>5 DEF d
<1>10. c = [ram_base |-> RamBase(r), ram_size |-> r.ram, flash_base_add |-> FlashBase(r),
            flash_size |-> r.flash, maps |-> r.maps, tlb |-> <<e1, e2>> \o devs]
  BY DEF Conf
<1> HIDE DEF c, e1, e2
<1>11. /\ c.ram_base = RamBase(r) /\ c.ram_size = r.ram /\ c.flash_base_add = FlashBase(r)
       /\ c.flash_size = r.flash /\ c.tlb = <<e1, e2>> \o devs
  BY <1>10
<1>12. devs \in Seq(Entry) /\ Len(devs) = k /\ \A n \in 1 .. k : devs[n] = DeviceEntry(r.maps[n])
  BY <1>3, <1>9
<1> HIDE DEF devs
<1>13. <<e1, e2>> \in Seq(Entry) /\ Len(<<e1, e2>>) = 2
  BY <1>7, <1>8
<1>14. /\ c.tlb \in Seq(Entry) /\ Len(c.tlb) = 2 + k /\ DOMAIN c.tlb = 1 .. (2 + k)
       /\ c.tlb[1] = e1 /\ c.tlb[2] = e2
       /\ \A n \in 3 .. (2 + k) : c.tlb[n] = devs[n - 2]
  BY <1>3, <1>11, <1>12, <1>13
<1>15. c \in VmConf
  BY <1>1, <1>3, <1>7, <1>8, <1>10, <1>11, <1>14 DEF VmConf
<1>16. ASSUME NEW n \in DOMAIN c.tlb, NEW p \in EntryBlocks(c.tlb[n])
       PROVE  p \in Own(c) \/ AboveDevice(p)
  <2>1. CASE n = 1
    BY <1>7, <1>11, <1>14, <1>16, <2>1 DEF Own
  <2>2. CASE n = 2
    BY <1>8, <1>11, <1>14, <1>16, <2>2 DEF Own
  <2>3. CASE n \in 3 .. (2 + k)
    <3>1. n - 2 \in 1 .. k /\ c.tlb[n] = DeviceEntry(r.maps[n - 2])
      BY <1>3, <1>12, <1>14, <2>3
    <3>2. QED
      BY <1>9, <1>16, <3>1
  <2>4. QED
    BY <1>3, <1>14, <2>1, <2>2, <2>3
<1>17. EntriesOf(r) = 2 + k
  BY <1>3 DEF EntriesOf
<1>18. QED
  BY <1>3, <1>7, <1>8, <1>11, <1>14, <1>15, <1>16, <1>17 DEF NextFree, c

\* The generator puts a VM behind all others.
LEMMA GenerateConf ==
  ASSUME ConfInv, NEW r \in Requests, gen_conf_vms(r)
  PROVE  /\ ConfInv' /\ Len(vmconf') = Len(vmconf) + 1
         /\ \A v \in 1 .. Len(vmconf) : vmconf'[v] = vmconf[v]
         /\ Len(vmconf'[Len(vmconf) + 1].tlb) = EntriesOf(r) /\ EntriesOf(r) \in Nat
<1> DEFINE c == Conf(r)  L == Len(vmconf)
<1>1. /\ AllFit(r) /\ vmconf' = Append(vmconf, c)
      /\ ram_next' = NextFree(RamBase(r), r.ram) /\ flash_next' = NextFree(FlashBase(r), r.flash)
  BY DEF gen_conf_vms, Possible
<1>2. /\ c \in VmConf /\ Len(c.tlb) = EntriesOf(r) /\ EntriesOf(r) \in Nat
      /\ c.ram_base >= ram_next /\ c.flash_base_add >= flash_next
      /\ ram_next' = c.ram_base + c.ram_size
      /\ flash_next' = c.flash_base_add + c.flash_size
      /\ \A n \in DOMAIN c.tlb : \A p \in EntryBlocks(c.tlb[n]) : p \in Own(c) \/ AboveDevice(p)
  BY <1>1, ConfPlaced
<1> HIDE DEF c
<1>3. vmconf \in Seq(VmConf) /\ L \in Nat
  BY DEF ConfInv
<1>4. /\ vmconf' \in Seq(VmConf) /\ Len(vmconf') = L + 1 /\ vmconf'[L + 1] = c
      /\ \A v \in 1 .. L : vmconf'[v] = vmconf[v] /\ vmconf[v] \in VmConf
  BY <1>1, <1>2, <1>3, AppendProperties
<1> HIDE DEF L
<1>5. /\ ram_next \in Nat /\ flash_next \in Nat /\ RAM_BASE \in Nat /\ FLASH_BASE \in Nat
      /\ RAM_BASE <= ram_next /\ FLASH_BASE <= flash_next
  BY MemoryAssumption DEF ConfInv
<1>6. c.ram_base \in Nat /\ c.ram_size \in Nat /\ c.flash_base_add \in Nat /\ c.flash_size \in Nat
  BY <1>2 DEF VmConf
<1>7. /\ ram_next' \in Nat /\ flash_next' \in Nat
      /\ ram_next <= ram_next' /\ flash_next <= flash_next'
  <2>1. /\ c.ram_base >= ram_next /\ c.flash_base_add >= flash_next
        /\ ram_next' = c.ram_base + c.ram_size
        /\ flash_next' = c.flash_base_add + c.flash_size
    BY <1>2
  <2>2. QED
    BY <1>5, <1>6, <2>1
<1>8. ASSUME NEW v \in 1 .. (L + 1) PROVE Placed(vmconf[v])'
  <2>1. CASE v = L + 1
    <3>1. /\ c.ram_base >= RAM_BASE /\ c.ram_base + c.ram_size <= ram_next'
          /\ c.flash_base_add >= FLASH_BASE /\ c.flash_base_add + c.flash_size <= flash_next'
      <4>1. c.ram_base >= ram_next /\ c.flash_base_add >= flash_next
        BY <1>2
      <4>2. c.ram_base >= RAM_BASE /\ c.flash_base_add >= FLASH_BASE
        BY <1>5, <1>6, <4>1
      <4>3. ram_next' = c.ram_base + c.ram_size /\ flash_next' = c.flash_base_add + c.flash_size
        BY <1>2
      <4>4. QED
        BY <1>6, <1>7, <4>2, <4>3
    <3>2. vmconf'[v] = c
      BY <1>4, <2>1
    <3>3. \A n \in DOMAIN c.tlb : \A p \in EntryBlocks(c.tlb[n]) : p \in Own(c) \/ AboveDevice(p)
      BY <1>2
    <3>4. QED
      BY <3>1, <3>2, <3>3 DEF Placed
  <2>2. CASE v \in 1 .. L
    <3>1. /\ vmconf[v].ram_base \in Nat /\ vmconf[v].ram_size \in Nat
          /\ vmconf[v].flash_base_add \in Nat /\ vmconf[v].flash_size \in Nat
      BY <1>4, <2>2 DEF VmConf
    <3>2. /\ vmconf[v].ram_base >= RAM_BASE
          /\ vmconf[v].ram_base + vmconf[v].ram_size <= ram_next
          /\ vmconf[v].flash_base_add >= FLASH_BASE
          /\ vmconf[v].flash_base_add + vmconf[v].flash_size <= flash_next
      BY <2>2 DEF ConfInv, Placed, L
    <3>3. /\ vmconf[v].ram_base + vmconf[v].ram_size <= ram_next'
          /\ vmconf[v].flash_base_add + vmconf[v].flash_size <= flash_next'
      BY <1>5, <1>7, <3>1, <3>2
    <3>4. \A n \in DOMAIN vmconf[v].tlb : \A p \in EntryBlocks(vmconf[v].tlb[n]) :
             p \in Own(vmconf[v]) \/ AboveDevice(p)
      BY <2>2 DEF ConfInv, Placed, L
    <3>5. vmconf'[v] = vmconf[v]
      BY <1>4, <2>2
    <3>6. QED
      BY <3>2, <3>3, <3>4, <3>5 DEF Placed
  <2>3. QED
    BY <1>3, <2>1, <2>2 DEF L
<1>9. ASSUME NEW v \in 1 .. (L + 1), NEW w \in 1 .. (L + 1), v < w
      PROVE  /\ vmconf'[v].ram_base + vmconf'[v].ram_size <= vmconf'[w].ram_base
             /\ vmconf'[v].flash_base_add + vmconf'[v].flash_size <= vmconf'[w].flash_base_add
  <2>1. v \in 1 .. L /\ L \in Nat
    BY <1>3, <1>9 DEF L
  <2>2. Placed(vmconf[v]) /\ vmconf'[v] = vmconf[v]
    BY <1>4, <2>1 DEF ConfInv, L
  <2>3. CASE w = L + 1
    <3>1. /\ vmconf[v].ram_base \in Nat /\ vmconf[v].ram_size \in Nat
          /\ vmconf[v].flash_base_add \in Nat /\ vmconf[v].flash_size \in Nat
      BY <1>4, <2>1 DEF VmConf
    <3>2. /\ vmconf[v].ram_base + vmconf[v].ram_size <= ram_next
          /\ vmconf[v].flash_base_add + vmconf[v].flash_size <= flash_next
      BY <2>2 DEF Placed
    <3>3. c.ram_base >= ram_next /\ c.flash_base_add >= flash_next
      BY <1>2
    <3>4. /\ vmconf[v].ram_base + vmconf[v].ram_size <= c.ram_base
          /\ vmconf[v].flash_base_add + vmconf[v].flash_size <= c.flash_base_add
      BY <1>5, <1>6, <3>1, <3>2, <3>3
    <3>5. vmconf'[v] = vmconf[v] /\ vmconf'[w] = c
      BY <1>4, <2>2, <2>3
    <3>6. QED
      BY <3>4, <3>5
  <2>4. CASE w \in 1 .. L
    BY <1>4, <1>9, <2>1, <2>4 DEF ConfInv, L
  <2>5. QED
    BY <2>1, <2>3, <2>4
<1>10. ConfInv'
  BY <1>4, <1>5, <1>7, <1>8, <1>9 DEF ConfInv
<1>11. QED
  BY <1>2, <1>4, <1>10 DEF L
-----------------------------------------------------------------------------
\* Nothing is placed and no entry is used at the start.
LEMMA MemInitInv == MemInit => MemInv
<1> SUFFICES ASSUME MemInit PROVE MemInv
  OBVIOUS
<1>1. /\ phase = "generator" /\ vmconf = <<>> /\ ram_next = RAM_BASE /\ flash_next = FLASH_BASE
      /\ total = 0 /\ tlbindex = 0 /\ created = 0
      /\ tlb = [i \in 0..ENTRIES |-> Unused] /\ call.vm = 0
  BY DEF MemInit, NoCall
<1>2. ConfInv
  BY <1>1, MemoryAssumption DEF ConfInv
<1>3. TlbInv
  BY <1>1 DEF TlbInv, EntryInv, Unused
<1>4. CountInv
  <2> DEFINE f == [v \in 1 .. 1 |-> 0]
  <2>1. f \in [1 .. (Len(vmconf) + 1) -> Nat] /\ Starts(f)
    BY <1>1 DEF Starts
  <2>2. Len(vmconf) <= MAX_VMS /\ created \in 0 .. Len(vmconf) /\ total \in 0 .. ENTRIES
    BY <1>1, MemoryAssumption
  <2>3. \A i \in 0 .. (ENTRIES - 1) : tlb[i] = Unused
    BY <1>1, MemoryAssumption
  <2> HIDE DEF f
  <2>4. QED
    BY <1>1, <2>1, <2>2, <2>3 DEF CountInv
<1>5. QED
  BY <1>2, <1>3, <1>4 DEF MemInv

\* The generator counts the entries it writes and stays within the TLB.
LEMMA GenerateInv ==
  ASSUME MemInv, NEW r \in Requests, gen_conf_vms(r)
  PROVE  MemInv'
<1> DEFINE L == Len(vmconf)  E == EntriesOf(r)
<1>1. ConfInv /\ TlbInv /\ CountInv
  BY DEF MemInv
<1>2. /\ ConfInv' /\ Len(vmconf') = L + 1 /\ \A v \in 1 .. L : vmconf'[v] = vmconf[v]
      /\ Len(vmconf'[L + 1].tlb) = E /\ E \in Nat
  BY <1>1, GenerateConf
<1>3. /\ phase = "generator" /\ L < MAX_VMS /\ total + E <= ENTRIES /\ total' = total + E
      /\ UNCHANGED <<phase, tlbindex, created, tlb, call>>
  BY DEF gen_conf_vms, Possible
<1>4. L \in Nat /\ created = 0 /\ total \in 0 .. ENTRIES /\ ENTRIES \in Nat /\ MAX_VMS \in Nat
  BY <1>1, <1>3, MemoryAssumption DEF ConfInv, CountInv
<1>5. PICK f \in [1 .. (L + 1) -> Nat] : Starts(f)
  BY <1>1 DEF CountInv
<1> HIDE DEF L, E
<1> DEFINE g == [v \in 1 .. (L + 2) |-> IF v = L + 2 THEN total + E ELSE f[v]]
<1>6. /\ f[1] = 0 /\ f[L + 1] = total /\ tlbindex = f[1]
      /\ \A v \in 1 .. L : f[v + 1] = f[v] + Len(vmconf[v].tlb)
      /\ \A v, w \in 1 .. (L + 1) : v <= w => f[v] <= f[w]
  BY <1>4, <1>5 DEF Starts, L
<1>7. /\ g \in [1 .. (L + 2) -> Nat] /\ g[L + 2] = total + E
      /\ \A v \in 1 .. (L + 1) : g[v] = f[v] /\ f[v] \in Nat
  BY <1>2, <1>4, <1>5
<1> HIDE DEF g
<1>8. ASSUME NEW v \in 1 .. (L + 1)
      PROVE  g[v + 1] = g[v] + Len(vmconf'[v].tlb)
  <2>1. CASE v = L + 1
    BY <1>2, <1>4, <1>6, <1>7, <2>1
  <2>2. CASE v \in 1 .. L
    <3>1. v + 1 \in 1 .. (L + 1)
      BY <1>4, <2>2
    <3>2. g[v] = f[v] /\ g[v + 1] = f[v + 1] /\ vmconf'[v] = vmconf[v]
      BY <1>2, <1>7, <2>2, <3>1
    <3>3. QED
      BY <1>6, <2>2, <3>2
  <2>3. QED
    BY <1>4, <2>1, <2>2
<1>9. ASSUME NEW v \in 1 .. (L + 2), NEW w \in 1 .. (L + 2), v <= w
      PROVE  g[v] <= g[w]
  <2>1. CASE w = L + 2
    <3>1. CASE v = L + 2
      BY <1>2, <1>4, <1>7, <2>1, <3>1
    <3>2. CASE v \in 1 .. (L + 1)
      <4>1. g[v] = f[v] /\ f[v] <= f[L + 1] /\ f[v] \in Nat
        BY <1>4, <1>6, <1>7, <3>2
      <4>2. QED
        BY <1>2, <1>4, <1>6, <1>7, <2>1, <4>1
    <3>3. QED
      BY <1>4, <3>1, <3>2
  <2>2. CASE w \in 1 .. (L + 1)
    BY <1>4, <1>6, <1>7, <1>9, <2>2
  <2>3. QED
    BY <1>4, <2>1, <2>2
<1>10. \E h \in [1 .. (Len(vmconf') + 1) -> Nat] : Starts(h)'
  <2>1. Len(vmconf') + 1 = L + 2 /\ Len(vmconf') = L + 1 /\ created' + 1 = 1
    BY <1>2, <1>3, <1>4
  <2>2. g[1] = 0 /\ g[L + 2] = total' /\ tlbindex' = g[1]
    BY <1>3, <1>4, <1>6, <1>7
  <2>3. PICK h \in [1 .. (L + 2) -> Nat] : h = g
    BY <1>7
  <2>4. \A v \in 1 .. (L + 1) : h[v + 1] = h[v] + Len(vmconf'[v].tlb)
    BY <1>8, <2>3
  <2>5. \A v, w \in 1 .. (L + 2) : v <= w => h[v] <= h[w]
    BY <1>9, <2>3
  <2>6. h[1] = 0 /\ h[L + 2] = total' /\ tlbindex' = h[1]
    BY <2>2, <2>3
  <2>7. Starts(h)'
    BY <2>1, <2>4, <2>5, <2>6 DEF Starts
  <2>8. QED
    BY <2>1, <2>7
<1>11. CountInv'
  <2>1. Len(vmconf') <= MAX_VMS /\ created' \in 0 .. Len(vmconf') /\ total' \in 0 .. ENTRIES
    BY <1>2, <1>3, <1>4
  <2>2. QED
    BY <1>1, <1>3, <1>4, <1>10, <2>1 DEF CountInv
<1>12. TlbInv'
  BY <1>1, <1>3, <1>4 DEF TlbInv, EntryInv
<1>13. QED
  BY <1>2, <1>11, <1>12 DEF MemInv

\* create_vm writes the entries of the next VM behind those that are used.
LEMMA CreateInv ==
  ASSUME MemInv, create_vm
  PROVE  MemInv'
<1> DEFINE v == created + 1
           entries == vmconf[v].tlb
           places == {NewIndex(tlbindex, i) : i \in DOMAIN entries}
           from(p) == CHOOSE i \in DOMAIN entries : NewIndex(tlbindex, i) = p
<1>1. ConfInv /\ TlbInv /\ CountInv
  BY DEF MemInv
<1>2. /\ phase = "startup" /\ created < Len(vmconf)
      /\ tlb' = [i \in DOMAIN tlb |-> IF i \in places THEN WithId(entries[from(i)], v) ELSE tlb[i]]
      /\ tlbindex' = tlbindex + Len(entries) /\ created' = v
      /\ UNCHANGED <<phase, vmconf, ram_next, flash_next, total, call>>
  BY DEF create_vm, tlbEntryWrite
<1>3. /\ Len(vmconf) \in Nat /\ created \in 0 .. Len(vmconf) /\ v \in 1 .. Len(vmconf)
      /\ vmconf[v] \in VmConf /\ DOMAIN entries = 1 .. Len(entries) /\ Len(entries) \in Nat
  <2>1. vmconf \in Seq(VmConf) /\ created \in 0 .. Len(vmconf) /\ Len(vmconf) \in Nat
    BY <1>1 DEF ConfInv, CountInv
  <2>2. v \in 1 .. Len(vmconf)
    BY <1>2, <2>1
  <2>3. vmconf[v] \in VmConf
    BY <2>1, <2>2
  <2>4. entries \in Seq(Entry)
    BY <2>3 DEF VmConf
  <2>5. QED
    BY <2>1, <2>2, <2>3, <2>4
<1>4. PICK f \in [1 .. (Len(vmconf) + 1) -> Nat] : Starts(f)
  BY <1>1 DEF CountInv
<1>5. tlbindex = f[v] /\ tlbindex \in Nat /\ f[v + 1] = f[v] + Len(entries)
  BY <1>3, <1>4 DEF Starts
<1> HIDE DEF v, entries
<1>6. \A p \in places :
         from(p) \in DOMAIN entries /\ p \in tlbindex .. (tlbindex + Len(entries) - 1)
  <2>1. SUFFICES ASSUME NEW i \in DOMAIN entries, NEW p, p = NewIndex(tlbindex, i)
                 PROVE  from(p) \in DOMAIN entries
                        /\ p \in tlbindex .. (tlbindex + Len(entries) - 1)
    OBVIOUS
  <2>2. from(p) \in DOMAIN entries
    BY <2>1
  <2>3. p \in tlbindex .. (tlbindex + Len(entries) - 1)
    BY <1>3, <1>5, <2>1 DEF NewIndex
  <2>4. QED
    BY <2>2, <2>3
<1> HIDE DEF places, from
<1>7. ConfInv'
  BY <1>1, <1>2 DEF ConfInv, Placed
<1>8. TlbInv'
  <2>1. DOMAIN tlb' = 0 .. ENTRIES /\ DOMAIN tlb = 0 .. ENTRIES
    BY <1>1, <1>2 DEF TlbInv
  <2>2. ASSUME NEW i \in 0 .. ENTRIES PROVE EntryInv(i)'
    <3>1. CASE i \in places
      <4>1. tlb'[i] = WithId(vmconf'[v].tlb[from(i)], v) /\ from(i) \in DOMAIN vmconf'[v].tlb
        BY <1>2, <1>6, <2>1, <3>1 DEF entries
      <4>2. tlb'[i].guestid = v
        BY <4>1 DEF WithId
      <4>3. v \in 0 .. created'
        BY <1>2, <1>3 DEF v
      <4>4. QED
        BY <4>1, <4>2, <4>3 DEF EntryInv
    <3>2. CASE i \notin places
      <4>1. tlb'[i] = tlb[i] /\ vmconf' = vmconf
        BY <1>2, <2>1, <3>2
      <4>2. EntryInv(i)
        BY <1>1 DEF TlbInv
      <4>3. tlb[i].guestid \in 0 .. created => tlb[i].guestid \in 0 .. created'
        BY <1>2, <1>3 DEF v
      <4>4. QED
        BY <4>1, <4>2, <4>3 DEF EntryInv
    <3>3. QED
      BY <3>1, <3>2
  <2>3. QED
    BY <2>1, <2>2 DEF TlbInv
<1>9. CountInv'
  <2>1. created' + 1 = v + 1 /\ created' \in 0 .. Len(vmconf')
    BY <1>2, <1>3
  <2>2. Starts(f)'
    BY <1>2, <1>4, <1>5, <2>1 DEF Starts
  <2>3. ASSUME NEW i \in 0 .. (ENTRIES - 1), i >= tlbindex'
        PROVE  tlb'[i] = Unused
    <3>1. i >= tlbindex /\ ~ (i <= tlbindex + Len(entries) - 1)
      <4>1. tlbindex' = tlbindex + Len(entries) /\ Len(entries) \in Nat /\ tlbindex \in Nat
        BY <1>2, <1>3, <1>5
      <4>2. i \in Nat
        BY MemoryAssumption
      <4>3. QED
        BY <2>3, <4>1, <4>2
    <3>2. i \notin places /\ i \in DOMAIN tlb
      BY <1>1, <1>6, <3>1, MemoryAssumption DEF TlbInv
    <3>3. tlb[i] = Unused
      BY <1>1, <3>1 DEF CountInv
    <3>4. QED
      BY <1>2, <3>2, <3>3
  <2>4. call'.vm \in 0 .. created'
    <3>1. call'.vm = call.vm /\ call.vm \in 0 .. created
      BY <1>1, <1>2 DEF CountInv
    <3>2. QED
      BY <1>2, <1>3, <3>1 DEF v
  <2>5. QED
    BY <1>1, <1>2, <1>4, <2>1, <2>2, <2>3, <2>4 DEF CountInv
<1>10. QED
  BY <1>7, <1>8, <1>9 DEF MemInv

\* A hypercall only replaces the entry behind the fixed ones.
LEMMA HypercallInv ==
  ASSUME MemInv, NEW v \in 1 .. created, NEW b \in Buffers, hypercall(v, b)
  PROVE  MemInv'
<1> DEFINE e == tlbCreateEntry(b.address, vmconf[v].ram_base, b.size)
<1>1. ConfInv /\ TlbInv /\ CountInv
  BY DEF MemInv
<1>2. /\ tlb' = [i \in DOMAIN tlb |-> IF i = ENTRIES THEN e ELSE tlb[i]]
      /\ call'.vm = v
      /\ UNCHANGED <<phase, vmconf, ram_next, flash_next, total, tlbindex, created>>
  BY DEF hypercall, tlbEntryWrite
<1>3. e.guestid = 0
  BY DEF tlbCreateEntry
<1> HIDE DEF e
<1>4. created \in Nat /\ Len(vmconf) \in Nat
  BY <1>1 DEF ConfInv, CountInv
<1>5. ConfInv'
  BY <1>1, <1>2 DEF ConfInv, Placed
<1>6. TlbInv'
  <2>1. DOMAIN tlb' = 0 .. ENTRIES /\ DOMAIN tlb = 0 .. ENTRIES
    BY <1>1, <1>2 DEF TlbInv
  <2>2. ASSUME NEW i \in 0 .. ENTRIES PROVE EntryInv(i)'
    <3>1. CASE i = ENTRIES
      BY <1>2, <1>3, <1>4, <2>1, <3>1 DEF EntryInv
    <3>2. CASE i # ENTRIES
      BY <1>1, <1>2, <2>1, <3>2 DEF EntryInv, TlbInv
    <3>3. QED
      BY <3>1, <3>2
  <2>3. QED
    BY <2>1, <2>2 DEF TlbInv
<1>7. CountInv'
  <2>1. ASSUME NEW i \in 0 .. (ENTRIES - 1) PROVE tlb'[i] = tlb[i]
    BY <1>1, <1>2, MemoryAssumption DEF TlbInv
  <2>2. call'.vm \in 0 .. created'
    BY <1>2, <1>4
  <2>3. ASSUME NEW f, Starts(f) PROVE Starts(f)'
    BY <1>2, <2>3 DEF Starts
  <2>4. QED
    BY <1>1, <1>2, <2>1, <2>2, <2>3 DEF CountInv
<1>8. QED
  BY <1>5, <1>6, <1>7 DEF MemInv

\* The steps that only say what runs next.
LEMMA PhaseInv ==
  ASSUME MemInv, UNCHANGED <<vmconf, ram_next, flash_next, total, tlbindex, created, tlb, call>>,
         phase' \in {"generator", "failed", "startup", "running"},
         phase' \in {"generator", "failed"} => phase \in {"generator", "failed"}
  PROVE  MemInv'
<1>1. ConfInv' /\ TlbInv'
  BY DEF MemInv, ConfInv, Placed, TlbInv, EntryInv
<1>2. CountInv'
  BY DEF MemInv, CountInv, Starts
<1>3. QED
  BY <1>1, <1>2 DEF MemInv

\* The invariant of the memory map holds from the generator to the last hypercall.
LEMMA MemInvAlways == MemSpec => []MemInv
<1>1. MemInv /\ [MemNext]_memVars => MemInv'
  <2> SUFFICES ASSUME MemInv, [MemNext]_memVars PROVE MemInv'
    OBVIOUS
  <2>1. CASE \E r \in Requests : gen_conf_vms(r)
    BY <2>1, GenerateInv
  <2>2. CASE (\E r \in Requests : gen_conf_vms_fails(r)) \/ Built \/ initializeMachines
    BY <2>2, PhaseInv DEF gen_conf_vms_fails, Built, initializeMachines
  <2>3. CASE create_vm
    BY <2>3, CreateInv
  <2>4. CASE \E v \in 1..created : \E b \in Buffers : hypercall(v, b)
    BY <2>4, HypercallInv
  <2>5. CASE UNCHANGED memVars
    BY <2>5, PhaseInv DEF memVars, MemInv, CountInv
  <2>6. QED
    BY <2>1, <2>2, <2>3, <2>4, <2>5 DEF MemNext
<1>2. QED
  BY <1>1, MemInitInv, PTL DEF MemSpec

\* The invariant bounds every counter.
LEMMA MemInvTypes == MemInv => MemTypeOK
<1> SUFFICES ASSUME MemInv PROVE MemTypeOK
  OBVIOUS
<1>1. ConfInv /\ TlbInv /\ CountInv
  BY DEF MemInv
<1>2. PICK f \in [1 .. (Len(vmconf) + 1) -> Nat] : Starts(f)
  BY <1>1 DEF CountInv
<1>3. Len(vmconf) \in Nat /\ created \in 0 .. Len(vmconf) /\ total \in Nat
  BY <1>1, MemoryAssumption DEF ConfInv, CountInv
<1>4. tlbindex \in 0 .. total
  <2>1. created + 1 \in 1 .. (Len(vmconf) + 1) /\ Len(vmconf) + 1 \in 1 .. (Len(vmconf) + 1)
        /\ created + 1 <= Len(vmconf) + 1
    BY <1>3
  <2>2. f[created + 1] <= f[Len(vmconf) + 1] /\ f[created + 1] \in Nat
    BY <1>2, <2>1 DEF Starts
  <2>3. QED
    BY <1>2, <1>3, <2>2 DEF Starts
<1>5. \A i \in 0 .. ENTRIES : i >= tlbindex /\ i # ENTRIES => tlb[i] = Unused
  <2>1. \A i \in 0 .. ENTRIES : i # ENTRIES => i \in 0 .. (ENTRIES - 1)
    BY MemoryAssumption
  <2>2. QED
    BY <1>1, <2>1 DEF CountInv
<1>6. QED
  BY <1>1, <1>4, <1>5 DEF MemTypeOK, ConfInv, TlbInv, CountInv

\* The counters of the generator and of create_vm agree with the entries they
\* count, whatever the configuration; so no fixed entry is ever written where
\* the hypercalls' entry is (gen_conf_vms, create_vm, tlbCreateEntry).
THEOREM MemTypeCorrect == MemSpec => []MemTypeOK
BY MemInvTypes, MemInvAlways, PTL

\* A page in one of two intervals.
LEMMA InOneOf ==
  ASSUME NEW a \in Nat, NEW k \in Nat, NEW b \in Nat, NEW l \in Nat,
         NEW p, p \in (a .. (a + k - 1)) \cup (b .. (b + l - 1))
  PROVE  p \in Nat /\ ((a <= p /\ p < a + k) \/ (b <= p /\ p < b + l))
<1>1. ASSUME NEW q \in a .. (a + k - 1)
      PROVE  q \in Nat /\ a <= q /\ q < a + k
  OBVIOUS
<1>2. ASSUME NEW q \in b .. (b + l - 1)
      PROVE  q \in Nat /\ b <= q /\ q < b + l
  OBVIOUS
<1>3. QED
  BY <1>1, <1>2, Zenon

\* Two pairs of intervals, one below a line and one above it, in the same order.
LEMMA NoOverlap ==
  ASSUME NEW a \in Nat, NEW k \in Nat, NEW b \in Nat, NEW l \in Nat,
         NEW c \in Nat, NEW m \in Nat, NEW d \in Nat, NEW n \in Nat,
         NEW line \in Nat, a + k <= line, c + m <= line, b >= line, d >= line,
         \/ a + k <= c /\ b + l <= d
         \/ c + m <= a /\ d + n <= b,
         NEW p \in Nat,
         (a <= p /\ p < a + k) \/ (b <= p /\ p < b + l),
         (c <= p /\ p < c + m) \/ (d <= p /\ p < d + n)
  PROVE  FALSE
OBVIOUS

\* The RAM of the VMs ends below the flash, and their flash below the devices.
\* The generator does not compare the sizes a configuration asks for with the
\* memory there is.
RegionsApart ==
  /\ ram_next <= FLASH_VA /\ FLASH_VA <= FLASH_BASE
  /\ \A d \in Devices : flash_next <= d.base

\* As long as the memory suffices no entry of a VM reaches another VM's memory
\* or the hypervisor's, for all sizes and page sizes: a base is moved up to the
\* page size of the entry, and the next VM begins behind both of its pages
\* (gen_conf_vms, create_vm).
THEOREM VmsApartAlways == MemSpec /\ []RegionsApart => []VmsApart
<1>1. MemInv /\ RegionsApart => VmsApart
  <2> SUFFICES ASSUME MemInv, RegionsApart, NEW v \in 1 .. created, NEW p \in Reach(v)
               PROVE  /\ p \notin Hypervisor
                      /\ \A w \in 1 .. Len(vmconf) \ {v} : p \notin Memory(w)
    BY DEF VmsApart
  <2>1. ConfInv /\ TlbInv /\ created \in 0 .. Len(vmconf) /\ Len(vmconf) \in Nat
    BY DEF MemInv, CountInv, ConfInv
  <2>2. v \in 1 .. Len(vmconf) /\ v # 0
    BY <2>1
  <2>3. PICK i \in 0 .. ENTRIES : tlb[i].guestid = v /\ p \in EntryBlocks(tlb[i])
    BY <2>1 DEF Reach, EntryBlocks, TlbInv
  <2>4. PICK n \in DOMAIN vmconf[v].tlb : tlb[i] = WithId(vmconf[v].tlb[n], v)
    BY <2>1, <2>2, <2>3 DEF TlbInv, EntryInv
  <2>5. EntryBlocks(tlb[i]) = EntryBlocks(vmconf[v].tlb[n])
    BY <2>4 DEF EntryBlocks, WithId
  <2>6. p \in Own(vmconf[v]) \/ AboveDevice(p)
    BY <2>1, <2>2, <2>3, <2>5 DEF ConfInv, Placed
  <2>7. ASSUME NEW w \in 1 .. Len(vmconf)
        PROVE  /\ vmconf[w].ram_base \in Nat /\ vmconf[w].ram_size \in Nat
               /\ vmconf[w].flash_base_add \in Nat /\ vmconf[w].flash_size \in Nat
               /\ vmconf[w].ram_base >= RAM_BASE
               /\ vmconf[w].ram_base + vmconf[w].ram_size <= ram_next
               /\ vmconf[w].flash_base_add >= FLASH_BASE
               /\ vmconf[w].flash_base_add + vmconf[w].flash_size <= flash_next
               /\ Memory(w) = Own(vmconf[w])
    <3>1. vmconf[w] \in VmConf /\ Placed(vmconf[w])
      BY <2>1 DEF ConfInv
    <3>2. /\ vmconf[w].ram_base \in Nat /\ vmconf[w].ram_size \in Nat
          /\ vmconf[w].flash_base_add \in Nat /\ vmconf[w].flash_size \in Nat
      BY <3>1 DEF VmConf
    <3>3. ASSUME NEW base \in Nat, NEW size \in Nat
          PROVE  {base + q : q \in 0 .. size - 1} = base .. (base + size - 1)
      <4>1. ASSUME NEW x \in base .. (base + size - 1)
            PROVE  x \in {base + q : q \in 0 .. size - 1}
        <5>1. x - base \in 0 .. size - 1 /\ x = base + (x - base)
          OBVIOUS
        <5>2. QED
          BY <5>1
      <4>2. \A q \in 0 .. size - 1 : base + q \in base .. (base + size - 1)
        OBVIOUS
      <4>3. QED
        BY <4>1, <4>2
    <3>4. Memory(w) = Own(vmconf[w])
      BY <3>2, <3>3 DEF Memory, Own
    <3>5. QED
      BY <3>1, <3>2, <3>4 DEF Placed
  <2>8. /\ RAM_BASE \in Nat /\ FLASH_BASE \in Nat /\ FLASH_VA \in Nat
        /\ ram_next \in Nat /\ flash_next \in Nat
        /\ RAM_BASE <= ram_next /\ ram_next <= FLASH_VA /\ FLASH_VA <= FLASH_BASE
        /\ FLASH_BASE <= flash_next
    BY <2>1, MemoryAssumption DEF ConfInv, RegionsApart
  <2>9. AboveDevice(p) => p \in Nat /\ p >= flash_next
    <3>1. \A d \in Devices : d.base \in Nat /\ flash_next <= d.base
      BY MemoryAssumption DEF RegionsApart
    <3>2. QED
      BY <2>8, <3>1 DEF AboveDevice
  <2> DEFINE InRam(w) == vmconf[w].ram_base <= p /\ p < vmconf[w].ram_base + vmconf[w].ram_size
             InFlash(w) == /\ vmconf[w].flash_base_add <= p
                           /\ p < vmconf[w].flash_base_add + vmconf[w].flash_size
  <2>10. ASSUME NEW w \in 1 .. Len(vmconf), p \in Own(vmconf[w])
        PROVE  p \in Nat /\ (InRam(w) \/ InFlash(w))
    <3>1. /\ vmconf[w].ram_base \in Nat /\ vmconf[w].ram_size \in Nat
          /\ vmconf[w].flash_base_add \in Nat /\ vmconf[w].flash_size \in Nat
      BY <2>7
    <3>2. QED
      BY <2>10, <3>1, InOneOf DEF Own
  <2>11. ASSUME NEW w \in 1 .. Len(vmconf)
        PROVE  /\ vmconf[w].ram_base \in Nat /\ vmconf[w].ram_size \in Nat
               /\ vmconf[w].flash_base_add \in Nat /\ vmconf[w].flash_size \in Nat
               /\ vmconf[w].ram_base >= RAM_BASE
               /\ vmconf[w].ram_base + vmconf[w].ram_size <= ram_next
               /\ vmconf[w].flash_base_add >= FLASH_BASE
               /\ vmconf[w].flash_base_add + vmconf[w].flash_size <= flash_next
    BY <2>7
  <2>12. p \notin Hypervisor
    <3>1. CASE AboveDevice(p)
      BY <2>8, <2>9, <3>1 DEF Hypervisor
    <3>2. CASE p \in Own(vmconf[v])
      <4>1. p \in Nat /\ (InRam(v) \/ InFlash(v))
        BY <2>2, <2>10, <3>2
      <4>2. p >= RAM_BASE /\ ~ (FLASH_VA <= p /\ p <= FLASH_BASE - 1)
        <5>1. CASE InRam(v)
          BY <2>2, <2>8, <2>11, <4>1, <5>1
        <5>2. CASE InFlash(v)
          BY <2>2, <2>8, <2>11, <4>1, <5>2
        <5>3. QED
          BY <4>1, <5>1, <5>2
      <4>3. QED
        BY <2>8, <4>1, <4>2 DEF Hypervisor
    <3>3. QED
      BY <2>6, <3>1, <3>2
  <2>13. ASSUME NEW w \in 1 .. Len(vmconf) \ {v}
         PROVE  p \notin Own(vmconf[w])
    <3> SUFFICES ASSUME p \in Own(vmconf[w]) PROVE FALSE
      OBVIOUS
    <3>0. p \in Nat /\ (InRam(w) \/ InFlash(w))
      BY <2>10
    <3>1. CASE AboveDevice(p)
      <4>1. p \in Nat /\ p >= flash_next
        BY <2>9, <3>1
      <4>2. CASE InRam(w)
        BY <2>8, <2>11, <4>1, <4>2
      <4>3. CASE InFlash(w)
        BY <2>8, <2>11, <4>1, <4>3
      <4>4. QED
        BY <3>0, <4>2, <4>3
    <3>2. CASE p \in Own(vmconf[v])
      <4>0. InRam(v) \/ InFlash(v)
        BY <2>2, <2>10, <3>2
      <4>1. \/ /\ vmconf[v].ram_base + vmconf[v].ram_size <= vmconf[w].ram_base
               /\ vmconf[v].flash_base_add + vmconf[v].flash_size <= vmconf[w].flash_base_add
            \/ /\ vmconf[w].ram_base + vmconf[w].ram_size <= vmconf[v].ram_base
               /\ vmconf[w].flash_base_add + vmconf[w].flash_size <= vmconf[v].flash_base_add
        <5>1. v < w \/ w < v
          BY <2>2
        <5>2. QED
          BY <2>1, <2>2, <5>1 DEF ConfInv
      <4>2. QED
        <5>1. v \in 1 .. Len(vmconf) /\ w \in 1 .. Len(vmconf) /\ p \in Nat
          BY <2>2, <3>0
        <5>2. ASSUME NEW x \in 1 .. Len(vmconf)
              PROVE  /\ vmconf[x].ram_base \in Nat /\ vmconf[x].ram_size \in Nat
                     /\ vmconf[x].flash_base_add \in Nat /\ vmconf[x].flash_size \in Nat
                     /\ vmconf[x].flash_base_add >= FLASH_BASE
                     /\ vmconf[x].ram_base + vmconf[x].ram_size <= FLASH_BASE
          <6>1. /\ vmconf[x].ram_base \in Nat /\ vmconf[x].ram_size \in Nat
                /\ vmconf[x].ram_base + vmconf[x].ram_size <= ram_next
            BY <2>11
          <6>2. ram_next <= FLASH_BASE /\ ram_next \in Nat /\ FLASH_BASE \in Nat
            BY <2>8
          <6>3. vmconf[x].ram_base + vmconf[x].ram_size <= FLASH_BASE
            BY <6>1, <6>2
          <6>4. QED
            BY <2>11, <6>3
        <5>3. FLASH_BASE \in Nat
          BY <2>8
        <5>4. ASSUME NEW a \in Nat, NEW k \in Nat, NEW b \in Nat, NEW l \in Nat,
                     a = vmconf[v].ram_base, k = vmconf[v].ram_size,
                     b = vmconf[v].flash_base_add, l = vmconf[v].flash_size,
                     NEW c \in Nat, NEW m \in Nat, NEW d \in Nat, NEW o \in Nat,
                     c = vmconf[w].ram_base, m = vmconf[w].ram_size,
                     d = vmconf[w].flash_base_add, o = vmconf[w].flash_size
              PROVE  FALSE
          <6>1. a + k <= FLASH_BASE /\ c + m <= FLASH_BASE /\ b >= FLASH_BASE /\ d >= FLASH_BASE
            BY <5>1, <5>2, <5>4
          <6>2. (a + k <= c /\ b + l <= d) \/ (c + m <= a /\ d + o <= b)
            BY <4>1, <5>4
          <6>3. (a <= p /\ p < a + k) \/ (b <= p /\ p < b + l)
            BY <4>0, <5>4
          <6>4. (c <= p /\ p < c + m) \/ (d <= p /\ p < d + o)
            BY <3>0, <5>4
          <6>5. QED
            BY <5>1, <5>3, <6>1, <6>2, <6>3, <6>4, NoOverlap
        <5>5. QED
          BY <5>1, <5>2, <5>4
    <3>3. QED
      BY <2>6, <3>1, <3>2
  <2>14. QED
    BY <2>7, <2>12, <2>13
<1>2. QED
  BY <1>1, MemInvAlways, PTL
-----------------------------------------------------------------------------
\* A number between two multiples of the page size.
LEMMA DivideBetween ==
  ASSUME NEW ps \in Nat \ {0}, NEW k \in Nat, NEW r \in Nat, r < ps
  PROVE  (ps * k + r) \div ps = k /\ (ps * k + r) % ps = r
<1> DEFINE a == ps * k + r
           q == a \div ps
<1>1. a \in Nat /\ ps * k \in Nat
  BY Z3
<1>2. q \in Int /\ ps * q <= a /\ a < ps * (q + 1)
  BY <1>1, Z3
<1>3. ps * (q + 1) = ps * q + ps /\ ps * (k + 1) = ps * k + ps /\ ps * q \in Int
  BY <1>2, Z3
<1>4. q = k
  <2>1. CASE q < k
    <3>1. ps * (q + 1) <= ps * k
      BY <1>2, <2>1, Z3
    <3>2. QED
      BY <1>1, <1>2, <3>1
  <2>2. CASE q > k
    <3>1. ps * q >= ps * (k + 1)
      BY <1>2, <2>2, Z3
    <3>2. QED
      BY <1>1, <1>2, <1>3, <3>1
  <2>3. QED
    BY <1>2, <2>1, <2>2
<1>5. a % ps = a - ps * q
  BY <1>1, Z3
<1>6. QED
  <2>1. a % ps = r
    BY <1>1, <1>4, <1>5
  <2>2. QED
    BY <1>4, <2>1

\* The virtual pages that have the same pair as a given one.
LEMMA PairIsPair ==
  ASSUME NEW w \in Nat \ {0}, NEW va \in Nat, NEW x \in Nat, x \div w = va \div w
  PROVE  x \in ((va \div w) * w) .. ((va \div w) * w + w - 1)
<1> DEFINE q == va \div w
<1>1. q \in Int /\ w * q <= x /\ x < w * (q + 1) /\ w * q \in Int
  BY Z3
<1>2. w * (q + 1) = w * q + w /\ q * w = w * q
  BY <1>1, Z3
<1> HIDE DEF q
<1>3. x \in (q * w) .. (q * w + w - 1)
  BY <1>1, <1>2
<1>4. QED
  BY <1>3 DEF q

\* An entry whose virtual address begins a pair of pages translates each page
\* of the size it is for to the page at the same distance from its base.
LEMMA EntryTranslates ==
  ASSUME NEW size \in Nat \ {0}, Fits(size), NEW base \in Nat \ {0},
         Aligned(base, PageMask(size)),
         NEW va \in Nat, va % (2 * PageMask(size)) = 0, NEW p \in 0 .. (size - 1)
  PROVE  LET e == process_tlb_entry(size, base, va) IN
         /\ e.hi \div (2 * e.pagemask) = (va + p) \div (2 * e.pagemask)
         /\ Half(e, va + p) # 0
         /\ (Half(e, va + p) \div e.pagemask) * e.pagemask + ((va + p) % e.pagemask) = base + p
<1> DEFINE e == process_tlb_entry(size, base, va)
<1>1. PICK ps \in Nat \ {0} : ps = PageMask(size)
  BY MemoryAssumption DEF Fits
<1>2. /\ e.lo0 = base /\ e.pagemask = ps /\ e.hi = va
      /\ e.lo1 = IF DualEntry(size) THEN base + size \div 2 ELSE 0
      /\ DualEntry(size) => size = 2 * ps
      /\ ~ DualEntry(size) => size = ps
  BY <1>1 DEF process_tlb_entry, PageMask, DualEntry
<1> HIDE DEF e
<1>3. PICK q \in Nat : va = (2 * ps) * q
  <2>1. 2 * ps \in Nat \ {0} /\ va % (2 * ps) = 0
    BY <1>1
  <2>2. va \div (2 * ps) \in Nat /\ va = (2 * ps) * (va \div (2 * ps))
    <3>1. ASSUME NEW w \in Nat \ {0}, va % w = 0
          PROVE  va \div w \in Int /\ va = (va \div w) * w
      BY <3>1, Z3
    <3>2. ASSUME NEW w \in Nat \ {0}, NEW d \in Int, va = d * w
          PROVE  d >= 0 /\ va = w * d
      BY <3>2, Z3
    <3>3. QED
      BY <2>1, <3>1, <3>2
  <2>3. QED
    BY <2>2
<1>4. /\ (2 * ps) * q = ps * (2 * q) /\ (2 * ps) * q + ps = ps * (2 * q + 1)
      /\ 2 * q \in Nat /\ 2 * q + 1 \in Nat
  BY Z3
<1>5. va \div (2 * ps) = q /\ (va + p) \div (2 * ps) = q
  <2>1. 2 * ps \in Nat \ {0} /\ 0 < 2 * ps /\ p \in Nat /\ p < 2 * ps
    BY <1>2
  <2>2. /\ ((2 * ps) * q + 0) \div (2 * ps) = q
        /\ ((2 * ps) * q + p) \div (2 * ps) = q
    BY <2>1, DivideBetween
  <2>3. va + 0 = va
    OBVIOUS
  <2>4. QED
    BY <1>3, <2>2, <2>3
<1> DEFINE goal == /\ e.hi \div (2 * e.pagemask) = (va + p) \div (2 * e.pagemask)
                   /\ Half(e, va + p) # 0
                   /\ (Half(e, va + p) \div e.pagemask) * e.pagemask
                        + ((va + p) % e.pagemask) = base + p
<1>6. e.hi \div (2 * e.pagemask) = (va + p) \div (2 * e.pagemask)
  BY <1>2, <1>5, Zenon
<1>7. ASSUME p < ps PROVE goal
  <2>1. p \in Nat /\ va + p = ps * (2 * q) + p
    BY <1>3, <1>4
  <2>2. (va + p) \div ps = 2 * q /\ (va + p) % ps = p
    <3>1. PICK k \in Nat : k = 2 * q
      BY <1>4
    <3>2. (ps * k + p) \div ps = k /\ (ps * k + p) % ps = p
      BY <1>7, <2>1, DivideBetween
    <3>3. QED
      BY <2>1, <3>1, <3>2, Zenon
  <2>3. (2 * q) % 2 = 0
    OBVIOUS
  <2>4. Half(e, va + p) = base
    BY <1>2, <2>2, <2>3 DEF Half
  <2>5. QED
    <3>1. (base \div ps) * ps = base
      BY <1>1 DEF Aligned
    <3>2. (Half(e, va + p) \div e.pagemask) * e.pagemask = base
      BY <1>2, <2>4, <3>1, Zenon
    <3>3. (va + p) % e.pagemask = p
      BY <1>2, <2>2, Zenon
    <3>4. Half(e, va + p) # 0
      BY <2>4
    <3>5. QED
      BY <1>6, <3>2, <3>3, <3>4, Zenon
<1>8. ASSUME p >= ps PROVE goal
  <2>1. size = 2 * ps /\ DualEntry(size)
    BY <1>2, <1>8
  <2>2. p - ps \in Nat /\ p - ps < ps /\ va + p = ps * (2 * q + 1) + (p - ps)
    <3>1. va + p = (va + ps) + (p - ps) /\ va + ps = ps * (2 * q + 1)
      BY <1>3, <1>4
    <3>2. QED
      BY <1>8, <2>1, <3>1
  <2>3. (va + p) \div ps = 2 * q + 1 /\ (va + p) % ps = p - ps
    <3>1. PICK k \in Nat : k = 2 * q + 1
      BY <1>4
    <3>2. PICK r \in Nat : r = p - ps
      BY <2>2
    <3>3. (ps * k + r) \div ps = k /\ (ps * k + r) % ps = r
      BY <2>2, <3>2, DivideBetween
    <3>4. QED
      BY <2>2, <3>1, <3>2, <3>3, Zenon
  <2>4. (2 * q + 1) % 2 # 0
    OBVIOUS
  <2>5. Half(e, va + p) = base + ps
    BY <1>2, <2>1, <2>3, <2>4 DEF Half
  <2>6. Aligned(base, ps)
    BY <1>1
  <2>7. ((base + ps) \div ps) * ps = base + ps
    BY <2>6, NextAligned DEF Aligned
  <2>8. (base + ps) + (p - ps) = base + p /\ base + ps # 0
    OBVIOUS
  <2>9. (Half(e, va + p) \div e.pagemask) * e.pagemask = base + ps
    BY <1>2, <2>5, <2>7, Zenon
  <2>10. (va + p) % e.pagemask = p - ps
    BY <1>2, <2>3, Zenon
  <2>11. Half(e, va + p) # 0
    BY <2>5, <2>8, Zenon
  <2>12. QED
    BY <1>6, <2>8, <2>9, <2>10, <2>11, Zenon
<1>9. p < ps \/ p >= ps
  OBVIOUS
<1>10. QED
  BY <1>7, <1>8, <1>9 DEF e
-----------------------------------------------------------------------------
\* What the generator wrote for a VM: sizes the pages fit, aligned bases, and
\* one entry each for RAM, flash and every device.
Exact(c) ==
  /\ {c.ram_size, c.flash_size} \subseteq {s \in MemSizes : Fits(s)}
  /\ c.ram_base >= RAM_BASE /\ c.flash_base_add >= FLASH_BASE
  /\ Aligned(c.ram_base, PageMask(c.ram_size))
  /\ Aligned(c.flash_base_add, PageMask(c.flash_size))
  /\ \A n \in 1 .. Len(c.maps) : Fits(c.maps[n].size)
  /\ \A m, n \in 1 .. Len(c.maps) : m # n => c.maps[m] # c.maps[n]
  /\ Len(c.tlb) = 2 + Len(c.maps)
  /\ c.tlb[1] = process_tlb_entry(c.ram_size, c.ram_base, RAM_VA)
  /\ c.tlb[2] = process_tlb_entry(c.flash_size, c.flash_base_add, FLASH_VA)
  /\ \A n \in 1 .. Len(c.maps) : c.tlb[n + 2] = DeviceEntry(c.maps[n])

\* Every entry of the VMs that were created is in the TLB.
Present ==
  \A v \in 1 .. created : \A n \in 1 .. Len(vmconf[v].tlb) :
    \E i \in 0 .. (tlbindex - 1) : tlb[i] = WithId(vmconf[v].tlb[n], v)

ExactInv == \A v \in 1 .. Len(vmconf) : Exact(vmconf[v])

\* The entry of the hypercalls maps the buffer of the latest one, and the
\* hypervisor has no other.
CallInv ==
  /\ \A i \in 0 .. (ENTRIES - 1) : tlb[i].guestid = 0 => tlb[i] = Unused
  /\ \/ call = NoCall
     \/ /\ call.vm \in 1 .. created /\ call.address \in Nat /\ call.size \in Nat
        /\ call.mapped = (call.address % PAGE) + vmconf[call.vm].ram_base * PAGE
        /\ tlb[ENTRIES] = tlbCreateEntry(call.address, vmconf[call.vm].ram_base, call.size)

SeesInv == ExactInv /\ Present /\ CallInv

\* What the generator writes for one VM is exact.
LEMMA ConfExact ==
  ASSUME ConfInv, NEW r \in Requests, AllFit(r)
  PROVE  Exact(Conf(r))
<1> DEFINE c == Conf(r)
           e1 == process_tlb_entry(r.ram, RamBase(r), RAM_VA)
           e2 == process_tlb_entry(r.flash, FlashBase(r), FLASH_VA)
           devs == [n \in DOMAIN r.maps |-> DeviceEntry(r.maps[n])]
<1>1. /\ r.ram \in MemSizes /\ r.flash \in MemSizes
      /\ r.maps \in UNION {[1..n -> Devices] : n \in 0..MAX_MAPS}
      /\ \A i, j \in DOMAIN r.maps : i # j => r.maps[i] # r.maps[j]
      /\ Fits(r.ram) /\ Fits(r.flash) /\ \A n \in DOMAIN r.maps : Fits(r.maps[n].size)
  BY DEF Requests, AllFit
<1>2. PICK k \in 0 .. MAX_MAPS : r.maps \in [1 .. k -> Devices]
  BY <1>1
<1>3. k \in Nat /\ Len(r.maps) = k /\ DOMAIN r.maps = 1 .. k
  BY <1>2, MemoryAssumption
<1>4. /\ c.ram_base = RamBase(r) /\ c.ram_size = r.ram /\ c.flash_base_add = FlashBase(r)
      /\ c.flash_size = r.flash /\ c.maps = r.maps /\ c.tlb = <<e1, e2>> \o devs
  BY DEF Conf
<1>5. ASSUME NEW s \in MemSizes, Fits(s), NEW b \in Nat
      PROVE  /\ calculate_mem_base(PageMask(s), b) >= b
             /\ calculate_mem_base(PageMask(s), b) \in Nat
             /\ Aligned(calculate_mem_base(PageMask(s), b), PageMask(s))
  <2>1. PageMask(s) \in Nat \ {0}
    BY <1>5, MemoryAssumption DEF Fits
  <2>2. QED
    BY <2>1, BaseAligned
<1>6. /\ RamBase(r) >= RAM_BASE /\ FlashBase(r) >= FLASH_BASE
      /\ Aligned(RamBase(r), PageMask(r.ram)) /\ Aligned(FlashBase(r), PageMask(r.flash))
  <2>1. /\ ram_next \in Nat /\ flash_next \in Nat /\ RAM_BASE <= ram_next
        /\ FLASH_BASE <= flash_next /\ RAM_BASE \in Nat /\ FLASH_BASE \in Nat
    BY MemoryAssumption DEF ConfInv
  <2>2. /\ RamBase(r) >= ram_next /\ FlashBase(r) >= flash_next
        /\ RamBase(r) \in Nat /\ FlashBase(r) \in Nat
        /\ Aligned(RamBase(r), PageMask(r.ram)) /\ Aligned(FlashBase(r), PageMask(r.flash))
    BY <1>1, <1>5, <2>1 DEF RamBase, FlashBase
  <2>3. QED
    BY <2>1, <2>2
<1> HIDE DEF c, e1, e2
<1>7. /\ c.tlb[1] = e1 /\ c.tlb[2] = e2 /\ Len(c.tlb) = 2 + k
      /\ \A n \in 1 .. k : c.tlb[n + 2] = DeviceEntry(r.maps[n])
  <2> DEFINE S == {e1, e2} \cup {DeviceEntry(r.maps[n]) : n \in 1 .. k}
  <2>1. devs \in Seq(S) /\ Len(devs) = k /\ <<e1, e2>> \in Seq(S) /\ Len(<<e1, e2>>) = 2
    BY <1>3
  <2>2. \A n \in 1 .. k : devs[n] = DeviceEntry(r.maps[n])
    BY <1>3
  <2> HIDE DEF S, devs
  <2>3. QED
    BY <1>3, <1>4, <2>1, <2>2
<1>8. QED
  BY <1>1, <1>3, <1>4, <1>6, <1>7 DEF Exact, c, e1, e2

\* Nothing is configured at the start, so nothing is missing.
LEMMA SeesInitInv == MemInit => SeesInv
<1> SUFFICES ASSUME MemInit PROVE SeesInv
  OBVIOUS
<1>1. vmconf = <<>> /\ created = 0 /\ tlb = [i \in 0..ENTRIES |-> Unused] /\ call = NoCall
  BY DEF MemInit
<1>2. ExactInv /\ Present
  BY <1>1 DEF ExactInv, Present
<1>3. CallInv
  BY <1>1, MemoryAssumption DEF CallInv
<1>4. QED
  BY <1>2, <1>3 DEF SeesInv

\* The generator appends an exact configuration.
LEMMA SeesGenerate ==
  ASSUME MemInv, SeesInv, NEW r \in Requests, gen_conf_vms(r)
  PROVE  SeesInv'
<1> DEFINE L == Len(vmconf)
<1>1. ConfInv /\ CountInv /\ ExactInv /\ Present /\ CallInv
  BY DEF MemInv, SeesInv
<1>2. /\ AllFit(r) /\ phase = "generator" /\ vmconf' = Append(vmconf, Conf(r))
      /\ UNCHANGED <<phase, tlbindex, created, tlb, call>>
  BY DEF gen_conf_vms, Possible
<1>3. L \in Nat /\ created = 0
  BY <1>1, <1>2 DEF ConfInv, CountInv
<1>4. /\ Len(vmconf') = L + 1 /\ vmconf'[L + 1] = Conf(r)
      /\ \A v \in 1 .. L : vmconf'[v] = vmconf[v]
  <2>1. vmconf \in Seq(VmConf) /\ Conf(r) \in VmConf
    BY <1>1, <1>2, ConfPlaced DEF ConfInv
  <2>2. QED
    BY <1>2, <2>1, AppendProperties
<1>5. ExactInv'
  <2>1. Exact(Conf(r))
    BY <1>1, <1>2, ConfExact
  <2>2. \A v \in 1 .. L : Exact(vmconf[v])
    BY <1>1 DEF ExactInv
  <2> HIDE DEF L
  <2>3. \A v \in 1 .. (L + 1) : v = L + 1 \/ v \in 1 .. L
    BY <1>3
  <2>4. \A v \in 1 .. (L + 1) : Exact(vmconf'[v])
    BY <1>4, <2>1, <2>2, <2>3
  <2>5. QED
    BY <1>4, <2>4 DEF ExactInv
<1>6. Present' /\ CallInv'
  <2>1. Present'
    BY <1>2, <1>3 DEF Present
  <2>2. call = NoCall
    BY <1>1, <1>3 DEF CallInv
  <2>3. CallInv'
    BY <1>1, <1>2, <2>2 DEF CallInv
  <2>4. QED
    BY <2>1, <2>3
<1>7. QED
  BY <1>5, <1>6 DEF SeesInv

\* create_vm writes the entries of the next VM, all of them and nothing else,
\* behind those that are there.
LEMMA SeesCreate ==
  ASSUME MemInv, SeesInv, create_vm
  PROVE  SeesInv'
<1> DEFINE v == created + 1
           entries == vmconf[v].tlb
           places == {NewIndex(tlbindex, i) : i \in DOMAIN entries}
           from(p) == CHOOSE i \in DOMAIN entries : NewIndex(tlbindex, i) = p
<1>1. ConfInv /\ TlbInv /\ CountInv /\ ExactInv /\ Present /\ CallInv
  BY DEF MemInv, SeesInv
<1>2. /\ phase = "startup" /\ created < Len(vmconf)
      /\ tlb' = [i \in DOMAIN tlb |-> IF i \in places THEN WithId(entries[from(i)], v) ELSE tlb[i]]
      /\ tlbindex' = tlbindex + Len(entries) /\ created' = v
      /\ UNCHANGED <<phase, vmconf, ram_next, flash_next, total, call>>
  BY DEF create_vm, tlbEntryWrite
<1>3. /\ Len(vmconf) \in Nat /\ created \in 0 .. Len(vmconf) /\ v \in 1 .. Len(vmconf)
      /\ DOMAIN entries = 1 .. Len(entries) /\ Len(entries) \in Nat
      /\ v \in Nat /\ v # 0
  <2>1. vmconf \in Seq(VmConf) /\ created \in 0 .. Len(vmconf) /\ Len(vmconf) \in Nat
    BY <1>1 DEF ConfInv, CountInv
  <2>2. v \in 1 .. Len(vmconf)
    BY <1>2, <2>1
  <2>3. vmconf[v] \in VmConf
    BY <2>1, <2>2
  <2>4. entries \in Seq(Entry)
    BY <2>3 DEF VmConf
  <2>5. QED
    BY <2>1, <2>2, <2>4
<1>4. PICK f \in [1 .. (Len(vmconf) + 1) -> Nat] : Starts(f)
  BY <1>1 DEF CountInv
<1>5. /\ tlbindex \in Nat /\ tlbindex + Len(entries) <= ENTRIES /\ ENTRIES \in Nat
  <2>1. tlbindex = f[v] /\ tlbindex \in Nat /\ f[v + 1] = f[v] + Len(entries)
    BY <1>3, <1>4 DEF Starts
  <2>2. f[v + 1] <= f[Len(vmconf) + 1] /\ f[Len(vmconf) + 1] = total
    <3>1. v + 1 \in 1 .. (Len(vmconf) + 1) /\ v + 1 <= Len(vmconf) + 1
          /\ Len(vmconf) + 1 \in 1 .. (Len(vmconf) + 1)
      BY <1>3
    <3>2. QED
      BY <1>4, <3>1 DEF Starts
  <2>3. total <= ENTRIES /\ total \in Nat /\ ENTRIES \in Nat
    BY <1>1, MemoryAssumption DEF CountInv
  <2>4. QED
    BY <1>3, <2>1, <2>2, <2>3
<1> HIDE DEF v, entries
<1>6. /\ \A p \in places : p \in tlbindex .. (tlbindex + Len(entries) - 1)
      /\ \A p \in places : from(p) \in DOMAIN entries
      /\ \A n \in DOMAIN entries : tlbindex + n - 1 \in places /\ from(tlbindex + n - 1) = n
  <2>1. ASSUME NEW n \in DOMAIN entries
        PROVE  /\ NewIndex(tlbindex, n) = tlbindex + n - 1
               /\ tlbindex + n - 1 \in tlbindex .. (tlbindex + Len(entries) - 1)
    BY <1>3, <1>5 DEF NewIndex
  <2>2. \A m, n \in DOMAIN entries : NewIndex(tlbindex, m) = NewIndex(tlbindex, n) => m = n
    BY <1>3, <1>5 DEF NewIndex
  <2>3. \A p \in places : from(p) \in DOMAIN entries /\ NewIndex(tlbindex, from(p)) = p
    OBVIOUS
  <2>4. ASSUME NEW n \in DOMAIN entries
        PROVE  NewIndex(tlbindex, n) \in places /\ from(NewIndex(tlbindex, n)) = n
    BY <2>2, <2>3
  <2>5. \A n \in DOMAIN entries : tlbindex + n - 1 \in places /\ from(tlbindex + n - 1) = n
    BY <2>1, <2>4
  <2>6. \A p \in places : p \in tlbindex .. (tlbindex + Len(entries) - 1)
    BY <2>1
  <2>7. QED
    BY <2>3, <2>5, <2>6
<1> HIDE DEF places, from
<1>7. DOMAIN tlb = 0 .. ENTRIES
  BY <1>1 DEF TlbInv
<1>8. ExactInv'
  BY <1>1, <1>2 DEF ExactInv
<1>9. Present'
  <2>0. vmconf' = vmconf /\ created' = v
    BY <1>2
  <2> SUFFICES ASSUME NEW w \in 1 .. v, NEW n \in 1 .. Len(vmconf[w].tlb)
               PROVE  \E i \in 0 .. (tlbindex' - 1) : tlb'[i] = WithId(vmconf[w].tlb[n], w)
    BY <2>0 DEF Present
  <2>1. CASE w = v
    <3> DEFINE i == tlbindex + n - 1
    <3>1. n \in DOMAIN entries
      BY <1>3, <2>1 DEF entries
    <3>2. i \in places /\ from(i) = n
      BY <1>6, <3>1
    <3>3. i \in 0 .. (tlbindex' - 1) /\ i \in DOMAIN tlb
      BY <1>2, <1>3, <1>5, <1>7, <3>1
    <3>4. tlb'[i] = WithId(vmconf[w].tlb[n], w)
      BY <1>2, <2>1, <3>2, <3>3 DEF entries
    <3>5. QED
      BY <3>3, <3>4
  <2>2. CASE w # v
    <3>1. w \in 1 .. created
      BY <1>3, <2>2 DEF v
    <3>2. PICK i \in 0 .. (tlbindex - 1) : tlb[i] = WithId(vmconf[w].tlb[n], w)
      BY <1>1, <3>1 DEF Present
    <3>3. i \notin places /\ i \in DOMAIN tlb /\ i \in 0 .. (tlbindex' - 1)
      BY <1>2, <1>3, <1>5, <1>6, <1>7
    <3>4. tlb'[i] = tlb[i]
      BY <1>2, <3>3
    <3>5. QED
      BY <3>2, <3>3, <3>4
  <2>3. QED
    BY <2>1, <2>2
<1>10. CallInv'
  <2>1. ASSUME NEW i \in 0 .. (ENTRIES - 1), tlb'[i].guestid = 0
        PROVE  tlb'[i] = Unused
    <3>1. i \in DOMAIN tlb
      BY <1>5, <1>7
    <3>2. CASE i \in places
      <4>1. tlb'[i].guestid = v
        BY <1>2, <3>1, <3>2 DEF WithId
      <4>2. QED
        BY <1>3, <2>1, <4>1
    <3>3. CASE i \notin places
      <4>1. tlb'[i] = tlb[i]
        BY <1>2, <3>1, <3>3
      <4>2. QED
        BY <1>1, <2>1, <4>1 DEF CallInv
    <3>4. QED
      BY <3>2, <3>3
  <2>2. tlb'[ENTRIES] = tlb[ENTRIES]
    <3>1. ENTRIES \notin places /\ ENTRIES \in DOMAIN tlb
      BY <1>3, <1>5, <1>6, <1>7
    <3>2. QED
      BY <1>2, <3>1
  <2>3. call.vm \in 1 .. created => call.vm \in 1 .. created'
    BY <1>2, <1>3 DEF v
  <2>4. call' = call /\ vmconf' = vmconf
    BY <1>2
  <2>5. QED
    BY <1>1, <2>1, <2>2, <2>3, <2>4 DEF CallInv
<1>11. QED
  BY <1>8, <1>9, <1>10 DEF SeesInv

\* A hypercall leaves the entries of the VMs alone.
LEMMA SeesHypercall ==
  ASSUME MemInv, SeesInv, NEW v \in 1 .. created, NEW b \in Buffers, hypercall(v, b)
  PROVE  SeesInv'
<1> DEFINE e == tlbCreateEntry(b.address, vmconf[v].ram_base, b.size)
<1>1. TlbInv /\ CountInv /\ ExactInv /\ Present /\ CallInv
  BY DEF MemInv, SeesInv
<1>2. /\ tlb' = [i \in DOMAIN tlb |-> IF i = ENTRIES THEN e ELSE tlb[i]]
      /\ call' = [vm |-> v, address |-> b.address, size |-> b.size,
                  mapped |-> (b.address % PAGE) + vmconf[v].ram_base * PAGE]
      /\ UNCHANGED <<phase, vmconf, ram_next, flash_next, total, tlbindex, created>>
  BY DEF hypercall, tlbEntryWrite
<1> HIDE DEF e
<1>3. tlbindex \in 0 .. ENTRIES /\ ENTRIES \in Nat /\ DOMAIN tlb = 0 .. ENTRIES
  <2>1. MemTypeOK
    BY MemInvTypes
  <2>2. QED
    BY <2>1, MemoryAssumption DEF MemTypeOK
<1>4. ASSUME NEW i \in 0 .. (ENTRIES - 1) PROVE tlb'[i] = tlb[i]
  BY <1>2, <1>3
<1>5. tlb'[ENTRIES] = e
  BY <1>2, <1>3
<1>6. ExactInv'
  BY <1>1, <1>2 DEF ExactInv
<1>7. Present'
  <2>1. \A i \in 0 .. (tlbindex - 1) : i \in 0 .. (ENTRIES - 1)
    BY <1>3
  <2>2. QED
    BY <1>1, <1>2, <1>4, <2>1 DEF Present
<1>8. CallInv'
  <2>1. \A i \in 0 .. (ENTRIES - 1) : tlb'[i].guestid = 0 => tlb'[i] = Unused
    BY <1>1, <1>4 DEF CallInv
  <2>2. call'.vm \in 1 .. created' /\ call'.address \in Nat /\ call'.size \in Nat
    BY <1>2, MemoryAssumption
  <2>3. /\ call'.mapped = (call'.address % PAGE) + vmconf'[call'.vm].ram_base * PAGE
        /\ tlb'[ENTRIES] = tlbCreateEntry(call'.address, vmconf'[call'.vm].ram_base, call'.size)
    BY <1>2, <1>5 DEF e
  <2>4. QED
    BY <2>1, <2>2, <2>3 DEF CallInv
<1>9. QED
  BY <1>6, <1>7, <1>8 DEF SeesInv

\* The steps that only say what runs next.
LEMMA SeesPhase ==
  ASSUME SeesInv, UNCHANGED <<vmconf, tlbindex, created, tlb, call>>
  PROVE  SeesInv'
<1>1. ExactInv' /\ Present'
  BY DEF SeesInv, ExactInv, Present
<1>2. CallInv'
  BY DEF SeesInv, CallInv
<1>3. QED
  BY <1>1, <1>2 DEF SeesInv

\* What a VM sees is fixed by the configuration from its creation on.
LEMMA SeesInvAlways == MemSpec => []SeesInv
<1>1. MemInv /\ SeesInv /\ [MemNext]_memVars => SeesInv'
  <2> SUFFICES ASSUME MemInv, SeesInv, [MemNext]_memVars PROVE SeesInv'
    OBVIOUS
  <2>1. CASE \E r \in Requests : gen_conf_vms(r)
    BY <2>1, SeesGenerate
  <2>2. CASE (\E r \in Requests : gen_conf_vms_fails(r)) \/ Built \/ initializeMachines
    BY <2>2, SeesPhase DEF gen_conf_vms_fails, Built, initializeMachines
  <2>3. CASE create_vm
    BY <2>3, SeesCreate
  <2>4. CASE \E v \in 1..created : \E b \in Buffers : hypercall(v, b)
    BY <2>4, SeesHypercall
  <2>5. CASE UNCHANGED memVars
    BY <2>5, SeesPhase DEF memVars
  <2>6. QED
    BY <2>1, <2>2, <2>3, <2>4, <2>5 DEF MemNext
<1>2. QED
  BY <1>1, SeesInitInv, MemInvAlways, PTL DEF MemSpec

\* The address and the size an entry of a VM is for.
PlaceOf(c, n) ==
  IF n = 1 THEN [va |-> RAM_VA, size |-> c.ram_size]
  ELSE IF n = 2 THEN [va |-> FLASH_VA, size |-> c.flash_size]
  ELSE [va |-> c.maps[n - 2].base, size |-> c.maps[n - 2].size]

\* The entry is for that place.
LEMMA EntryOfPlace ==
  ASSUME NEW c \in VmConf, Exact(c), NEW n \in 1 .. Len(c.tlb)
  PROVE  LET a == PlaceOf(c, n) IN
         /\ a.va \in Nat /\ a.size \in Nat \ {0} /\ Fits(a.size)
         /\ c.tlb[n].hi = a.va /\ c.tlb[n].pagemask = PageMask(a.size)
         /\ n > 2 => n - 2 \in 1 .. Len(c.maps) /\ c.maps[n - 2] \in Devices
<1>1. RAM_VA \in Nat /\ FLASH_VA \in Nat
  BY MemoryAssumption
<1>2. c.maps \in Seq(Devices) /\ Len(c.maps) \in Nat /\ Len(c.tlb) = 2 + Len(c.maps)
  BY DEF VmConf, Exact
<1>3. CASE n = 1
  <2>1. c.ram_size \in Nat \ {0} /\ Fits(c.ram_size)
    BY DEF VmConf, Exact
  <2>2. c.tlb[n] = process_tlb_entry(c.ram_size, c.ram_base, RAM_VA)
    BY <1>3 DEF Exact
  <2>3. QED
    BY <1>1, <1>3, <2>1, <2>2 DEF PlaceOf, process_tlb_entry
<1>4. CASE n = 2
  <2>1. c.flash_size \in Nat \ {0} /\ Fits(c.flash_size)
    BY DEF VmConf, Exact
  <2>2. c.tlb[n] = process_tlb_entry(c.flash_size, c.flash_base_add, FLASH_VA)
    BY <1>4 DEF Exact
  <2>3. QED
    BY <1>1, <1>4, <2>1, <2>2 DEF PlaceOf, process_tlb_entry
<1>5. CASE n > 2
  <2>1. n - 2 \in 1 .. Len(c.maps) /\ (n - 2) + 2 = n
    BY <1>2, <1>5
  <2>2. PICK d \in Devices : d = c.maps[n - 2]
    BY <1>2, <2>1
  <2>3. d.base \in Nat /\ d.size \in Nat \ {0} /\ Fits(d.size)
    <3>1. d \in [base : Nat \ {0}, size : Nat \ {0}]
      BY MemoryAssumption
    <3>2. QED
      BY <2>1, <2>2, <3>1 DEF Exact
  <2>4. c.tlb[n] = DeviceEntry(d)
    BY <2>1, <2>2 DEF Exact
  <2>5. PlaceOf(c, n) = [va |-> d.base, size |-> d.size]
    BY <1>5, <2>2 DEF PlaceOf
  <2>6. QED
    BY <2>1, <2>2, <2>3, <2>4, <2>5 DEF DeviceEntry, process_tlb_entry
<1>6. QED
  BY <1>2, <1>3, <1>4, <1>5

\* A page is in the pair of the entry that covers it.
LEMMA CoveredInPair ==
  ASSUME NEW size \in Nat \ {0}, Fits(size), NEW hi \in Nat, NEW x \in Nat,
         hi \div (2 * PageMask(size)) = x \div (2 * PageMask(size))
  PROVE  x \in Pair(hi, size)
<1>1. PICK w \in Nat \ {0} : w = 2 * PageMask(size)
  <2>1. PageMask(size) \in Nat \ {0}
    BY MemoryAssumption DEF Fits
  <2>2. QED
    BY <2>1
<1>2. x \div w = hi \div w
  BY <1>1
<1>3. x \in ((hi \div w) * w) .. ((hi \div w) * w + w - 1)
  BY <1>2, PairIsPair
<1>4. QED
  BY <1>1, <1>3, Zenon DEF Pair

\* No page is covered by two entries of a VM.
LEMMA CoveredOnce ==
  ASSUME AddressesApart, NEW c \in VmConf, Exact(c),
         NEW m \in 1 .. Len(c.tlb), NEW n \in 1 .. Len(c.tlb), m # n, NEW x \in Nat,
         c.tlb[m].hi \div (2 * c.tlb[m].pagemask) = x \div (2 * c.tlb[m].pagemask),
         c.tlb[n].hi \div (2 * c.tlb[n].pagemask) = x \div (2 * c.tlb[n].pagemask)
  PROVE  FALSE
<1> DEFINE sizes == {s \in MemSizes : Fits(s)}
           InPair(k) == x \in Pair(PlaceOf(c, k).va, PlaceOf(c, k).size)
<1>1. ASSUME NEW k \in 1 .. Len(c.tlb),
             c.tlb[k].hi \div (2 * c.tlb[k].pagemask) = x \div (2 * c.tlb[k].pagemask)
      PROVE  InPair(k)
  <2> DEFINE a == PlaceOf(c, k)
  <2>1. /\ a.va \in Nat /\ a.size \in Nat \ {0} /\ Fits(a.size)
        /\ c.tlb[k].hi = a.va /\ c.tlb[k].pagemask = PageMask(a.size)
    BY EntryOfPlace
  <2> HIDE DEF a
  <2>2. a.va \div (2 * PageMask(a.size)) = x \div (2 * PageMask(a.size))
    BY <1>1, <2>1, Zenon
  <2>3. x \in Pair(a.va, a.size)
    BY <2>1, <2>2, CoveredInPair
  <2>4. QED
    BY <2>3 DEF a
<1>2. InPair(m) /\ InPair(n)
  BY <1>1
<1>3. c.ram_size \in sizes /\ c.flash_size \in sizes
  BY DEF Exact
<1>4. PlaceOf(c, 1) = [va |-> RAM_VA, size |-> c.ram_size]
      /\ PlaceOf(c, 2) = [va |-> FLASH_VA, size |-> c.flash_size]
  BY DEF PlaceOf
<1>5. ASSUME NEW k \in 1 .. Len(c.tlb), k # 1, k # 2
      PROVE  /\ k - 2 \in 1 .. Len(c.maps) /\ c.maps[k - 2] \in Devices
             /\ PlaceOf(c, k) = [va |-> c.maps[k - 2].base, size |-> c.maps[k - 2].size]
  <2>1. k > 2
    BY <1>5
  <2>2. QED
    BY <1>5, <2>1, EntryOfPlace DEF PlaceOf
<1>6. ~ (InPair(1) /\ InPair(2))
  BY <1>3, <1>4 DEF AddressesApart
<1>7. ASSUME NEW k \in 1 .. Len(c.tlb), k # 1, k # 2, InPair(k)
      PROVE  ~ InPair(1) /\ ~ InPair(2)
  <2>1. PICK d \in Devices : d = c.maps[k - 2]
    BY <1>5, <1>7
  <2>2. x \in Pair(d.base, d.size)
    BY <1>5, <1>7, <2>1
  <2>3. x \notin Pair(RAM_VA, c.ram_size) /\ x \notin Pair(FLASH_VA, c.flash_size)
    BY <1>3, <2>2 DEF AddressesApart
  <2>4. QED
    BY <1>4, <2>3
<1>8. CASE m \in {1, 2} \/ n \in {1, 2}
  BY <1>2, <1>6, <1>7, <1>8
<1>9. CASE m \notin {1, 2} /\ n \notin {1, 2}
  <2>1. PICK d \in Devices, e \in Devices : d = c.maps[m - 2] /\ e = c.maps[n - 2]
    BY <1>5, <1>9
  <2>2. d # e
    <3>1. m - 2 \in 1 .. Len(c.maps) /\ n - 2 \in 1 .. Len(c.maps)
      BY <1>5, <1>9
    <3>2. m - 2 # n - 2
      OBVIOUS
    <3>3. QED
      BY <2>1, <3>1, <3>2 DEF Exact
  <2>3. x \in Pair(d.base, d.size) /\ x \in Pair(e.base, e.size)
    <3>1. x \in Pair(PlaceOf(c, m).va, PlaceOf(c, m).size)
          /\ x \in Pair(PlaceOf(c, n).va, PlaceOf(c, n).size)
      BY <1>2
    <3>2. PlaceOf(c, m) = [va |-> d.base, size |-> d.size]
      BY <1>5, <1>9, <2>1
    <3>3. PlaceOf(c, n) = [va |-> e.base, size |-> e.size]
      BY <1>5, <1>9, <2>1
    <3>4. QED
      BY <3>1, <3>2, <3>3
  <2>4. QED
    BY <2>2, <2>3 DEF AddressesApart
<1>10. QED
  BY <1>8, <1>9

\* A page that one entry of a VM covers is translated by that entry alone.
LEMMA OneTranslation ==
  ASSUME MemInv, SeesInv, AddressesApart,
         NEW v \in 1 .. created, NEW n \in 1 .. Len(vmconf[v].tlb),
         NEW e, e = vmconf[v].tlb[n], NEW va \in Nat,
         e.hi \div (2 * e.pagemask) = va \div (2 * e.pagemask), Half(e, va) # 0
  PROVE  Translations(v, va) = {(Half(e, va) \div e.pagemask) * e.pagemask + (va % e.pagemask)}
<1> DEFINE fits == {j \in DOMAIN tlb : Covers(tlb[j], v, va) /\ Half(tlb[j], va) # 0}
           To(i) == (Half(i, va) \div i.pagemask) * i.pagemask + (va % i.pagemask)
<1>1. /\ ConfInv /\ TlbInv /\ created \in 0 .. Len(vmconf) /\ Len(vmconf) \in Nat
      /\ ExactInv /\ Present /\ MemTypeOK
  BY MemInvTypes DEF MemInv, SeesInv, CountInv, ConfInv
<1>2. v \in 1 .. Len(vmconf) /\ v # 0 /\ vmconf[v] \in VmConf /\ Exact(vmconf[v])
  BY <1>1 DEF ConfInv, ExactInv
<1>3. DOMAIN tlb = 0 .. ENTRIES /\ DOMAIN vmconf[v].tlb = 1 .. Len(vmconf[v].tlb)
  <2>1. vmconf[v].tlb \in Seq(Entry)
    BY <1>2 DEF VmConf
  <2>2. QED
    BY <1>1, <2>1 DEF TlbInv
<1>4. \A k \in 1 .. Len(vmconf[v].tlb) :
        /\ WithId(vmconf[v].tlb[k], v).guestid = v
        /\ WithId(vmconf[v].tlb[k], v).hi = vmconf[v].tlb[k].hi
        /\ WithId(vmconf[v].tlb[k], v).lo0 = vmconf[v].tlb[k].lo0
        /\ WithId(vmconf[v].tlb[k], v).lo1 = vmconf[v].tlb[k].lo1
        /\ WithId(vmconf[v].tlb[k], v).pagemask = vmconf[v].tlb[k].pagemask
  BY DEF WithId
<1>5. /\ Half(WithId(e, v), va) = Half(e, va) /\ Covers(WithId(e, v), v, va)
      /\ To(WithId(e, v)) = To(e)
  <2>1. Half(WithId(e, v), va) = Half(e, va)
    BY <1>4, Zenon DEF Half
  <2>2. Covers(WithId(e, v), v, va)
    BY <1>4, Zenon DEF Covers
  <2>3. To(WithId(e, v)) = To(e)
    BY <1>4, <2>1, Zenon
  <2>4. QED
    BY <2>1, <2>2, <2>3
<1>6. \E i \in fits : tlb[i] = WithId(e, v)
  <2>1. PICK i \in 0 .. (tlbindex - 1) : tlb[i] = WithId(e, v)
    BY <1>1 DEF Present
  <2>2. i \in DOMAIN tlb
    BY <1>1, <1>3, <2>1, MemoryAssumption DEF MemTypeOK
  <2>3. QED
    BY <1>5, <2>1, <2>2
<1>7. ASSUME NEW i \in fits PROVE tlb[i] = WithId(e, v)
  <2>1. i \in 0 .. ENTRIES /\ Covers(tlb[i], v, va)
    BY <1>3
  <2>2. PICK k \in 1 .. Len(vmconf[v].tlb) : tlb[i] = WithId(vmconf[v].tlb[k], v)
    <3>1. tlb[i].guestid = v
      BY <2>1 DEF Covers
    <3>2. QED
      BY <1>1, <1>2, <1>3, <2>1, <3>1 DEF TlbInv, EntryInv
  <2>3. vmconf[v].tlb[k].hi \div (2 * vmconf[v].tlb[k].pagemask)
          = va \div (2 * vmconf[v].tlb[k].pagemask)
    BY <1>4, <2>1, <2>2, Zenon DEF Covers
  <2>4. k = n
    BY <1>2, <2>3, CoveredOnce
  <2>5. QED
    BY <2>2, <2>4
<1>8. Translations(v, va) = {To(tlb[i]) : i \in fits}
  BY DEF Translations
<1> HIDE DEF fits, To
<1>9. Translations(v, va) = {To(e)}
  BY <1>5, <1>6, <1>7, <1>8
<1>10. QED
  BY <1>9 DEF To

\* The entry for a size at an aligned base is all there is to translate the
\* pages of that size.
LEMMA PlaceTranslates ==
  ASSUME MemInv, SeesInv, AddressesApart,
         NEW v \in 1 .. created, NEW n \in 1 .. Len(vmconf[v].tlb),
         NEW size \in Nat \ {0}, Fits(size), NEW base \in Nat \ {0},
         Aligned(base, PageMask(size)),
         NEW va \in Nat, va % (2 * PageMask(size)) = 0,
         vmconf[v].tlb[n] = process_tlb_entry(size, base, va), NEW p \in 0 .. (size - 1)
  PROVE  Translations(v, va + p) = {base + p}
<1> DEFINE e == process_tlb_entry(size, base, va)
<1>1. /\ e.hi \div (2 * e.pagemask) = (va + p) \div (2 * e.pagemask)
      /\ Half(e, va + p) # 0
      /\ (Half(e, va + p) \div e.pagemask) * e.pagemask + ((va + p) % e.pagemask) = base + p
  BY EntryTranslates
<1> HIDE DEF e
<1>2. e = vmconf[v].tlb[n] /\ va + p \in Nat
  BY DEF e
<1>3. Translations(v, va + p)
        = {(Half(e, va + p) \div e.pagemask) * e.pagemask + ((va + p) % e.pagemask)}
  BY <1>1, <1>2, OneTranslation
<1>4. QED
  BY <1>1, <1>3, Zenon

\* A device whose address begins a pair of pages is mapped at that address.
LEMMA DeviceInPlace ==
  ASSUME NEW ps \in Nat \ {0}, NEW base \in Nat, base % (2 * ps) = 0
  PROVE  calculate_mem_base(ps, base) = base /\ Aligned(base, ps)
<1>1. PICK w \in Nat \ {0} : w = 2 * ps
  OBVIOUS
<1>2. base = (base \div w) * w
  <2>1. base % w = 0
    BY <1>1
  <2>2. QED
    BY <2>1, Z3
<1>3. PICK q \in Int : q = base \div w /\ base = q * w
  BY <1>2
<1>4. q >= 0 /\ base = ps * (2 * q)
  BY <1>1, <1>3, Z3
<1>5. PICK k \in Nat : k = 2 * q
  BY <1>4
<1>6. base = ps * k + 0
  BY <1>4, <1>5
<1>7. (ps * k + 0) \div ps = k /\ (ps * k + 0) % ps = 0
  BY DivideBetween
<1>8. base \div ps = k /\ base % ps = 0
  BY <1>6, <1>7, Zenon
<1>9. k * ps = base
  BY <1>6, Z3
<1>10. QED
  BY <1>8, <1>9 DEF calculate_mem_base, Aligned

\* With the invariants a VM sees its own memory.
LEMMA SeesInvSees == MemInv /\ SeesInv /\ AddressesApart => VmSeesItsOwn
<1> SUFFICES ASSUME MemInv, SeesInv, AddressesApart, NEW v \in 1 .. created
             PROVE  SeesItsOwn(v)
  BY DEF VmSeesItsOwn
<1> DEFINE c == vmconf[v]
<1>1. /\ v \in 1 .. Len(vmconf) /\ c \in VmConf /\ Exact(c)
  <2>1. ConfInv /\ ExactInv /\ created \in 0 .. Len(vmconf) /\ Len(vmconf) \in Nat
    BY DEF MemInv, SeesInv, CountInv, ConfInv
  <2>2. v \in 1 .. Len(vmconf)
    BY <2>1
  <2>3. QED
    BY <2>1, <2>2 DEF ConfInv, ExactInv
<1>2. RAM_BASE \in Nat \ {0} /\ FLASH_BASE \in Nat \ {0} /\ RAM_VA \in Nat /\ FLASH_VA \in Nat
  BY MemoryAssumption
<1>3. c.maps \in Seq(Devices) /\ Len(c.maps) \in Nat /\ Len(c.tlb) = 2 + Len(c.maps)
  BY <1>1 DEF VmConf, Exact
<1>4. ASSUME NEW p \in 0 .. (c.ram_size - 1)
      PROVE  Translations(v, RAM_VA + p) = {c.ram_base + p}
  <2>1. /\ c.ram_size \in MemSizes /\ c.ram_size \in Nat \ {0} /\ Fits(c.ram_size)
        /\ c.ram_base \in Nat \ {0} /\ Aligned(c.ram_base, PageMask(c.ram_size))
        /\ c.tlb[1] = process_tlb_entry(c.ram_size, c.ram_base, RAM_VA)
    <3>1. c.ram_base \in Nat /\ c.ram_base >= RAM_BASE
      BY <1>1 DEF VmConf, Exact
    <3>2. QED
      BY <1>1, <1>2, <3>1 DEF VmConf, Exact
  <2>2. RAM_VA % (2 * PageMask(c.ram_size)) = 0
    BY <2>1 DEF AddressesApart
  <2>3. 1 \in 1 .. Len(c.tlb)
    BY <1>3
  <2>4. PICK s \in Nat \ {0}, b \in Nat \ {0} : s = c.ram_size /\ b = c.ram_base
    BY <2>1
  <2>5. /\ Fits(s) /\ Aligned(b, PageMask(s)) /\ p \in 0 .. (s - 1)
        /\ RAM_VA % (2 * PageMask(s)) = 0
        /\ vmconf[v].tlb[1] = process_tlb_entry(s, b, RAM_VA)
    BY <2>1, <2>2, <2>4
  <2>6. Translations(v, RAM_VA + p) = {b + p}
    BY <1>2, <2>3, <2>5, PlaceTranslates
  <2>7. QED
    BY <2>4, <2>6
<1>5. ASSUME NEW p \in 0 .. (c.flash_size - 1)
      PROVE  Translations(v, FLASH_VA + p) = {c.flash_base_add + p}
  <2>1. /\ c.flash_size \in MemSizes /\ c.flash_size \in Nat \ {0} /\ Fits(c.flash_size)
        /\ c.flash_base_add \in Nat \ {0} /\ Aligned(c.flash_base_add, PageMask(c.flash_size))
        /\ c.tlb[2] = process_tlb_entry(c.flash_size, c.flash_base_add, FLASH_VA)
    <3>1. c.flash_base_add \in Nat /\ c.flash_base_add >= FLASH_BASE
      BY <1>1 DEF VmConf, Exact
    <3>2. QED
      BY <1>1, <1>2, <3>1 DEF VmConf, Exact
  <2>2. FLASH_VA % (2 * PageMask(c.flash_size)) = 0
    BY <2>1 DEF AddressesApart
  <2>3. 2 \in 1 .. Len(c.tlb)
    BY <1>3
  <2>4. PICK s \in Nat \ {0}, b \in Nat \ {0} : s = c.flash_size /\ b = c.flash_base_add
    BY <2>1
  <2>5. /\ Fits(s) /\ Aligned(b, PageMask(s)) /\ p \in 0 .. (s - 1)
        /\ FLASH_VA % (2 * PageMask(s)) = 0
        /\ vmconf[v].tlb[2] = process_tlb_entry(s, b, FLASH_VA)
    BY <2>1, <2>2, <2>4
  <2>6. Translations(v, FLASH_VA + p) = {b + p}
    BY <1>2, <2>3, <2>5, PlaceTranslates
  <2>7. QED
    BY <2>4, <2>6
<1>6. ASSUME NEW n \in DOMAIN c.maps, NEW d, d = c.maps[n], d.base % (2 * PageMask(d.size)) = 0,
             NEW p \in 0 .. (d.size - 1)
      PROVE  Translations(v, d.base + p) = {d.base + p}
  <2>1. n \in 1 .. Len(c.maps) /\ d \in Devices
    BY <1>3, <1>6
  <2>2. d.base \in Nat \ {0} /\ d.size \in Nat \ {0} /\ Fits(d.size)
    <3>1. d \in [base : Nat \ {0}, size : Nat \ {0}]
      BY <2>1, MemoryAssumption
    <3>2. QED
      BY <1>1, <1>6, <2>1, <3>1 DEF Exact
  <2>3. PICK ps \in Nat \ {0} : ps = PageMask(d.size)
    BY <2>2, MemoryAssumption DEF Fits
  <2>4. calculate_mem_base(ps, d.base) = d.base /\ Aligned(d.base, ps)
    BY <1>6, <2>2, <2>3, DeviceInPlace
  <2>5. n + 2 \in 1 .. Len(c.tlb) /\ c.tlb[n + 2] = process_tlb_entry(d.size, d.base, d.base)
    <3>1. c.tlb[n + 2] = DeviceEntry(d)
      BY <1>1, <1>6, <2>1 DEF Exact
    <3>2. QED
      BY <1>3, <2>1, <2>3, <2>4, <3>1 DEF DeviceEntry
  <2>6. PICK s \in Nat \ {0}, b \in Nat \ {0}, a \in Nat, i \in 1 .. Len(c.tlb) :
          s = d.size /\ b = d.base /\ a = d.base /\ i = n + 2
    BY <2>2, <2>5
  <2>7. /\ Fits(s) /\ Aligned(b, PageMask(s)) /\ p \in 0 .. (s - 1)
        /\ a % (2 * PageMask(s)) = 0 /\ vmconf[v].tlb[i] = process_tlb_entry(s, b, a)
    BY <1>6, <2>2, <2>3, <2>4, <2>5, <2>6
  <2>8. Translations(v, a + p) = {b + p}
    <3>1. i \in 1 .. Len(vmconf[v].tlb) /\ s \in Nat \ {0} /\ b \in Nat \ {0} /\ a \in Nat
      OBVIOUS
    <3> HIDE DEF c
    <3>2. QED
      BY <2>7, <3>1, PlaceTranslates, SMTT(60)
  <2>9. QED
    BY <2>6, <2>8
<1>7. QED
  BY <1>4, <1>5, <1>6 DEF SeesItsOwn

\* From its creation on a VM sees all of its RAM, its flash and its aligned
\* devices where the guests are linked for them, and nothing in their place,
\* for all sizes, page sizes and numbers of VMs (process_tlb_entry, create_vm,
\* tlbEntryWrite), if the virtual addresses lie apart.
THEOREM VmSeesItsOwnAlways == AddressesApart /\ MemSpec => []VmSeesItsOwn
<1> SUFFICES ASSUME AddressesApart PROVE MemSpec => []VmSeesItsOwn
  OBVIOUS
<1>1. MemInv /\ SeesInv => VmSeesItsOwn
  BY SeesInvSees
<1>2. QED
  BY <1>1, MemInvAlways, SeesInvAlways, PTL

\* The page of a byte of a buffer, counted from the page the buffer begins in.
LEMMA BufferPage ==
  ASSUME NEW address \in Nat, NEW size \in 1 .. PAGE, NEW k \in 0 .. (size - 1),
         NEW base \in Nat
  PROVE  LET mapped == (address % PAGE) + base * PAGE IN
         \/ /\ (mapped + k) \div PAGE = base
            /\ (address + k) \div PAGE = address \div PAGE
         \/ /\ (mapped + k) \div PAGE = base + 1
            /\ (address + k) \div PAGE = address \div PAGE + 1
            /\ Crosses(address, size)
            /\ (address + size) \div PAGE = address \div PAGE + 1
<1>1. PICK g \in Nat \ {0} : g = PAGE
  BY MemoryAssumption
<1>2. PICK q \in Nat, r \in Nat : r < g /\ address = g * q + r /\ q = address \div g
                                  /\ r = address % g
  <2>1. /\ address \div g \in Int /\ address % g \in Int
        /\ g * (address \div g) <= address /\ address < g * (address \div g + 1)
        /\ address % g = address - g * (address \div g)
    BY Z3
  <2>2. g * (address \div g + 1) = g * (address \div g) + g /\ g * (address \div g) \in Int
    BY <2>1, Z3
  <2>3. address \div g >= 0
    <3>1. CASE address \div g < 0
      <4>1. g * (address \div g + 1) <= 0
        BY <2>1, <3>1, Z3
      <4>2. QED
        BY <2>1, <4>1
    <3>2. QED
      BY <2>1, <3>1
  <2>4. /\ address % g >= 0 /\ address % g < g
        /\ address = g * (address \div g) + (address % g)
    BY <2>1, <2>2
  <2>5. QED
    BY <2>1, <2>3, <2>4
<1>10. q \in Nat /\ r \in Nat /\ r < g /\ address = g * q + r
  BY <1>2
<1>3. /\ g * base \in Nat /\ g * q \in Nat /\ g * base = base * g
      /\ g * (base + 1) = g * base + g /\ g * (q + 1) = g * q + g
  BY <1>10, Z3
<1>4. size \in Nat /\ k \in Nat /\ k < size /\ size <= g
  BY <1>1
<1>11. PICK gb \in Nat, gq \in Nat : gb = g * base /\ gq = g * q
  BY <1>3
<1>5. (r + g * base) + k = g * base + (r + k) /\ (g * q + r) + k = g * q + (r + k)
      /\ (g * q + r) + size = g * q + (r + size)
  <2>1. /\ (r + gb) + k = gb + (r + k) /\ (gq + r) + k = gq + (r + k)
        /\ (gq + r) + size = gq + (r + size)
    BY <1>4, <1>10
  <2>2. QED
    BY <1>11, <2>1, Zenon
<1>6. CASE r + k < g
  <2>1. (g * base + (r + k)) \div g = base /\ (g * q + (r + k)) \div g = q
    <3>1. PICK s \in Nat : s = r + k /\ s < g
      BY <1>4, <1>6, <1>10
    <3>2. (g * base + s) \div g = base /\ (g * q + s) \div g = q
      BY <1>10, <3>1, DivideBetween
    <3>3. QED
      BY <3>1, <3>2, Zenon
  <2>2. ((r + g * base) + k) \div g = base /\ ((g * q + r) + k) \div g = q
    BY <1>5, <2>1, Zenon
  <2>3. QED
    BY <1>1, <1>2, <1>3, <2>2, Zenon
<1>7. CASE r + k >= g
  <2>1. PICK s \in Nat, t \in Nat : /\ s = r + k - g /\ s < g /\ t = r + size - g /\ t < g
    BY <1>4, <1>7, <1>10
  <2>2. /\ g * base + (r + k) = g * (base + 1) + s /\ g * q + (r + k) = g * (q + 1) + s
        /\ g * q + (r + size) = g * (q + 1) + t
    <3>1. /\ gb + (r + k) = (gb + g) + s /\ gq + (r + k) = (gq + g) + s
          /\ gq + (r + size) = (gq + g) + t
      BY <1>4, <1>10, <2>1
    <3>2. g * (base + 1) = gb + g /\ g * (q + 1) = gq + g
      BY <1>3, <1>11, Zenon
    <3>3. QED
      BY <1>11, <3>1, <3>2, Zenon
  <2>3. PICK b \in Nat, p \in Nat : b = base + 1 /\ p = q + 1
    BY <1>10
  <2>4. (g * b + s) \div g = b /\ (g * p + s) \div g = p /\ (g * p + t) \div g = p
    BY <2>1, DivideBetween
  <2>5. /\ ((r + g * base) + k) \div g = base + 1 /\ ((g * q + r) + k) \div g = q + 1
        /\ ((g * q + r) + size) \div g = q + 1
    BY <1>5, <2>2, <2>3, <2>4, Zenon
  <2>6. address \div g < (address + size) \div g
    <3>1. address \div g = q /\ (address + size) \div g = q + 1
      BY <1>2, <2>5, Zenon
    <3>2. QED
      BY <3>1
  <2>7. Crosses(address, size)
    BY <1>1, <2>6, Zenon DEF Crosses
  <2>8. QED
    BY <1>1, <1>2, <1>3, <2>5, <2>7, Zenon
<1>8. r + k < g \/ r + k >= g
  BY <1>4, <1>10
<1>9. QED
  BY <1>6, <1>7, <1>8

\* With the invariants a hypercall reaches the buffer of its caller: the pages
\* of the buffer are those the caller sees, for the entry covers the page of
\* its base and the one behind it.
LEMMA SeesInvBuffer == MemInv /\ SeesInv /\ AddressesApart => BufferIsTheCallers
<1> SUFFICES ASSUME MemInv, SeesInv, AddressesApart, call # NoCall, call.size <= PAGE,
                    call.address + call.size <= vmconf[call.vm].ram_size * PAGE,
                    vmconf[call.vm].ram_base % 2 = 0, NEW k \in 0 .. (call.size - 1)
             PROVE  Translations(0, (call.mapped + k) \div PAGE)
                      = Translations(call.vm, RAM_VA + (call.address + k) \div PAGE)
  BY DEF BufferIsTheCallers, PromisedBuffer
<1> DEFINE v == call.vm
           c == vmconf[v]
<1>1. /\ v \in 1 .. created /\ call.address \in Nat /\ call.size \in Nat
      /\ call.mapped = (call.address % PAGE) + c.ram_base * PAGE
      /\ tlb[ENTRIES] = tlbCreateEntry(call.address, c.ram_base, call.size)
      /\ \A i \in 0 .. (ENTRIES - 1) : tlb[i].guestid = 0 => tlb[i] = Unused
  BY DEF SeesInv, CallInv
<1>2. /\ DOMAIN tlb = 0 .. ENTRIES /\ ENTRIES \in Nat \ {0} /\ PAGE \in Nat \ {0}
      /\ RAM_BASE \in Nat \ {0} /\ RAM_VA \in Nat
  BY MemoryAssumption DEF MemInv, TlbInv
<1>3. c.ram_base \in Nat \ {0} /\ c.ram_size \in Nat
  <2>1. ConfInv /\ ExactInv /\ created \in 0 .. Len(vmconf) /\ Len(vmconf) \in Nat
    BY DEF MemInv, SeesInv, CountInv, ConfInv
  <2>2. c \in VmConf /\ Exact(c)
    <3>1. PICK w : w = v /\ w \in 1 .. Len(vmconf)
      BY <1>1, <2>1
    <3>2. vmconf[w] \in VmConf /\ Exact(vmconf[w])
      BY <2>1, <3>1 DEF ConfInv, ExactInv
    <3>3. QED
      BY <3>1, <3>2
  <2>3. c.ram_base \in Nat /\ c.ram_base >= RAM_BASE /\ c.ram_size \in Nat
    BY <2>2 DEF VmConf, Exact
  <2>4. QED
    BY <1>2, <2>3
<1> HIDE DEF v, c
<1>4. PICK address \in Nat, size \in 1 .. PAGE, base \in Nat \ {0}, n \in Nat :
        /\ address = call.address /\ size = call.size /\ base = c.ram_base /\ n = c.ram_size
        /\ address + size <= n * PAGE
  <2>1. /\ call.address \in Nat /\ call.size \in 1 .. PAGE
        /\ call.address + call.size <= c.ram_size * PAGE
    <3>1. call.address \in Nat /\ call.size \in Nat /\ call.size <= PAGE
      BY <1>1
    <3>2. call.size # 0
      BY <3>1
    <3>3. call.size \in 1 .. PAGE
      BY <1>2, <3>1, <3>2
    <3>4. QED
      BY <3>1, <3>3 DEF c, v
  <2>2. QED
    BY <1>3, <2>1
<1>5. /\ tlb[ENTRIES] = tlbCreateEntry(address, base, size)
      /\ call.mapped = (address % PAGE) + base * PAGE
      /\ k \in 0 .. (size - 1) /\ base % 2 = 0
  BY <1>1, <1>4 DEF c, v
<1> DEFINE mapped == (address % PAGE) + base * PAGE
           page == (mapped + k) \div PAGE
           off == (address + k) \div PAGE
           e == tlbCreateEntry(address, base, size)
<1>6. \/ page = base /\ off = address \div PAGE
      \/ /\ page = base + 1 /\ off = address \div PAGE + 1 /\ Crosses(address, size)
         /\ (address + size) \div PAGE = address \div PAGE + 1
  BY <1>5, BufferPage
<1> HIDE DEF mapped, page
\* What the caller sees at the page of the byte.
<1>7. off \in Nat /\ off < n
  <2>1. PICK g \in Nat \ {0}, x \in Nat : g = PAGE /\ x = address + k /\ x < n * g
    <3>1. n * PAGE \in Nat
      BY <1>2, Z3
    <3>2. address + k \in Nat /\ address + k < n * PAGE
      BY <1>4, <1>5, <3>1
    <3>3. QED
      BY <1>2, <3>2
  <2>2. x \div g \in Int /\ g * (x \div g) <= x /\ x < g * (x \div g + 1)
    BY Z3
  <2>3. PICK q \in Int : q = x \div g /\ g * q <= x /\ x < g * (q + 1)
    BY <2>2
  <2>4. q < n
    <3>1. CASE q >= n
      <4>1. g * q >= n * g
        BY <3>1, Z3
      <4>2. QED
        <5>1. g * q \in Int /\ n * g \in Int
          BY Z3
        <5>2. QED
          BY <2>1, <2>3, <4>1, <5>1
    <3>2. QED
      BY <3>1
  <2>5. q >= 0
    <3>1. CASE q < 0
      <4>1. g * (q + 1) <= 0
        BY <3>1, Z3
      <4>2. QED
        <5>1. g * (q + 1) \in Int
          BY Z3
        <5>2. QED
          BY <2>1, <2>3, <4>1, <5>1
    <3>2. QED
      BY <3>1
  <2>6. off = q
    BY <2>1, <2>3, Zenon
  <2>7. QED
    BY <2>4, <2>5, <2>6
<1> HIDE DEF off
<1>8. Translations(v, RAM_VA + off) = {base + off}
  <2>1. SeesItsOwn(v)
    BY <1>1, SeesInvSees DEF VmSeesItsOwn
  <2>2. off \in 0 .. c.ram_size - 1
    BY <1>4, <1>7
  <2>3. QED
    BY <1>4, <2>1, <2>2 DEF SeesItsOwn, c
\* What the hypervisor sees at the mapped address.
<1>9. /\ e.guestid = 0 /\ e.pagemask = 1 /\ e.hi = base
      /\ e.lo0 = base + address \div PAGE
      /\ Crosses(address, size) => e.lo1 = base + (address + size) \div PAGE
  BY DEF tlbCreateEntry
<1> HIDE DEF e
<1>10. /\ page \in Nat /\ base \div 2 = page \div 2 /\ Half(e, page) = base + off
  <2>1. PICK a \in Nat : a = address \div PAGE
    <3>1. address \div PAGE \in Int
      BY <1>2
    <3>2. off \in Int /\ (off = address \div PAGE \/ off = address \div PAGE + 1)
      BY <1>6, <1>7
    <3>3. address \div PAGE >= 0
      <4>1. PICK g \in Nat \ {0} : g = PAGE
        BY <1>2
      <4>2. address \div g >= 0
        BY Z3
      <4>3. QED
        BY <4>1, <4>2
    <3>4. QED
      BY <3>1, <3>3
  <2>2. CASE page = base /\ off = address \div PAGE
    <3>1. (base \div 1) % 2 = 0
      BY <1>5
    <3>2. Half(e, page) = e.lo0
      BY <1>9, <2>2, <3>1 DEF Half
    <3>3. QED
      BY <1>9, <2>2, <3>2
  <2>3. CASE /\ page = base + 1 /\ off = address \div PAGE + 1 /\ Crosses(address, size)
             /\ (address + size) \div PAGE = address \div PAGE + 1
    <3>1. ((base + 1) \div 1) % 2 # 0 /\ (base + 1) \div 2 = base \div 2 /\ base + 1 \in Nat
      BY <1>5
    <3>2. Half(e, page) = e.lo1
      BY <1>9, <2>3, <3>1 DEF Half
    <3>3. e.lo1 = base + off
      BY <1>9, <2>3, Zenon
    <3>4. QED
      BY <2>3, <3>1, <3>2, <3>3
  <2>4. QED
    BY <1>6, <2>2, <2>3
<1>11. Covers(e, 0, page) /\ Half(e, page) # 0
  <2>1. 2 * e.pagemask = 2
    BY <1>9
  <2>2. Covers(e, 0, page)
    BY <1>9, <1>10, <2>1, Zenon DEF Covers
  <2>3. QED
    BY <1>7, <1>10, <2>2
<1>12. ASSUME NEW i \in 0 .. ENTRIES, Covers(tlb[i], 0, page), i # ENTRIES
       PROVE  FALSE
  <2>1. tlb[i] = Unused
    BY <1>1, <1>2, <1>12 DEF Covers
  <2>2. (-2) \div (2 * 1) = page \div (2 * 1)
    BY <1>12, <2>1 DEF Covers, Unused
  <2>3. QED
    BY <1>10, <2>2
<1>13. Translations(0, page) = {base + off}
  <2> DEFINE To(i) == (Half(tlb[i], page) \div tlb[i].pagemask) * tlb[i].pagemask
                        + (page % tlb[i].pagemask)
             fits == {j \in DOMAIN tlb : Covers(tlb[j], 0, page) /\ Half(tlb[j], page) # 0}
  <2>1. tlb[ENTRIES] = e /\ ENTRIES \in 0 .. ENTRIES
    BY <1>2, <1>5 DEF e
  <2>2. fits = {ENTRIES}
    BY <1>2, <1>11, <1>12, <2>1
  <2>3. To(ENTRIES) = base + off
    <3>1. PICK x \in Nat : x = base + off
      BY <1>7
    <3>2. (x \div 1) * 1 + (page % 1) = x
      BY <1>10
    <3>3. QED
      BY <1>9, <1>10, <2>1, <3>1, <3>2, Zenon
  <2>4. Translations(0, page) = {To(i) : i \in fits}
    BY DEF Translations
  <2> HIDE DEF To, fits
  <2>5. QED
    BY <2>2, <2>3, <2>4
<1>14. /\ (call.mapped + k) \div PAGE = page
       /\ (call.address + k) \div PAGE = off
  BY <1>4, <1>5 DEF page, off, mapped
<1>15. QED
  BY <1>8, <1>13, <1>14 DEF v

\* Through the one entry of the hypercalls the hypervisor reads and writes the
\* very pages its caller sees, those behind a page boundary too, for every buffer
\* inside the caller's RAM of at most a page, in a RAM that begins at an even page,
\* whatever hypercalls other VMs made before (tlbCreateEntry). Of buffers in flash,
\* in a device, outside the RAM or longer than a page it says nothing: those are
\* mapped to other memory, in part or as a whole.
THEOREM BufferIsTheCallersAlways == AddressesApart /\ MemSpec => []BufferIsTheCallers
<1> SUFFICES ASSUME AddressesApart PROVE MemSpec => []BufferIsTheCallers
  OBVIOUS
<1>1. MemInv /\ SeesInv => BufferIsTheCallers
  BY SeesInvBuffer
<1>2. QED
  BY <1>1, MemInvAlways, SeesInvAlways, PTL
=============================================================================
