----------------------------- MODULE BootProofs -----------------------------
(***************************************************************************)
(* For every machine that MachineOK admits, and any sizes of pages and     *)
(* tables: the kernel's sections and guard page keep their protection, the *)
(* TLB agrees with the tables, device pages stay uncached, and the memory  *)
(* that the firmware's map reports stays usable.                           *)
(***************************************************************************)
EXTENDS Boot, SequenceTheorems, NaturalsInduction, WellFoundedInduction, TLAPS

-----------------------------------------------------------------------------
(* Arithmetic of addresses *)

\* Quotient and remainder.
LEMMA DivMod ==
  ASSUME NEW a \in Nat, NEW b \in Nat \ {0}
  PROVE  a \div b \in Nat /\ a % b \in 0 .. b - 1 /\ a = (a \div b) * b + (a % b)
<1> DEFINE q == a \div b
<1>1. q \in Nat
  OBVIOUS
<1>2. q * b <= a
  OBVIOUS
<1>3. a < q * b + b
  OBVIOUS
<1> HIDE DEF q
<1> DEFINE r == a - q * b
<1>4. r \in 0 .. b - 1 /\ a = q * b + r
  BY <1>1, <1>2, <1>3
<1> HIDE DEF r
<1>5. a % b = r
  BY <1>1, <1>4
<1> QED
  BY <1>1, <1>4, <1>5 DEF q

\* A quotient is determined by its bounds.
LEMMA DivUnique ==
  ASSUME NEW a \in Nat, NEW b \in Nat \ {0}, NEW q \in Nat, q * b <= a, a < (q + 1) * b
  PROVE  a \div b = q
OBVIOUS

\* A quotient is below any bound whose multiple is above the dividend.
LEMMA DivLess ==
  ASSUME NEW a \in Nat, NEW c \in Nat, NEW b \in Nat \ {0}, a < c * b
  PROVE  a \div b < c
OBVIOUS

\* DivUp counts the blocks of n that a needs.
LEMMA DivUpCovers ==
  ASSUME NEW a \in Nat, NEW n \in Nat \ {0}, NEW c \in Nat
  PROVE  DivUp(a, n) \in Nat /\ (c < DivUp(a, n) <=> c * n < a)
<1>1. DivUp(a, n) \in Nat
  BY DEF DivUp
<1>2. ASSUME c * n < a PROVE c < DivUp(a, n)
  BY <1>2 DEF DivUp
<1>3. ASSUME c < DivUp(a, n) PROVE c * n < a
  BY <1>3 DEF DivUp
<1> QED
  BY <1>1, <1>2, <1>3

\* Page, chunk and directory of a page number, and the MMU's way back.
LEMMA PageIndices ==
  ASSUME NEW p \in Pages
  PROVE  LET g == p \div (ENTRY_COUNT * ENTRY_COUNT)
             c == p \div ENTRY_COUNT
         IN  /\ g \in 0 .. MAX_GB - 1 /\ c \in Chunks /\ p \in Nat
             /\ g * ENTRY_COUNT + (c % ENTRY_COUNT) = c
             /\ c * ENTRY_COUNT + (p % ENTRY_COUNT) = p
             /\ g * ENTRY_COUNT <= c
<1> DEFINE e == ENTRY_COUNT
           g == p \div (e * e)
           c == p \div e
<1>1. e \in Nat \ {0} /\ MAX_GB \in Nat \ {0} /\ p \in Nat /\ p < MAX_GB * e * e
  BY PagingAssumption DEF Pages, PT_COUNT
<1>2. c \in Nat /\ c * e + (p % e) = p /\ p % e \in Nat
  BY <1>1, DivMod
<1>3. c < MAX_GB * e
  <2>1. p < (MAX_GB * e) * e
    BY <1>1
  <2>2. MAX_GB * e \in Nat
    BY <1>1
  <2> QED
    BY <1>1, <2>1, <2>2
<1>4. c \div e = g
  BY <1>1
<1>5. g \in Nat /\ g * e + (c % e) = c /\ c % e \in Nat
  <2>1. \A x \in Nat : x \div e \in Nat /\ x = (x \div e) * e + (x % e) /\ x % e \in Nat
    BY <1>1, DivMod
  <2>2. c \div e \in Nat /\ c = (c \div e) * e + (c % e) /\ c % e \in Nat
    BY <1>2, <2>1, Zenon
  <2> QED
    BY <1>4, <2>2
<1>6. g < MAX_GB
  <2>1. c \div e < MAX_GB
    BY <1>1, <1>2, <1>3, DivLess
  <2> QED
    BY <1>4, <2>1
<1>7. g * e <= c
  <2>1. g * e \in Nat
    BY <1>1, <1>5
  <2> QED
    BY <1>2, <1>5, <2>1
<1> QED
  BY <1>1, <1>2, <1>3, <1>5, <1>6, <1>7 DEF Chunks, PT_COUNT

\* The page at a page's address, and the pages of a huge page.
LEMMA PageOf ==
  ASSUME NEW p \in Nat
  PROVE  (p * PAGE_SIZE) \div PAGE_SIZE = p
BY PagingAssumption

\* And the first page of a chunk.
LEMMA HugePageOf ==
  ASSUME NEW c \in Nat
  PROVE  (c * PAGE_TABLE_COVERAGE) \div PAGE_SIZE = c * ENTRY_COUNT
BY PagingAssumption DEF PAGE_TABLE_COVERAGE

-----------------------------------------------------------------------------
(* The invariant *)

Early == {"gop", "memory_map", "load", "exit", "jump"}
Running == {"acpi", "tables", "pci", "apic", "calibrate", "framebuffer", "heap", "timer", "up"}
Pcs == Early \cup Running \cup {"paging", "halted", "panic", "no_heap", "fault"}

\* What a successful get_memory_map leaves in BootInfo.
FullBootInfo ==
  [memory_map |-> SubSeq(machine.map, 1, Min2(Len(machine.map), MAX_MEMORY_REGIONS)),
   max_physical_address |-> analyze_memory_map(machine.map)]

\* What the ACPI tables have left does not point at the kernel.
LapicOK == lapic \in Nat /\ (lapic # 0 => Page(lapic) \notin KernelImage)
MmconfigOK ==
  /\ mmconfig.base \in Nat /\ mmconfig.first \in Nat /\ mmconfig.last \in Nat
  /\ mmconfig.base # 0 => \A bus \in mmconfig.first .. mmconfig.last :
                           BusPages(mmconfig.base, bus) \cap KernelImage = {}

\* Where control is: the kernel runs only if the memory map was read.
ControlInv ==
  /\ machine \in Machines
  /\ pc \in Pcs
  /\ pc # "fault" => fault = NoFault
  /\ boot_info \in {NoBootInfo, FullBootInfo}
  /\ pc \in {"gop", "memory_map"} => boot_info = NoBootInfo
  /\ pc = "paging" => boot_info = FullBootInfo
  /\ table \in Nat
  /\ LapicOK /\ MmconfigOK /\ heap \subseteq Nat
  /\ ~OnKernelTables => devices = {}

\* The tables as init writes them, from BootInfo.
TableCount == required_pt_count(boot_info.max_physical_address)
Directory(g) == IF g < DivUp(TableCount, ENTRY_COUNT) THEN Set(g, RW) ELSE NewEntry
TableEntry(c) == IF c < TableCount THEN Set(c, RW) ELSE NewEntry
InitEntry(p) ==
  WithSections(WithGuardPage(DirectEntries(boot_info.memory_map,
                                           boot_info.max_physical_address)))[p]

Huge(c) == pd[c] = HugeEntry(c)

\* The bootloader's huge pages.
LoaderEntry(c) == Set(c * PAGE_TABLE_COVERAGE, RW \cup {"HugePage"})

\* The tables later: the framebuffer's chunks may have become huge pages, and
\* pages outside the kernel may have become registers.
TablesOK ==
  /\ boot_info = FullBootInfo
  /\ pdp = [g \in 0 .. MAX_GB - 1 |-> Directory(g)]
  /\ pd = [c \in Chunks |-> pd[c]] /\ pt = [p \in Pages |-> pt[p]]
  /\ \A c \in Chunks :
       \/ pd[c] = TableEntry(c)
       \/ Huge(c) /\ c \in FramebufferChunks(machine.fb.base, machine.fb.size)
  /\ \A p \in Pages :
       \/ pt[p] = InitEntry(p)
       \/ pt[p] = MmioEntry(p) /\ p \notin KernelImage
       \/ Huge(p \div ENTRY_COUNT)

TablesInv == OnKernelTables => TablesOK

\* A device that is in use was reached without a fault: its tables are linked,
\* and it has its own entry or lies in a huge page of the framebuffer.
DeviceInv ==
  pc # "fault" => \A p \in devices :
    /\ p \in Pages
    /\ is_present(pdp[p \div (ENTRY_COUNT * ENTRY_COUNT)])
    /\ \/ pd[p \div ENTRY_COUNT] = Set(p \div ENTRY_COUNT, RW) /\ pt[p] = MmioEntry(p)
       \/ Huge(p \div ENTRY_COUNT)

BootInv == ControlInv /\ TablesInv /\ DeviceInv /\ NoStaleTlb

-----------------------------------------------------------------------------
(* The walk of the MMU on such tables *)

\* What Translate finds, by the entry in the directory and in its table.
LEMMA Walk ==
  \A p \in Pages :
    LET g == p \div (ENTRY_COUNT * ENTRY_COUNT)
        c == p \div ENTRY_COUNT
    IN  /\ pdp[g] = NewEntry => Translate(p) = NoPage
        /\ pdp[g] = Set(g, RW) =>
             /\ pd[c] = NewEntry => Translate(p) = NoPage
             /\ pd[c] = HugeEntry(c) => Translate(p) = [page |-> p, flags |-> HugeEntry(c).flags]
             /\ pd[c] = LoaderEntry(c) =>
                  Translate(p) = [page |-> p, flags |-> LoaderEntry(c).flags]
             /\ pd[c] = Set(c, RW) =>
                  Translate(p) = IF is_present(pt[p])
                                 THEN [page |-> pt[p].addr \div PAGE_SIZE, flags |-> pt[p].flags]
                                 ELSE NoPage
<1> SUFFICES ASSUME NEW p \in Pages
             PROVE  LET g == p \div (ENTRY_COUNT * ENTRY_COUNT)
                        c == p \div ENTRY_COUNT
                    IN  /\ pdp[g] = NewEntry => Translate(p) = NoPage
                        /\ pdp[g] = Set(g, RW) =>
                             /\ pd[c] = NewEntry => Translate(p) = NoPage
                             /\ pd[c] = HugeEntry(c) =>
                                  Translate(p) = [page |-> p, flags |-> HugeEntry(c).flags]
                             /\ pd[c] = LoaderEntry(c) =>
                                  Translate(p) = [page |-> p, flags |-> LoaderEntry(c).flags]
                             /\ pd[c] = Set(c, RW) =>
                                  Translate(p) =
                                    IF is_present(pt[p])
                                    THEN [page |-> pt[p].addr \div PAGE_SIZE, flags |-> pt[p].flags]
                                    ELSE NoPage
  BY Zenon
<1> DEFINE g == p \div (ENTRY_COUNT * ENTRY_COUNT)
           c == p \div ENTRY_COUNT
           r == p % ENTRY_COUNT
           cr == (p \div ENTRY_COUNT) % ENTRY_COUNT
<1>1. g * ENTRY_COUNT + cr = c /\ c * ENTRY_COUNT + r = p /\ c \in Nat
  BY PageIndices DEF Chunks
<1>2. (c * PAGE_TABLE_COVERAGE) \div PAGE_SIZE = c * ENTRY_COUNT
  BY <1>1, HugePageOf, SMTT(60)
<1>3. Translate(p) =
        LET e3 == pdp[g]
            e2 == pd[(e3.addr * ENTRY_COUNT) + cr]
            e1 == pt[(e2.addr * ENTRY_COUNT) + r]
        IN IF ~is_present(e3) \/ ~is_present(e2) THEN NoPage
           ELSE IF is_huge_page(e2)
                THEN [page |-> (e2.addr \div PAGE_SIZE) + r,
                      flags |-> IF "Writable" \in e3.flags THEN e2.flags
                                ELSE e2.flags \ {"Writable"}]
           ELSE IF is_present(e1)
                THEN [page |-> e1.addr \div PAGE_SIZE,
                      flags |-> IF "Writable" \in e3.flags \cap e2.flags THEN e1.flags
                                ELSE e1.flags \ {"Writable"}]
           ELSE NoPage
  BY DEF Translate
<1> HIDE DEF g, c, r, cr
<1>4. ASSUME pdp[g] = NewEntry PROVE Translate(p) = NoPage
  BY <1>3, <1>4 DEF NewEntry, is_present
<1>5. ASSUME pdp[g] = Set(g, RW)
      PROVE  Translate(p) =
               LET e2 == pd[c]
                   e1 == pt[(e2.addr * ENTRY_COUNT) + r]
               IN IF ~is_present(e2) THEN NoPage
                  ELSE IF is_huge_page(e2)
                       THEN [page |-> (e2.addr \div PAGE_SIZE) + r, flags |-> e2.flags]
                  ELSE IF is_present(e1)
                       THEN [page |-> e1.addr \div PAGE_SIZE,
                             flags |-> IF "Writable" \in RW \cap e2.flags THEN e1.flags
                                       ELSE e1.flags \ {"Writable"}]
                  ELSE NoPage
  <2>1. pdp[g].addr = g /\ pdp[g].flags = RW /\ is_present(pdp[g]) /\ "Writable" \in RW
    BY <1>5 DEF Set, RW, is_present
  <2>2. pd[(pdp[g].addr * ENTRY_COUNT) + cr] = pd[c]
    BY <1>1, <2>1
  <2> QED
    BY <1>3, <2>1, <2>2
<1>6. ASSUME pdp[g] = Set(g, RW), pd[c] = NewEntry PROVE Translate(p) = NoPage
  BY <1>5, <1>6 DEF NewEntry, is_present
<1>7. ASSUME pdp[g] = Set(g, RW), pd[c] = HugeEntry(c)
      PROVE  Translate(p) = [page |-> p, flags |-> HugeEntry(c).flags]
  <2>1. pd[c].addr = c * PAGE_TABLE_COVERAGE /\ is_present(pd[c]) /\ is_huge_page(pd[c])
    BY <1>7 DEF HugeEntry, Set, RW, is_present, is_huge_page
  <2>2. (pd[c].addr \div PAGE_SIZE) + r = p
    BY <1>1, <1>2, <2>1
  <2> QED
    BY <1>5, <1>7, <2>1, <2>2
<1>8. ASSUME pdp[g] = Set(g, RW), pd[c] = Set(c, RW)
      PROVE  Translate(p) = IF is_present(pt[p])
                            THEN [page |-> pt[p].addr \div PAGE_SIZE, flags |-> pt[p].flags]
                            ELSE NoPage
  <2>1. pd[c].addr = c /\ pd[c].flags = RW /\ is_present(pd[c]) /\ ~is_huge_page(pd[c])
        /\ "Writable" \in RW
    BY <1>8 DEF Set, RW, is_present, is_huge_page
  <2>2. (pd[c].addr * ENTRY_COUNT) + r = p
    BY <1>1, <2>1
  <2> QED
    BY <1>5, <1>8, <2>1, <2>2
<1>9. ASSUME pdp[g] = Set(g, RW), pd[c] = LoaderEntry(c)
      PROVE  Translate(p) = [page |-> p, flags |-> LoaderEntry(c).flags]
  <2>1. pd[c].addr = c * PAGE_TABLE_COVERAGE /\ is_present(pd[c]) /\ is_huge_page(pd[c])
    BY <1>9 DEF LoaderEntry, Set, RW, is_present, is_huge_page
  <2>2. (pd[c].addr \div PAGE_SIZE) + r = p
    BY <1>1, <1>2, <2>1
  <2> QED
    BY <1>5, <1>9, <2>1, <2>2
<1> QED
  BY <1>4, <1>6, <1>7, <1>8, <1>9 DEF g, c

-----------------------------------------------------------------------------
(* The memory map *)

\* A set of naturals that is not empty has a least element.
LEMMA LeastNat ==
  ASSUME NEW S \in SUBSET Nat, S # {}
  PROVE  \E m \in S : \A k \in S : m <= k
<1>1. PICK m \in S : \A k \in S : <<k, m>> \notin OpToRel(<, Nat)
  BY NatLessThanWellFounded, WFMin, Zenon
<1>2. \A k \in S : ~(k < m)
  BY <1>1 DEF OpToRel
<1> QED
  BY <1>2

\* And a greatest one, if it is bounded.
LEMMA GreatestNat ==
  ASSUME NEW S \in SUBSET Nat, S # {}, NEW n \in Nat, \A k \in S : k <= n
  PROVE  \E m \in S : \A k \in S : k <= m
<1> DEFINE T == {n - k : k \in S}
<1>1. T \in SUBSET Nat /\ T # {}
  <2>1. \A k \in S : n - k \in Nat
    OBVIOUS
  <2> QED
    BY <2>1, Zenon
<1>2. PICK t \in T : \A u \in T : t <= u
  BY <1>1, LeastNat
<1>3. PICK m \in S : t = n - m
  OBVIOUS
<1>4. ASSUME NEW k \in S PROVE k <= m
  <2>1. n - k \in T /\ n - m <= n - k
    BY <1>2, <1>3
  <2> QED
    BY <2>1
<1> QED
  BY <1>4

\* analyze_memory_map gives an end that no region of the map exceeds: the map is
\* sorted, so the last one's.
LEMMA HighestAddress ==
  ASSUME machine \in Machines
  PROVE  /\ analyze_memory_map(machine.map) \in Nat
         /\ \A i \in 1 .. Len(machine.map) :
              machine.map[i].start + machine.map[i].size <= analyze_memory_map(machine.map)
<1> DEFINE map == machine.map
           ends == {map[i].start + map[i].size : i \in 1 .. Len(map)} \cup {0}
<1>1. map \in Seq(MemoryRegion) /\ \A i \in 1 .. Len(map) : \A j \in 1 .. i - 1 :
        map[j].start + map[j].size <= map[i].start
  BY BootAssumption DEF MachineOK, MapOK
<1>2. \A i \in 1 .. Len(map) : map[i].start \in Nat /\ map[i].size \in Nat
  <2>1. \A i \in 1 .. Len(map) : map[i] \in MemoryRegion
    BY <1>1, ElementOfSeq
  <2> QED
    BY <2>1 DEF MemoryRegion
<1>3. \E e \in ends : \A f \in ends : f <= e
  <2>1. CASE Len(map) = 0
    BY <2>1
  <2>2. CASE Len(map) # 0
    <3> DEFINE n == Len(map)
    <3>1. n \in 1 .. Len(map)
      BY <1>1, <2>2
    <3> HIDE DEF n
    <3>2. map[n].start + map[n].size \in ends
      BY <3>1
    <3>3. \A i \in 1 .. Len(map) : map[i].start + map[i].size <= map[n].start + map[n].size
      <4> SUFFICES ASSUME NEW i \in 1 .. Len(map)
                   PROVE  map[i].start + map[i].size <= map[n].start + map[n].size
        OBVIOUS
      <4>1. CASE i = n
        BY <1>2, <4>1
      <4>2. CASE i # n
        <5>1. i \in 1 .. n - 1
          BY <1>1, <4>2 DEF n
        <5>2. map[i].start + map[i].size <= map[n].start
          BY <1>1, <3>1, <5>1
        <5>3. {map[i].start, map[i].size, map[n].start, map[n].size} \subseteq Nat
          BY <1>2, <3>1
        <5> QED
          BY <5>2, <5>3, SMTT(60)
      <4> QED
        BY <4>1, <4>2
    <3>4. \A f \in ends : f <= map[n].start + map[n].size
      BY <1>2, <3>1, <3>3
    <3> QED
      BY <3>2, <3>4
  <2> QED
    BY <2>1, <2>2
<1>4. analyze_memory_map(map) = CHOOSE e \in ends : \A f \in ends : f <= e
  BY DEF analyze_memory_map
<1>5. analyze_memory_map(map) \in ends /\ \A f \in ends : f <= analyze_memory_map(map)
  BY <1>3, <1>4
<1> QED
  BY <1>2, <1>5

\* The regions of BootInfo are regions of the machine.
LEMMA KeptRegions ==
  ASSUME machine \in Machines, NEW i \in 1 .. Len(FullBootInfo.memory_map)
  PROVE  i \in 1 .. Len(machine.map) /\ FullBootInfo.memory_map[i] = machine.map[i]
<1> DEFINE n == Min2(Len(machine.map), MAX_MEMORY_REGIONS)
<1>1. machine.map \in Seq(MemoryRegion) /\ Len(machine.map) \in Nat
      /\ MAX_MEMORY_REGIONS \in Nat \ {0}
  BY BootAssumption DEF MachineOK, MapOK
<1>2. n \in 0 .. Len(machine.map)
  BY <1>1 DEF Min2
<1> HIDE DEF n
<1>3. FullBootInfo.memory_map = SubSeq(machine.map, 1, n)
  BY DEF FullBootInfo, n
<1>4. Len(SubSeq(machine.map, 1, n)) = n
      /\ \A j \in 1 .. n : SubSeq(machine.map, 1, n)[j] = machine.map[j]
  BY <1>1, <1>2
<1>5. i \in 1 .. n
  BY <1>3, <1>4
<1> QED
  BY <1>2, <1>3, <1>4, <1>5

\* A region that is page aligned covers the pages whose addresses lie in it.
LEMMA AlignedSpan ==
  ASSUME NEW a \in Nat, NEW size \in Nat \ {0}, a % PAGE_SIZE = 0, size % PAGE_SIZE = 0,
         NEW p \in Nat
  PROVE  p \in PageSpan(a, size) <=> a <= p * PAGE_SIZE /\ p * PAGE_SIZE < a + size
<1>1. PAGE_SIZE \in Nat \ {0}
  BY PagingAssumption
<1> DEFINE s == PAGE_SIZE
           m == a \div s
           n == size \div s
<1>2. m \in Nat /\ a = m * s
  BY <1>1, DivMod
<1>3. n \in Nat /\ size = n * s
  BY <1>1, DivMod
<1> HIDE DEF m, n
<1>4. n # 0
  BY <1>1, <1>3
<1>5. Page(a) = m
  BY <1>1, <1>2 DEF Page
<1>6. Page(a + size - 1) = m + n - 1
  <2>1. a + size - 1 \in Nat /\ m + n - 1 \in Nat
    BY <1>2, <1>3, <1>4
  <2>2. (m + n - 1) * s <= a + size - 1 /\ a + size - 1 < (m + n - 1 + 1) * s
    BY <1>1, <1>2, <1>3
  <2> QED
    BY <1>1, <2>1, <2>2, DivUnique DEF Page
<1>7. p \in PageSpan(a, size) <=> m <= p /\ p < m + n
  BY <1>2, <1>3, <1>5, <1>6 DEF PageSpan
<1>8. m <= p <=> m * s <= p * s
  BY <1>1, <1>2
<1>9. p < m + n <=> p * s < (m + n) * s
  <2>1. m + n \in Nat
    BY <1>2, <1>3
  <2> QED
    BY <1>1, <2>1
<1>10. (m + n) * s = a + size
  BY <1>1, <1>2, <1>3
<1> QED
  BY <1>2, <1>7, <1>8, <1>9, <1>10

\* What MapOK says of one region of the machine.
LEMMA RegionOf ==
  ASSUME machine \in Machines, NEW i \in 1 .. Len(machine.map)
  PROVE  /\ machine.map[i].start \in Nat /\ machine.map[i].size \in Nat \ {0}
         /\ machine.map[i].start % PAGE_SIZE = 0 /\ machine.map[i].size % PAGE_SIZE = 0
<1>1. machine.map \in Seq(MemoryRegion)
      /\ machine.map[i].start % PAGE_SIZE = 0 /\ machine.map[i].size % PAGE_SIZE = 0
  BY BootAssumption DEF MachineOK, MapOK
<1>2. machine.map[i] \in MemoryRegion
  BY <1>1, ElementOfSeq
<1> QED
  BY <1>1, <1>2 DEF MemoryRegion

\* is_mmio_region_binary says yes only inside an MMIO region of BootInfo.
LEMMA MmioSearch ==
  ASSUME machine \in Machines, NEW p \in Nat,
         is_mmio_region_binary(p * PAGE_SIZE, extract_mmio_regions(FullBootInfo.memory_map))
  PROVE  \E i \in 1 .. Len(FullBootInfo.memory_map) :
           LET r == FullBootInfo.memory_map[i] IN
           /\ r.type = "mmio" /\ r.start <= p * PAGE_SIZE /\ p * PAGE_SIZE < r.start + r.size
<1> DEFINE map == FullBootInfo.memory_map
           ranges == extract_mmio_regions(map)
           a == p * PAGE_SIZE
           before == {r \in ranges : r.start <= a}
           candidate == CHOOSE r \in before : \A s \in before : s.start <= r.start
<1>1. a \in Nat
  BY PagingAssumption
<1>2. \A r \in ranges : \E i \in 1 .. Len(map) : r = map[i] /\ r.type = "mmio"
  <2> DEFINE upTo(i) == {j \in 1 .. i : IsMmio(map[j])}
  <2>1. ranges = {map[i] : i \in {j \in upTo(Len(map)) : Cardinality(upTo(j)) <= MAX_MMIO}}
    BY DEF extract_mmio_regions
  <2> QED
    BY <2>1, Zenon DEF IsMmio
<1>3. \A r \in ranges : r.start \in Nat
  <2>1. \A i \in 1 .. Len(map) : map[i].start \in Nat
    BY KeptRegions, RegionOf
  <2> QED
    BY <1>2, <2>1
<1>4. before # {} /\ a < candidate.start + candidate.size
  BY DEF is_mmio_region_binary
<1> HIDE DEF a, ranges
<1>5. \E r \in before : \A s \in before : s.start <= r.start
  <2> DEFINE starts == {r.start : r \in before}
  <2>1. starts \in SUBSET Nat /\ starts # {} /\ \A k \in starts : k <= a
    BY <1>3, <1>4, Zenon
  <2> HIDE DEF starts
  <2>2. PICK m \in starts : \A k \in starts : k <= m
    BY <1>1, <2>1, GreatestNat
  <2> QED
    BY <2>2, Zenon DEF starts
<1>6. candidate \in before
  BY <1>5
<1> HIDE DEF candidate
<1>7. candidate \in ranges /\ candidate.start <= a
  BY <1>6
<1>8. PICK i \in 1 .. Len(map) : candidate = map[i] /\ candidate.type = "mmio"
  BY <1>2, <1>7
<1> QED
  BY <1>4, <1>7, <1>8 DEF a

\* The pages init gives an entry have a table and a directory.
LEMMA BelowMax ==
  ASSUME NEW max \in Nat, NEW p \in Nat, p * PAGE_SIZE < actual_max(max)
  PROVE  p \in Pages /\ p < ENTRY_COUNT * required_pt_count(max)
<1> DEFINE e == ENTRY_COUNT
           s == PAGE_SIZE
           A == actual_max(max)
           c == p \div e
<1>1. e \in Nat \ {0} /\ s \in Nat \ {0} /\ MAX_GB \in Nat \ {0}
  BY PagingAssumption
<1>2. A \in Nat /\ A <= (MAX_GB * e) * (e * s)
  BY <1>1 DEF actual_max, Min2, PT_COUNT, PAGE_TABLE_COVERAGE
<1> HIDE DEF A
<1>3. p * s < A /\ p * s \in Nat
  BY <1>1 DEF A
<1>4. p < (MAX_GB * e) * e
  <2>1. p * s < ((MAX_GB * e) * e) * s
    BY <1>1, <1>2, <1>3
  <2>2. (MAX_GB * e) * e \in Nat
    BY <1>1
  <2> QED
    BY <1>1, <2>1, <2>2
<1>5. p \in Pages
  BY <1>1, <1>4 DEF Pages, PT_COUNT
<1>6. c \in Nat /\ c * e <= p /\ p < c * e + e
  BY <1>1
<1> HIDE DEF c
<1>7. c * (e * s) < A
  <2>1. c * (e * s) = (c * e) * s
    BY <1>1, <1>6
  <2>2. (c * e) * s <= p * s
    <3>1. c * e \in Nat
      BY <1>1, <1>6
    <3> QED
      BY <1>1, <1>6, <3>1
  <2> QED
    BY <1>1, <1>2, <1>3, <1>6, <2>1, <2>2
<1> DEFINE n == required_pt_count(max)
<1>8. n \in Nat /\ c < n
  <2>1. e * s \in Nat \ {0}
    BY <1>1
  <2>2. DivUp(A, e * s) \in Nat /\ (c < DivUp(A, e * s) <=> c * (e * s) < A)
    BY <1>2, <1>6, <2>1, DivUpCovers
  <2> QED
    BY <1>7, <2>2 DEF required_pt_count, PAGE_TABLE_COVERAGE, A
<1> HIDE DEF n
<1>9. p < e * n
  <2>1. (c + 1) * e <= n * e
    BY <1>1, <1>6, <1>8
  <2>2. (c + 1) * e = c * e + e
    BY <1>1, <1>6
  <2> QED
    BY <1>1, <1>6, <1>8, <2>1, <2>2
<1> QED
  BY <1>5, <1>9 DEF n

\* A page below the last table that init links: its table and its directory.
LEMMA LinkedTables ==
  ASSUME NEW n \in Nat, NEW p \in Nat, p < ENTRY_COUNT * n
  PROVE  /\ p \div ENTRY_COUNT < n
         /\ p \div (ENTRY_COUNT * ENTRY_COUNT) < DivUp(n, ENTRY_COUNT)
<1> DEFINE e == ENTRY_COUNT
           c == p \div e
           g == p \div (e * e)
<1>1. e \in Nat \ {0}
  BY PagingAssumption
<1>2. c < n
  BY <1>1, DivLess
<1>3. c \in Nat
  BY <1>1
<1>4. g = c \div e /\ g \in Nat
  BY <1>1
<1>5. g * e <= c
  <2>1. \A x \in Nat : (x \div e) * e <= x
    BY <1>1
  <2> QED
    BY <1>3, <1>4, <2>1
<1> HIDE DEF g, c
<1>6. g * e < n
  BY <1>1, <1>2, <1>3, <1>4, <1>5
<1>7. g < DivUp(n, e)
  BY <1>1, <1>4, <1>6, DivUpCovers
<1> QED
  BY <1>2, <1>7 DEF g, c

-----------------------------------------------------------------------------
(* What is reached through the tables *)

\* BootInfo's size of memory, and the number of tables it asks for.
LEMMA BootInfoTypes ==
  ASSUME machine \in Machines, boot_info = FullBootInfo
  PROVE  /\ boot_info.max_physical_address = analyze_memory_map(machine.map)
         /\ boot_info.memory_map = FullBootInfo.memory_map
         /\ boot_info.max_physical_address \in Nat
         /\ actual_max(boot_info.max_physical_address) \in Nat
         /\ TableCount \in Nat
<1>1. boot_info.max_physical_address = analyze_memory_map(machine.map)
  BY DEF FullBootInfo
<1>2. boot_info.max_physical_address \in Nat
  BY <1>1, HighestAddress
<1> DEFINE max == boot_info.max_physical_address
<1> HIDE DEF max
<1>3. actual_max(max) \in Nat
  BY <1>2, PagingAssumption DEF actual_max, Min2, PT_COUNT, PAGE_TABLE_COVERAGE, max
<1>4. PAGE_TABLE_COVERAGE \in Nat \ {0}
  BY PagingAssumption DEF PAGE_TABLE_COVERAGE
<1>5. required_pt_count(max) \in Nat
  BY <1>3, <1>4, DivUpCovers DEF required_pt_count
<1> QED
  BY <1>1, <1>2, <1>3, <1>5 DEF TableCount, max

\* Of two ranges that share an address, neither ends before the other starts.
LEMMA Overlap ==
  \A s, t, y, z, a \in Nat :
    s <= a /\ a < s + y /\ t <= a /\ a < t + z => ~(s + y <= t) /\ ~(t + z <= s)
OBVIOUS

\* The kernel lies in memory: below the limit and outside MMIO.
LEMMA KernelInMemory ==
  ASSUME machine \in Machines, boot_info = FullBootInfo, NEW p \in KernelImage
  PROVE  /\ p \in Pages
         /\ p * PAGE_SIZE < boot_info.max_physical_address
         /\ p * PAGE_SIZE < actual_max(boot_info.max_physical_address)
         /\ ~is_mmio_region_binary(p * PAGE_SIZE, extract_mmio_regions(boot_info.memory_map))
<1> DEFINE map == machine.map
           a == p * PAGE_SIZE
<1>1. PAGE_SIZE \in Nat \ {0} /\ ENTRY_COUNT \in Nat \ {0} /\ MAX_GB \in Nat \ {0}
      /\ p \in Nat /\ p < MAX_GB * ENTRY_COUNT * ENTRY_COUNT
  BY PagingAssumption DEF KernelImage
<1>2. a \in Nat
  BY <1>1
<1>3. PICK i \in 1 .. Len(map) : map[i].type # "mmio" /\ p \in PageSpan(map[i].start, map[i].size)
  BY BootAssumption DEF MachineOK, MapOK
<1>4. map[i].start \in Nat /\ map[i].size \in Nat \ {0}
      /\ map[i].start <= a /\ a < map[i].start + map[i].size
  BY <1>1, <1>3, RegionOf, AlignedSpan
<1> HIDE DEF a
<1>5. a < boot_info.max_physical_address
  <2>1. map[i].start + map[i].size <= boot_info.max_physical_address
    BY BootInfoTypes, HighestAddress
  <2> QED
    BY <1>2, <1>4, <2>1, BootInfoTypes, SMTT(60)
<1>6. a < PT_COUNT * PAGE_TABLE_COVERAGE
  <2>1. PT_COUNT * PAGE_TABLE_COVERAGE = (MAX_GB * ENTRY_COUNT * ENTRY_COUNT) * PAGE_SIZE
    BY <1>1 DEF PT_COUNT, PAGE_TABLE_COVERAGE
  <2>2. MAX_GB * ENTRY_COUNT * ENTRY_COUNT \in Nat
    BY <1>1
  <2>3. p * PAGE_SIZE < (MAX_GB * ENTRY_COUNT * ENTRY_COUNT) * PAGE_SIZE
    BY <1>1, <2>2
  <2> QED
    BY <2>1, <2>3 DEF a
<1>7. a < actual_max(boot_info.max_physical_address)
  BY <1>5, <1>6 DEF actual_max, Min2
<1>8. p \in Pages
  BY <1>1 DEF Pages, PT_COUNT
<1>9. ASSUME is_mmio_region_binary(a, extract_mmio_regions(boot_info.memory_map))
      PROVE  FALSE
  <2>1. PICK j \in 1 .. Len(FullBootInfo.memory_map) :
          LET r == FullBootInfo.memory_map[j] IN
          /\ r.type = "mmio" /\ r.start <= a /\ a < r.start + r.size
    BY <1>1, <1>9, MmioSearch DEF a
  <2>2. j \in 1 .. Len(map) /\ FullBootInfo.memory_map[j] = map[j]
    BY KeptRegions
  <2>3. map[j].type = "mmio" /\ map[j].start <= a /\ a < map[j].start + map[j].size
    BY <2>1, <2>2
  <2>4. map[j].start \in Nat /\ map[j].size \in Nat \ {0}
    BY <2>2, RegionOf
  <2>5. j # i
    BY <1>3, <2>3
  <2>6. \A k \in 1 .. Len(map) : \A l \in 1 .. k - 1 : map[l].start + map[l].size <= map[k].start
    BY BootAssumption DEF MachineOK, MapOK
  <2>7. CASE j < i
    <3>1. j \in 1 .. i - 1
      BY <2>2, <2>7
    <3>2. map[j].start + map[j].size <= map[i].start
      BY <2>6, <3>1
    <3> QED
      BY <1>2, <1>4, <2>3, <2>4, <3>2, Overlap
  <2>8. CASE i < j
    <3>1. i \in 1 .. j - 1
      BY <2>2, <2>8
    <3>2. map[i].start + map[i].size <= map[j].start
      BY <2>2, <2>6, <3>1
    <3> QED
      BY <1>2, <1>4, <2>3, <2>4, <3>2, Overlap
  <2> QED
    BY <2>2, <2>5, <2>7, <2>8
<1> QED
  BY <1>5, <1>7, <1>8, <1>9 DEF a

\* Nor is a page of the direct mapping, in terms of BootInfo, MMIO to init.
LEMMA DirectIsNotMmio ==
  ASSUME machine \in Machines, boot_info = FullBootInfo, NEW p \in Nat, InDirectMap(p)
  PROVE  /\ p * PAGE_SIZE < actual_max(boot_info.max_physical_address)
         /\ ~is_mmio_region_binary(p * PAGE_SIZE, extract_mmio_regions(boot_info.memory_map))
<1>1. p * PAGE_SIZE < actual_max(boot_info.max_physical_address)
  BY DEF InDirectMap
<1>2. ASSUME is_mmio_region_binary(p * PAGE_SIZE, extract_mmio_regions(boot_info.memory_map))
      PROVE  FALSE
  <2> DEFINE map == FullBootInfo.memory_map
  <2>1. boot_info.memory_map = map
    OBVIOUS
  <2>2. PICK i \in 1 .. Len(map) :
          /\ map[i].type = "mmio" /\ map[i].start <= p * PAGE_SIZE
          /\ p * PAGE_SIZE < map[i].start + map[i].size
    BY <1>2, MmioSearch
  <2>3. i \in 1 .. Len(machine.map) /\ map[i] = machine.map[i]
    BY KeptRegions
  <2>4. p \in PageSpan(map[i].start, map[i].size)
    BY <2>2, <2>3, RegionOf, AlignedSpan
  <2> QED
    BY <2>1, <2>2, <2>4 DEF InDirectMap
<1> QED
  BY <1>1, <1>2

\* The sections of linker.ld lie in the kernel image, apart from each other.
LEMMA Sections ==
  /\ TextPages \cup RodataPages \cup DataPages \cup StackPages \cup {GuardPage} = KernelImage
  /\ TextPages \cap RodataPages = {} /\ TextPages \cap DataPages = {}
  /\ RodataPages \cap DataPages = {}
  /\ (TextPages \cup RodataPages \cup DataPages) \cap (StackPages \cup {GuardPage}) = {}
  /\ GuardPage \notin StackPages
  /\ \A p \in Nat : TextStart <= p /\ p < BssEnd <=>
                      p \in TextPages \cup RodataPages \cup DataPages
BY PagingAssumption
   DEF TextPages, RodataPages, DataPages, StackPages, GuardPage, KernelImage

\* The entries that init writes.
LEMMA InitEntries ==
  ASSUME machine \in Machines, boot_info = FullBootInfo
  PROVE  /\ \A p \in TextPages : InitEntry(p) = Set(p * PAGE_SIZE, {"Present"})
         /\ \A p \in RodataPages : InitEntry(p) = Set(p * PAGE_SIZE, {"Present", "NoExecute"})
         /\ \A p \in DataPages : InitEntry(p) = Set(p * PAGE_SIZE, RW \cup {"NoExecute"})
         /\ \A p \in StackPages : InitEntry(p) = Set(p * PAGE_SIZE, RW)
         /\ InitEntry(GuardPage) = Set(GuardPage * PAGE_SIZE, {})
         /\ \A p \in Nat : InDirectMap(p) /\ p \notin KernelImage =>
                             InitEntry(p) = Set(p * PAGE_SIZE, RW)
<1> DEFINE ranges == extract_mmio_regions(boot_info.memory_map)
           max == actual_max(boot_info.max_physical_address)
           d == DirectEntries(boot_info.memory_map, boot_info.max_physical_address)
           t == WithGuardPage(d)
<1>1. \A p \in KernelImage : p \in Pages /\ p \in Nat
  BY KernelInMemory, PagingAssumption DEF KernelImage
<1>2. \A p \in Pages : d[p] = IF /\ p * PAGE_SIZE < max
                                 /\ ~(TextStart <= p /\ p < BssEnd)
                                 /\ ~is_mmio_region_binary(p * PAGE_SIZE, ranges)
                              THEN Set(p * PAGE_SIZE, RW) ELSE NewEntry
  BY DEF DirectEntries
<1>3. DOMAIN d = Pages
  BY DEF DirectEntries
<1> HIDE DEF d, max, ranges
<1>4. /\ GuardPage \in Pages => t[GuardPage] = Set(GuardPage * PAGE_SIZE, {})
      /\ \A p \in Pages : p # GuardPage => t[p] = d[p]
  BY <1>3 DEF WithGuardPage
<1>5. \A p \in Pages : InitEntry(p) =
        CASE p \in TextPages -> Set(p * PAGE_SIZE, {"Present"})
          [] p \in RodataPages -> Set(p * PAGE_SIZE, {"Present", "NoExecute"})
          [] p \in DataPages -> Set(p * PAGE_SIZE, RW \cup {"NoExecute"})
          [] OTHER -> t[p]
  BY DEF InitEntry, WithSections, d
<1> HIDE DEF t
<1>6. \A p \in TextPages : InitEntry(p) = Set(p * PAGE_SIZE, {"Present"})
  BY <1>1, <1>5, Sections
<1>7. \A p \in RodataPages : InitEntry(p) = Set(p * PAGE_SIZE, {"Present", "NoExecute"})
  BY <1>1, <1>5, Sections
<1>8. \A p \in DataPages : InitEntry(p) = Set(p * PAGE_SIZE, RW \cup {"NoExecute"})
  BY <1>1, <1>5, Sections
<1>9. \A p \in Pages : p \notin TextPages \cup RodataPages \cup DataPages => InitEntry(p) = t[p]
  BY <1>5
<1>10. InitEntry(GuardPage) = Set(GuardPage * PAGE_SIZE, {})
  BY <1>1, <1>4, <1>9, Sections
<1>11. ASSUME NEW p \in Nat, p \in Pages, p * PAGE_SIZE < max,
              ~is_mmio_region_binary(p * PAGE_SIZE, ranges),
              p \notin TextPages \cup RodataPages \cup DataPages, p # GuardPage
       PROVE  InitEntry(p) = Set(p * PAGE_SIZE, RW)
  <2>1. ~(TextStart <= p /\ p < BssEnd)
    BY <1>11, Sections
  <2>2. d[p] = Set(p * PAGE_SIZE, RW)
    BY <1>2, <1>11, <2>1
  <2> QED
    BY <1>4, <1>9, <1>11, <2>2
<1>12. \A p \in StackPages : InitEntry(p) = Set(p * PAGE_SIZE, RW)
  BY <1>1, <1>11, Sections, KernelInMemory DEF max, ranges
<1>13. \A p \in Nat : InDirectMap(p) /\ p \notin KernelImage =>
                        InitEntry(p) = Set(p * PAGE_SIZE, RW)
  <2> SUFFICES ASSUME NEW p \in Nat, InDirectMap(p), p \notin KernelImage
               PROVE  InitEntry(p) = Set(p * PAGE_SIZE, RW)
    OBVIOUS
  <2>1. p * PAGE_SIZE < max /\ ~is_mmio_region_binary(p * PAGE_SIZE, ranges)
    BY DirectIsNotMmio DEF max, ranges
  <2>2. p \in Pages
    BY <2>1, BootInfoTypes, BelowMax DEF max
  <2>3. p \notin TextPages \cup RodataPages \cup DataPages /\ p # GuardPage
    BY Sections
  <2> QED
    BY <1>11, <2>1, <2>2, <2>3
<1> QED
  BY <1>6, <1>7, <1>8, <1>10, <1>12, <1>13

\* The protection of the kernel, as KernelProtected states it.
KernelMapping ==
  /\ \A p \in TextPages : Translate(p) = [page |-> p, flags |-> {"Present"}]
  /\ \A p \in RodataPages : Translate(p) = [page |-> p, flags |-> {"Present", "NoExecute"}]
  /\ \A p \in DataPages : Translate(p) = [page |-> p, flags |-> RW \cup {"NoExecute"}]
  /\ \A p \in StackPages : CanWrite(p) /\ Translate(p).page = p
  /\ ~Mapped(GuardPage)

\* The page tables that init links cover the page.
Linked(p) == p < ENTRY_COUNT * required_pt_count(boot_info.max_physical_address)

\* A page below the last table has its directory, and its table or a huge page.
LEMMA LinkedEntries ==
  ASSUME machine \in Machines, TablesOK, NEW p \in Pages, Linked(p)
  PROVE  LET g == p \div (ENTRY_COUNT * ENTRY_COUNT)
             c == p \div ENTRY_COUNT
         IN  /\ pdp[g] = Set(g, RW)
             /\ \/ pd[c] = Set(c, RW)
                \/ Huge(c) /\ c \in FramebufferChunks(machine.fb.base, machine.fb.size)
<1> DEFINE g == p \div (ENTRY_COUNT * ENTRY_COUNT)
           c == p \div ENTRY_COUNT
<1>1. g \in 0 .. MAX_GB - 1 /\ c \in Chunks /\ p \in Nat
  BY PageIndices
<1>2. TableCount \in Nat /\ p < ENTRY_COUNT * TableCount
  BY BootInfoTypes DEF TablesOK, Linked, TableCount
<1>3. c < TableCount /\ g < DivUp(TableCount, ENTRY_COUNT)
  BY <1>1, <1>2, LinkedTables
<1> HIDE DEF g, c
<1>4. pdp[g] = Directory(g)
  BY <1>1 DEF TablesOK
<1>5. Directory(g) = Set(g, RW) /\ TableEntry(c) = Set(c, RW)
  BY <1>3 DEF Directory, TableEntry
<1>6. \/ pd[c] = TableEntry(c)
      \/ Huge(c) /\ c \in FramebufferChunks(machine.fb.base, machine.fb.size)
  BY <1>1 DEF TablesOK
<1> QED
  BY <1>4, <1>5, <1>6 DEF g, c

\* A huge page of the framebuffer under a linked directory can be written.
LEMMA HugeWritable ==
  ASSUME NEW p \in Pages, Huge(p \div ENTRY_COUNT),
         pdp[p \div (ENTRY_COUNT * ENTRY_COUNT)] = Set(p \div (ENTRY_COUNT * ENTRY_COUNT), RW)
  PROVE  /\ Translate(p).page = p /\ RW \cup {"CacheDisable"} \subseteq Translate(p).flags
         /\ CanWrite(p)
<1> DEFINE c == p \div ENTRY_COUNT
<1>1. Translate(p) = [page |-> p, flags |-> HugeEntry(c).flags]
  BY Walk DEF Huge
<1> HIDE DEF c
<1>2. HugeEntry(c).flags = RW \cup {"HugePage", "CacheDisable", "NoExecute"}
  BY DEF HugeEntry, Set
<1> QED
  BY <1>1, <1>2 DEF CanWrite, Mapped, is_present, RW

\* A linked entry of its own gives the page its flags.
LEMMA EntryWritable ==
  ASSUME NEW p \in Pages, NEW flags, pt[p] = Set(p * PAGE_SIZE, flags),
         pd[p \div ENTRY_COUNT] = Set(p \div ENTRY_COUNT, RW),
         pdp[p \div (ENTRY_COUNT * ENTRY_COUNT)] = Set(p \div (ENTRY_COUNT * ENTRY_COUNT), RW)
  PROVE  /\ "Present" \in flags => Translate(p) = [page |-> p, flags |-> flags]
         /\ "Present" \notin flags => Translate(p) = NoPage
         /\ RW \subseteq flags => CanWrite(p)
<1>1. p \in Nat
  BY PageIndices
<1>2. (p * PAGE_SIZE) \div PAGE_SIZE = p
  BY <1>1, PageOf
<1>3. Translate(p) = IF is_present(pt[p])
                     THEN [page |-> pt[p].addr \div PAGE_SIZE, flags |-> pt[p].flags]
                     ELSE NoPage
  BY Walk
<1>4. pt[p].addr = p * PAGE_SIZE /\ pt[p].flags = flags
  BY DEF Set
<1>5. /\ "Present" \in flags => Translate(p) = [page |-> p, flags |-> flags]
      /\ "Present" \notin flags => Translate(p) = NoPage
  BY <1>2, <1>3, <1>4 DEF is_present
<1>6. RW \subseteq flags => CanWrite(p)
  BY <1>5 DEF RW, CanWrite, Mapped, is_present
<1> QED
  BY <1>5, <1>6

\* An entry that refers to a table is not a huge page.
LEMMA TableIsNotHuge ==
  ASSUME NEW c, pd[c] = Set(c, RW)
  PROVE  ~Huge(c)
BY DEF Huge, HugeEntry, Set, RW

\* The kernel's pages keep the entries of init, whatever was mapped around them.
LEMMA KernelEntries ==
  ASSUME machine \in Machines, TablesOK, NEW p \in KernelImage
  PROVE  /\ p \in Pages
         /\ pt[p] = InitEntry(p)
         /\ pd[p \div ENTRY_COUNT] = Set(p \div ENTRY_COUNT, RW)
         /\ pdp[p \div (ENTRY_COUNT * ENTRY_COUNT)] = Set(p \div (ENTRY_COUNT * ENTRY_COUNT), RW)
<1> DEFINE c == p \div ENTRY_COUNT
<1>1. boot_info = FullBootInfo
  BY DEF TablesOK
<1>2. p \in Pages /\ p * PAGE_SIZE < actual_max(boot_info.max_physical_address)
  BY <1>1, KernelInMemory
<1>3. p \in Nat
  BY <1>2, PageIndices
<1>4. Linked(p)
  BY <1>1, <1>2, <1>3, BootInfoTypes, BelowMax DEF Linked
<1>5. c \notin FramebufferChunks(machine.fb.base, machine.fb.size)
  BY BootAssumption, ZenonT(60) DEF MachineOK, FramebufferOK
<1>6. pd[c] = Set(c, RW)
      /\ pdp[p \div (ENTRY_COUNT * ENTRY_COUNT)] = Set(p \div (ENTRY_COUNT * ENTRY_COUNT), RW)
  BY <1>2, <1>4, <1>5, LinkedEntries
<1> HIDE DEF c
<1>7. ~Huge(c)
  BY <1>6, TableIsNotHuge
<1>8. pt[p] = InitEntry(p)
  BY <1>2, <1>7 DEF TablesOK, c
<1> QED
  BY <1>2, <1>6, <1>8 DEF c

\* On such tables the kernel is protected and what BootInfo calls memory can be
\* written at its own address.
LEMMA Reach ==
  machine \in Machines /\ TablesOK =>
    /\ KernelMapping
    /\ \A p \in Nat : InDirectMap(p) /\ p \notin TextPages \cup RodataPages \cup {GuardPage}
                        => CanWrite(p) /\ Translate(p).page = p
<1> SUFFICES ASSUME machine \in Machines, TablesOK
             PROVE  /\ KernelMapping
                    /\ \A p \in Nat :
                         InDirectMap(p) /\ p \notin TextPages \cup RodataPages \cup {GuardPage}
                           => CanWrite(p) /\ Translate(p).page = p
  BY Zenon
<1>1. boot_info = FullBootInfo
  BY DEF TablesOK
<1>2. \A p \in KernelImage : \A flags : pt[p] = Set(p * PAGE_SIZE, flags) =>
        /\ "Present" \in flags => Translate(p) = [page |-> p, flags |-> flags]
        /\ "Present" \notin flags => Translate(p) = NoPage
        /\ RW \subseteq flags => CanWrite(p)
  BY KernelEntries, EntryWritable
<1>3. \A p \in TextPages : Translate(p) = [page |-> p, flags |-> {"Present"}]
  BY <1>1, <1>2, KernelEntries, InitEntries, Sections
<1>4. \A p \in RodataPages : Translate(p) = [page |-> p, flags |-> {"Present", "NoExecute"}]
  BY <1>1, <1>2, KernelEntries, InitEntries, Sections
<1>5. \A p \in DataPages : Translate(p) = [page |-> p, flags |-> RW \cup {"NoExecute"}]
                           /\ CanWrite(p)
  <2>1. "Present" \in RW \cup {"NoExecute"} /\ RW \subseteq RW \cup {"NoExecute"}
    BY DEF RW
  <2>2. \A p \in DataPages : p \in KernelImage /\ pt[p] = Set(p * PAGE_SIZE, RW \cup {"NoExecute"})
    BY <1>1, KernelEntries, InitEntries, Sections
  <2> QED
    BY <1>2, <2>1, <2>2
<1>6. \A p \in StackPages : CanWrite(p) /\ Translate(p).page = p
  <2>1. "Present" \in RW
    BY DEF RW
  <2>2. \A p \in StackPages : p \in KernelImage /\ pt[p] = Set(p * PAGE_SIZE, RW)
    BY <1>1, KernelEntries, InitEntries, Sections
  <2>3. \A p \in StackPages : CanWrite(p) /\ Translate(p) = [page |-> p, flags |-> RW]
    BY <1>2, <2>1, <2>2
  <2> QED
    BY <2>3
<1>7. ~Mapped(GuardPage)
  <2>1. GuardPage \in KernelImage /\ pt[GuardPage] = Set(GuardPage * PAGE_SIZE, {})
    BY <1>1, KernelEntries, InitEntries, Sections
  <2>2. Translate(GuardPage) = NoPage
    BY <1>2, <2>1
  <2> QED
    BY <2>2 DEF Mapped, is_present, NoPage
<1>8. KernelMapping
  BY <1>3, <1>4, <1>5, <1>6, <1>7 DEF KernelMapping
<1>10. ASSUME NEW p \in Nat, InDirectMap(p), p \notin TextPages \cup RodataPages \cup {GuardPage}
       PROVE  CanWrite(p) /\ Translate(p).page = p
  <2>1. CASE p \in KernelImage
    <3>1. p \in DataPages \cup StackPages
      BY <1>10, <2>1, Sections
    <3>2. \A q \in DataPages : Translate(q).page = q
      BY <1>5
    <3> QED
      BY <1>5, <1>6, <3>1, <3>2
  <2>2. CASE p \notin KernelImage
    <3>1. p * PAGE_SIZE < actual_max(boot_info.max_physical_address)
      BY <1>10 DEF InDirectMap
    <3>2. p \in Pages /\ Linked(p)
      BY <1>1, <1>10, <3>1, BootInfoTypes, BelowMax DEF Linked
    <3>3. InitEntry(p) = Set(p * PAGE_SIZE, RW)
      BY <1>1, <1>10, <2>2, InitEntries
    <3> DEFINE g == p \div (ENTRY_COUNT * ENTRY_COUNT)
               c == p \div ENTRY_COUNT
    <3>4. pdp[g] = Set(g, RW) /\ (pd[c] = Set(c, RW) \/ Huge(c))
      BY <3>2, LinkedEntries
    <3>5. CASE Huge(c)
      BY <3>2, <3>4, <3>5, HugeWritable
    <3>6. CASE pd[c] = Set(c, RW)
      <4>1. ~Huge(c)
        BY <3>6, TableIsNotHuge
      <4>2. \/ pt[p] = Set(p * PAGE_SIZE, RW)
            \/ pt[p] = Set(p * PAGE_SIZE, RW \cup {"CacheDisable"})
        BY <3>2, <3>3, <4>1 DEF TablesOK, MmioEntry
      <4>3. PICK flags : pt[p] = Set(p * PAGE_SIZE, flags) /\ RW \subseteq flags
        BY <4>2
      <4>4. CanWrite(p) /\ ("Present" \in flags => Translate(p) = [page |-> p, flags |-> flags])
        BY <3>2, <3>4, <3>6, <4>3, EntryWritable
      <4>5. "Present" \in flags
        BY <4>3 DEF RW
      <4> QED
        BY <4>4, <4>5
    <3> QED
      BY <3>4, <3>5, <3>6
  <2> QED
    BY <2>1, <2>2
<1> QED
  BY <1>8, <1>10

-----------------------------------------------------------------------------
(* The steps *)

\* The firmware hands over nothing yet.
LEMMA BootInit == Init => BootInv
<1> SUFFICES ASSUME Init PROVE BootInv
  OBVIOUS
<1>1. pc = "gop" /\ fault = NoFault /\ ~OnKernelTables /\ tlb = {} /\ devices = {}
  BY DEF Init, OnKernelTables
<1>2. LapicOK
  BY DEF Init, LapicOK
<1>3. MmconfigOK
  BY DEF Init, MmconfigOK
<1>4. ControlInv
  <2>1. machine \in Machines /\ boot_info = NoBootInfo /\ table \in Nat /\ heap = {}
    BY DEF Init
  <2>2. pc \in Pcs
    BY <1>1 DEF Pcs, Early
  <2> QED
    BY <1>1, <1>2, <1>3, <2>1, <2>2 DEF ControlInv
<1>5. TablesInv /\ DeviceInv
  BY <1>1 DEF TablesInv, DeviceInv
<1>6. NoStaleTlb
  BY <1>1 DEF NoStaleTlb
<1> QED
  BY <1>4, <1>5, <1>6 DEF BootInv

\* Past the jump and before a fault, the tables are the kernel's.
LEMMA RunningOnTables ==
  ASSUME BootInv, pc \in Running
  PROVE  OnKernelTables /\ TablesOK /\ machine \in Machines /\ boot_info = FullBootInfo
         /\ fault = NoFault
<1>1. fault = NoFault /\ fault.who # "jump" /\ machine \in Machines
  BY DEF BootInv, ControlInv, NoFault, Running
<1>2. OnKernelTables
  BY <1>1 DEF OnKernelTables, Running
<1>3. TablesOK
  BY <1>2 DEF BootInv, TablesInv
<1> QED
  BY <1>1, <1>2, <1>3 DEF TablesOK

\* The same tables give the same translations.
LEMMA SameTranslations ==
  ASSUME pdp' = pdp, pd' = pd, pt' = pt
  PROVE  Translations' = Translations
<1>1. ASSUME NEW p PROVE Translate(p)' = Translate(p)
  BY DEF Translate
<1>2. ASSUME NEW p PROVE Mapped(p)' <=> Mapped(p)
  BY <1>1 DEF Mapped
<1> QED
  BY <1>1, <1>2 DEF Translations

\* A step that writes no table keeps what the tables give.
LEMMA QuietStep ==
  ASSUME BootInv, machine' = machine, boot_info' = boot_info, devices' = devices,
         UNCHANGED pagingVars,
         OnKernelTables' => OnKernelTables, pc' # "fault" => pc # "fault"
  PROVE  TablesInv' /\ DeviceInv' /\ NoStaleTlb'
<1>1. pdp' = pdp /\ pd' = pd /\ pt' = pt /\ tlb' = tlb
  BY DEF pagingVars
<1>2. \A c \in Chunks : Huge(c)' <=> Huge(c)
  BY <1>1 DEF Huge
<1>3. TablesOK => TablesOK'
  <2>1. FullBootInfo' = FullBootInfo
    BY DEF FullBootInfo
  <2>2. TableCount' = TableCount
    BY DEF TableCount
  <2>3. \A p : InitEntry(p)' = InitEntry(p)
    BY DEF InitEntry
  <2>4. \A g : Directory(g)' = Directory(g) /\ TableEntry(g)' = TableEntry(g)
    BY <2>2 DEF Directory, TableEntry
  <2>5. \A c : Huge(c)' <=> Huge(c)
    BY <1>1 DEF Huge
  <2> QED
    BY <1>1, <2>1, <2>3, <2>4, <2>5 DEF TablesOK
<1>4. TablesInv'
  BY <1>3 DEF BootInv, TablesInv
<1>5. DeviceInv'
  BY <1>1 DEF BootInv, DeviceInv, Huge
<1>6. NoStaleTlb'
  BY <1>1, SameTranslations DEF BootInv, NoStaleTlb
<1> QED
  BY <1>4, <1>5, <1>6

\* Control moves on, nothing else changes that ControlInv speaks of.
LEMMA MoveOn ==
  ASSUME BootInv, machine' = machine, boot_info' = boot_info, devices' = devices,
         table' \in Nat, LapicOK', MmconfigOK', heap' \subseteq Nat, UNCHANGED pagingVars,
         pc # "fault", pc' \in Pcs \ {"fault", "gop", "memory_map", "paging"}, fault' = fault,
         OnKernelTables' => OnKernelTables, ~OnKernelTables' => devices = {}
  PROVE  BootInv'
<1>1. TablesInv' /\ DeviceInv' /\ NoStaleTlb'
  BY QuietStep
<1>2. FullBootInfo' = FullBootInfo
  BY DEF FullBootInfo
<1>3. ControlInv'
  BY <1>2 DEF BootInv, ControlInv
<1> QED
  BY <1>1, <1>3 DEF BootInv

\* What an unchanged mmconfig and lapic keep.
LEMMA SameConfig ==
  ASSUME BootInv, UNCHANGED <<mmconfig, lapic>>
  PROVE  LapicOK' /\ MmconfigOK'
BY DEF BootInv, ControlInv, LapicOK, MmconfigOK

\* The bootloader, up to the jump.
LEMMA LoaderSteps ==
  ASSUME BootInv, LocateGop \/ GetMemoryMap \/ load_kernel_elf \/ ExitBootServices
  PROVE  BootInv'
<1>1. pc \in Early /\ pc' \in {"memory_map", "load", "exit", "jump", "halted"} /\ fault' = fault
      /\ (pc' = "memory_map" => pc = "gop")
  BY DEF LocateGop, GetMemoryMap, load_kernel_elf, ExitBootServices, Goto, Early
<1>2. machine' = machine /\ table' = table /\ UNCHANGED kernelVars /\ UNCHANGED pagingVars
  BY DEF LocateGop, GetMemoryMap, load_kernel_elf, ExitBootServices
<1>3. devices' = devices /\ UNCHANGED <<mmconfig, lapic>> /\ heap' = heap
  BY <1>2 DEF kernelVars
<1>4. LapicOK' /\ MmconfigOK'
  BY <1>3, SameConfig
<1>5. ~OnKernelTables /\ ~OnKernelTables'
  BY <1>1 DEF OnKernelTables, Early
<1>6. pc # "fault" /\ pc' # "fault" /\ pc' # "paging" /\ pc' # "gop" /\ pc' \in Pcs
  BY <1>1 DEF Early, Running, Pcs
<1>7. FullBootInfo' = FullBootInfo
  BY <1>2 DEF FullBootInfo
<1>8. boot_info' \in {NoBootInfo, FullBootInfo} /\ (pc' = "memory_map" => boot_info' = NoBootInfo)
  <2>1. CASE GetMemoryMap
    <3>1. pc' = "load" /\ pc = "memory_map"
      BY <2>1 DEF GetMemoryMap, Goto
    <3>2. boot_info' = FullBootInfo \/ boot_info' = boot_info
      BY <2>1 DEF GetMemoryMap, FullBootInfo
    <3> QED
      BY <3>1, <3>2 DEF BootInv, ControlInv
  <2>2. CASE LocateGop \/ load_kernel_elf \/ ExitBootServices
    <3>1. boot_info' = boot_info
      BY <2>2 DEF LocateGop, load_kernel_elf, ExitBootServices
    <3> QED
      BY <1>1, <3>1 DEF BootInv, ControlInv
  <2> QED
    BY <2>1, <2>2
<1>9. ControlInv'
  BY <1>2, <1>1, <1>3, <1>4, <1>5, <1>6, <1>7, <1>8 DEF BootInv, ControlInv
<1>10. TablesInv'
  BY <1>5 DEF TablesInv
<1>11. DeviceInv'
  BY <1>3, <1>5 DEF BootInv, ControlInv, DeviceInv
<1>12. NoStaleTlb'
  BY <1>2, SameTranslations DEF BootInv, NoStaleTlb, pagingVars
<1> QED
  BY <1>9, <1>10, <1>11, <1>12 DEF BootInv

\* The same for the kernel, once on its own tables.
LEMMA KernelMovesOn ==
  ASSUME BootInv, pc \in Running, machine' = machine, boot_info' = boot_info,
         devices' = devices, table' \in Nat, LapicOK', MmconfigOK', heap' \subseteq Nat,
         UNCHANGED pagingVars, pc' \in Running \cup {"panic", "no_heap"}, fault' = fault
  PROVE  BootInv'
<1>1. OnKernelTables /\ fault = NoFault
  BY RunningOnTables
<1>2. OnKernelTables'
  BY <1>1 DEF OnKernelTables, Running, NoFault
<1>3. pc # "fault" /\ pc' \in Pcs \ {"fault", "gop", "memory_map", "paging"}
  BY DEF Running, Pcs
<1> QED
  BY <1>1, <1>2, <1>3, MoveOn

\* Or an access faults.
LEMMA KernelFaults ==
  ASSUME BootInv, pc \in Running, machine' = machine, boot_info' = boot_info,
         devices' = devices, table' \in Nat, LapicOK', MmconfigOK', heap' \subseteq Nat,
         UNCHANGED pagingVars, pc' = "fault", fault'.who # "jump"
  PROVE  BootInv'
<1>1. OnKernelTables /\ fault = NoFault
  BY RunningOnTables
<1>2. OnKernelTables' /\ pc' \in Pcs
  BY DEF OnKernelTables, Pcs
<1>3. TablesInv' /\ DeviceInv' /\ NoStaleTlb'
  BY <1>1, QuietStep
<1>4. FullBootInfo' = FullBootInfo
  BY DEF FullBootInfo
<1>5. ControlInv'
  BY <1>2, <1>4 DEF BootInv, ControlInv
<1> QED
  BY <1>3, <1>5 DEF BootInv

\* The steps that only read the machine's description.
LEMMA ReadSteps ==
  ASSUME BootInv, AcpiInit \/ SkipTable \/ TablesDone \/ calibrate_timer \/ InitTimer
  PROVE  BootInv'
<1>1. pc \in Running
  BY DEF AcpiInit, SkipTable, TablesDone, calibrate_timer, InitTimer, Running
<1>2. pc' \in Running \cup {"panic"} /\ fault' = fault
  BY DEF AcpiInit, SkipTable, TablesDone, calibrate_timer, InitTimer, Goto, Running
<1>3. machine' = machine /\ boot_info' = boot_info /\ UNCHANGED pagingVars
  BY DEF AcpiInit, SkipTable, TablesDone, calibrate_timer, InitTimer
<1>4. devices' = devices /\ heap' = heap /\ UNCHANGED <<mmconfig, lapic>>
  BY DEF AcpiInit, SkipTable, TablesDone, calibrate_timer, InitTimer, kernelVars
<1>5. table \in Nat /\ heap \subseteq Nat
  BY DEF BootInv, ControlInv
<1>6. table' \in Nat
  BY <1>5 DEF AcpiInit, SkipTable, TablesDone, calibrate_timer, InitTimer
<1>7. LapicOK' /\ MmconfigOK'
  BY <1>4, SameConfig
<1> QED
  BY <1>1, <1>2, <1>3, <1>4, <1>5, <1>6, <1>7, KernelMovesOn

\* The ACPI table at hand is one of the machine's.
LEMMA CurrentTable ==
  ASSUME BootInv, table < Len(machine.tables)
  PROVE  TableOK(Current) /\ table \in Nat /\ table + 1 \in Nat
<1>1. table \in Nat /\ machine \in Machines
  BY DEF BootInv, ControlInv
<1>2. Len(machine.tables) \in Nat /\ \A i \in 1 .. Len(machine.tables) : TableOK(machine.tables[i])
  BY <1>1, BootAssumption DEF MachineOK
<1>3. table + 1 \in 1 .. Len(machine.tables)
  BY <1>1, <1>2
<1> QED
  BY <1>1, <1>2, <1>3 DEF Current

\* The MADT's address of the Local APIC.
LEMMA MadtStep ==
  ASSUME BootInv, parse_madt
  PROVE  BootInv'
<1>1. pc = "tables" /\ pc' = "tables" /\ fault' = fault /\ table < Len(machine.tables)
      /\ Current.sig = "APIC" /\ table' = table + 1 /\ lapic' = Current.addr
  BY DEF parse_madt, AtTable, Goto
<1>2. machine' = machine /\ boot_info' = boot_info /\ UNCHANGED pagingVars
      /\ devices' = devices /\ heap' = heap /\ mmconfig' = mmconfig
  BY DEF parse_madt
<1>3. TableOK(Current) /\ table' \in Nat
  BY <1>1, CurrentTable
<1>4. LapicOK'
  BY <1>1, <1>3 DEF TableOK, LapicOK
<1>5. MmconfigOK' /\ heap' \subseteq Nat
  BY <1>2 DEF BootInv, ControlInv, MmconfigOK
<1> QED
  BY <1>1, <1>2, <1>3, <1>4, <1>5, KernelMovesOn DEF Running

\* The last entry of segment 0 in the MCFG is one that TableOK speaks of.
LEMMA McfgStep ==
  ASSUME BootInv, parse_mcfg
  PROVE  BootInv'
<1>1. pc = "tables" /\ pc' = "tables" /\ fault' = fault /\ table < Len(machine.tables)
      /\ Current.sig = "MCFG" /\ table' = table + 1 /\ set_mmconfig(Current.entries)
  BY DEF parse_mcfg, AtTable, Goto
<1>2. machine' = machine /\ boot_info' = boot_info /\ UNCHANGED pagingVars
      /\ devices' = devices /\ heap' = heap /\ lapic' = lapic
  BY DEF parse_mcfg
<1>3. TableOK(Current) /\ table' \in Nat
  BY <1>1, CurrentTable
<1>4. LapicOK' /\ heap' \subseteq Nat /\ MmconfigOK
  BY <1>2 DEF BootInv, ControlInv, LapicOK
<1>5. MmconfigOK'
  <2> DEFINE entries == Current.entries
             used == {i \in 1 .. Len(entries) : entries[i].segment = 0}
             last == CHOOSE i \in used : \A j \in used : j <= i
  <2>1. Len(entries) \in Nat /\ \A i \in 1 .. Len(entries) :
          /\ {entries[i].base, entries[i].first, entries[i].last} \subseteq Nat
          /\ \A bus \in entries[i].first .. entries[i].last :
               BusPages(entries[i].base, bus) \cap KernelImage = {}
    BY <1>1, <1>3 DEF TableOK
  <2>2. mmconfig' = IF used = {} THEN mmconfig
                    ELSE [base |-> entries[last].base, first |-> entries[last].first,
                          last |-> entries[last].last]
    BY <1>1 DEF set_mmconfig
  <2> HIDE DEF entries
  <2>3. CASE used = {}
    BY <1>4, <2>2, <2>3 DEF MmconfigOK
  <2>4. CASE used # {}
    <3>1. used \in SUBSET Nat /\ \A k \in used : k <= Len(entries)
      BY <2>1
    <3>2. \E i \in used : \A j \in used : j <= i
      BY <2>1, <2>4, <3>1, GreatestNat
    <3>3. last \in used
      BY <3>2
    <3> HIDE DEF last
    <3>4. last \in 1 .. Len(entries)
      BY <3>3
    <3>5. mmconfig'.base = entries[last].base /\ mmconfig'.first = entries[last].first
          /\ mmconfig'.last = entries[last].last
      BY <2>2, <2>4
    <3> QED
      BY <2>1, <3>4, <3>5 DEF MmconfigOK
  <2> QED
    BY <2>3, <2>4
<1> QED
  BY <1>1, <1>2, <1>3, <1>4, <1>5, KernelMovesOn DEF Running

-----------------------------------------------------------------------------
(* Accesses through the direct mapping *)

\* Pages are naturals.
LEMMA SpanNat ==
  ASSUME NEW a \in Nat, NEW size \in Nat \ {0}
  PROVE  PageSpan(a, size) \subseteq Nat
BY PagingAssumption DEF PageSpan, Page

\* The PCI scan reads configuration space through the direct mapping.
LEMMA PciStep ==
  ASSUME BootInv, scan_pci_bus
  PROVE  BootInv'
<1>1. pc = "pci" /\ pc \in Running
  BY DEF scan_pci_bus, Running
<1>2. machine' = machine /\ boot_info' = boot_info /\ UNCHANGED pagingVars /\ table' = table
      /\ UNCHANGED kernelVars
  BY DEF scan_pci_bus
<1>3. devices' = devices /\ heap' = heap /\ UNCHANGED <<mmconfig, lapic>>
  BY <1>2 DEF kernelVars
<1>4. LapicOK' /\ MmconfigOK' /\ table' \in Nat /\ heap' \subseteq Nat
  BY <1>2, <1>3, SameConfig DEF BootInv, ControlInv
<1>5. CASE Unmapped(MmconfigPages) = {}
  <2>1. pc' = "apic" /\ fault' = fault
    BY <1>5 DEF scan_pci_bus, Touch, Goto
  <2> QED
    BY <1>1, <1>2, <1>3, <1>4, <2>1, KernelMovesOn DEF Running
<1>6. CASE Unmapped(MmconfigPages) # {}
  <2>1. pc' = "fault" /\ \E p \in Unmapped(MmconfigPages) : fault' = [who |-> "pci", page |-> p]
    BY <1>6 DEF scan_pci_bus, Touch, PageFault
  <2>2. fault'.who # "jump"
    BY <2>1
  <2> QED
    BY <1>1, <1>2, <1>3, <1>4, <2>1, <2>2, KernelFaults
<1> QED
  BY <1>5, <1>6

\* The heap is a region of BootInfo.
LEMMA LargestRegion ==
  ASSUME machine \in Machines, boot_info = FullBootInfo, Conventional(boot_info.memory_map) # {}
  PROVE  Largest(boot_info.memory_map) \in 1 .. Len(boot_info.memory_map)
<1> DEFINE map == boot_info.memory_map
           C == Conventional(map)
           max == analyze_memory_map(machine.map)
<1>1. C \in SUBSET Nat /\ C \subseteq 1 .. Len(map)
  BY DEF Conventional
<1>2. \A i \in 1 .. Len(map) : map[i].size \in Nat /\ map[i].size <= max
  <2> SUFFICES ASSUME NEW i \in 1 .. Len(map) PROVE map[i].size \in Nat /\ map[i].size <= max
    OBVIOUS
  <2>1. i \in 1 .. Len(machine.map) /\ map[i] = machine.map[i]
    BY KeptRegions
  <2>2. machine.map[i].start \in Nat /\ machine.map[i].size \in Nat /\ max \in Nat
        /\ machine.map[i].start + machine.map[i].size <= max
    BY <2>1, RegionOf, HighestAddress
  <2> HIDE DEF map, max
  <2> QED
    BY <2>1, <2>2
<1>3. max \in Nat
  BY HighestAddress
<1>4. Largest(map) = CHOOSE i \in C : \A j \in C : \/ map[j].size < map[i].size
                                                   \/ map[j].size = map[i].size /\ i <= j
  BY DEF Largest
<1> HIDE DEF map, C, max
<1> DEFINE sizes == {map[i].size : i \in C}
<1>5. sizes \in SUBSET Nat /\ sizes # {} /\ \A k \in sizes : k <= max
  BY <1>1, <1>2, Zenon DEF C, map
<1>6. PICK m \in sizes : \A k \in sizes : k <= m
  <2> HIDE DEF sizes
  <2> QED
    BY <1>3, <1>5, GreatestNat
<1> DEFINE D == {i \in C : map[i].size = m}
<1>7. D \in SUBSET Nat /\ D # {}
  BY <1>1
<1>8. PICK i \in D : \A j \in D : i <= j
  <2> HIDE DEF D
  <2> QED
    BY <1>7, LeastNat
<1>9. i \in C /\ map[i].size = m
  BY <1>8
<1>10. \A j \in C : map[j].size < map[i].size \/ (map[j].size = map[i].size /\ i <= j)
  <2> SUFFICES ASSUME NEW j \in C
               PROVE  map[j].size < map[i].size \/ (map[j].size = map[i].size /\ i <= j)
    OBVIOUS
  <2>1. map[j].size <= m /\ map[j].size \in Nat /\ m \in Nat
    BY <1>5, <1>6
  <2>2. CASE map[j].size = m
    BY <1>8, <1>9, <2>2
  <2>3. CASE map[j].size # m
    BY <1>9, <2>1, <2>3
  <2> QED
    BY <2>2, <2>3
<1>11. Largest(map) \in C
  BY <1>4, <1>9, <1>10
<1> QED
  BY <1>1, <1>11 DEF map

\* init_heap writes the region it was given.
LEMMA HeapStep ==
  ASSUME BootInv, InitHeap
  PROVE  BootInv'
<1> DEFINE map == boot_info.memory_map
           r == map[Largest(map)]
<1>1. pc = "heap" /\ pc \in Running
  BY DEF InitHeap, Running
<1>2. machine' = machine /\ boot_info' = boot_info /\ UNCHANGED pagingVars /\ table' = table
      /\ devices' = devices /\ UNCHANGED <<mmconfig, lapic>>
  BY DEF InitHeap
<1>3. LapicOK' /\ MmconfigOK' /\ table' \in Nat /\ heap \subseteq Nat
  BY <1>2, SameConfig DEF BootInv, ControlInv
<1>4. CASE heap' = heap /\ pc' \in {"no_heap", "panic"} /\ fault' = fault
  BY <1>1, <1>2, <1>3, <1>4, KernelMovesOn
<1>5. ASSUME Conventional(map) # {}, heap' = PageSpan(r.start, r.size),
             NEW touched, Touch("heap", Unwritable(touched), "timer")
      PROVE  BootInv'
  <2>1. machine \in Machines /\ boot_info = FullBootInfo
    BY <1>1, RunningOnTables
  <2>2. Largest(map) \in 1 .. Len(map)
    BY <1>5, <2>1, LargestRegion
  <2>3. r.start \in Nat /\ r.size \in Nat \ {0}
    BY <2>1, <2>2, KeptRegions, RegionOf
  <2> HIDE DEF r
  <2>4. heap' \subseteq Nat
    BY <1>5, <2>3, SpanNat
  <2>5. CASE Unwritable(touched) = {}
    <3>1. pc' = "timer" /\ fault' = fault
      BY <1>5, <2>5 DEF Touch, Goto
    <3> QED
      BY <1>1, <1>2, <1>3, <2>4, <3>1, KernelMovesOn DEF Running
  <2>6. CASE Unwritable(touched) # {}
    <3>1. pc' = "fault" /\ \E p \in Unwritable(touched) : fault' = [who |-> "heap", page |-> p]
      BY <1>5, <2>6 DEF Touch, PageFault
    <3>2. fault'.who # "jump"
      BY <3>1
    <3> QED
      BY <1>1, <1>2, <1>3, <2>4, <3>1, <3>2, KernelFaults
  <2> QED
    BY <2>5, <2>6
<1> QED
  <2>1. \/ heap' = heap /\ Goto("no_heap")
        \/ heap' = heap /\ Goto("panic")
        \/ /\ Conventional(map) # {} /\ heap' = PageSpan(r.start, r.size)
           /\ \E touched : Touch("heap", Unwritable(touched), "timer")
    BY DEF InitHeap
  <2>2. CASE heap' = heap /\ (Goto("no_heap") \/ Goto("panic"))
    BY <1>4, <2>2 DEF Goto
  <2> QED
    BY <1>5, <2>1, <2>2

\* A task writes its memory later.
LEMMA UseHeapStep ==
  ASSUME BootInv, UseHeap
  PROVE  BootInv'
<1>1. pc = "up" /\ pc \in Running
  BY DEF UseHeap, Running
<1>2. machine' = machine /\ boot_info' = boot_info /\ UNCHANGED pagingVars /\ table' = table
      /\ UNCHANGED kernelVars
  BY DEF UseHeap
<1>3. devices' = devices /\ heap' = heap /\ UNCHANGED <<mmconfig, lapic>>
  BY <1>2 DEF kernelVars
<1>4. LapicOK' /\ MmconfigOK' /\ table' \in Nat /\ heap' \subseteq Nat
  BY <1>2, <1>3, SameConfig DEF BootInv, ControlInv
<1>5. PICK q \in heap : Touch("heap", Unwritable({q}), "up")
  BY DEF UseHeap
<1>7. CASE CanWrite(q)
  <2>1. Unwritable({q}) = {}
    BY <1>7 DEF Unwritable
  <2>2. pc' = "up" /\ fault' = fault
    BY <1>5, <2>1 DEF Touch, Goto
  <2> QED
    BY <1>1, <1>2, <1>3, <1>4, <2>2, KernelMovesOn DEF Running
<1>8. CASE ~CanWrite(q)
  <2>1. Unwritable({q}) = {q}
    BY <1>8 DEF Unwritable
  <2>2. pc' = "fault" /\ fault' = [who |-> "heap", page |-> q]
    BY <1>5, <2>1 DEF Touch, PageFault
  <2>3. fault'.who # "jump"
    BY <2>2
  <2> QED
    BY <1>1, <1>2, <1>3, <1>4, <2>2, <2>3, KernelFaults
<1> QED
  BY <1>7, <1>8

-----------------------------------------------------------------------------
(* The steps that write the tables *)

\* The bootloader's tables map a page at itself.
LEMMA LoaderWalk ==
  \A q \in Pages :
    /\ pdp[q \div (ENTRY_COUNT * ENTRY_COUNT)] = Set(q \div (ENTRY_COUNT * ENTRY_COUNT), RW)
    /\ pd[q \div ENTRY_COUNT] = LoaderEntry(q \div ENTRY_COUNT)
    => Translate(q) = [page |-> q, flags |-> LoaderEntry(q \div ENTRY_COUNT).flags]
BY Walk

\* Without a directory it maps nothing.
LEMMA NoDirectoryWalk ==
  \A q \in Pages : pdp[q \div (ENTRY_COUNT * ENTRY_COUNT)] = NewEntry => ~CanWrite(q)
BY Walk DEF CanWrite, Mapped, is_present, NoPage

\* The jump: without a memory map nothing is mapped; with one the kernel is.
LEMMA JumpStep ==
  ASSUME BootInv, setup_initial_page_tables
  PROVE  BootInv'
<1> DEFINE max == boot_info.max_physical_address
           gb == Min2(DivUp(max, ENTRY_COUNT * PAGE_TABLE_COVERAGE), MAX_GB)
<1>1. pc = "jump" /\ machine' = machine /\ boot_info' = boot_info /\ table' = table
      /\ UNCHANGED kernelVars /\ reload_cr3
  BY DEF setup_initial_page_tables
<1>2. pdp' = [g \in 0 .. MAX_GB - 1 |-> IF g < gb THEN Set(g, RW) ELSE NewEntry]
  BY DEF setup_initial_page_tables
<1>3. pd' = [c \in Chunks |->
               IF c \div ENTRY_COUNT < gb /\ c * PAGE_TABLE_COVERAGE < max
               THEN LoaderEntry(c) ELSE NewEntry]
  BY DEF setup_initial_page_tables, LoaderEntry
<1>4. Touch("jump", UnwritableNow(KernelImage), "paging")
  BY DEF setup_initial_page_tables
<1>5. machine \in Machines /\ boot_info \in {NoBootInfo, FullBootInfo} /\ table \in Nat
      /\ fault = NoFault /\ heap \subseteq Nat
  BY <1>1 DEF BootInv, ControlInv
<1>6. devices' = devices /\ heap' = heap /\ UNCHANGED <<mmconfig, lapic>>
  BY <1>1 DEF kernelVars
<1>7. LapicOK' /\ MmconfigOK'
  BY <1>6, SameConfig
<1>8. devices = {}
  BY <1>1 DEF BootInv, ControlInv, OnKernelTables
<1>9. \/ UnwritableNow(KernelImage) = {} /\ pc' = "paging" /\ fault' = fault
      \/ /\ UnwritableNow(KernelImage) # {} /\ pc' = "fault"
         /\ fault'.who = "jump"
  <2>1. CASE UnwritableNow(KernelImage) = {}
    BY <1>4, <2>1 DEF Touch, Goto
  <2>2. CASE UnwritableNow(KernelImage) # {}
    <3>1. pc' = "fault" /\ \E p \in UnwritableNow(KernelImage) : fault' = [who |-> "jump", page |-> p]
      BY <1>4, <2>2 DEF Touch, PageFault
    <3> QED
      BY <2>2, <3>1
  <2> QED
    BY <2>1, <2>2
<1>10. ENTRY_COUNT \in Nat \ {0} /\ PAGE_SIZE \in Nat \ {0} /\ MAX_GB \in Nat \ {0}
  BY PagingAssumption
<1>11. ASSUME boot_info = FullBootInfo PROVE UnwritableNow(KernelImage) = {}
  <2> SUFFICES ASSUME NEW p \in KernelImage PROVE CanWrite(p)'
    BY DEF UnwritableNow
  <2>1. p \in Pages /\ p * PAGE_SIZE < max /\ max \in Nat
    BY <1>5, <1>11, KernelInMemory, BootInfoTypes
  <2> DEFINE g == p \div (ENTRY_COUNT * ENTRY_COUNT)
             c == p \div ENTRY_COUNT
  <2>2. g \in 0 .. MAX_GB - 1 /\ c \in Chunks /\ p \in Nat /\ c \in Nat
    BY <2>1, PageIndices DEF Chunks
  <2>3. c * PAGE_TABLE_COVERAGE < max
    <3>1. c * ENTRY_COUNT <= p
      BY <1>10, <2>2
    <3> HIDE DEF c, max
    <3>2. c * (ENTRY_COUNT * PAGE_SIZE) = (c * ENTRY_COUNT) * PAGE_SIZE /\ c * ENTRY_COUNT \in Nat
      BY <1>10, <2>2
    <3>3. (c * ENTRY_COUNT) * PAGE_SIZE <= p * PAGE_SIZE
      BY <1>10, <2>2, <3>1, <3>2
    <3>4. (c * ENTRY_COUNT) * PAGE_SIZE \in Nat /\ p * PAGE_SIZE \in Nat
      BY <1>10, <2>2, <3>2
    <3> QED
      BY <2>1, <3>2, <3>3, <3>4 DEF PAGE_TABLE_COVERAGE
  <2>4. g < gb
    <3>1. g * (ENTRY_COUNT * ENTRY_COUNT) <= p
      <4>1. ENTRY_COUNT * ENTRY_COUNT \in Nat \ {0}
        BY <1>10
      <4> QED
        BY <2>2, <4>1
    <3> HIDE DEF g, max
    <3> DEFINE E == ENTRY_COUNT * ENTRY_COUNT
    <3>2. E \in Nat \ {0} /\ g \in Nat
      BY <1>10, <2>2
    <3>3. ENTRY_COUNT * PAGE_TABLE_COVERAGE = E * PAGE_SIZE
      BY <1>10 DEF PAGE_TABLE_COVERAGE
    <3>4. g * E <= p
      BY <3>1
    <3> HIDE DEF E
    <3>5. g * (E * PAGE_SIZE) = (g * E) * PAGE_SIZE /\ g * E \in Nat
          /\ (g * E) * PAGE_SIZE \in Nat /\ p * PAGE_SIZE \in Nat
      BY <1>10, <2>2, <3>2
    <3>6. (g * E) * PAGE_SIZE <= p * PAGE_SIZE
      BY <1>10, <2>2, <3>4, <3>5
    <3>7. g * (E * PAGE_SIZE) < max
      BY <2>1, <3>5, <3>6
    <3>8. E * PAGE_SIZE \in Nat \ {0}
      BY <1>10, <3>2
    <3>9. g < DivUp(max, E * PAGE_SIZE) /\ DivUp(max, E * PAGE_SIZE) \in Nat
      BY <2>1, <3>2, <3>7, <3>8, DivUpCovers
    <3>10. g < MAX_GB
      BY <1>10, <2>2
    <3> QED
      BY <3>3, <3>9, <3>10 DEF Min2
  <2>5. c \div ENTRY_COUNT = g
    BY <1>10, <2>2
  <2>6. pdp'[g] = Set(g, RW) /\ pd'[c] = LoaderEntry(c)
    BY <1>2, <1>3, <2>2, <2>3, <2>4, <2>5
  <2>7. Translate(p)' = [page |-> p, flags |-> LoaderEntry(c).flags]
    <3>1. (\A q \in Pages :
             /\ pdp[q \div (ENTRY_COUNT * ENTRY_COUNT)] = Set(q \div (ENTRY_COUNT * ENTRY_COUNT), RW)
             /\ pd[q \div ENTRY_COUNT] = LoaderEntry(q \div ENTRY_COUNT)
             => Translate(q) = [page |-> q, flags |-> LoaderEntry(q \div ENTRY_COUNT).flags])'
      BY LoaderWalk, PTL
    <3> QED
      BY <2>1, <2>6, <3>1
  <2>8. LoaderEntry(c).flags = RW \cup {"HugePage"}
    BY DEF LoaderEntry, Set
  <2> QED
    BY <2>7, <2>8 DEF CanWrite, Mapped, is_present, RW
<1>12. ASSUME boot_info = NoBootInfo PROVE UnwritableNow(KernelImage) # {}
  <2>1. TextStart \in KernelImage /\ TextStart \in Pages
    BY PagingAssumption DEF KernelImage, Pages, PT_COUNT
  <2>2. max = 0
    BY <1>12 DEF NoBootInfo
  <2>3. gb = 0
    <3>1. ENTRY_COUNT * PAGE_TABLE_COVERAGE \in Nat \ {0}
      BY <1>10 DEF PAGE_TABLE_COVERAGE
    <3>2. DivUp(0, ENTRY_COUNT * PAGE_TABLE_COVERAGE) = 0
      BY <3>1 DEF DivUp
    <3> QED
      BY <1>10, <2>2, <3>2 DEF Min2
  <2> HIDE DEF gb
  <2> DEFINE g == TextStart \div (ENTRY_COUNT * ENTRY_COUNT)
  <2>4. g \in 0 .. MAX_GB - 1
    BY <2>1, PageIndices
  <2>5. pdp'[g] = NewEntry
    BY <1>2, <2>3, <2>4
  <2>6. (\A q \in Pages : pdp[q \div (ENTRY_COUNT * ENTRY_COUNT)] = NewEntry => ~CanWrite(q))'
    BY NoDirectoryWalk, PTL
  <2>7. ~CanWrite(TextStart)'
    BY <2>1, <2>5, <2>6
  <2> QED
    BY <2>1, <2>7 DEF UnwritableNow
<1>14. pc' = "paging" => boot_info = FullBootInfo
  BY <1>5, <1>9, <1>12
<1>15. ~OnKernelTables' /\ pc' \in {"paging", "fault"}
  BY <1>9 DEF OnKernelTables
<1>16. ControlInv'
  <2>1. FullBootInfo' = FullBootInfo
    BY <1>1 DEF FullBootInfo
  <2>2. pc' \in Pcs
    BY <1>15 DEF Pcs
  <2>3. pc' # "fault" => fault' = NoFault
    BY <1>5, <1>9
  <2> QED
    BY <1>1, <1>5, <1>6, <1>7, <1>8, <1>14, <1>15, <2>1, <2>2, <2>3 DEF ControlInv
<1>17. TablesInv' /\ DeviceInv'
  BY <1>6, <1>8, <1>15 DEF TablesInv, DeviceInv
<1>18. NoStaleTlb'
  BY <1>1 DEF NoStaleTlb, reload_cr3
<1> QED
  BY <1>16, <1>17, <1>18 DEF BootInv

\* The kernel's own tables, from BootInfo.
LEMMA PagingInitStep ==
  ASSUME BootInv, PagingInit
  PROVE  BootInv'
<1>1. pc = "paging" /\ machine' = machine /\ boot_info' = boot_info /\ table' = table
      /\ UNCHANGED kernelVars /\ pc' = "acpi" /\ fault' = fault
      /\ init(boot_info.memory_map, boot_info.max_physical_address)
  BY DEF PagingInit, Goto
<1>2. machine \in Machines /\ boot_info = FullBootInfo /\ table \in Nat /\ fault = NoFault
      /\ heap \subseteq Nat /\ devices = {}
  BY <1>1 DEF BootInv, ControlInv, OnKernelTables
<1>3. devices' = devices /\ heap' = heap /\ UNCHANGED <<mmconfig, lapic>>
  BY <1>1 DEF kernelVars
<1>4. LapicOK' /\ MmconfigOK'
  BY <1>3, SameConfig
<1>5. FullBootInfo' = FullBootInfo
  BY <1>1 DEF FullBootInfo
<1>6. /\ pdp' = [g \in 0 .. MAX_GB - 1 |-> Directory(g)]
      /\ pd' = [c \in Chunks |-> TableEntry(c)]
  BY <1>1 DEF init, Directory, TableEntry, TableCount
<1>7. pt' = WithSections(WithGuardPage(DirectEntries(boot_info.memory_map,
                                                     boot_info.max_physical_address)))
      /\ reload_cr3
  BY <1>1 DEF init
<1>8. \A g : Directory(g)' = Directory(g) /\ TableEntry(g)' = TableEntry(g)
  BY <1>1 DEF Directory, TableEntry, TableCount
<1>9. \A p : InitEntry(p)' = pt'[p]
  BY <1>1, <1>7 DEF InitEntry
<1>10. pt' = [p \in Pages |-> pt'[p]]
  BY <1>7 DEF WithSections
<1>11. \A c \in Chunks : pd'[c] = TableEntry(c)'
  BY <1>6, <1>8
<1>12. pd' = [c \in Chunks |-> pd'[c]]
  BY <1>6
<1>13. pdp' = [g \in 0 .. MAX_GB - 1 |-> Directory(g)']
  BY <1>6, <1>8
<1>14. TablesOK'
  BY <1>1, <1>2, <1>5, <1>9, <1>10, <1>11, <1>12, <1>13 DEF TablesOK
<1>15. ControlInv'
  <2>1. OnKernelTables'
    BY <1>1, <1>2 DEF OnKernelTables, NoFault
  <2>2. pc' \in Pcs
    BY <1>1 DEF Pcs, Running
  <2> QED
    BY <1>1, <1>2, <1>3, <1>4, <1>5, <2>1, <2>2 DEF ControlInv
<1>16. TablesInv' /\ DeviceInv'
  BY <1>2, <1>3, <1>14 DEF TablesInv, DeviceInv
<1>17. NoStaleTlb'
  BY <1>7 DEF NoStaleTlb, reload_cr3
<1> QED
  BY <1>15, <1>16, <1>17 DEF BootInv

\* A page that can be written has its directory, and a table or a huge page.
LEMMA Reached ==
  \A p \in Pages : TablesOK /\ CanWrite(p) =>
    /\ is_present(pdp[p \div (ENTRY_COUNT * ENTRY_COUNT)])
    /\ \/ pd[p \div ENTRY_COUNT] = Set(p \div ENTRY_COUNT, RW)
       \/ Huge(p \div ENTRY_COUNT)
<1> SUFFICES ASSUME NEW p \in Pages, TablesOK, CanWrite(p)
             PROVE  /\ is_present(pdp[p \div (ENTRY_COUNT * ENTRY_COUNT)])
                    /\ \/ pd[p \div ENTRY_COUNT] = Set(p \div ENTRY_COUNT, RW)
                       \/ Huge(p \div ENTRY_COUNT)
  BY Zenon
<1> DEFINE g == p \div (ENTRY_COUNT * ENTRY_COUNT)
           c == p \div ENTRY_COUNT
<1>1. Translate(p) # NoPage
  BY DEF CanWrite, Mapped, is_present, NoPage
<1>2. g \in 0 .. MAX_GB - 1 /\ c \in Chunks
  BY PageIndices
<1>3. pdp[g] # NewEntry /\ (pdp[g] = Set(g, RW) => pd[c] # NewEntry)
  BY <1>1, Walk
<1> HIDE DEF g, c
<1>4. pdp[g] = Directory(g) /\ (pd[c] = TableEntry(c) \/ Huge(c))
  BY <1>2 DEF TablesOK
<1>5. pdp[g] = Set(g, RW)
  BY <1>3, <1>4 DEF Directory
<1>6. pd[c] = Set(c, RW) \/ Huge(c)
  BY <1>3, <1>4, <1>5 DEF TableEntry
<1>7. is_present(pdp[g])
  BY <1>5 DEF Set, RW, is_present
<1> QED
  BY <1>6, <1>7 DEF g, c

\* map_mmio of one page: that entry, and the TLB with it.
LEMMA MmioWrite ==
  ASSUME BootInv, TablesOK, NEW a \in Nat, Page(a) \notin KernelImage,
         map_mmio(a, PAGE_SIZE), machine' = machine, boot_info' = boot_info
  PROVE  /\ TablesOK' /\ NoStaleTlb'
         /\ pdp' = pdp /\ pd' = pd
         /\ \A p \in Pages : pt'[p] = pt[p] \/ pt'[p] = MmioEntry(p)
         /\ map_mmio_ok(a, PAGE_SIZE) => Page(a) \in Pages /\ pt'[Page(a)] = MmioEntry(Page(a))
<1> DEFINE page == Page(a)
<1>1. PAGE_SIZE \in Nat \ {0}
  BY PagingAssumption
<1>2. page \in Nat
  BY <1>1 DEF Page
<1>3. MmioPages(a, PAGE_SIZE) = {page}
  <2>1. DivUp(PAGE_SIZE, PAGE_SIZE) = 1
    <3>1. PAGE_SIZE + PAGE_SIZE - 1 \in Nat /\ 1 * PAGE_SIZE <= PAGE_SIZE + PAGE_SIZE - 1
          /\ PAGE_SIZE + PAGE_SIZE - 1 < (1 + 1) * PAGE_SIZE
      BY <1>1
    <3> QED
      BY <1>1, <3>1, DivUnique DEF DivUp
  <2> HIDE DEF page
  <2>2. MmioPages(a, PAGE_SIZE) = page .. page + 1 - 1
    BY <2>1 DEF MmioPages, page
  <2> QED
    BY <1>2, <2>2
<1> HIDE DEF page
<1>4. pdp' = pdp /\ pd' = pd
  BY DEF map_mmio
<1>5. pt' = IF a % PAGE_SIZE # 0 THEN pt
            ELSE [p \in Pages |-> IF p = page THEN MmioEntry(p) ELSE pt[p]]
  BY <1>3 DEF map_mmio
<1>6. IF a % PAGE_SIZE = 0 /\ page \in Pages THEN reload_cr3 ELSE NoFlush
  BY <1>3 DEF map_mmio, MmioInRange
<1>7. pt = [p \in Pages |-> pt[p]]
  BY DEF TablesOK
<1>8. ~(a % PAGE_SIZE = 0 /\ page \in Pages) => pt' = pt
  BY <1>5, <1>7
<1>9. NoStaleTlb'
  <2>1. CASE a % PAGE_SIZE = 0 /\ page \in Pages
    BY <1>6, <2>1 DEF NoStaleTlb, reload_cr3
  <2>2. CASE ~(a % PAGE_SIZE = 0 /\ page \in Pages)
    <3>1. tlb' = tlb \cup Translations'
      BY <1>6, <2>2 DEF NoFlush
    <3>2. Translations' = Translations
      BY <1>4, <1>8, <2>2, SameTranslations
    <3> QED
      BY <3>1, <3>2 DEF BootInv, NoStaleTlb
  <2> QED
    BY <2>1, <2>2
<1>10. pt' = [p \in Pages |-> pt'[p]]
  BY <1>5, <1>7
<1>11. \A p \in Pages : pt'[p] = pt[p] \/ (pt'[p] = MmioEntry(p) /\ p \notin KernelImage)
  BY <1>5 DEF page
<1>12. TablesOK'
  <2>1. FullBootInfo' = FullBootInfo
    BY DEF FullBootInfo
  <2>2. TableCount' = TableCount
    BY DEF TableCount
  <2>3. \A p : InitEntry(p)' = InitEntry(p)
    BY DEF InitEntry
  <2>4. \A g : Directory(g)' = Directory(g) /\ TableEntry(g)' = TableEntry(g)
    BY <2>2 DEF Directory, TableEntry
  <2>5. \A c : Huge(c)' <=> Huge(c)
    BY <1>4 DEF Huge
  <2>6. \A p \in Pages : \/ pt'[p] = InitEntry(p)'
                         \/ pt'[p] = MmioEntry(p) /\ p \notin KernelImage
                         \/ Huge(p \div ENTRY_COUNT)'
    BY <1>11, <2>3, <2>5, Zenon DEF TablesOK
  <2> QED
    BY <1>4, <1>10, <2>1, <2>4, <2>5, <2>6 DEF TablesOK
<1>13. ASSUME map_mmio_ok(a, PAGE_SIZE) PROVE page \in Pages /\ pt'[page] = MmioEntry(page)
  <2>1. a % PAGE_SIZE = 0 /\ page \in Pages
    BY <1>3, <1>13 DEF map_mmio_ok, MmioInRange
  <2> QED
    BY <1>5, <2>1
<1> QED
  BY <1>4, <1>9, <1>11, <1>12, <1>13 DEF page

\* Registers are mapped and touched: HPET and APIC alike.
LEMMA MmioStep ==
  ASSUME BootInv, pc \in Running, NEW a \in Nat, Page(a) \notin KernelImage,
         map_mmio(a, PAGE_SIZE), machine' = machine, boot_info' = boot_info,
         heap' = heap, table' \in Nat, LapicOK', MmconfigOK', NEW next \in Running,
         IF map_mmio_ok(a, PAGE_SIZE)
         THEN /\ devices' = devices \cup {Page(a)}
              /\ Touch("device", UnwritableNow({Page(a)}), next)
         ELSE devices' = devices /\ pc' \in Running \cup {"panic"} /\ fault' = fault
  PROVE  BootInv'
<1> DEFINE page == Page(a)
<1>1. OnKernelTables /\ TablesOK /\ machine \in Machines /\ fault = NoFault
  BY RunningOnTables
<1>2. /\ TablesOK' /\ NoStaleTlb' /\ pdp' = pdp /\ pd' = pd
      /\ \A p \in Pages : pt'[p] = pt[p] \/ pt'[p] = MmioEntry(p)
      /\ map_mmio_ok(a, PAGE_SIZE) => page \in Pages /\ pt'[page] = MmioEntry(page)
  BY <1>1, MmioWrite
<1> HIDE DEF page
<1>3. \/ pc' \in Running \cup {"panic"} /\ fault' = fault
      \/ pc' = "fault" /\ fault' = [who |-> "device", page |-> page] /\ ~CanWrite(page)'
         /\ map_mmio_ok(a, PAGE_SIZE)
  <2>1. CASE ~map_mmio_ok(a, PAGE_SIZE)
    BY <2>1
  <2>2. CASE map_mmio_ok(a, PAGE_SIZE) /\ CanWrite(page)'
    <3>1. UnwritableNow({Page(a)}) = {}
      BY <2>2 DEF UnwritableNow, page
    <3> QED
      BY <2>2, <3>1 DEF Touch, Goto
  <2>3. CASE map_mmio_ok(a, PAGE_SIZE) /\ ~CanWrite(page)'
    <3>1. UnwritableNow({Page(a)}) = {page}
      BY <2>3 DEF UnwritableNow, page
    <3> QED
      BY <2>3, <3>1 DEF Touch, PageFault
  <2> QED
    BY <2>1, <2>2, <2>3
<1>4. OnKernelTables' /\ pc' \in Pcs \ {"gop", "memory_map", "paging"}
  <2>1. CASE pc' \in Running \cup {"panic"} /\ fault' = fault
    BY <1>1, <2>1 DEF OnKernelTables, Running, NoFault, Pcs
  <2>2. CASE pc' = "fault" /\ fault' = [who |-> "device", page |-> page]
    BY <2>2 DEF OnKernelTables, Pcs
  <2> QED
    BY <1>3, <2>1, <2>2
<1>5. ControlInv'
  <2>1. FullBootInfo' = FullBootInfo
    BY DEF FullBootInfo
  <2>2. pc' # "fault" => fault' = NoFault
    BY <1>1, <1>3
  <2> QED
    BY <1>1, <1>4, <2>1, <2>2 DEF BootInv, ControlInv
<1>6. TablesInv'
  BY <1>2 DEF TablesInv
<1>reached. (\A p \in Pages : TablesOK /\ CanWrite(p) =>
         /\ is_present(pdp[p \div (ENTRY_COUNT * ENTRY_COUNT)])
         /\ \/ pd[p \div ENTRY_COUNT] = Set(p \div ENTRY_COUNT, RW)
            \/ Huge(p \div ENTRY_COUNT))'
  BY Reached, PTL
<1>7. DeviceInv'
  <2> SUFFICES ASSUME pc' # "fault", NEW p \in devices'
               PROVE  /\ p \in Pages
                      /\ is_present(pdp[p \div (ENTRY_COUNT * ENTRY_COUNT)])'
                      /\ \/ pd'[p \div ENTRY_COUNT] = Set(p \div ENTRY_COUNT, RW)
                            /\ pt'[p] = MmioEntry(p)
                         \/ Huge(p \div ENTRY_COUNT)'
    BY DEF DeviceInv
  <2>1. CASE p \in devices
    <3>1. pc # "fault"
      BY DEF Running
    <3>2. /\ p \in Pages
          /\ is_present(pdp[p \div (ENTRY_COUNT * ENTRY_COUNT)])
          /\ \/ pd[p \div ENTRY_COUNT] = Set(p \div ENTRY_COUNT, RW) /\ pt[p] = MmioEntry(p)
             \/ Huge(p \div ENTRY_COUNT)
      BY <2>1, <3>1 DEF BootInv, DeviceInv
    <3>3. pt'[p] = pt[p] \/ pt'[p] = MmioEntry(p)
      BY <1>2, <3>2
    <3> QED
      BY <1>2, <3>2, <3>3 DEF Huge
  <2>2. CASE p \notin devices
    <3>1. map_mmio_ok(a, PAGE_SIZE) /\ p = page
      BY <2>2 DEF page
    <3>2. CanWrite(page)'
      <4>1. CASE CanWrite(page)'
        BY <4>1
      <4>2. CASE ~CanWrite(page)'
        <5>1. UnwritableNow({Page(a)}) = {page}
          BY <4>2 DEF UnwritableNow, page
        <5> QED
          BY <3>1, <5>1 DEF Touch, PageFault
      <4> QED
        BY <4>1, <4>2
    <3>4. page \in Pages /\ pt'[page] = MmioEntry(page)
      BY <1>2, <3>1
    <3> QED
      BY <1>2, <1>reached, <3>1, <3>2, <3>4
  <2> QED
    BY <2>1, <2>2
<1> QED
  BY <1>2, <1>5, <1>6, <1>7 DEF BootInv

\* The HPET's registers.
LEMMA HpetStep ==
  ASSUME BootInv, parse_hpet
  PROVE  BootInv'
<1>1. pc = "tables" /\ pc \in Running /\ table < Len(machine.tables)
      /\ Current.sig = "HPET" /\ table' = table + 1
  BY DEF parse_hpet, AtTable, Running
<1>2. machine' = machine /\ boot_info' = boot_info /\ heap' = heap /\ UNCHANGED <<mmconfig, lapic>>
  BY DEF parse_hpet
<1>3. TableOK(Current) /\ table' \in Nat
  BY <1>1, CurrentTable
<1>4. LapicOK' /\ MmconfigOK' /\ heap' \subseteq Nat
  BY <1>2, SameConfig DEF BootInv, ControlInv
<1>5. CASE Current.memory
  <2>1. PICK a \in Nat : a = Current.addr /\ Page(a) \notin KernelImage
    BY <1>1, <1>3 DEF TableOK
  <2>2. map_mmio(a, PAGE_SIZE)
        /\ IF map_mmio_ok(a, PAGE_SIZE)
           THEN /\ devices' = devices \cup {Page(a)}
                /\ Touch("device", UnwritableNow({Page(a)}), "tables")
           ELSE devices' = devices /\ pc' = "tables" /\ fault' = fault
    BY <1>5, <2>1 DEF parse_hpet, Goto
  <2>3. "tables" \in Running
    BY DEF Running
  <2> QED
    BY <1>1, <1>2, <1>3, <1>4, <2>1, <2>2, <2>3, MmioStep
<1>6. CASE ~Current.memory
  <2>1. devices' = devices /\ pc' = "tables" /\ fault' = fault /\ UNCHANGED pagingVars
    BY <1>6 DEF parse_hpet, Goto
  <2> QED
    BY <1>1, <1>2, <1>3, <1>4, <2>1, KernelMovesOn DEF Running
<1> QED
  BY <1>5, <1>6

\* The Local APIC's registers, at the MADT's address or the default one.
LEMMA ApicStep ==
  ASSUME BootInv, ApicInit
  PROVE  BootInv'
<1>1. pc = "apic" /\ pc \in Running
  BY DEF ApicInit, Running
<1>2. machine' = machine /\ boot_info' = boot_info /\ heap' = heap /\ table' = table
      /\ UNCHANGED <<mmconfig, lapic>>
  BY DEF ApicInit
<1>3. LapicOK' /\ MmconfigOK' /\ table' \in Nat /\ LapicOK
  BY <1>2, SameConfig DEF BootInv, ControlInv
<1>4. PICK a \in Nat : a = apic_phys_base /\ Page(a) \notin KernelImage
  BY <1>3, BootAssumption DEF LapicOK, apic_phys_base
<1>5. map_mmio(a, PAGE_SIZE)
      /\ IF map_mmio_ok(a, PAGE_SIZE)
         THEN /\ devices' = devices \cup {Page(a)}
              /\ Touch("device", UnwritableNow({Page(a)}), "calibrate")
         ELSE devices' = devices /\ pc' = "panic" /\ fault' = fault
  BY <1>4 DEF ApicInit, Goto
<1>6. "calibrate" \in Running
  BY DEF Running
<1> QED
  BY <1>1, <1>2, <1>3, <1>4, <1>5, <1>6, MmioStep

\* map_framebuffer_huge: some of the framebuffer's chunks become huge pages.
LEMMA HugeWrite ==
  ASSUME BootInv, TablesOK, machine \in Machines, machine' = machine, boot_info' = boot_info,
         map_framebuffer_huge(machine.fb.base, machine.fb.size)
  PROVE  /\ TablesOK' /\ NoStaleTlb' /\ pdp' = pdp
         /\ \A p \in Pages : \/ pt'[p] = pt[p]
                                /\ pd'[p \div ENTRY_COUNT] = pd[p \div ENTRY_COUNT]
                             \/ Huge(p \div ENTRY_COUNT)'
<1> DEFINE base == machine.fb.base
           size == machine.fb.size
           done == HugeChunks(base, size)
<1>1. \A c \in done : c \in FramebufferChunks(base, size) /\ c \in Chunks
  <2>1. base \in Nat /\ size \in Nat \ {0}
    BY BootAssumption DEF MachineOK, FramebufferOK
  <2>2. \A c \in FramebufferChunks(base, size) : c \in Int /\ c <= c
    BY DEF FramebufferChunks
  <2> QED
    BY <2>2 DEF HugeChunks
<1>2. CASE ~(is_2mb_aligned(base) /\ done # {})
  <2>1. pdp' = pdp /\ pd' = pd /\ pt' = pt /\ tlb' = tlb \cup Translations'
    BY <1>2 DEF map_framebuffer_huge, NoFlush, tables
  <2>2. Translations' = Translations
    BY <2>1, SameTranslations
  <2>3. NoStaleTlb'
    BY <2>1, <2>2 DEF BootInv, NoStaleTlb
  <2>4. TablesOK'
    <3>1. FullBootInfo' = FullBootInfo
      BY DEF FullBootInfo
    <3>2. TableCount' = TableCount
      BY DEF TableCount
    <3>3. \A p : InitEntry(p)' = InitEntry(p)
      BY DEF InitEntry
    <3>4. \A g : Directory(g)' = Directory(g) /\ TableEntry(g)' = TableEntry(g)
      BY <3>2 DEF Directory, TableEntry
    <3>5. \A c : Huge(c)' <=> Huge(c)
      BY <2>1 DEF Huge
    <3> QED
      BY <2>1, <3>1, <3>3, <3>4, <3>5 DEF TablesOK
  <2> QED
    BY <1>2, <2>1, <2>3, <2>4
<1>3. CASE is_2mb_aligned(base) /\ done # {}
  <2>1. /\ pd' = [c \in Chunks |-> IF c \in done THEN HugeEntry(c) ELSE pd[c]]
        /\ pt' = [p \in Pages |-> IF p \div ENTRY_COUNT \in done THEN NewEntry ELSE pt[p]]
        /\ pdp' = pdp /\ reload_cr3
    BY <1>3 DEF map_framebuffer_huge, ClearedPt
  <2> HIDE DEF done
  <2>2. \A c \in Chunks : pd'[c] = IF c \in done THEN HugeEntry(c) ELSE pd[c]
    BY <2>1
  <2>3. \A c \in Chunks : (c \in done => Huge(c)') /\ (Huge(c) => Huge(c)')
                          /\ (c \notin done => pd'[c] = pd[c])
    BY <2>2 DEF Huge
  <2>4. \A p \in Pages : p \div ENTRY_COUNT \in Chunks
    BY PageIndices
  <2>5. \A p \in Pages : \/ pt'[p] = pt[p]
                            /\ pd'[p \div ENTRY_COUNT] = pd[p \div ENTRY_COUNT]
                         \/ Huge(p \div ENTRY_COUNT)'
    BY <2>1, <2>3, <2>4
  <2>6. NoStaleTlb'
    BY <2>1 DEF NoStaleTlb, reload_cr3
  <2>7. TablesOK'
    <3>1. FullBootInfo' = FullBootInfo
      BY DEF FullBootInfo
    <3>2. TableCount' = TableCount
      BY DEF TableCount
    <3>3. \A p : InitEntry(p)' = InitEntry(p)
      BY DEF InitEntry
    <3>4. \A g : Directory(g)' = Directory(g) /\ TableEntry(g)' = TableEntry(g)
      BY <3>2 DEF Directory, TableEntry
    <3>5. \A c \in Chunks :
            \/ pd'[c] = TableEntry(c)'
            \/ Huge(c)' /\ c \in FramebufferChunks(base, size)
      BY <1>1, <2>3, <3>4 DEF TablesOK
    <3>6. \A p \in Pages : \/ pt'[p] = InitEntry(p)'
                           \/ pt'[p] = MmioEntry(p) /\ p \notin KernelImage
                           \/ Huge(p \div ENTRY_COUNT)'
      <4> SUFFICES ASSUME NEW p \in Pages, ~Huge(p \div ENTRY_COUNT)'
                   PROVE  \/ pt'[p] = InitEntry(p)'
                          \/ pt'[p] = MmioEntry(p) /\ p \notin KernelImage
        BY Zenon
      <4>1. pt'[p] = pt[p] /\ ~Huge(p \div ENTRY_COUNT)
        BY <2>3, <2>4, <2>5
      <4> QED
        BY <3>3, <4>1 DEF TablesOK
    <3>7. pd' = [c \in Chunks |-> pd'[c]] /\ pt' = [p \in Pages |-> pt'[p]]
      BY <2>1
    <3> QED
      BY <2>1, <3>1, <3>4, <3>5, <3>6, <3>7 DEF TablesOK
  <2> QED
    BY <1>1, <2>1, <2>3, <2>5, <2>6, <2>7 DEF done
<1> QED
  BY <1>2, <1>3

\* The framebuffer is mapped with huge pages, or left to the direct mapping.
LEMMA FramebufferStep ==
  ASSUME BootInv, MapFramebuffer
  PROVE  BootInv'
<1> DEFINE base == machine.fb.base
           size == machine.fb.size
           span == PageSpan(base, size)
<1>1. pc = "framebuffer" /\ pc \in Running /\ machine' = machine /\ boot_info' = boot_info
      /\ table' = table /\ UNCHANGED kernelVars /\ map_framebuffer_huge(base, size)
  BY DEF MapFramebuffer, Running
<1>2. devices' = devices /\ heap' = heap /\ UNCHANGED <<mmconfig, lapic>>
  BY <1>1 DEF kernelVars
<1>3. LapicOK' /\ MmconfigOK' /\ table' \in Nat /\ heap' \subseteq Nat
  BY <1>1, <1>2, SameConfig DEF BootInv, ControlInv
<1>4. OnKernelTables /\ TablesOK /\ machine \in Machines /\ fault = NoFault
      /\ boot_info = FullBootInfo
  BY <1>1, RunningOnTables
<1>5. /\ TablesOK' /\ NoStaleTlb' /\ pdp' = pdp
      /\ \A p \in Pages : \/ pt'[p] = pt[p] /\ pd'[p \div ENTRY_COUNT] = pd[p \div ENTRY_COUNT]
                          \/ Huge(p \div ENTRY_COUNT)'
  BY <1>1, <1>4, HugeWrite
<1>6. base \in Nat /\ size \in Nat \ {0} /\ span \cap KernelImage = {}
  BY <1>4, BootAssumption DEF MachineOK, FramebufferOK
<1>7. \/ pc' \in {"heap", "panic"} /\ fault' = fault
      \/ /\ map_framebuffer_huge_ok(base, size) /\ pc' = "fault"
         /\ \E p \in span : fault' = [who |-> "framebuffer", page |-> p] /\ ~CanWrite(p)'
  <2>1. CASE ~map_framebuffer_huge_ok(base, size)
    BY <2>1 DEF MapFramebuffer, Goto
  <2>2. CASE map_framebuffer_huge_ok(base, size)
    <3>1. Touch("framebuffer", UnwritableNow(span), "heap")
      BY <2>2 DEF MapFramebuffer
    <3>2. CASE UnwritableNow(span) = {}
      BY <3>1, <3>2 DEF Touch, Goto
    <3>3. CASE UnwritableNow(span) # {}
      <4>1. pc' = "fault" /\ \E p \in UnwritableNow(span) : fault' = [who |-> "framebuffer", page |-> p]
        BY <3>1, <3>3 DEF Touch, PageFault
      <4> HIDE DEF span
      <4> QED
        BY <2>2, <4>1 DEF UnwritableNow
    <3> QED
      BY <3>2, <3>3
  <2> QED
    BY <2>1, <2>2
<1> HIDE DEF span, base, size
<1>8. OnKernelTables' /\ pc' \in {"heap", "panic", "fault"}
  <2>1. CASE pc' \in {"heap", "panic"} /\ fault' = fault
    BY <1>4, <2>1 DEF OnKernelTables, NoFault
  <2>2. CASE pc' = "fault" /\ \E p \in span : fault' = [who |-> "framebuffer", page |-> p]
    BY <2>2 DEF OnKernelTables
  <2> QED
    BY <1>7, <2>1, <2>2
<1>9. ControlInv'
  <2>1. FullBootInfo' = FullBootInfo
    BY <1>1 DEF FullBootInfo
  <2>2. pc' # "fault" => fault' = NoFault
    BY <1>4, <1>7
  <2>3. pc' \in Pcs /\ pc' \notin {"gop", "memory_map", "paging"}
    BY <1>8 DEF Pcs, Running
  <2> QED
    BY <1>1, <1>2, <1>3, <1>4, <1>8, <2>1, <2>2, <2>3 DEF ControlInv
<1>10. TablesInv'
  BY <1>5 DEF TablesInv
<1>11. DeviceInv'
  <2> SUFFICES ASSUME NEW p \in devices
               PROVE  /\ p \in Pages
                      /\ is_present(pdp[p \div (ENTRY_COUNT * ENTRY_COUNT)])'
                      /\ \/ pd'[p \div ENTRY_COUNT] = Set(p \div ENTRY_COUNT, RW)
                            /\ pt'[p] = MmioEntry(p)
                         \/ Huge(p \div ENTRY_COUNT)'
    BY <1>2 DEF DeviceInv
  <2>1. /\ p \in Pages
        /\ is_present(pdp[p \div (ENTRY_COUNT * ENTRY_COUNT)])
        /\ \/ pd[p \div ENTRY_COUNT] = Set(p \div ENTRY_COUNT, RW) /\ pt[p] = MmioEntry(p)
           \/ Huge(p \div ENTRY_COUNT)
    BY <1>1 DEF BootInv, DeviceInv
  <2>2. \/ pt'[p] = pt[p] /\ pd'[p \div ENTRY_COUNT] = pd[p \div ENTRY_COUNT]
        \/ Huge(p \div ENTRY_COUNT)'
    BY <1>5, <2>1
  <2> QED
    BY <1>5, <2>1, <2>2 DEF Huge
<1> QED
  BY <1>5, <1>9, <1>10, <1>11 DEF BootInv

\* A stopped processor.
LEMMA StoppedStep ==
  ASSUME BootInv, UNCHANGED bootVars
  PROVE  BootInv'
<1>1. machine' = machine /\ pc' = pc /\ boot_info' = boot_info /\ table' = table /\ fault' = fault
      /\ devices' = devices /\ heap' = heap /\ UNCHANGED <<mmconfig, lapic>>
      /\ UNCHANGED pagingVars
  BY DEF bootVars, kernelVars
<1>2. OnKernelTables' <=> OnKernelTables
  BY <1>1 DEF OnKernelTables
<1>3. TablesInv' /\ DeviceInv' /\ NoStaleTlb'
  BY <1>1, <1>2, QuietStep
<1>4. FullBootInfo' = FullBootInfo
  BY <1>1 DEF FullBootInfo
<1>5. LapicOK' /\ MmconfigOK'
  BY <1>1, SameConfig
<1>6. ControlInv'
  BY <1>1, <1>2, <1>4, <1>5 DEF BootInv, ControlInv
<1> QED
  BY <1>3, <1>6 DEF BootInv

-----------------------------------------------------------------------------
(* Theorems *)

\* BootInv is inductive.
LEMMA BootInvariant == Spec => []BootInv
<1>1. BootInv /\ [Next]_bootVars => BootInv'
  <2> SUFFICES ASSUME BootInv, [Next]_bootVars PROVE BootInv'
    OBVIOUS
  <2>1. CASE LocateGop \/ GetMemoryMap \/ load_kernel_elf \/ ExitBootServices
    BY <2>1, LoaderSteps
  <2>2. CASE setup_initial_page_tables
    BY <2>2, JumpStep
  <2>3. CASE PagingInit
    BY <2>3, PagingInitStep
  <2>4. CASE AcpiInit \/ SkipTable \/ TablesDone \/ calibrate_timer \/ InitTimer
    BY <2>4, ReadSteps
  <2>5. CASE parse_madt
    BY <2>5, MadtStep
  <2>6. CASE parse_mcfg
    BY <2>6, McfgStep
  <2>7. CASE parse_hpet
    BY <2>7, HpetStep
  <2>8. CASE scan_pci_bus
    BY <2>8, PciStep
  <2>9. CASE ApicInit
    BY <2>9, ApicStep
  <2>10. CASE MapFramebuffer
    BY <2>10, FramebufferStep
  <2>11. CASE InitHeap
    BY <2>11, HeapStep
  <2>12. CASE UseHeap
    BY <2>12, UseHeapStep
  <2>13. CASE Stopped \/ UNCHANGED bootVars
    BY <2>13, StoppedStep DEF Stopped
  <2> QED
    BY <2>1, <2>2, <2>3, <2>4, <2>5, <2>6, <2>7, <2>8, <2>9, <2>10, <2>11, <2>12, <2>13
       DEF Next
<1> QED
  BY <1>1, BootInit, PTL DEF Spec

\* W^X and the guard page hold from init on, whatever firmware and hardware the
\* kernel meets: neither map_mmio nor map_framebuffer_huge reaches the kernel's
\* entries, and the kernel's tables are never in use without a memory map.
THEOREM BootKernelProtected == Spec => []KernelProtected
<1>1. BootInv => KernelProtected
  <2> SUFFICES ASSUME BootInv, OnKernelTables PROVE KernelMapping
    BY DEF KernelProtected, KernelMapping
  <2> QED
    BY Reach DEF BootInv, ControlInv, TablesInv
<1> QED
  BY <1>1, BootInvariant, PTL

\* A device page keeps its own uncached entry, or the uncached huge page of the
\* framebuffer that swallows it, as long as the boot sequence has not faulted.
THEOREM BootDeviceUncached == Spec => []DeviceUncached
<1>1. BootInv => DeviceUncached
  <2> SUFFICES ASSUME BootInv, pc # "fault", NEW p \in devices
               PROVE  Translate(p).page = p /\ RW \cup {"CacheDisable"} \subseteq Translate(p).flags
    BY DEF DeviceUncached
  <2> DEFINE g == p \div (ENTRY_COUNT * ENTRY_COUNT)
             c == p \div ENTRY_COUNT
  <2>1. p \in Pages /\ is_present(pdp[g])
        /\ ((pd[c] = Set(c, RW) /\ pt[p] = MmioEntry(p)) \/ Huge(c))
    BY DEF BootInv, DeviceInv
  <2>2. pdp[g] = Set(g, RW)
    <3>1. g \in 0 .. MAX_GB - 1
      BY <2>1, PageIndices
    <3>2. TablesOK
      BY DEF BootInv, ControlInv, TablesInv
    <3> HIDE DEF g
    <3>3. pdp[g] = Directory(g)
      BY <3>1, <3>2 DEF TablesOK
    <3> QED
      BY <2>1, <3>3 DEF Directory, is_present, NewEntry
  <2>3. CASE Huge(c)
    BY <2>1, <2>2, <2>3, HugeWritable
  <2>4. CASE pd[c] = Set(c, RW) /\ pt[p] = MmioEntry(p)
    <3>1. pt[p] = Set(p * PAGE_SIZE, RW \cup {"CacheDisable"})
          /\ "Present" \in RW \cup {"CacheDisable"}
      BY <2>4 DEF MmioEntry, RW
    <3>2. Translate(p) = [page |-> p, flags |-> RW \cup {"CacheDisable"}]
      BY <2>1, <2>2, <2>4, <3>1, EntryWritable
    <3> QED
      BY <3>2
  <2> QED
    BY <2>1, <2>3, <2>4
<1> QED
  BY <1>1, BootInvariant, PTL

\* Every write of the tables that changes a translation is followed by a flush:
\* where map_mmio returns early without one, nothing was written.
THEOREM BootNoStaleTlb == Spec => []NoStaleTlb
BY BootInvariant, PTL DEF BootInv

\* Memory that BootInfo reports below the mapped maximum, outside MMIO and the
\* kernel's read-only pages, is mapped to itself and writable from init on: the
\* entries init writes survive map_mmio and the framebuffer, or what replaces them
\* is writable too.
THEOREM BootMemoryUsable == Spec => []MemoryUsable
<1>1. BootInv => MemoryUsable
  <2> SUFFICES ASSUME BootInv, OnKernelTables, NEW p \in Pages, InDirectMap(p),
                      p \notin TextPages \cup RodataPages \cup {GuardPage}
               PROVE  CanWrite(p) /\ Translate(p).page = p
    BY DEF MemoryUsable
  <2>1. p \in Nat
    BY PageIndices
  <2>2. machine \in Machines /\ TablesOK
    BY DEF BootInv, ControlInv, TablesInv
  <2> QED
    BY <2>1, <2>2, Reach, Zenon
<1> QED
  BY <1>1, BootInvariant, PTL

=============================================================================
