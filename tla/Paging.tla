------------------------------- MODULE Paging -------------------------------
(***************************************************************************)
(* The kernel's direct mapping (kernel/src/paging.rs): the page tables CR3 *)
(* points at, the operations that write them, and the translations the TLB *)
(* may hold.  An address is a number of units, PAGE_SIZE to a page; a      *)
(* virtual address is the physical one plus KERNEL_VIRTUAL_BASE, which is  *)
(* left out.  A chunk is what one page table covers (2 MiB in the code).   *)
(*                                                                         *)
(* The operations assert that interrupts are off; all callers run before   *)
(* the boot sequence first enables them, so each is one step.              *)
(***************************************************************************)
EXTENDS Integers, Sequences, FiniteSets

CONSTANTS PAGE_SIZE,
          ENTRY_COUNT,     \* PAGE_TABLE_ENTRY_COUNT
          MAX_GB,          \* MAX_SUPPORTED_MEMORY_GB
          MAX_MMIO,        \* MMIO ranges extract_mmio_regions keeps
          TextStart, RodataStart, DataStart, BssEnd, StackEnd  \* linker.ld, as page numbers

ASSUME PagingAssumption ==
  /\ {PAGE_SIZE, ENTRY_COUNT, MAX_GB, MAX_MMIO} \subseteq Nat \ {0}
  /\ {TextStart, RodataStart, DataStart, BssEnd, StackEnd} \subseteq Nat
  /\ TextStart < RodataStart /\ RodataStart < DataStart
  /\ DataStart < BssEnd /\ BssEnd + 1 < StackEnd
  /\ StackEnd <= MAX_GB * ENTRY_COUNT * ENTRY_COUNT

PT_COUNT == MAX_GB * ENTRY_COUNT
PAGE_TABLE_COVERAGE == ENTRY_COUNT * PAGE_SIZE
Chunks == 0 .. PT_COUNT - 1
Pages == 0 .. PT_COUNT * ENTRY_COUNT - 1

\* linker.ld: one guard page lies between .bss and the stack.
TextPages == TextStart .. RodataStart - 1
RodataPages == RodataStart .. DataStart - 1
DataPages == DataStart .. BssEnd - 1
GuardPage == BssEnd
StackPages == BssEnd + 1 .. StackEnd - 1
KernelImage == TextStart .. StackEnd - 1

PageTableFlags == {"Present", "Writable", "CacheDisable", "HugePage", "NoExecute"}

\* In an entry that refers to a table, addr is the index of that table.
PageTableEntry == [addr : Nat, flags : SUBSET PageTableFlags]
NewEntry == [addr |-> 0, flags |-> {}]
Set(a, flags) == [addr |-> a, flags |-> flags]
is_present(e) == "Present" \in e.flags
is_huge_page(e) == "HugePage" \in e.flags

VARIABLES pdp,   \* KERNEL_PDP_HIGH, the first MAX_GB entries
          pd,    \* KERNEL_PD_HIGH, the MAX_GB directories end to end
          pt,    \* KERNEL_PT_HIGH, the PT_COUNT tables end to end
          tlb    \* translations the CPU may hold: <<page, translation>>

tables == <<pdp, pd, pt>>
pagingVars == <<pdp, pd, pt, tlb>>

NoPage == [page |-> 0, flags |-> {}]

\* The walk of the MMU.  A page is writable when every level says so, and not
\* executable when any level says so.
Translate(p) ==
  LET g == p \div (ENTRY_COUNT * ENTRY_COUNT)
      e3 == pdp[g]
      e2 == pd[(e3.addr * ENTRY_COUNT) + ((p \div ENTRY_COUNT) % ENTRY_COUNT)]
      e1 == pt[(e2.addr * ENTRY_COUNT) + (p % ENTRY_COUNT)]
      Leaf(page, e, above) ==
        [page |-> page, flags |-> IF "Writable" \in above THEN e.flags
                                                          ELSE e.flags \ {"Writable"}]
  IN IF p \notin Pages \/ ~is_present(e3) \/ ~is_present(e2) THEN NoPage
     ELSE IF is_huge_page(e2)
          THEN Leaf((e2.addr \div PAGE_SIZE) + (p % ENTRY_COUNT), e2, e3.flags)
     ELSE IF is_present(e1) THEN Leaf(e1.addr \div PAGE_SIZE, e1, e3.flags \cap e2.flags)
     ELSE NoPage

Mapped(p) == is_present(Translate(p))
CanWrite(p) == Mapped(p) /\ "Writable" \in Translate(p).flags

Translations == {<<p, Translate(p)>> : p \in {q \in Pages : Mapped(q)}}

\* write_cr3 and reload_cr3 drop every cached translation.  The CPU may then
\* cache what the tables say, at any time.
reload_cr3 == tlb' = Translations'
NoFlush == tlb' = tlb \cup Translations'

Min2(a, b) == IF a < b THEN a ELSE b
DivUp(a, n) == (a + n - 1) \div n
Page(a) == a \div PAGE_SIZE
PageSpan(a, size) == Page(a) .. Page(a + size - 1)

phys_to_virt_ok(a) == a # 0
is_2mb_aligned(a) == a % PAGE_TABLE_COVERAGE = 0

-----------------------------------------------------------------------------
(* init *)

\* The first MAX_MMIO ranges of the memory map that are MMIO.
IsMmio(r) == r.type = "mmio"
extract_mmio_regions(map) ==
  LET upTo(i) == {j \in 1 .. i : IsMmio(map[j])}
  IN {map[i] : i \in {j \in upTo(Len(map)) : Cardinality(upTo(j)) <= MAX_MMIO}}

\* Mutant: the page after a range counts as inside.
is_mmio_region_binary_OffByOne(a, ranges) ==
  \E r \in ranges : r.start <= a /\ a <= r.start + r.size

\* The search over the sorted ranges looks at one: the last that starts at or
\* before the address.
is_mmio_region_binary(a, ranges) ==
  LET before == {r \in ranges : r.start <= a}
  IN /\ before # {}
     /\ LET candidate == CHOOSE r \in before : \A s \in before : s.start <= r.start
        IN a < candidate.start + candidate.size

actual_max(max_phys) == Min2(max_phys, PT_COUNT * PAGE_TABLE_COVERAGE)
required_pt_count(max_phys) == DivUp(actual_max(max_phys), PAGE_TABLE_COVERAGE)

RW == {"Present", "Writable"}

\* Every page of memory outside the kernel's sections and MMIO.
DirectEntries(map, max_phys) ==
  LET ranges == extract_mmio_regions(map) IN
  [p \in Pages |->
     IF /\ p * PAGE_SIZE < actual_max(max_phys)
        /\ ~(TextStart <= p /\ p < BssEnd)
        /\ ~is_mmio_region_binary(p * PAGE_SIZE, ranges)
     THEN Set(p * PAGE_SIZE, RW) ELSE NewEntry]

\* Mutant: the guard page keeps the mapping of ordinary memory.
WithGuardPage_Skipped(t) == t

WithGuardPage(t) == [t EXCEPT ![GuardPage] = Set(GuardPage * PAGE_SIZE, {})]

\* W^X: .text, .rodata, and .data with .bss.
WithSections(t) ==
  [p \in Pages |->
     CASE p \in TextPages -> Set(p * PAGE_SIZE, {"Present"})
       [] p \in RodataPages -> Set(p * PAGE_SIZE, {"Present", "NoExecute"})
       [] p \in DataPages -> Set(p * PAGE_SIZE, RW \cup {"NoExecute"})
       [] OTHER -> t[p]]

\* Tables are linked up to the last one needed only.
init(map, max_phys) ==
  LET n == required_pt_count(max_phys) IN
  /\ pdp' = [g \in 0 .. MAX_GB - 1 |->
               IF g < DivUp(n, ENTRY_COUNT) THEN Set(g, RW) ELSE NewEntry]
  /\ pd' = [c \in Chunks |-> IF c < n THEN Set(c, RW) ELSE NewEntry]
  /\ pt' = WithSections(WithGuardPage(DirectEntries(map, max_phys)))
  /\ reload_cr3

-----------------------------------------------------------------------------
(* map_mmio: the entries are written page by page until one is out of range, *)
(* in which case the TLB is not flushed; address 0 is refused at the end.    *)

MmioEntry(p) == Set(p * PAGE_SIZE, RW \cup {"CacheDisable"})
MmioPages(a, size) == Page(a) .. Page(a) + DivUp(size, PAGE_SIZE) - 1
MmioInRange(a, size) == MmioPages(a, size) \subseteq Pages

map_mmio_ok(a, size) == a % PAGE_SIZE = 0 /\ MmioInRange(a, size) /\ phys_to_virt_ok(a)

\* Mutant: the TLB is not flushed.
map_mmio_NoReload(a, size) ==
  /\ pt' = IF a % PAGE_SIZE # 0 THEN pt
           ELSE [p \in Pages |-> IF p \in MmioPages(a, size) THEN MmioEntry(p) ELSE pt[p]]
  /\ UNCHANGED <<pdp, pd>>
  /\ NoFlush

map_mmio(a, size) ==
  /\ pt' = IF a % PAGE_SIZE # 0 THEN pt
           ELSE [p \in Pages |-> IF p \in MmioPages(a, size) THEN MmioEntry(p) ELSE pt[p]]
  /\ UNCHANGED <<pdp, pd>>
  /\ IF a % PAGE_SIZE = 0 /\ MmioInRange(a, size) THEN reload_cr3 ELSE NoFlush

-----------------------------------------------------------------------------
(* map_framebuffer_huge: for each chunk, clear_4kb_mappings_for_huge_page    *)
(* and then map_huge_2mb, which refuses an entry that still refers to a page *)
(* table, flushes the TLB and then refuses address 0.  The loop stops at the *)
(* first error.                                                              *)

FramebufferChunks(base, size) ==
  LET first == base \div PAGE_TABLE_COVERAGE
  IN first .. first + DivUp(size, PAGE_TABLE_COVERAGE) - 1

ClearedPt(cs) == [p \in Pages |-> IF p \div ENTRY_COUNT \in cs THEN NewEntry ELSE pt[p]]
ClearedPd(cs) == [c \in Chunks |-> IF c \in cs THEN NewEntry ELSE pd[c]]

\* Mutant: mapped like memory, cacheable.
HugeEntry_Cached(c) == Set(c * PAGE_TABLE_COVERAGE, RW \cup {"HugePage", "NoExecute"})

HugeEntry(c) == Set(c * PAGE_TABLE_COVERAGE, RW \cup {"HugePage", "CacheDisable", "NoExecute"})

Conflict(e) == is_present(e) /\ ~is_huge_page(e)

HugeChunks(base, size) ==
  LET cs == FramebufferChunks(base, size) IN
  {c \in cs : \A d \in cs :
     /\ d <= c => d \in Chunks /\ ~Conflict(ClearedPd(cs)[d])
     /\ d < c => phys_to_virt_ok(d * PAGE_TABLE_COVERAGE)}

map_framebuffer_huge_ok(base, size) ==
  /\ is_2mb_aligned(base) => HugeChunks(base, size) = FramebufferChunks(base, size)
  /\ phys_to_virt_ok(base)

map_framebuffer_huge(base, size) ==
  LET done == HugeChunks(base, size) IN
  IF is_2mb_aligned(base) /\ done # {}
  THEN /\ pd' = [c \in Chunks |-> IF c \in done THEN HugeEntry(c) ELSE pd[c]]
       /\ pt' = ClearedPt(done)
       /\ pdp' = pdp
       /\ reload_cr3
  ELSE UNCHANGED tables /\ NoFlush
=============================================================================
