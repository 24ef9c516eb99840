-------------------------------- MODULE Boot --------------------------------
(***************************************************************************)
(* From the firmware to the first task: the bootloader (efi_main), then    *)
(* kernel_main_inner, which switches to its own page tables, reads the     *)
(* ACPI tables, scans PCI, brings up the Local APIC and the framebuffer    *)
(* and gives the largest free region to the heap.  One processor, with     *)
(* interrupts off: the steps are sequential, and what varies is the        *)
(* machine, and which calls of the firmware fail.                          *)
(***************************************************************************)
EXTENDS Paging

CONSTANTS Machines,          \* what firmware and hardware may be (see MachineOK)
          MAX_MEMORY_REGIONS,
          BusSpan,           \* configuration space the scan reads on a bus, in units
          NumBuses,
          DEFAULT_APIC_PHYS_BASE

\* map: the UEFI memory map, sorted; fb: the framebuffer; rsdp: "none", "bad" or
\* "good"; tables: the ACPI tables behind a good one, in order.  Nothing a device
\* decodes lies on the memory that holds the kernel.
MemoryRegion == [start : Nat, size : Nat \ {0}, type : {"conventional", "mmio", "other"}]

MapOK(map) ==
  /\ map \in Seq(MemoryRegion)
  /\ \A i \in 1 .. Len(map) :
       LET r == map[i] IN
       /\ r.start % PAGE_SIZE = 0 /\ r.size % PAGE_SIZE = 0
       /\ \A j \in 1 .. i - 1 : map[j].start + map[j].size <= r.start
  /\ \A p \in KernelImage : \E i \in 1 .. Len(map) :
       map[i].type # "mmio" /\ p \in PageSpan(map[i].start, map[i].size)

FramebufferOK(fb) ==
  /\ fb.base \in Nat /\ fb.size \in Nat \ {0}
  /\ PageSpan(fb.base, fb.size) \cap KernelImage = {}
  /\ FramebufferChunks(fb.base, fb.size) \cap {p \div ENTRY_COUNT : p \in KernelImage} = {}

BusPages(base, bus) == PageSpan(base + bus * BusSpan, BusSpan)

TableOK(t) ==
  /\ t.sig \in {"HPET", "APIC"} => t.addr \in Nat /\ Page(t.addr) \notin KernelImage
  /\ t.sig = "MCFG" => Len(t.entries) \in Nat /\ \A i \in 1 .. Len(t.entries) :
       LET e == t.entries[i] IN
       /\ {e.base, e.first, e.last} \subseteq Nat
       /\ \A bus \in e.first .. e.last : BusPages(e.base, bus) \cap KernelImage = {}

MachineOK(m) ==
  /\ MapOK(m.map) /\ FramebufferOK(m.fb)
  /\ Len(m.tables) \in Nat /\ \A i \in 1 .. Len(m.tables) : TableOK(m.tables[i])

ASSUME BootAssumption ==
  /\ \A m \in Machines : MachineOK(m)
  /\ {MAX_MEMORY_REGIONS, NumBuses, BusSpan} \subseteq Nat \ {0}
  /\ DEFAULT_APIC_PHYS_BASE \in Nat /\ DEFAULT_APIC_PHYS_BASE % PAGE_SIZE = 0
  /\ Page(DEFAULT_APIC_PHYS_BASE) \notin KernelImage

VARIABLES machine, pc,
          boot_info,   \* memory_map and max_physical_address
          table,       \* ACPI tables parsed so far
          mmconfig,    \* MMCONFIG_BASE, _START_BUS, _END_BUS
          lapic,       \* LOCAL_APIC_ADDRESS, 0 if not found
          devices,     \* pages of HPET and APIC registers in use
          heap,        \* pages given to the allocator
          fault        \* the access that found its page unmapped or read-only

kernelVars == <<mmconfig, lapic, devices, heap>>
bootVars == <<machine, pc, boot_info, table, kernelVars, fault, pagingVars>>

NoBootInfo == [memory_map |-> <<>>, max_physical_address |-> 0]
NoFault == [who |-> "none", page |-> 0]

Init ==
  /\ machine \in Machines
  /\ pc = "gop"
  /\ boot_info = NoBootInfo
  /\ table = 0
  /\ mmconfig = [base |-> 0, first |-> 0, last |-> 0]
  /\ lapic = 0 /\ devices = {} /\ heap = {}
  /\ fault = NoFault
  /\ pdp = [g \in 0 .. MAX_GB - 1 |-> NewEntry]
  /\ pd = [c \in Chunks |-> NewEntry]
  /\ pt = [p \in Pages |-> NewEntry]
  /\ tlb = {}

Goto(l) == pc' = l /\ fault' = fault

\* The page fault handler reports and halts.
PageFault(who, ps) ==
  /\ pc' = "fault"
  /\ \E p \in ps : fault' = [who |-> who, page |-> p]

Unmapped(ps) == {p \in ps : ~Mapped(p)}
Unwritable(ps) == {p \in ps : ~CanWrite(p)}
UnwritableNow(ps) == {p \in ps : ~CanWrite(p)'}  \* in the tables the step has written

\* A step whose accesses fault on the pages bad; without any, control goes to l.
Touch(who, bad, l) == IF bad = {} THEN Goto(l) ELSE PageFault(who, bad)

-----------------------------------------------------------------------------
(* The bootloader.  "halted": it prints an error and stops.                  *)

LocateGop ==
  /\ pc = "gop"
  /\ Goto("memory_map") \/ Goto("halted")
  /\ UNCHANGED <<machine, boot_info, table, kernelVars, pagingVars>>

analyze_memory_map(map) ==
  LET ends == {map[i].start + map[i].size : i \in 1 .. Len(map)} \cup {0}
  IN CHOOSE e \in ends : \A f \in ends : f <= e

\* The map is copied up to the capacity of BootInfo but analyzed in full.
\* A failure leaves BootInfo empty and is not reported.
GetMemoryMap ==
  /\ pc = "memory_map"
  /\ \/ boot_info' = [memory_map |-> SubSeq(machine.map, 1, Min2(Len(machine.map),
                                                               MAX_MEMORY_REGIONS)),
                      max_physical_address |-> analyze_memory_map(machine.map)]
     \/ UNCHANGED boot_info
  /\ Goto("load")
  /\ UNCHANGED <<machine, table, kernelVars, pagingVars>>

\* The file system, kernel.elf and its header.  The segments go to the
\* addresses they are linked at, which are not allocated from the firmware.
load_kernel_elf ==
  /\ pc = "load"
  /\ Goto("exit") \/ Goto("halted")
  /\ UNCHANGED <<machine, boot_info, table, kernelVars, pagingVars>>

\* The map is fetched again for its key; BootInfo keeps the first one.
ExitBootServices ==
  /\ pc = "exit"
  /\ Goto("jump") \/ Goto("halted")
  /\ UNCHANGED <<machine, boot_info, table, kernelVars, pagingVars>>

\* Huge pages for the memory there is, up to MAX_GB.
setup_initial_page_tables ==
  LET max == boot_info.max_physical_address
      required_gb == Min2(DivUp(max, ENTRY_COUNT * PAGE_TABLE_COVERAGE), MAX_GB)
  IN /\ pc = "jump"
     /\ pdp' = [g \in 0 .. MAX_GB - 1 |->
                  IF g < required_gb THEN Set(g, RW) ELSE NewEntry]
     /\ pd' = [c \in Chunks |->
                 IF c \div ENTRY_COUNT < required_gb /\ c * PAGE_TABLE_COVERAGE < max
                 THEN Set(c * PAGE_TABLE_COVERAGE, RW \cup {"HugePage"}) ELSE NewEntry]
     /\ pt' = pt
     /\ reload_cr3
     /\ Touch("jump", UnwritableNow(KernelImage), "paging")
     /\ UNCHANGED <<machine, boot_info, table, kernelVars>>

-----------------------------------------------------------------------------
(* The kernel.  "panic": an expect() failed.                                 *)

PagingInit ==
  /\ pc = "paging"
  /\ init(boot_info.memory_map, boot_info.max_physical_address)
  /\ Goto("acpi")
  /\ UNCHANGED <<machine, boot_info, table, kernelVars>>

\* An RSDP that is missing or fails its checks: the kernel goes on without.
AcpiInit ==
  /\ pc = "acpi"
  /\ Goto(IF machine.rsdp = "good" THEN "tables" ELSE "pci")
  /\ UNCHANGED <<machine, boot_info, table, kernelVars, pagingVars>>

Current == machine.tables[table + 1]
AtTable(sig) ==
  /\ pc = "tables" /\ table < Len(machine.tables)
  /\ Current.sig = sig
  /\ table' = table + 1

\* A table with a bad checksum, or of another kind, is skipped.
SkipTable ==
  /\ pc = "tables" /\ table < Len(machine.tables)
  /\ ~Current.valid \/ Current.sig \notin {"APIC", "MCFG", "HPET"}
  /\ table' = table + 1
  /\ Goto("tables")
  /\ UNCHANGED <<machine, boot_info, kernelVars, pagingVars>>

TablesDone ==
  /\ pc = "tables" /\ table = Len(machine.tables)
  /\ Goto("pci")
  /\ UNCHANGED <<machine, boot_info, table, kernelVars, pagingVars>>

parse_madt ==
  /\ AtTable("APIC") /\ Current.valid
  /\ lapic' = Current.addr
  /\ Goto("tables")
  /\ UNCHANGED <<machine, boot_info, mmconfig, devices, heap, pagingVars>>

\* set_mmconfig is called for each entry; of segment 0, the last one stays.
set_mmconfig(entries) ==
  LET used == {i \in 1 .. Len(entries) : entries[i].segment = 0}
      last == CHOOSE i \in used : \A j \in used : j <= i
  IN mmconfig' = IF used = {} THEN mmconfig
                 ELSE [base |-> entries[last].base, first |-> entries[last].first,
                       last |-> entries[last].last]

parse_mcfg ==
  /\ AtTable("MCFG") /\ Current.valid
  /\ set_mmconfig(Current.entries)
  /\ Goto("tables")
  /\ UNCHANGED <<machine, boot_info, lapic, devices, heap, pagingVars>>

\* hpet::init maps the registers and reads them at once.  An error is logged.
parse_hpet ==
  /\ AtTable("HPET") /\ Current.valid
  /\ IF Current.memory
     THEN /\ map_mmio(Current.addr, PAGE_SIZE)
          /\ IF map_mmio_ok(Current.addr, PAGE_SIZE)
             THEN /\ devices' = devices \cup {Page(Current.addr)}
                  /\ Touch("device", UnwritableNow({Page(Current.addr)}), "tables")
             ELSE Goto("tables") /\ UNCHANGED devices
     ELSE Goto("tables") /\ UNCHANGED <<devices, pagingVars>>
  /\ UNCHANGED <<machine, boot_info, mmconfig, lapic, heap>>

is_mmconfig_available(bus) ==
  mmconfig.base # 0 /\ mmconfig.first <= bus /\ bus <= mmconfig.last

\* The configuration space of each bus, where MMCONFIG covers it; the others
\* are read through the I/O ports.
MmconfigPages ==
  UNION {BusPages(mmconfig.base, bus) :
           bus \in {b \in 0 .. NumBuses - 1 : is_mmconfig_available(b)}}

scan_pci_bus ==
  /\ pc = "pci"
  /\ UNCHANGED <<machine, boot_info, table, kernelVars, pagingVars>>
  /\ Touch("pci", Unmapped(MmconfigPages), "apic")

apic_phys_base ==
  IF lapic # 0 /\ lapic % PAGE_SIZE = 0 THEN lapic ELSE DEFAULT_APIC_PHYS_BASE

\* enable_apic maps the registers and writes one at once.
ApicInit ==
  /\ pc = "apic"
  /\ map_mmio(apic_phys_base, PAGE_SIZE)
  /\ IF map_mmio_ok(apic_phys_base, PAGE_SIZE)
     THEN /\ devices' = devices \cup {Page(apic_phys_base)}
          /\ Touch("device", UnwritableNow({Page(apic_phys_base)}), "calibrate")
     ELSE Goto("panic") /\ UNCHANGED devices
  /\ UNCHANGED <<machine, boot_info, table, mmconfig, lapic, heap>>

\* Measured against the HPET or the PIT; a frequency of 0 is an error.
calibrate_timer ==
  /\ pc = "calibrate"
  /\ Goto("framebuffer") \/ Goto("panic")
  /\ UNCHANGED <<machine, boot_info, table, kernelVars, pagingVars>>

\* The framebuffer is mapped, and cleared to black.
MapFramebuffer ==
  LET fb == machine.fb IN
  /\ pc = "framebuffer"
  /\ map_framebuffer_huge(fb.base, fb.size)
  /\ IF map_framebuffer_huge_ok(fb.base, fb.size)
     THEN Touch("framebuffer", UnwritableNow(PageSpan(fb.base, fb.size)), "heap")
     ELSE Goto("panic")
  /\ UNCHANGED <<machine, boot_info, table, kernelVars>>

Conventional(map) == {i \in 1 .. Len(map) : map[i].type = "conventional"}

\* The first of the largest conventional regions.
Largest(map) ==
  CHOOSE i \in Conventional(map) : \A j \in Conventional(map) :
    \/ map[j].size < map[i].size
    \/ map[j].size = map[i].size /\ i <= j

\* init_heap writes a node into every block of the slabs, which fill the first
\* half, and into the first page of each block the buddy's half is cut into
\* (module Buddy says which these are; here they may be any).
InitHeap ==
  LET map == boot_info.memory_map
      r == map[Largest(map)]
  IN /\ pc = "heap"
     /\ IF Conventional(map) = {} THEN Goto("no_heap") /\ UNCHANGED heap
        ELSE IF ~phys_to_virt_ok(r.start) THEN Goto("panic") /\ UNCHANGED heap
        ELSE /\ heap' = PageSpan(r.start, r.size)
             /\ \E nodes \in SUBSET PageSpan(r.start, r.size) :
                  Touch("heap", Unwritable(PageSpan(r.start, (r.size \div 2) + 1) \cup nodes),
                        "timer")
     /\ UNCHANGED <<machine, boot_info, table, mmconfig, lapic, devices, pagingVars>>

\* The timers' queue and the APIC timer, whose frequency is known by now.
InitTimer ==
  /\ pc = "timer"
  /\ Goto("up")
  /\ UNCHANGED <<machine, boot_info, table, kernelVars, pagingVars>>

\* A task writes to memory it got from the allocator.
UseHeap ==
  /\ pc = "up"
  /\ UNCHANGED <<machine, boot_info, table, kernelVars, pagingVars>>
  /\ \E p \in heap : Touch("heap", Unwritable({p}), "up")

\* A halted processor, or KernelMain blocked for want of a heap.
Stopped ==
  /\ pc \in {"halted", "panic", "no_heap", "fault"}
  /\ UNCHANGED bootVars

Next ==
  \/ LocateGop \/ GetMemoryMap \/ load_kernel_elf \/ ExitBootServices
  \/ setup_initial_page_tables \/ PagingInit \/ AcpiInit \/ SkipTable \/ TablesDone
  \/ parse_madt \/ parse_mcfg \/ parse_hpet \/ scan_pci_bus \/ ApicInit
  \/ calibrate_timer \/ MapFramebuffer \/ InitHeap \/ InitTimer \/ UseHeap \/ Stopped

Spec == Init /\ [][Next]_bootVars

-----------------------------------------------------------------------------
(* Properties *)

OnKernelTables ==
  /\ pc \notin {"gop", "memory_map", "load", "exit", "jump", "paging", "halted"}
  /\ fault.who # "jump"

\* W^X and the guard page (paging.rs init): from the moment CR3 holds the
\* kernel's tables, whatever is mapped later, code is read-only, constants and
\* data cannot be executed, the stack can be written and the page below it has
\* no mapping.
KernelProtected ==
  OnKernelTables =>
    /\ \A p \in TextPages : Translate(p) = [page |-> p, flags |-> {"Present"}]
    /\ \A p \in RodataPages : Translate(p) = [page |-> p, flags |-> {"Present", "NoExecute"}]
    /\ \A p \in DataPages : Translate(p) = [page |-> p, flags |-> RW \cup {"NoExecute"}]
    /\ \A p \in StackPages : CanWrite(p) /\ Translate(p).page = p
    /\ ~Mapped(GuardPage)

\* map_mmio's promise of uncached registers outlives later mappings: also when
\* the framebuffer's last huge page swallows the page of HPET or APIC.
DeviceUncached ==
  pc # "fault" => \A p \in devices :
    Translate(p).page = p /\ RW \cup {"CacheDisable"} \subseteq Translate(p).flags

\* No operation on the page tables (map_mmio, map_huge_2mb, init) leaves behind
\* a cached translation that differs from the tables.
NoStaleTlb == tlb \subseteq Translations

InDirectMap(p) ==
  /\ p * PAGE_SIZE < actual_max(boot_info.max_physical_address)
  /\ \A i \in 1 .. Len(boot_info.memory_map) :
       LET r == boot_info.memory_map[i]
       IN r.type = "mmio" => p \notin PageSpan(r.start, r.size)

\* Memory that the map reports and init can reach stays usable to the end: every
\* such page outside MMIO, .text, .rodata and the guard page is mapped to itself
\* and can be written, whatever the binary search says at the ends of the MMIO
\* ranges, and although map_mmio and the framebuffer's huge pages replace entries
\* and page tables later, or fail half way.
MemoryUsable ==
  OnKernelTables =>
    \A p \in Pages :
      InDirectMap(p) /\ p \notin TextPages \cup RodataPages \cup {GuardPage} =>
        CanWrite(p) /\ Translate(p).page = p

-----------------------------------------------------------------------------
(* What comments promise and the code does not do (see README) *)

\* main.rs:323-326: the region the heap is given is not used by the kernel.
HeapUnused == heap \cap KernelImage = {}

\* paging.rs:646-648: the registers map_mmio has mapped can be accessed.
MmioAccessible == fault.who # "device"

\* paging.rs:1156, 1184: init has mapped a framebuffer that is not aligned.
FramebufferPremapped ==
  fault.who = "framebuffer" => is_2mb_aligned(machine.fb.base)
=============================================================================
