------------------------------- MODULE MCBoot -------------------------------
(* Machines for Boot.  16 pages can be mapped (2 pages to a chunk, 4 to a    *)
(* directory); the kernel is loaded at page 2.                               *)
EXTENDS Boot

Region(first, end, type) ==
  [start |-> first * PAGE_SIZE, size |-> (end - first) * PAGE_SIZE, type |-> type]

Maps == {
  \* The kernel inside the largest region.
  <<Region(0, 1, "conventional"), Region(2, 9, "conventional"), Region(10, 12, "mmio"),
    Region(14, 15, "mmio")>>,
  \* Free memory between three MMIO ranges, one more than are kept; a directory
  \* less than the APIC's default address needs.
  <<Region(0, 7, "other"), Region(7, 8, "mmio"), Region(8, 10, "conventional"),
    Region(10, 11, "mmio"), Region(11, 12, "mmio")>>,
  \* More entries than BootInfo holds.
  <<Region(0, 1, "other"), Region(1, 7, "other"), Region(7, 10, "conventional"),
    Region(10, 11, "mmio"), Region(12, 13, "conventional"), Region(14, 16, "mmio")>>,
  \* More memory than can be mapped.
  <<Region(0, 8, "other"), Region(8, 12, "conventional"), Region(13, 20, "conventional")>>,
  \* The largest free region starts at address 0.
  <<Region(0, 7, "conventional"), Region(7, 14, "other"), Region(14, 16, "mmio")>>,
  \* No free memory; a page table less than the APIC's default address needs.
  <<Region(0, 10, "other"), Region(10, 12, "mmio"), Region(12, 13, "other")>> }

Framebuffers == {[base |-> f[1], size |-> f[2]] :
  f \in {<<20, 2>>, <<20, 7>>, <<22, 3>>, <<28, 8>>, <<28, 4>>, <<32, 4>>, <<0, 2>>, <<24, 4>>}}

Hpet(a, v, m) == [sig |-> "HPET", valid |-> v, addr |-> a, memory |-> m]
Madt(a) == [sig |-> "APIC", valid |-> TRUE, addr |-> a]
Mcfg(es) == [sig |-> "MCFG", valid |-> TRUE,
             entries |-> [i \in 1 .. Len(es) |-> [base |-> es[i][1], segment |-> es[i][2],
                                                  first |-> es[i][3], last |-> es[i][4]]]]
Facp == [sig |-> "FACP", valid |-> TRUE]

Tables == {
  <<>>,
  <<Facp, Hpet(22, TRUE, TRUE), Madt(24)>>,
  <<Hpet(28, TRUE, TRUE), Madt(25)>>,
  <<Hpet(23, TRUE, TRUE), Hpet(22, FALSE, TRUE), Madt(26)>>,
  <<Hpet(32, TRUE, TRUE), Hpet(22, TRUE, FALSE)>>,
  <<Madt(32)>>,
  <<Madt(22)>>,
  <<Mcfg(<<<<16, 0, 0, 0>>, <<18, 0, 1, 1>>, <<28, 1, 0, 1>>>>), Madt(22)>>,
  <<Mcfg(<<<<18, 0, 0, 1>>>>), Hpet(22, TRUE, TRUE)>> }

MCMachines ==
  {m \in [map : Maps, fb : Framebuffers, rsdp : {"good"}, tables : Tables]
           \cup [map : Maps, fb : Framebuffers, rsdp : {"none", "bad"}, tables : {<<>>}] :
     MachineOK(m)}
=============================================================================
