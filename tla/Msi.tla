-------------------------------- MODULE Msi --------------------------------
(***************************************************************************)
(* MSI and MSI-X of one PCI device (kernel/src/msi.rs), with the walk of   *)
(* its capability list and the reading of its BARs (kernel/src/pci.rs).    *)
(*                                                                         *)
(* A call validates its arguments and reads registers that only the driver *)
(* changes, then writes registers one after the other.  The device may     *)
(* signal between any two writes: Messages is what it may send.            *)
(*                                                                         *)
(* Nothing in the kernel calls these functions yet.  The driver assumed    *)
(* here uses one mechanism at a time, unmasks only entries it has          *)
(* configured, and makes one call at a time (pci.rs:459-461).              *)
(***************************************************************************)
EXTENDS Integers, Sequences, SequencesExt, FiniteSetsExt

CONSTANTS Devices,    \* what may be found: see DeviceOK
          NumSlots,   \* double words that can hold a capability
          MaxWalk,    \* bound of find_capability's loop, 48
          MIN_MSI_VECTOR, MAX_MSI_VECTOR,
          Vectors,    \* vectors asked for, valid and not
          LAPIC_MSI_ADDRESS_BASE,
          Stale,      \* what the firmware left in a register
          AddressMax  \* largest u64

\* From offset 0x40 on, where PCI puts capabilities.  find_capability follows
\* pointers below that too (pci.rs:117-135), which would make lists longer.
Slots == 1 .. NumSlots

\* A device: its capability list, whether MSI has 64-bit addresses, the size of
\* the MSI-X table and the BAR that holds it, FUNCTION_MASK, and the mechanism
\* that the firmware left enabled (MSI-X only if it could write the table).
DeviceOK(d) ==
  /\ d.listed \in BOOLEAN /\ d.pointer \in 0 .. NumSlots
  /\ d.next \in [Slots -> 0 .. NumSlots]
  /\ d.id \in [Slots -> {"MSI", "MSIX", "other"}]
  /\ d.is64 \in BOOLEAN /\ d.fmask \in BOOLEAN
  /\ d.table_size \in Nat \ {0}
  /\ d.bar.index \in 0 .. 7 /\ d.bar.kind \in {"unused", "io", "mem32", "pref32", "mem64"}
  /\ d.bar.base \in Nat /\ d.bar.offset \in Nat
  /\ d.left \in {"none", "msi", "msix"}
  /\ d.left = "msix" => d.bar.base # 0

ASSUME MsiAssumption ==
  /\ \A d \in Devices : DeviceOK(d)
  \* (0x100 - 0x40) / 4 is 48: a list without a cycle is never longer.
  /\ NumSlots \in Nat /\ MaxWalk = NumSlots
  /\ MIN_MSI_VECTOR \in Nat /\ MAX_MSI_VECTOR \in Nat /\ Vectors \subseteq Nat
  /\ Stale \in Nat \ (Vectors \cup {0, LAPIC_MSI_ADDRESS_BASE})

VARIABLES
  device,  \* the device, chosen once
  config,  \* its registers in configuration space
  table,   \* its MSI-X table, by entry
  call,    \* the call in progress: its result, the writes to come, and ghosts
  handle,  \* the driver holds the MsixConfig of a successful configure_msix
  mode,    \* history: mechanism of the last call that succeeded
  asked,   \* history: messages each source may send
  hushed   \* history: entries the driver has masked or not configured

vars == <<device, config, table, call, handle, mode, asked, hushed>>

NoCall == [res |-> "none"]

Entries == 0 .. device.table_size - 1
MsiSource == -1
Sources == {MsiSource} \cup Entries

-----------------------------------------------------------------------------
(* The device: the messages it sends are read from its registers. *)

Message(addr, upper, data) == [addr |-> addr, upper |-> upper, data |-> data]

\* Multiple Message Enable is 0, as reset leaves it: configure_msi keeps these
\* bits (msi.rs:185-191, 219-225), and with others the device alters low data bits.
MsiMessage ==
  IF device.is64 THEN Message(config["MSI+4"], config["MSI+8"], config["MSI+12"])
  ELSE Message(config["MSI+4"], 0, config["MSI+8"])

EntryMessage(i) == Message(table[i].ADDR, table[i].UPPER, table[i].DATA)

\* What the device may send in this state, with its source.
Messages ==
  {<<s, MsiMessage>> : s \in {r \in {MsiSource} : config["MSI_ENABLE"] = 1}}
  \cup {<<i, EntryMessage(i)>> : i \in
          {j \in Entries : config["MSIX_ENABLE"] = 1 /\ ~device.fmask /\ table[j].MASK = 0}}

Asks(v) == {Message(LAPIC_MSI_ADDRESS_BASE, 0, v)}

ConfigRegs == {"INTX_DISABLE", "MSI_ENABLE", "MSI+4", "MSI+8", "MSI+12", "MSIX_ENABLE"}

\* As the firmware leaves it: reset values, or one mechanism enabled.
Init ==
  /\ device \in Devices
  /\ config = [r \in ConfigRegs |->
       CASE r = "INTX_DISABLE" -> 0
         [] r = "MSI_ENABLE" -> IF device.left = "msi" THEN 1 ELSE 0
         [] r = "MSIX_ENABLE" -> IF device.left = "msix" THEN 1 ELSE 0
         [] OTHER -> Stale]
  /\ table = [i \in Entries |-> [ADDR |-> Stale, UPPER |-> Stale, DATA |-> Stale,
                                 MASK |-> IF device.left = "msix" THEN 0 ELSE 1]]
  /\ call = NoCall /\ handle = FALSE
  /\ mode = "firmware"
  /\ asked = [s \in Sources |-> IF s = MsiSource THEN {MsiMessage} ELSE {EntryMessage(s)}]
  /\ hushed = {}

-----------------------------------------------------------------------------
(* pci.rs *)

\* The offsets that the walk along the next pointers arrives at.
walk[n \in 0 .. MaxWalk] ==
  IF n = 0 THEN device.pointer
  ELSE IF walk[n - 1] = 0 THEN 0 ELSE device.next[walk[n - 1]]

\* Mutant: one step less, which reaches all but the end of the longest list.
find_capability_ShortWalk(id) ==
  LET hits == {n \in 0 .. MaxWalk - 2 : walk[n] # 0 /\ device.id[walk[n]] = id}
  IN  IF ~device.listed \/ hits = {} THEN 0 ELSE walk[Min(hits)]

\* PciDevice::find_capability: the offset of the first capability with this id
\* on the list, 0 for None.
find_capability(id) ==
  LET hits == {n \in 0 .. MaxWalk - 1 : walk[n] # 0 /\ device.id[walk[n]] = id}
  IN  IF ~device.listed \/ hits = {} THEN 0 ELSE walk[Min(hits)]

\* PciDevice::read_bar gives a memory BAR.  A 64-bit or prefetchable BAR does not
\* read as 0 even if no address was assigned to it: its low bits are set.
ReadsMemoryBar(b) ==
  /\ b.index <= 5
  /\ \/ b.kind = "mem32" /\ b.base # 0
     \/ b.kind = "pref32"
     \/ b.kind = "mem64" /\ b.index <= 4

\* configure_msix: the table's address, and the reasons to reject it.
TableAddress == device.bar.base + device.bar.offset

TableError ==
  IF ~ReadsMemoryBar(device.bar) \/ TableAddress > AddressMax THEN "InvalidBar"
  ELSE IF TableAddress = 0 THEN "MappingFailed"
  ELSE "Ok"

-----------------------------------------------------------------------------
(* Calls *)

ToConfig(reg, val) == [reg |-> reg, index |-> 0, val |-> val]
ToTable(i, field, val) == [reg |-> field, index |-> i, val |-> val]

Idle == call = NoCall

\* A call begins: res is what it will return, ws what it writes.  While it runs,
\* a source may send what was asked for before or what is asked for now.
Begin(res, ws, newMode, newAsked, newHushed) ==
  /\ Idle
  /\ call' = [res |-> res, writes |-> ws, touched |-> FALSE,
              mode |-> newMode, asked |-> newAsked, hushed |-> newHushed]
  /\ asked' = [s \in Sources |-> asked[s] \cup newAsked[s]]
  /\ hushed' = hushed \cup newHushed
  /\ UNCHANGED <<device, config, table, handle, mode>>

Fail(res) == Begin(res, <<>>, mode, asked, hushed)

ValidVector(v) == v \in MIN_MSI_VECTOR .. MAX_MSI_VECTOR

disable_intx == <<ToConfig("INTX_DISABLE", 1)>>
enable_intx == <<ToConfig("INTX_DISABLE", 0)>>

\* Mutant: the data register of 64-bit devices, whatever the device.
MsiWrites_Data64(v) ==
  <<ToConfig("MSI_ENABLE", 0), ToConfig("MSI+4", LAPIC_MSI_ADDRESS_BASE)>>
  \o (IF device.is64 THEN <<ToConfig("MSI+8", 0)>> ELSE <<>>)
  \o <<ToConfig("MSI+12", v), ToConfig("MSI_ENABLE", 1)>> \o disable_intx

\* The writes of configure_msi, in the code's order.
MsiWrites(v) ==
  <<ToConfig("MSI_ENABLE", 0), ToConfig("MSI+4", LAPIC_MSI_ADDRESS_BASE)>>
  \o (IF device.is64 THEN <<ToConfig("MSI+8", 0), ToConfig("MSI+12", v)>>
      ELSE <<ToConfig("MSI+8", v)>>)
  \o <<ToConfig("MSI_ENABLE", 1)>> \o disable_intx

configure_msi(v) ==
  /\ mode # "msix"
  /\ IF ~ValidVector(v) THEN Fail("InvalidVector")
     ELSE IF find_capability("MSI") = 0 THEN Fail("NotSupported")
     ELSE Begin("Ok", MsiWrites(v), "msi", [asked EXCEPT ![MsiSource] = Asks(v)], hushed)

disable_msi ==
  /\ mode # "msix"
  /\ IF find_capability("MSI") = 0 THEN Fail("NotSupported")
     ELSE Begin("Ok", <<ToConfig("MSI_ENABLE", 0)>> \o enable_intx, "intx", asked, hushed)

\* index >= table_size: InvalidEntry.
BadIndex(i) == i >= device.table_size

\* configure_entry's validation.
EntryError(i, v) ==
  IF BadIndex(i) THEN "InvalidEntry"
  ELSE IF ~ValidVector(v) THEN "InvalidVector"
  ELSE "Ok"

\* MsixConfig::configure_entry, mask_entry and unmask_entry, once validated.
EntryWrites(i, v) ==
  <<ToTable(i, "ADDR", LAPIC_MSI_ADDRESS_BASE), ToTable(i, "UPPER", 0), ToTable(i, "DATA", v)>>
MaskWrites(i) == <<ToTable(i, "MASK", 1)>>
UnmaskWrites(i) == <<ToTable(i, "MASK", 0)>>

\* f(0) \o ... \o f(n - 1), each of w writes.
ForEach(n, w, f(_)) == [j \in 1 .. n * w |-> f((j - 1) \div w)[1 + ((j - 1) % w)]]

mask_all == ForEach(device.table_size, 1, MaskWrites)

\* Mutant: the vectors are left to configure_entry to check.
MsixRejects_LateCheck(vs) ==
  IF find_capability("MSIX") = 0 THEN "NotSupported"
  ELSE IF Len(vs) > device.table_size THEN "TooManyVectors"
  ELSE TableError

\* The validations of configure_msix before its first write.
MsixRejects(vs) ==
  IF find_capability("MSIX") = 0 THEN "NotSupported"
  ELSE IF Len(vs) > device.table_size THEN "TooManyVectors"
  ELSE IF \E n \in DOMAIN vs : ~ValidVector(vs[n]) THEN "InvalidVector"
  ELSE TableError

\* configure_msix: disable, mask all, configure the entries up to the first one
\* that configure_entry refuses, and if there is none unmask them and enable.
configure_msix(vs) ==
  LET bad == {n \in DOMAIN vs : EntryError(n - 1, vs[n]) # "Ok"}
      done == IF bad = {} THEN Len(vs) ELSE Min(bad) - 1
      entry(i) == EntryWrites(i, vs[i + 1])
      start == <<ToConfig("MSIX_ENABLE", 0)>> \o mask_all \o ForEach(done, 3, entry)
      finish == ForEach(done, 1, UnmaskWrites) \o <<ToConfig("MSIX_ENABLE", 1)>> \o disable_intx
      new == [s \in Sources |-> IF s = MsiSource THEN asked[s]
                                ELSE IF s < Len(vs) THEN Asks(vs[s + 1]) ELSE {}]
  IN  /\ mode # "msi"
      /\ IF MsixRejects(vs) # "Ok" THEN Fail(MsixRejects(vs))
         ELSE IF bad # {} THEN Begin(EntryError(done, vs[done + 1]), start, mode, asked, hushed)
         ELSE Begin("Ok", start \o finish, "msix", new, Entries \ (0 .. Len(vs) - 1))

\* Mutant: INTx is left disabled.
disable_msix_NoIntx ==
  /\ mode # "msi"
  /\ IF find_capability("MSIX") = 0 THEN Fail("NotSupported")
     ELSE Begin("Ok", <<ToConfig("MSIX_ENABLE", 0)>>, "intx", asked, hushed)

disable_msix ==
  /\ mode # "msi"
  /\ IF find_capability("MSIX") = 0 THEN Fail("NotSupported")
     ELSE Begin("Ok", <<ToConfig("MSIX_ENABLE", 0)>> \o enable_intx, "intx", asked, hushed)

\* Methods of MsixConfig that the driver may call afterwards.
configure_entry(i, v) ==
  /\ handle
  /\ IF EntryError(i, v) # "Ok" THEN Fail(EntryError(i, v))
     ELSE Begin("Ok", EntryWrites(i, v), mode,
                [s \in Sources |-> IF s = i THEN Asks(v) ELSE asked[s]], hushed)

mask_entry(i) ==
  /\ handle
  /\ IF BadIndex(i) THEN Fail("InvalidEntry")
     ELSE Begin("Ok", MaskWrites(i), mode, asked, hushed \cup {i})

unmask_entry(i) ==
  /\ handle
  /\ i \in Entries => asked[i] # {}
  /\ IF BadIndex(i) THEN Fail("InvalidEntry")
     ELSE Begin("Ok", UnmaskWrites(i), mode, asked, hushed \ {i})

MaskAll == handle /\ Begin("Ok", mask_all, mode, asked, Entries)

\* One register is written.  If the table's BAR has no address the write goes to
\* memory instead.
WriteRegister ==
  /\ ~Idle /\ call.writes # <<>>
  /\ LET w == Head(call.writes)
     IN  /\ config' = IF w.reg \in ConfigRegs THEN [config EXCEPT ![w.reg] = w.val] ELSE config
         /\ table' = IF w.reg \in ConfigRegs \/ device.bar.base = 0 THEN table
                     ELSE [table EXCEPT ![w.index][w.reg] = w.val]
  /\ call' = [call EXCEPT !.writes = Tail(@), !.touched = TRUE]
  /\ UNCHANGED <<device, handle, mode, asked, hushed>>

Return ==
  /\ ~Idle /\ call.writes = <<>>
  /\ call' = NoCall
  /\ mode' = call.mode /\ asked' = call.asked /\ hushed' = call.hushed
  /\ handle' = (handle \/ call.mode = "msix")
  /\ UNCHANGED <<device, config, table>>

\* The vectors of a configure_msix: up to one more than there are entries.
VectorLists == UNION {[1 .. n -> Vectors] : n \in 0 .. device.table_size + 1}

Next ==
  \/ \E v \in Vectors : configure_msi(v)
  \/ disable_msi
  \/ \E vs \in VectorLists : configure_msix(vs)
  \/ disable_msix
  \/ \E i \in 0 .. device.table_size :
       \/ \E v \in Vectors : configure_entry(i, v)
       \/ mask_entry(i)
       \/ unmask_entry(i)
  \/ MaskAll
  \/ WriteRegister
  \/ Return

Spec == Init /\ [][Next]_vars

-----------------------------------------------------------------------------
(* Properties *)

Reachable ==
  {s \in Slots : \A closed \in SUBSET Slots :
     (device.pointer \in closed \cup {0} /\ \A x \in closed : device.next[x] \in closed \cup {0})
       => s \in closed}

\* find_capability finds a capability exactly if the device has a list and one
\* with the id can be reached on it, on lists of any shape, cycles and the
\* longest list included: the bound of the loop cuts off nothing.
CapabilityFound ==
  \A id \in {"MSI", "MSIX"} :
    LET p == find_capability(id)
        there == {s \in Reachable : device.listed /\ device.id[s] = id}
    IN  IF there = {} THEN p = 0 ELSE p \in there

\* Between any two register writes, whatever the device sends is a message the
\* driver has asked for on that source (or the firmware, before the driver's
\* first call), never a mixture of old and new registers; an entry that the
\* last configure_msix left out sends nothing.
SentAsAsked == \A m \in Messages : m[2] \in asked[m[1]]

\* A call that returns an error has written nothing: in particular
\* configure_msix never gives up with the device already disabled.
FailureChangesNothing == ~Idle /\ call.res # "Ok" => ~call.touched

\* After a call that succeeded the device can be heard the way the driver chose:
\* by MSI, by every entry that is configured and not masked, or by INTx.
\* (Unless the firmware has set FUNCTION_MASK, which configure_msix keeps, or
\* the table lies behind a BAR without an address.)
NeverMute ==
  Idle =>
    /\ mode = "msi" => config["MSI_ENABLE"] = 1 /\ config["INTX_DISABLE"] = 1
    /\ mode = "msix" =>
         /\ config["INTX_DISABLE"] = 1
         /\ \A i \in Entries \ hushed :
              device.fmask \/ device.bar.base = 0 \/ \E m \in Messages : m[1] = i
    /\ mode = "intx" => config["INTX_DISABLE"] = 0

=============================================================================
