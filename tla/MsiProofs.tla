----------------------------- MODULE MsiProofs -----------------------------
(***************************************************************************)
(* For every device: whatever it sends between two register writes is as   *)
(* asked for, a call that fails has written nothing, after a call that     *)
(* succeeds the device can be heard, and the walk of the capability list   *)
(* finds what is there.                                                    *)
(*                                                                         *)
(* The invariant looks ahead: the registers after each of the writes that  *)
(* a call has still to do are a function of the registers and the writes,  *)
(* and a write does not change what that function says of the rest.  So    *)
(* everything is settled when the call begins.                             *)
(***************************************************************************)
EXTENDS Msi, FiniteSetTheorems, SequenceTheorems, NaturalsInduction,
        WellFoundedInduction, TLAPS

-----------------------------------------------------------------------------
(* Naturals *)

\* A set of naturals has a least element.
LEMMA LeastNat ==
  ASSUME NEW S \in SUBSET Nat, S # {}
  PROVE  \E m \in S : \A k \in S : m <= k
<1>1. PICK m \in S : \A k \in S : <<k, m>> \notin OpToRel(<, Nat)
  BY NatLessThanWellFounded, WFMin, Zenon
<1>2. \A k \in S : ~(k < m)
  BY <1>1 DEF OpToRel
<1> QED
  BY <1>2

\* Induction over the naturals, for a set.
LEMMA NatSet ==
  ASSUME NEW S, 0 \in S, \A n \in Nat : n \in S => n + 1 \in S
  PROVE  \A n \in Nat : n \in S
<1> SUFFICES ASSUME NEW n \in Nat, n \notin S PROVE FALSE
  OBVIOUS
<1> DEFINE T == {k \in Nat : k \notin S}
<1>1. PICK m \in T : \A k \in T : m <= k
  BY LeastNat
<1>2. m # 0 /\ m - 1 \in Nat /\ m - 1 \notin T
  BY <1>1
<1>3. m - 1 \in S
  BY <1>2
<1> QED
  BY <1>1, <1>2, <1>3

\* The least element that Min chooses.
LEMMA MinNat ==
  ASSUME NEW S \in SUBSET Nat, S # {}
  PROVE  Min(S) \in S /\ \A x \in S : Min(S) <= x
  BY LeastNat, Zenon DEF Min

-----------------------------------------------------------------------------
(* Registers after some of the writes to come *)

Fields == {"ADDR", "UPPER", "DATA", "MASK"}
Values == {0, 1, Stale, LAPIC_MSI_ADDRESS_BASE} \cup Vectors

\* The writes of a call on a table of n entries.
Writes(n) == [reg : ConfigRegs, index : {0}, val : Values]
             \cup [reg : Fields, index : 0 .. n - 1, val : Values]

\* The j-th write is to register r of entry x.
To(ws, j, r, x) == ws[j].reg = r /\ ws[j].index = x

\* What register r of entry x holds after the first k writes, if it holds old now.
Later(ws, k, r, x, old) ==
  IF \E j \in 1 .. k : To(ws, j, r, x)
  THEN LET last == CHOOSE j \in 1 .. k : To(ws, j, r, x) /\ \A m \in j + 1 .. k : ~To(ws, m, r, x)
       IN  ws[last].val
  ELSE old

ConfigAfter(cfg, ws, k) == [r \in ConfigRegs |-> Later(ws, k, r, 0, cfg[r])]

TableAfter(d, tab, ws, k) ==
  IF d.bar.base = 0 THEN tab
  ELSE [i \in 0 .. d.table_size - 1 |->
          [ADDR |-> Later(ws, k, "ADDR", i, tab[i].ADDR),
           UPPER |-> Later(ws, k, "UPPER", i, tab[i].UPPER),
           DATA |-> Later(ws, k, "DATA", i, tab[i].DATA),
           MASK |-> Later(ws, k, "MASK", i, tab[i].MASK)]]

-----------------------------------------------------------------------------
(* The invariant *)

\* What device d sends, with these registers, is in ask: by MSI and by MSI-X.
SentMsi(d, cfg, ask) ==
  cfg["MSI_ENABLE"] = 1 =>
    (IF d.is64 THEN Message(cfg["MSI+4"], cfg["MSI+8"], cfg["MSI+12"])
     ELSE Message(cfg["MSI+4"], 0, cfg["MSI+8"])) \in ask[MsiSource]

SentMsix(d, cfg, tab, ask) ==
  cfg["MSIX_ENABLE"] = 1 /\ ~d.fmask =>
    \A i \in 0 .. d.table_size - 1 : tab[i].MASK = 0 =>
      Message(tab[i].ADDR, tab[i].UPPER, tab[i].DATA) \in ask[i]

SentIn(d, cfg, tab, ask) == SentMsi(d, cfg, ask) /\ SentMsix(d, cfg, tab, ask)

\* The device can be heard in mode m.
Heard(d, cfg, tab, m, hush) ==
  /\ m = "msi" => cfg["MSI_ENABLE"] = 1 /\ cfg["INTX_DISABLE"] = 1
  /\ m = "msix" => /\ cfg["INTX_DISABLE"] = 1 /\ cfg["MSIX_ENABLE"] = 1
                   /\ d.bar.base # 0 =>
                        \A i \in (0 .. d.table_size - 1) \ hush : tab[i].MASK = 0
  /\ m = "intx" => cfg["INTX_DISABLE"] = 0

\* Entry i of a table that the driver has configured: masked, or with the one
\* message that was asked for.
EntryOK(tab, ask, i) ==
  /\ ask[i] = {} => tab[i].MASK = 1
  /\ ask[i] # {} => \E v \in Vectors : /\ ask[i] = Asks(v) /\ tab[i].DATA = v
                                      /\ tab[i].ADDR = LAPIC_MSI_ADDRESS_BASE /\ tab[i].UPPER = 0

\* The registers between calls.  A table behind a BAR without an address is as
\* the firmware left it, masked.
Settled(d, cfg, tab, ask, m, hush, hnd) ==
  /\ SentIn(d, cfg, tab, ask)
  /\ Heard(d, cfg, tab, m, hush)
  /\ d.bar.base = 0 => \A i \in 0 .. d.table_size - 1 : tab[i].MASK = 1
  /\ hnd /\ d.bar.base # 0 => \A i \in 0 .. d.table_size - 1 : EntryOK(tab, ask, i)

MsiTypeOK ==
  /\ device \in Devices
  /\ config \in [ConfigRegs -> Values]
  /\ table \in [Entries -> [ADDR : Values, UPPER : Values, DATA : Values, MASK : Values]]
  /\ handle \in BOOLEAN
  /\ DOMAIN asked = Sources
  /\ mode = "msix" => handle

\* The call in progress: its writes, the messages sent meanwhile, and the
\* registers at its end.
CallOK ==
  /\ DOMAIN call = {"res", "writes", "touched", "mode", "asked", "hushed"}
  /\ call.writes \in Seq(Writes(device.table_size))
  /\ call.res # "Ok" => call.writes = <<>> /\ ~call.touched
  /\ DOMAIN call.asked = Sources
  /\ \A k \in 0 .. Len(call.writes) :
       SentIn(device, ConfigAfter(config, call.writes, k),
              TableAfter(device, table, call.writes, k), asked)
  /\ Settled(device, ConfigAfter(config, call.writes, Len(call.writes)),
             TableAfter(device, table, call.writes, Len(call.writes)),
             call.asked, call.mode, call.hushed, handle \/ call.mode = "msix")

MsiInv ==
  /\ MsiTypeOK
  /\ Idle => Settled(device, config, table, asked, mode, hushed, handle)
  /\ ~Idle => CallOK

-----------------------------------------------------------------------------
(* Looking ahead *)

\* The last write to a register decides.
LEMMA LastWrite ==
  ASSUME NEW ws, NEW k \in Nat, NEW r, NEW x, NEW old, NEW j \in 1 .. k,
         To(ws, j, r, x), \A m \in j + 1 .. k : ~To(ws, m, r, x)
  PROVE  Later(ws, k, r, x, old) = ws[j].val
<1> DEFINE Q(n) == To(ws, n, r, x) /\ \A m \in n + 1 .. k : ~To(ws, m, r, x)
           c == CHOOSE n \in 1 .. k : Q(n)
<1>1. c \in 1 .. k /\ Q(c)
  <2>1. Q(j)
    OBVIOUS
  <2> HIDE DEF Q
  <2> QED
    BY <2>1, Zenon
<1>2. c = j
  <2>1. ~(c < j)
    <3> SUFFICES ASSUME c < j PROVE FALSE
      OBVIOUS
    <3>1. j \in c + 1 .. k
      BY <1>1
    <3> QED
      BY <1>1, <3>1
  <2>2. ~(j < c)
    <3> SUFFICES ASSUME j < c PROVE FALSE
      OBVIOUS
    <3>1. c \in j + 1 .. k
      BY <1>1
    <3> QED
      BY <1>1, <3>1
  <2> HIDE DEF c
  <2> QED
    BY <1>1, <2>1, <2>2
<1>3. Later(ws, k, r, x, old) = ws[c].val
  BY Zenon DEF Later
<1> QED
  BY <1>2, <1>3

\* A register that is not written keeps its value.
LEMMA NoWrite ==
  ASSUME NEW ws, NEW k \in Nat, NEW r, NEW x, NEW old,
         \A j \in 1 .. k : ~To(ws, j, r, x)
  PROVE  Later(ws, k, r, x, old) = old
  BY Zenon DEF Later

\* If there is a write to a register there is a last one.
LEMMA LastExists ==
  ASSUME NEW ws, NEW k \in Nat, NEW r, NEW x, \E j \in 1 .. k : To(ws, j, r, x)
  PROVE  \E j \in 1 .. k : To(ws, j, r, x) /\ \A m \in j + 1 .. k : ~To(ws, m, r, x)
<1> DEFINE S == {n \in 0 .. k : k - n \in 1 .. k /\ To(ws, k - n, r, x)}
<1>1. S \in SUBSET Nat /\ S # {}
  <2>1. PICK j \in 1 .. k : To(ws, j, r, x)
    OBVIOUS
  <2>2. k - j \in 0 .. k /\ k - (k - j) = j
    OBVIOUS
  <2>3. k - j \in S
    BY <2>1, <2>2
  <2>4. \A n \in S : n \in Nat
    OBVIOUS
  <2> HIDE DEF S
  <2> QED
    BY <2>3, <2>4, Zenon
<1>2. PICK n \in S : \A m \in S : n <= m
  <2> HIDE DEF S
  <2> QED
    BY <1>1, LeastNat
<1> DEFINE j == k - n
<1>3. j \in 1 .. k /\ To(ws, j, r, x)
  BY <1>2
<1>4. ASSUME NEW m \in j + 1 .. k PROVE ~To(ws, m, r, x)
  <2> SUFFICES ASSUME To(ws, m, r, x) PROVE FALSE
    OBVIOUS
  <2>1. k - m \in 0 .. k /\ k - (k - m) = m /\ m \in 1 .. k /\ k - m < n
    BY <1>2, <1>3
  <2>2. k - m \in S
    BY <2>1
  <2> QED
    BY <1>2, <2>1, <2>2
<1> QED
  BY <1>3, <1>4

\* Doing the first write does not change what the rest leads to.
LEMMA Shift ==
  ASSUME NEW W, NEW ws \in Seq(W), ws # <<>>, NEW k \in 0 .. Len(ws) - 1,
         NEW r, NEW x, NEW old, NEW now,
         To(ws, 1, r, x) => now = ws[1].val, ~To(ws, 1, r, x) => now = old
  PROVE  Later(Tail(ws), k, r, x, now) = Later(ws, k + 1, r, x, old)
<1>1. /\ Len(ws) \in Nat /\ k \in Nat /\ k + 1 \in Nat
      /\ \A j \in 1 .. k : Tail(ws)[j] = ws[j + 1]
  OBVIOUS
<1>2. \A j \in 1 .. k : To(Tail(ws), j, r, x) <=> To(ws, j + 1, r, x)
  BY <1>1 DEF To
<1>3. CASE \E j \in 1 .. k : To(Tail(ws), j, r, x)
  <2>1. PICK j \in 1 .. k : /\ To(Tail(ws), j, r, x)
                            /\ \A m \in j + 1 .. k : ~To(Tail(ws), m, r, x)
    BY <1>1, <1>3, LastExists
  <2>2. Later(Tail(ws), k, r, x, now) = Tail(ws)[j].val
    <3> DEFINE t == Tail(ws)
    <3>1. k \in Nat /\ To(t, j, r, x) /\ \A m \in j + 1 .. k : ~To(t, m, r, x)
      BY <1>1, <2>1
    <3> HIDE DEF t
    <3>2. Later(t, k, r, x, now) = t[j].val
      BY <3>1, LastWrite
    <3> QED
      BY <3>2 DEF t
  <2> DEFINE i == j + 1
             n == k + 1
  <2>3. i \in 1 .. n /\ n \in Nat /\ To(ws, i, r, x)
    BY <1>1, <1>2, <2>1
  <2>4. ASSUME NEW m \in i + 1 .. n PROVE ~To(ws, m, r, x)
    <3>1. m - 1 \in j + 1 .. k /\ m - 1 \in 1 .. k /\ (m - 1) + 1 = m
      BY <1>1
    <3> QED
      BY <1>2, <2>1, <3>1
  <2>5. Later(ws, n, r, x, old) = ws[i].val
    <3> HIDE DEF i, n
    <3> QED
      BY <2>3, <2>4, LastWrite
  <2> QED
    BY <1>1, <2>1, <2>2, <2>5
<1>4. CASE ~ \E j \in 1 .. k : To(Tail(ws), j, r, x)
  <2>1. Later(Tail(ws), k, r, x, now) = now
    BY <1>1, <1>4, NoWrite
  <2> DEFINE n == k + 1
  <2>2. n \in Nat /\ 1 \in 1 .. n
    BY <1>1
  <2>3. ASSUME NEW m \in 2 .. n PROVE ~To(ws, m, r, x)
    <3>1. m - 1 \in 1 .. k /\ (m - 1) + 1 = m
      BY <1>1
    <3> QED
      BY <1>2, <1>4, <3>1
  <2> HIDE DEF n
  <2>4. CASE To(ws, 1, r, x)
    <3>1. \A m \in 1 + 1 .. n : ~To(ws, m, r, x)
      BY <2>3
    <3>2. Later(ws, n, r, x, old) = ws[1].val
      BY <2>2, <2>4, <3>1, LastWrite
    <3> QED
      BY <2>1, <2>4, <3>2 DEF n
  <2>5. CASE ~To(ws, 1, r, x)
    <3>1. \A m \in 1 .. n : ~To(ws, m, r, x)
      <4>1. ASSUME NEW m \in 1 .. n PROVE m = 1 \/ m \in 2 .. n
        BY <2>2
      <4> QED
        BY <2>3, <2>5, <4>1
    <3>2. Later(ws, n, r, x, old) = old
      BY <2>2, <3>1, NoWrite
    <3> QED
      BY <2>1, <2>5, <3>2 DEF n
  <2> QED
    BY <2>4, <2>5
<1> QED
  BY <1>3, <1>4

\* What the devices are.
LEMMA DeviceFacts ==
  ASSUME NEW d \in Devices
  PROVE  /\ d.table_size \in Nat \ {0} /\ d.is64 \in BOOLEAN /\ d.fmask \in BOOLEAN
         /\ d.left \in {"none", "msi", "msix"} /\ (d.left = "msix" => d.bar.base # 0)
         /\ d.listed \in BOOLEAN /\ d.pointer \in 0 .. NumSlots
         /\ d.next \in [Slots -> 0 .. NumSlots]
  BY MsiAssumption DEF DeviceOK

\* Registers of the table and of configuration space have different names.
LEMMA Names ==
  /\ \A f \in Fields : f \notin ConfigRegs
  /\ "ADDR" \in Fields /\ "UPPER" \in Fields /\ "DATA" \in Fields /\ "MASK" \in Fields
  BY DEF Fields, ConfigRegs

TableType(n) == [0 .. n - 1 -> [ADDR : Values, UPPER : Values, DATA : Values, MASK : Values]]

\* Before the first of the writes the registers are as they are.
LEMMA AfterNone ==
  ASSUME NEW d, NEW cfg \in [ConfigRegs -> Values], NEW tab \in TableType(d.table_size), NEW ws
  PROVE  ConfigAfter(cfg, ws, 0) = cfg /\ TableAfter(d, tab, ws, 0) = tab
<1>1. ASSUME NEW r, NEW x, NEW old PROVE Later(ws, 0, r, x, old) = old
  BY NoWrite
<1>2. ConfigAfter(cfg, ws, 0) = cfg
  <2>1. \A r \in ConfigRegs : Later(ws, 0, r, 0, cfg[r]) = cfg[r]
    BY <1>1
  <2> QED
    BY <2>1 DEF ConfigAfter
<1>3. CASE d.bar.base = 0
  BY <1>2, <1>3 DEF TableAfter
<1>4. CASE d.bar.base # 0
  <2> DEFINE T == TableAfter(d, tab, ws, 0)
             n == d.table_size
  <2>1. T = [i \in 0 .. n - 1 |->
          [ADDR |-> Later(ws, 0, "ADDR", i, tab[i].ADDR),
           UPPER |-> Later(ws, 0, "UPPER", i, tab[i].UPPER),
           DATA |-> Later(ws, 0, "DATA", i, tab[i].DATA),
           MASK |-> Later(ws, 0, "MASK", i, tab[i].MASK)]]
    BY <1>4 DEF TableAfter
  <2>2. ASSUME NEW i \in 0 .. n - 1 PROVE T[i] = tab[i]
    <3>1. T[i] = [ADDR |-> tab[i].ADDR, UPPER |-> tab[i].UPPER,
                  DATA |-> tab[i].DATA, MASK |-> tab[i].MASK]
      <4>1. /\ Later(ws, 0, "ADDR", i, tab[i].ADDR) = tab[i].ADDR
            /\ Later(ws, 0, "UPPER", i, tab[i].UPPER) = tab[i].UPPER
            /\ Later(ws, 0, "DATA", i, tab[i].DATA) = tab[i].DATA
            /\ Later(ws, 0, "MASK", i, tab[i].MASK) = tab[i].MASK
        BY <1>1
      <4> HIDE DEF T
      <4>2. T[i] = [ADDR |-> Later(ws, 0, "ADDR", i, tab[i].ADDR),
                    UPPER |-> Later(ws, 0, "UPPER", i, tab[i].UPPER),
                    DATA |-> Later(ws, 0, "DATA", i, tab[i].DATA),
                    MASK |-> Later(ws, 0, "MASK", i, tab[i].MASK)]
        BY <2>1, Zenon
      <4> QED
        BY <4>1, <4>2
    <3>2. tab[i] \in [ADDR : Values, UPPER : Values, DATA : Values, MASK : Values]
      BY DEF TableType
    <3> QED
      BY <3>1, <3>2
  <2>3. DOMAIN T = 0 .. n - 1 /\ T = [i \in 0 .. n - 1 |-> T[i]]
    BY <2>1
  <2>4. tab = [i \in 0 .. n - 1 |-> tab[i]]
    BY DEF TableType
  <2>5. [i \in 0 .. n - 1 |-> T[i]] = [i \in 0 .. n - 1 |-> tab[i]]
    BY <2>2
  <2> QED
    BY <1>2, <2>3, <2>4, <2>5
<1> QED
  BY <1>3, <1>4

\* The registers after write w.
StepConfig(cfg, w) == IF w.reg \in ConfigRegs THEN [cfg EXCEPT ![w.reg] = w.val] ELSE cfg
StepTable(d, tab, w) == IF w.reg \in ConfigRegs \/ d.bar.base = 0 THEN tab
                        ELSE [tab EXCEPT ![w.index][w.reg] = w.val]

\* A write brings the registers one write further.
LEMMA AfterOne ==
  ASSUME NEW d, NEW cfg \in [ConfigRegs -> Values], NEW tab \in TableType(d.table_size),
         NEW ws \in Seq(Writes(d.table_size)), ws # <<>>,
         NEW k \in 0 .. Len(ws) - 1
  PROVE  /\ ConfigAfter(StepConfig(cfg, ws[1]), Tail(ws), k) = ConfigAfter(cfg, ws, k + 1)
         /\ TableAfter(d, StepTable(d, tab, ws[1]), Tail(ws), k) = TableAfter(d, tab, ws, k + 1)
         /\ StepConfig(cfg, ws[1]) \in [ConfigRegs -> Values]
         /\ StepTable(d, tab, ws[1]) \in TableType(d.table_size)
<1> DEFINE w == ws[1]
           n == d.table_size
           cfg2 == StepConfig(cfg, w)
           tab2 == StepTable(d, tab, w)
<1> USE DEF StepConfig, StepTable
<1>1. w \in Writes(n)
  OBVIOUS
<1>2. /\ w.val \in Values
      /\ w.reg \in ConfigRegs => w.index = 0
      /\ w.reg \notin ConfigRegs => w.reg \in Fields /\ w.index \in 0 .. n - 1
  <2>1. CASE w \in [reg : ConfigRegs, index : {0}, val : Values]
    BY <2>1
  <2>2. CASE w \in [reg : Fields, index : 0 .. n - 1, val : Values]
    BY <2>2, Names
  <2> QED
    BY <1>1, <2>1, <2>2 DEF Writes
<1>3. cfg2 \in [ConfigRegs -> Values]
  BY <1>2
<1>4. ASSUME NEW r \in ConfigRegs
      PROVE  Later(Tail(ws), k, r, 0, cfg2[r]) = Later(ws, k + 1, r, 0, cfg[r])
  <2>1. To(ws, 1, r, 0) => cfg2[r] = ws[1].val
    BY DEF To
  <2>2. ~To(ws, 1, r, 0) => cfg2[r] = cfg[r]
    BY <1>2 DEF To
  <2> DEFINE W == Writes(n)
             new == cfg2[r]
             old == cfg[r]
  <2> HIDE DEF W, new, old
  <2>3. ws \in Seq(W) /\ (To(ws, 1, r, 0) => new = ws[1].val) /\ (~To(ws, 1, r, 0) => new = old)
    BY <2>1, <2>2 DEF W, new, old
  <2>4. Later(Tail(ws), k, r, 0, new) = Later(ws, k + 1, r, 0, old)
    BY <2>3, Shift
  <2> QED
    BY <2>4 DEF new, old
<1>5. ConfigAfter(cfg2, Tail(ws), k) = ConfigAfter(cfg, ws, k + 1)
  BY <1>4, Zenon DEF ConfigAfter
<1>6. ASSUME NEW i \in 0 .. n - 1, NEW f \in Fields, d.bar.base # 0
      PROVE  /\ To(ws, 1, f, i) => tab2[i][f] = w.val
             /\ ~To(ws, 1, f, i) => tab2[i][f] = tab[i][f]
  <2>1. tab[i] \in [ADDR : Values, UPPER : Values, DATA : Values, MASK : Values]
        /\ DOMAIN tab[i] = Fields /\ DOMAIN tab = 0 .. n - 1
    BY DEF TableType, Fields
  <2>2. CASE w.reg \in ConfigRegs
    <3>1. tab2 = tab /\ f # w.reg
      BY <2>2, Names
    <3> QED
      BY <3>1 DEF To
  <2>3. CASE w.reg \notin ConfigRegs
    <3>1. tab2 = [tab EXCEPT ![w.index] = [tab[w.index] EXCEPT ![w.reg] = w.val]]
      BY <1>6, <2>3
    <3>2. CASE i # w.index
      <4>1. tab2[i] = tab[i]
        BY <2>1, <3>1, <3>2
      <4> QED
        BY <3>2, <4>1 DEF To
    <3>3. CASE i = w.index
      <4>1. tab2[i] = [tab[i] EXCEPT ![w.reg] = w.val]
        BY <2>1, <3>1, <3>3
      <4>2. tab2[i][f] = IF f = w.reg THEN w.val ELSE tab[i][f]
        BY <2>1, <4>1, Zenon
      <4> QED
        BY <3>3, <4>2 DEF To
    <3> QED
      BY <3>2, <3>3
  <2> QED
    BY <2>2, <2>3
<1>7. ASSUME NEW i \in 0 .. n - 1, NEW f \in Fields, d.bar.base # 0
      PROVE  Later(Tail(ws), k, f, i, tab2[i][f]) = Later(ws, k + 1, f, i, tab[i][f])
  <2> DEFINE W == Writes(n)
             new == tab2[i][f]
             old == tab[i][f]
  <2>1. ws \in Seq(W) /\ (To(ws, 1, f, i) => new = ws[1].val) /\ (~To(ws, 1, f, i) => new = old)
    BY <1>6, <1>7
  <2> HIDE DEF W, new, old
  <2>2. Later(Tail(ws), k, f, i, new) = Later(ws, k + 1, f, i, old)
    BY <2>1, Shift
  <2> QED
    BY <2>2 DEF new, old
<1>8. TableAfter(d, tab2, Tail(ws), k) = TableAfter(d, tab, ws, k + 1)
  <2>1. CASE d.bar.base = 0
    BY <2>1 DEF TableAfter
  <2>2. CASE d.bar.base # 0
    <3> DEFINE A(i) == [ADDR |-> Later(Tail(ws), k, "ADDR", i, tab2[i].ADDR),
                        UPPER |-> Later(Tail(ws), k, "UPPER", i, tab2[i].UPPER),
                        DATA |-> Later(Tail(ws), k, "DATA", i, tab2[i].DATA),
                        MASK |-> Later(Tail(ws), k, "MASK", i, tab2[i].MASK)]
               B(i) == [ADDR |-> Later(ws, k + 1, "ADDR", i, tab[i].ADDR),
                        UPPER |-> Later(ws, k + 1, "UPPER", i, tab[i].UPPER),
                        DATA |-> Later(ws, k + 1, "DATA", i, tab[i].DATA),
                        MASK |-> Later(ws, k + 1, "MASK", i, tab[i].MASK)]
    <3>1. ASSUME NEW i \in 0 .. n - 1 PROVE A(i) = B(i)
      <4>1. /\ Later(Tail(ws), k, "ADDR", i, tab2[i]["ADDR"]) = Later(ws, k + 1, "ADDR", i, tab[i]["ADDR"])
            /\ Later(Tail(ws), k, "UPPER", i, tab2[i]["UPPER"]) = Later(ws, k + 1, "UPPER", i, tab[i]["UPPER"])
            /\ Later(Tail(ws), k, "DATA", i, tab2[i]["DATA"]) = Later(ws, k + 1, "DATA", i, tab[i]["DATA"])
            /\ Later(Tail(ws), k, "MASK", i, tab2[i]["MASK"]) = Later(ws, k + 1, "MASK", i, tab[i]["MASK"])
        BY <1>7, <2>2, Names
      <4> QED
        BY <4>1
    <3>2. /\ TableAfter(d, tab2, Tail(ws), k) = [i \in 0 .. n - 1 |-> A(i)]
          /\ TableAfter(d, tab, ws, k + 1) = [i \in 0 .. n - 1 |-> B(i)]
      BY <2>2 DEF TableAfter
    <3> HIDE DEF A, B
    <3> QED
      BY <3>1, <3>2, Zenon
  <2> QED
    BY <2>1, <2>2
<1>9. tab2 \in TableType(n)
  <2>1. CASE w.reg \in ConfigRegs \/ d.bar.base = 0
    BY <2>1
  <2>2. CASE ~(w.reg \in ConfigRegs \/ d.bar.base = 0)
    <3> DEFINE q == [tab[w.index] EXCEPT ![w.reg] = w.val]
    <3>1. w.reg \in Fields /\ w.index \in 0 .. n - 1 /\ tab2 = [tab EXCEPT ![w.index] = q]
      BY <1>2, <2>2
    <3>2. q \in [ADDR : Values, UPPER : Values, DATA : Values, MASK : Values]
      <4>1. tab[w.index] \in [ADDR : Values, UPPER : Values, DATA : Values, MASK : Values]
        BY <3>1 DEF TableType
      <4> QED
        BY <1>2, <3>1, <4>1 DEF Fields
    <3> HIDE DEF q
    <3> QED
      BY <3>1, <3>2 DEF TableType
  <2> QED
    BY <2>1, <2>2
<1> QED
  BY <1>3, <1>5, <1>8, <1>9

-----------------------------------------------------------------------------
(* The steps of a call *)

\* A register is written: what was to come is one write nearer.
LEMMA WriteInv ==
  ASSUME MsiInv, WriteRegister
  PROVE  MsiInv'
<1> DEFINE ws == call.writes
           n == device.table_size
<1>1. /\ ~Idle /\ CallOK /\ MsiTypeOK /\ ws # <<>> /\ ws \in Seq(Writes(n))
      /\ UNCHANGED <<device, handle, mode, asked, hushed>>
  BY DEF MsiInv, WriteRegister, CallOK
<1>2. /\ call' = [call EXCEPT !.writes = Tail(ws), !.touched = TRUE]
      /\ config' = StepConfig(config, ws[1]) /\ table' = StepTable(device, table, ws[1])
  BY <1>1 DEF WriteRegister, StepConfig, StepTable
<1>3. DOMAIN call = {"res", "writes", "touched", "mode", "asked", "hushed"}
  BY <1>1 DEF CallOK
<1>4. /\ DOMAIN call' = DOMAIN call /\ call'.writes = Tail(ws) /\ call'.res = call.res
      /\ call'.mode = call.mode /\ call'.asked = call.asked /\ call'.hushed = call.hushed
  BY <1>2, <1>3
<1>5. call' # NoCall
  <2>1. DOMAIN NoCall = {"res"} /\ "writes" \in DOMAIN call'
    BY <1>3, <1>4 DEF NoCall
  <2> QED
    BY <2>1
<1>6. /\ Tail(ws) \in Seq(Writes(n)) /\ Len(ws) \in Nat /\ Len(ws) # 0 /\ Len(Tail(ws)) = Len(ws) - 1
  <2> DEFINE W == Writes(n)
  <2>1. ws \in Seq(W) /\ ws # <<>>
    BY <1>1
  <2> HIDE DEF W, ws
  <2> QED
    BY <2>1 DEF W
<1>7. config \in [ConfigRegs -> Values] /\ table \in TableType(n)
  BY <1>1 DEF MsiTypeOK, TableType, Entries
<1>8. ASSUME NEW k \in 0 .. Len(ws) - 1
      PROVE  /\ ConfigAfter(config', Tail(ws), k) = ConfigAfter(config, ws, k + 1)
             /\ TableAfter(device, table', Tail(ws), k) = TableAfter(device, table, ws, k + 1)
             /\ config' \in [ConfigRegs -> Values] /\ table' \in TableType(n)
  <2> DEFINE d == device
  <2>1. /\ ws \in Seq(Writes(d.table_size)) /\ config \in [ConfigRegs -> Values]
        /\ table \in TableType(d.table_size) /\ ws # <<>>
    BY <1>1, <1>7
  <2> HIDE DEF ws, d
  <2>2. /\ ConfigAfter(StepConfig(config, ws[1]), Tail(ws), k) = ConfigAfter(config, ws, k + 1)
        /\ TableAfter(d, StepTable(d, table, ws[1]), Tail(ws), k) = TableAfter(d, table, ws, k + 1)
        /\ StepConfig(config, ws[1]) \in [ConfigRegs -> Values]
        /\ StepTable(d, table, ws[1]) \in TableType(d.table_size)
    BY <2>1, AfterOne
  <2> QED
    BY <1>2, <2>2 DEF ws, d
<1>9. config' \in [ConfigRegs -> Values] /\ table' \in TableType(n)
  <2>1. 0 \in 0 .. Len(ws) - 1
    BY <1>6
  <2> QED
    BY <1>8, <2>1
<1>10. MsiTypeOK'
  BY <1>1, <1>9 DEF MsiTypeOK, TableType, Entries, Sources
<1>11. CallOK'
  <2>1. /\ DOMAIN call' = {"res", "writes", "touched", "mode", "asked", "hushed"}
        /\ call'.writes \in Seq(Writes(device'.table_size))
        /\ DOMAIN call'.asked = Sources'
    BY <1>1, <1>3, <1>4, <1>6 DEF CallOK, Sources, Entries
  <2>2. call'.res = "Ok"
    BY <1>1, <1>4 DEF CallOK
  <2>3. ASSUME NEW k \in 0 .. Len(call'.writes)
        PROVE  SentIn(device', ConfigAfter(config', call'.writes, k),
                      TableAfter(device', table', call'.writes, k), asked')
    <3>1. k \in 0 .. Len(ws) - 1 /\ k + 1 \in 0 .. Len(ws)
      BY <1>4, <1>6
    <3>2. SentIn(device, ConfigAfter(config, ws, k + 1), TableAfter(device, table, ws, k + 1), asked)
      BY <1>1, <3>1 DEF CallOK
    <3>3. SentIn(device, ConfigAfter(config', Tail(ws), k), TableAfter(device, table', Tail(ws), k), asked)
      BY <1>8, <3>1, <3>2
    <3> QED
      BY <1>1, <1>4, <3>3
  <2>4. Settled(device, ConfigAfter(config', Tail(ws), Len(Tail(ws))),
                TableAfter(device, table', Tail(ws), Len(Tail(ws))),
                call.asked, call.mode, call.hushed, handle \/ call.mode = "msix")
    <3>1. Len(Tail(ws)) \in 0 .. Len(ws) - 1 /\ Len(Tail(ws)) + 1 = Len(ws)
      BY <1>6
    <3>2. Settled(device, ConfigAfter(config, ws, Len(ws)), TableAfter(device, table, ws, Len(ws)),
                  call.asked, call.mode, call.hushed, handle \/ call.mode = "msix")
      BY <1>1 DEF CallOK
    <3>3. /\ ConfigAfter(config', Tail(ws), Len(Tail(ws))) = ConfigAfter(config, ws, Len(ws))
          /\ TableAfter(device, table', Tail(ws), Len(Tail(ws))) = TableAfter(device, table, ws, Len(ws))
      BY <1>8, <3>1
    <3> QED
      BY <3>2, <3>3
  <2>5. Settled(device', ConfigAfter(config', call'.writes, Len(call'.writes)),
                TableAfter(device', table', call'.writes, Len(call'.writes)),
                call'.asked, call'.mode, call'.hushed, handle' \/ call'.mode = "msix")
    BY <1>1, <1>4, <2>4
  <2> QED
    BY <2>1, <2>2, <2>3, <2>5, Zenon DEF CallOK
<1> QED
  BY <1>5, <1>10, <1>11, Zenon DEF MsiInv, Idle

\* The call returns: nothing is left to write, and the registers are settled.
LEMMA ReturnInv ==
  ASSUME MsiInv, Return
  PROVE  MsiInv'
<1> DEFINE ws == call.writes
           n == device.table_size
<1>1. /\ ~Idle /\ CallOK /\ MsiTypeOK /\ ws = <<>>
      /\ UNCHANGED <<device, config, table>>
      /\ call' = NoCall /\ mode' = call.mode /\ asked' = call.asked /\ hushed' = call.hushed
      /\ handle' = (handle \/ call.mode = "msix")
  BY DEF MsiInv, Return
<1>2. config \in [ConfigRegs -> Values] /\ table \in TableType(n)
  BY <1>1 DEF MsiTypeOK, TableType, Entries
<1>3. ConfigAfter(config, ws, 0) = config /\ TableAfter(device, table, ws, 0) = table
  <2> HIDE DEF ws
  <2> QED
    BY <1>2, AfterNone
<1>4. Settled(device, ConfigAfter(config, ws, Len(ws)), TableAfter(device, table, ws, Len(ws)),
              call.asked, call.mode, call.hushed, handle \/ call.mode = "msix")
  BY <1>1 DEF CallOK
<1>5. Len(ws) = 0
  BY <1>1
<1>6. Settled(device, config, table, call.asked, call.mode, call.hushed, handle \/ call.mode = "msix")
  BY <1>3, <1>4, <1>5
<1>7. Settled(device', config', table', asked', mode', hushed', handle')
  BY <1>1, <1>6
<1>8. handle' \in BOOLEAN /\ (mode' = "msix" => handle')
  BY <1>1
<1>9. MsiTypeOK'
  BY <1>1, <1>8 DEF MsiTypeOK, Entries, Sources, CallOK
<1> QED
  BY <1>1, <1>7, <1>9 DEF MsiInv, Idle

\* What is allowed stays so if more is allowed.
LEMMA SentMore ==
  ASSUME NEW d, NEW cfg, NEW tab, NEW ask, NEW more,
         \A s \in {MsiSource} \cup (0 .. d.table_size - 1) : ask[s] \subseteq more[s]
  PROVE  /\ SentMsi(d, cfg, ask) => SentMsi(d, cfg, more)
         /\ SentMsix(d, cfg, tab, ask) => SentMsix(d, cfg, tab, more)
<1>1. SentMsi(d, cfg, ask) => SentMsi(d, cfg, more)
  <2>1. ask[MsiSource] \subseteq more[MsiSource]
    BY Zenon
  <2> QED
    BY <2>1, Zenon DEF SentMsi
<1>2. SentMsix(d, cfg, tab, ask) => SentMsix(d, cfg, tab, more)
  <2>1. \A i \in 0 .. d.table_size - 1 : ask[i] \subseteq more[i]
    BY Zenon
  <2> QED
    BY <2>1, Zenon DEF SentMsix
<1> QED
  BY <1>1, <1>2

\* What may be sent while a call runs that asks for a.
Both(a) == [s \in Sources |-> asked[s] \cup a[s]]

\* A call begins with writes that keep to what was asked for, before each of
\* them, and that lead to settled registers.
LEMMA BeginInv ==
  ASSUME MsiInv, NEW res, NEW ws \in Seq(Writes(device.table_size)), NEW m, NEW a, NEW h,
         Begin(res, ws, m, a, h), res # "none", res # "Ok" => ws = <<>>, DOMAIN a = Sources,
         \A k \in 0 .. Len(ws) :
           SentIn(device, ConfigAfter(config, ws, k), TableAfter(device, table, ws, k), Both(a)),
         Settled(device, ConfigAfter(config, ws, Len(ws)), TableAfter(device, table, ws, Len(ws)),
                 a, m, h, handle \/ m = "msix")
  PROVE  MsiInv'
<1>1. /\ Idle /\ MsiTypeOK /\ UNCHANGED <<device, config, table, handle, mode>>
      /\ call' = [res |-> res, writes |-> ws, touched |-> FALSE, mode |-> m, asked |-> a, hushed |-> h]
      /\ asked' = Both(a)
  BY DEF Begin, MsiInv, Both
<1>2. /\ DOMAIN call' = {"res", "writes", "touched", "mode", "asked", "hushed"}
      /\ call'.res = res /\ call'.writes = ws /\ call'.touched = FALSE
      /\ call'.mode = m /\ call'.asked = a /\ call'.hushed = h
  BY <1>1
<1>3. call' # NoCall
  BY <1>2 DEF NoCall
<1>4. MsiTypeOK'
  BY <1>1 DEF MsiTypeOK, Entries, Sources, Both
<1>5. CallOK'
  <2>1. /\ call'.writes \in Seq(Writes(device'.table_size)) /\ DOMAIN call'.asked = Sources'
        /\ call'.res # "Ok" => call'.writes = <<>> /\ ~call'.touched
    BY <1>1, <1>2 DEF Sources, Entries
  <2>2. ASSUME NEW k \in 0 .. Len(call'.writes)
        PROVE  SentIn(device', ConfigAfter(config', call'.writes, k),
                      TableAfter(device', table', call'.writes, k), asked')
    BY <1>1, <1>2
  <2>3. Settled(device', ConfigAfter(config', call'.writes, Len(call'.writes)),
                TableAfter(device', table', call'.writes, Len(call'.writes)),
                call'.asked, call'.mode, call'.hushed, handle' \/ call'.mode = "msix")
    BY <1>1, <1>2
  <2> QED
    BY <1>2, <2>1, <2>2, <2>3, Zenon DEF CallOK
<1> QED
  BY <1>3, <1>4, <1>5, Zenon DEF MsiInv, Idle

-----------------------------------------------------------------------------
(* The writes of the calls *)

\* A register of configuration space after the first k writes.
LEMMA ConfigLast ==
  ASSUME NEW cfg, NEW ws, NEW k \in Nat, NEW r \in ConfigRegs, NEW j \in 1 .. k,
         To(ws, j, r, 0), \A m \in j + 1 .. k : ws[m].reg # r
  PROVE  ConfigAfter(cfg, ws, k)[r] = ws[j].val
<1> DEFINE old == cfg[r]
<1>1. \A m \in j + 1 .. k : ~To(ws, m, r, 0)
  BY Zenon DEF To
<1>2. ConfigAfter(cfg, ws, k)[r] = Later(ws, k, r, 0, old)
  BY Zenon DEF ConfigAfter
<1> HIDE DEF old
<1>3. Later(ws, k, r, 0, old) = ws[j].val
  BY <1>1, LastWrite
<1> QED
  BY <1>2, <1>3

\* Without a write to it, it keeps its value.
LEMMA ConfigKept ==
  ASSUME NEW cfg, NEW ws, NEW k \in Nat, NEW r \in ConfigRegs, \A m \in 1 .. k : ws[m].reg # r
  PROVE  ConfigAfter(cfg, ws, k)[r] = cfg[r]
<1> DEFINE old == cfg[r]
<1>1. \A m \in 1 .. k : ~To(ws, m, r, 0)
  BY Zenon DEF To
<1>2. ConfigAfter(cfg, ws, k)[r] = Later(ws, k, r, 0, old)
  BY Zenon DEF ConfigAfter
<1> HIDE DEF old
<1>3. Later(ws, k, r, 0, old) = old
  BY <1>1, NoWrite
<1> QED
  BY <1>2, <1>3 DEF old

\* A field of the table after the first k writes.
LEMMA FieldAt ==
  ASSUME NEW d, d.bar.base # 0, NEW tab, NEW ws, NEW k, NEW i \in 0 .. d.table_size - 1,
         NEW f \in Fields
  PROVE  TableAfter(d, tab, ws, k)[i][f] = Later(ws, k, f, i, tab[i][f])
<1> DEFINE B(x) == [ADDR |-> Later(ws, k, "ADDR", x, tab[x].ADDR),
                    UPPER |-> Later(ws, k, "UPPER", x, tab[x].UPPER),
                    DATA |-> Later(ws, k, "DATA", x, tab[x].DATA),
                    MASK |-> Later(ws, k, "MASK", x, tab[x].MASK)]
<1>1. TableAfter(d, tab, ws, k) = [x \in 0 .. d.table_size - 1 |-> B(x)]
  BY Zenon DEF TableAfter
<1>2. TableAfter(d, tab, ws, k)[i] = B(i)
  <2> HIDE DEF B
  <2> QED
    BY <1>1, Zenon
<1>3. f = "ADDR" \/ f = "UPPER" \/ f = "DATA" \/ f = "MASK"
  BY DEF Fields
<1>4. B(i)[f] = Later(ws, k, f, i, tab[i][f])
  BY <1>3
<1> QED
  BY <1>2, <1>4

\* The last write to a field decides.
LEMMA FieldLast ==
  ASSUME NEW d, d.bar.base # 0, NEW tab, NEW ws, NEW k \in Nat, NEW i \in 0 .. d.table_size - 1,
         NEW f \in Fields, NEW j \in 1 .. k, To(ws, j, f, i),
         \A m \in j + 1 .. k : ~To(ws, m, f, i)
  PROVE  TableAfter(d, tab, ws, k)[i][f] = ws[j].val
<1> DEFINE old == tab[i][f]
<1>1. TableAfter(d, tab, ws, k)[i][f] = Later(ws, k, f, i, old)
  BY FieldAt
<1> HIDE DEF old
<1>2. Later(ws, k, f, i, old) = ws[j].val
  BY LastWrite
<1> QED
  BY <1>1, <1>2

\* A field that is not written keeps its value.
LEMMA FieldKept ==
  ASSUME NEW d, NEW tab, NEW ws, NEW k \in Nat, NEW i \in 0 .. d.table_size - 1,
         NEW f \in Fields, \A m \in 1 .. k : ~To(ws, m, f, i)
  PROVE  TableAfter(d, tab, ws, k)[i][f] = tab[i][f]
<1> DEFINE old == tab[i][f]
<1>1. CASE d.bar.base = 0
  BY <1>1, Zenon DEF TableAfter
<1>2. CASE d.bar.base # 0
  <2>1. TableAfter(d, tab, ws, k)[i][f] = Later(ws, k, f, i, old)
    BY <1>2, FieldAt
  <2> HIDE DEF old
  <2>2. Later(ws, k, f, i, old) = old
    BY NoWrite
  <2> QED
    BY <2>1, <2>2 DEF old
<1> QED
  BY <1>1, <1>2

\* Writes to configuration space leave the table alone, and MSI-X with it.
LEMMA MsixKept ==
  ASSUME NEW d, NEW cfg, NEW cfg2, NEW tab, NEW ws, NEW k \in Nat, NEW ask,
         SentMsix(d, cfg, tab, ask), cfg2["MSIX_ENABLE"] = cfg["MSIX_ENABLE"],
         \A m \in 1 .. k : ws[m].reg \notin Fields
  PROVE  SentMsix(d, cfg2, TableAfter(d, tab, ws, k), ask)
<1> DEFINE T == TableAfter(d, tab, ws, k)
<1>1. ASSUME NEW i \in 0 .. d.table_size - 1, NEW f \in Fields PROVE T[i][f] = tab[i][f]
  <2>1. \A m \in 1 .. k : ~To(ws, m, f, i)
    BY DEF To
  <2> QED
    BY <2>1, FieldKept
<1>2. ASSUME NEW i \in 0 .. d.table_size - 1
      PROVE  /\ T[i].MASK = tab[i].MASK /\ T[i].ADDR = tab[i].ADDR
             /\ T[i].UPPER = tab[i].UPPER /\ T[i].DATA = tab[i].DATA
  BY <1>1, Names
<1> HIDE DEF T
<1>3. SentMsix(d, cfg2, T, ask)
  BY <1>2 DEF SentMsix
<1> QED
  BY <1>3 DEF T

\* Writes that spare the registers of MSI leave what it sends alone.
LEMMA MsiKept ==
  ASSUME NEW d, NEW cfg, NEW ws, NEW k \in Nat, NEW ask, SentMsi(d, cfg, ask),
         \A m \in 1 .. k : ws[m].reg \notin {"MSI_ENABLE", "MSI+4", "MSI+8", "MSI+12"}
  PROVE  SentMsi(d, ConfigAfter(cfg, ws, k), ask)
<1> DEFINE C == ConfigAfter(cfg, ws, k)
<1>1. ASSUME NEW r \in {"MSI_ENABLE", "MSI+4", "MSI+8", "MSI+12"} PROVE C[r] = cfg[r]
  <2>1. r \in ConfigRegs /\ \A m \in 1 .. k : ws[m].reg # r
    BY DEF ConfigRegs
  <2> QED
    BY <2>1, ConfigKept
<1>2. /\ C["MSI_ENABLE"] = cfg["MSI_ENABLE"] /\ C["MSI+4"] = cfg["MSI+4"]
      /\ C["MSI+8"] = cfg["MSI+8"] /\ C["MSI+12"] = cfg["MSI+12"]
  BY <1>1
<1> HIDE DEF C
<1>3. SentMsi(d, C, ask)
  BY <1>2 DEF SentMsi
<1> QED
  BY <1>3 DEF C

\* What was asked for before and what is asked for now may both be sent.
LEMMA BothMore ==
  ASSUME NEW cfg, NEW tab, NEW a
  PROVE  /\ SentMsi(device, cfg, asked) \/ SentMsi(device, cfg, a) => SentMsi(device, cfg, Both(a))
         /\ SentMsix(device, cfg, tab, asked) \/ SentMsix(device, cfg, tab, a)
              => SentMsix(device, cfg, tab, Both(a))
<1> DEFINE more == Both(a)
           d == device
<1>1. ASSUME NEW s \in {MsiSource} \cup (0 .. d.table_size - 1)
      PROVE  asked[s] \subseteq more[s] /\ a[s] \subseteq more[s]
  BY DEF Both, Sources, Entries
<1> HIDE DEF more
<1>2. /\ SentMsi(d, cfg, asked) => SentMsi(d, cfg, more)
      /\ SentMsix(d, cfg, tab, asked) => SentMsix(d, cfg, tab, more)
  BY <1>1, SentMore
<1>3. /\ SentMsi(d, cfg, a) => SentMsi(d, cfg, more)
      /\ SentMsix(d, cfg, tab, a) => SentMsix(d, cfg, tab, more)
  BY <1>1, SentMore
<1> QED
  BY <1>2, <1>3 DEF more

\* A call that fails its validation writes nothing.
LEMMA FailInv ==
  ASSUME MsiInv, NEW res, Fail(res), res # "none"
  PROVE  MsiInv'
<1> DEFINE W == Writes(device.table_size)
           e == <<>>
           a == asked
<1>1. Idle /\ Settled(device, config, table, asked, mode, hushed, handle)
  BY DEF MsiInv, Fail, Begin
<1>2. /\ config \in [ConfigRegs -> Values] /\ table \in TableType(device.table_size)
      /\ DOMAIN a = Sources /\ (handle \/ mode = "msix" <=> handle) /\ handle \in BOOLEAN
  BY DEF MsiInv, MsiTypeOK, TableType, Entries
<1>3. e \in Seq(W) /\ Len(e) = 0
  BY Zenon, EmptySeq
<1>4. Begin(res, e, mode, a, hushed)
  BY DEF Fail
<1>5. ConfigAfter(config, e, 0) = config /\ TableAfter(device, table, e, 0) = table
  <2> HIDE DEF e
  <2> QED
    BY <1>2, AfterNone
<1>6. Settled(device, config, table, a, mode, hushed, handle \/ mode = "msix")
  BY <1>1, <1>2
<1>7. ASSUME NEW k \in 0 .. Len(e)
      PROVE  SentIn(device, ConfigAfter(config, e, k), TableAfter(device, table, e, k), Both(a))
  <2>1. k = 0
    BY <1>3
  <2>2. SentIn(device, config, table, a)
    BY <1>1 DEF Settled
  <2>3. SentIn(device, config, table, Both(a))
    BY <2>2, BothMore DEF SentIn
  <2> QED
    BY <1>5, <2>1, <2>3
<1>8. res # "Ok" => e = <<>>
  OBVIOUS
<1>9. Settled(device, ConfigAfter(config, e, Len(e)), TableAfter(device, table, e, Len(e)),
              a, mode, hushed, handle \/ mode = "msix")
  BY <1>3, <1>5, <1>6
<1> HIDE DEF e, a
<1> QED
  BY <1>2, <1>3, <1>4, <1>7, <1>8, <1>9, BeginInv DEF W

\* c is s followed by t.
IsCat(S, c, s, t) ==
  /\ c \in Seq(S) /\ Len(c) = Len(s) + Len(t)
  /\ \A i \in 1 .. Len(s) : c[i] = s[i]
  /\ \A i \in 1 .. Len(t) : c[Len(s) + i] = t[i]

\* Sequences put together.
LEMMA Cat ==
  ASSUME NEW S, NEW s \in Seq(S), NEW t \in Seq(S)
  PROVE  IsCat(S, s \o t, s, t)
  BY DEF IsCat

\* One more at the end.
LEMMA CatOne ==
  ASSUME NEW S, NEW s \in Seq(S), NEW e \in S
  PROVE  /\ s \o <<e>> \in Seq(S) /\ Len(s \o <<e>>) = Len(s) + 1
         /\ \A i \in 1 .. Len(s) : (s \o <<e>>)[i] = s[i]
         /\ (s \o <<e>>)[Len(s) + 1] = e
  OBVIOUS

\* The values that the driver writes.
LEMMA ValueFacts ==
  /\ 0 \in Values /\ 1 \in Values /\ LAPIC_MSI_ADDRESS_BASE \in Values /\ Vectors \subseteq Values
  /\ "INTX_DISABLE" \in ConfigRegs /\ "MSI_ENABLE" \in ConfigRegs /\ "MSI+4" \in ConfigRegs
  /\ "MSI+8" \in ConfigRegs /\ "MSI+12" \in ConfigRegs /\ "MSIX_ENABLE" \in ConfigRegs
  BY DEF Values, ConfigRegs

\* A write to configuration space is one.
LEMMA ConfigWrite ==
  ASSUME NEW n, NEW r \in ConfigRegs, NEW x \in Values
  PROVE  /\ ToConfig(r, x) \in Writes(n)
         /\ ToConfig(r, x).reg = r /\ ToConfig(r, x).index = 0 /\ ToConfig(r, x).val = x
<1> DEFINE w == ToConfig(r, x)
<1>1. w = [reg |-> r, index |-> 0, val |-> x]
  BY DEF ToConfig
<1>2. w.reg = r /\ w.index = 0 /\ w.val = x
  BY <1>1
<1>3. w \in [reg : ConfigRegs, index : {0}, val : Values]
  BY <1>1
<1> QED
  BY <1>2, <1>3, Zenon DEF Writes

\* What configure_msi writes.
LEMMA MsiProgram ==
  ASSUME MsiTypeOK, NEW v \in Vectors
  PROVE  LET ws == MsiWrites(v)
             n == IF device.is64 THEN 6 ELSE 5
         IN  /\ ws \in Seq(Writes(device.table_size)) /\ Len(ws) = n
             /\ ws[1] = ToConfig("MSI_ENABLE", 0) /\ ws[2] = ToConfig("MSI+4", LAPIC_MSI_ADDRESS_BASE)
             /\ device.is64 => ws[3] = ToConfig("MSI+8", 0) /\ ws[4] = ToConfig("MSI+12", v)
             /\ ~device.is64 => ws[3] = ToConfig("MSI+8", v)
             /\ ws[n - 1] = ToConfig("MSI_ENABLE", 1) /\ ws[n] = ToConfig("INTX_DISABLE", 1)
<1> DEFINE W == Writes(device.table_size)
           c1 == ToConfig("MSI_ENABLE", 0)
           c2 == ToConfig("MSI+4", LAPIC_MSI_ADDRESS_BASE)
           c3 == ToConfig("MSI+8", 0)
           c4 == ToConfig("MSI+12", v)
           d3 == ToConfig("MSI+8", v)
           c5 == ToConfig("MSI_ENABLE", 1)
           c6 == ToConfig("INTX_DISABLE", 1)
           x == IF device.is64 THEN <<c3, c4>> ELSE <<d3>>
           p == <<c1, c2>> \o x
           q == p \o <<c5>>
           ws == q \o <<c6>>
<1>1. c1 \in W /\ c2 \in W /\ c3 \in W /\ c4 \in W /\ d3 \in W /\ c5 \in W /\ c6 \in W
  BY ValueFacts, ConfigWrite
<1>2. MsiWrites(v) = ws
  BY Zenon DEF MsiWrites, disable_intx
<1>3. device.is64 \in BOOLEAN
  BY DeviceFacts DEF MsiTypeOK
<1> DEFINE l == IF device.is64 THEN 2 ELSE 1
           s == <<c1, c2>>
<1> HIDE DEF W, c1, c2, c3, c4, d3, c5, c6
<1>4. /\ x \in Seq(W) /\ Len(x) = l /\ l \in {1, 2}
      /\ device.is64 => x[1] = c3 /\ x[2] = c4
      /\ ~device.is64 => x[1] = d3
  BY <1>1, <1>3
<1>5. s \in Seq(W) /\ Len(s) = 2 /\ s[1] = c1 /\ s[2] = c2
  BY <1>1
<1>6. p = s \o x
  OBVIOUS
<1> HIDE DEF x, l, s, p
<1>7. p \in Seq(W) /\ Len(p) = 2 + l /\ p[1] = c1 /\ p[2] = c2
      /\ \A i \in 1 .. l : p[2 + i] = x[i]
  <2>1. IsCat(W, p, s, x)
    BY <1>4, <1>5, <1>6, Cat
  <2> QED
    BY <1>4, <1>5, <2>1 DEF IsCat
<1>8. q \in Seq(W) /\ Len(q) = 3 + l /\ q[3 + l] = c5 /\ \A i \in 1 .. 2 + l : q[i] = p[i]
  <2>1. /\ q \in Seq(W) /\ Len(q) = Len(p) + 1 /\ q[Len(p) + 1] = c5
        /\ \A i \in 1 .. Len(p) : q[i] = p[i]
    BY <1>1, <1>7, CatOne
  <2> HIDE DEF q
  <2> QED
    BY <1>4, <1>7, <2>1
<1> HIDE DEF q
<1>9. ws \in Seq(W) /\ Len(ws) = 4 + l /\ ws[4 + l] = c6 /\ \A i \in 1 .. 3 + l : ws[i] = q[i]
  <2>1. /\ ws \in Seq(W) /\ Len(ws) = Len(q) + 1 /\ ws[Len(q) + 1] = c6
        /\ \A i \in 1 .. Len(q) : ws[i] = q[i]
    BY <1>1, <1>8, CatOne
  <2> HIDE DEF ws
  <2> QED
    BY <1>4, <1>8, <2>1
<1> HIDE DEF ws
<1>10. /\ ws[1] = c1 /\ ws[2] = c2 /\ ws[3 + l] = c5 /\ ws[4 + l] = c6
       /\ ws[3] = x[1] /\ (l = 2 => ws[4] = x[2])
  BY <1>4, <1>7, <1>8, <1>9
<1> QED
  BY <1>2, <1>3, <1>4, <1>9, <1>10 DEF W, c1, c2, c3, c4, d3, c5, c6, l

\* Writes to configuration space leave the table alone.
LEMMA TableSame ==
  ASSUME NEW d, NEW tab \in TableType(d.table_size), NEW ws, NEW k \in Nat,
         \A m \in 1 .. k : ws[m].reg \notin Fields
  PROVE  TableAfter(d, tab, ws, k) = tab
<1>1. CASE d.bar.base = 0
  BY <1>1, Zenon DEF TableAfter
<1>2. CASE d.bar.base # 0
  <2> DEFINE n == d.table_size
             B(x) == [ADDR |-> Later(ws, k, "ADDR", x, tab[x].ADDR),
                      UPPER |-> Later(ws, k, "UPPER", x, tab[x].UPPER),
                      DATA |-> Later(ws, k, "DATA", x, tab[x].DATA),
                      MASK |-> Later(ws, k, "MASK", x, tab[x].MASK)]
  <2>1. TableAfter(d, tab, ws, k) = [x \in 0 .. n - 1 |-> B(x)]
    BY <1>2, Zenon DEF TableAfter
  <2>2. ASSUME NEW i \in 0 .. n - 1 PROVE B(i) = tab[i]
    <3>1. ASSUME NEW f \in Fields PROVE Later(ws, k, f, i, tab[i][f]) = tab[i][f]
      <4> DEFINE old == tab[i][f]
      <4>1. \A m \in 1 .. k : ~To(ws, m, f, i)
        BY Zenon DEF To
      <4> HIDE DEF old
      <4>2. Later(ws, k, f, i, old) = old
        BY <4>1, NoWrite
      <4> QED
        BY <4>2 DEF old
    <3>2. B(i) = [ADDR |-> tab[i].ADDR, UPPER |-> tab[i].UPPER,
                  DATA |-> tab[i].DATA, MASK |-> tab[i].MASK]
      BY <3>1, Names
    <3>3. tab[i] \in [ADDR : Values, UPPER : Values, DATA : Values, MASK : Values]
      BY DEF TableType
    <3> HIDE DEF B
    <3> QED
      BY <3>2, <3>3
  <2>3. tab = [i \in 0 .. n - 1 |-> tab[i]]
    BY DEF TableType
  <2> HIDE DEF B
  <2> QED
    BY <2>1, <2>2, <2>3, Zenon
<1> QED
  BY <1>1, <1>2

\* configure_msi
LEMMA ConfigureMsiInv ==
  ASSUME MsiInv, NEW v \in Vectors,
         Begin("Ok", MsiWrites(v), "msi", [asked EXCEPT ![MsiSource] = Asks(v)], hushed)
  PROVE  MsiInv'
<1> DEFINE ws == MsiWrites(v)
           n == IF device.is64 THEN 6 ELSE 5
           a == [asked EXCEPT ![MsiSource] = Asks(v)]
           C(k) == ConfigAfter(config, ws, k)
           T(k) == TableAfter(device, table, ws, k)
           L == LAPIC_MSI_ADDRESS_BASE
<1>1. /\ Idle /\ MsiTypeOK /\ Settled(device, config, table, asked, mode, hushed, handle)
  BY DEF MsiInv, Begin
<1>2. /\ config \in [ConfigRegs -> Values] /\ table \in TableType(device.table_size)
      /\ DOMAIN asked = Sources /\ handle \in BOOLEAN /\ device.is64 \in BOOLEAN
  BY <1>1, DeviceFacts DEF MsiTypeOK, TableType, Entries
<1>3. /\ ws \in Seq(Writes(device.table_size)) /\ Len(ws) = n
      /\ ws[1] = ToConfig("MSI_ENABLE", 0) /\ ws[2] = ToConfig("MSI+4", L)
      /\ device.is64 => ws[3] = ToConfig("MSI+8", 0) /\ ws[4] = ToConfig("MSI+12", v)
      /\ ~device.is64 => ws[3] = ToConfig("MSI+8", v)
      /\ ws[n - 1] = ToConfig("MSI_ENABLE", 1) /\ ws[n] = ToConfig("INTX_DISABLE", 1)
  BY <1>1, MsiProgram
<1>4. /\ To(ws, 1, "MSI_ENABLE", 0) /\ ws[1].val = 0
      /\ To(ws, 2, "MSI+4", 0) /\ ws[2].val = L
      /\ To(ws, 3, "MSI+8", 0)
      /\ device.is64 => ws[3].val = 0 /\ To(ws, 4, "MSI+12", 0) /\ ws[4].val = v
      /\ ~device.is64 => ws[3].val = v
      /\ To(ws, n - 1, "MSI_ENABLE", 0) /\ ws[n - 1].val = 1
      /\ To(ws, n, "INTX_DISABLE", 0) /\ ws[n].val = 1
  BY <1>3, ValueFacts, ConfigWrite DEF To
<1>5. /\ MsiSource \in Sources /\ a[MsiSource] = Asks(v) /\ DOMAIN a = Sources
      /\ \A i \in 0 .. device.table_size - 1 : a[i] = asked[i]
  <2>1. MsiSource \in Sources /\ \A i \in 0 .. device.table_size - 1 : i # MsiSource
    BY DEF Sources, MsiSource
  <2> QED
    BY <1>2, <2>1
<1> HIDE DEF ws, a, L
<1>6. n \in {5, 6} /\ n - 1 \in Nat /\ n - 2 \in Nat
  BY <1>2
<1>7. /\ \A m \in 1 .. n : ws[m].reg \notin Fields /\ ws[m].reg # "MSIX_ENABLE"
      /\ \A m \in 2 .. n - 2 : ws[m].reg # "MSI_ENABLE"
      /\ \A m \in 3 .. n : ws[m].reg # "MSI+4"
      /\ \A m \in 4 .. n : ws[m].reg # "MSI+8"
      /\ \A m \in 5 .. n : ws[m].reg # "MSI+12"
      /\ ws[n].reg # "MSI_ENABLE"
  <2>1. CASE device.is64
    <3>1. n = 6 /\ ws[1].reg = "MSI_ENABLE" /\ ws[2].reg = "MSI+4" /\ ws[3].reg = "MSI+8"
          /\ ws[4].reg = "MSI+12" /\ ws[5].reg = "MSI_ENABLE" /\ ws[6].reg = "INTX_DISABLE"
      BY <1>4, <2>1 DEF To
    <3> QED
      BY <3>1 DEF Fields
  <2>2. CASE ~device.is64
    <3>1. n = 5 /\ ws[1].reg = "MSI_ENABLE" /\ ws[2].reg = "MSI+4" /\ ws[3].reg = "MSI+8"
          /\ ws[4].reg = "MSI_ENABLE" /\ ws[5].reg = "INTX_DISABLE"
      BY <1>4, <2>2 DEF To
    <3> QED
      BY <3>1 DEF Fields
  <2> QED
    BY <2>1, <2>2
<1> HIDE DEF n
<1>8. ASSUME NEW k \in 0 .. n
      PROVE  T(k) = table /\ C(k)["MSIX_ENABLE"] = config["MSIX_ENABLE"]
  <2>1. k \in Nat /\ \A m \in 1 .. k : ws[m].reg \notin Fields /\ ws[m].reg # "MSIX_ENABLE"
    BY <1>6, <1>7
  <2>2. TableAfter(device, table, ws, k) = table
    BY <1>2, <2>1, TableSame
  <2> QED
    BY <2>1, <2>2, ConfigKept, ValueFacts
<1>9. ASSUME NEW k \in 1 .. n - 2 PROVE C(k)["MSI_ENABLE"] = 0
  <2>1. k \in Nat /\ 1 \in 1 .. k /\ \A m \in 1 + 1 .. k : ws[m].reg # "MSI_ENABLE"
    BY <1>6, <1>7
  <2> QED
    BY <1>4, <2>1, ConfigLast, ValueFacts
<1>10. ASSUME NEW k \in n - 1 .. n
       PROVE  /\ C(k)["MSI_ENABLE"] = 1 /\ C(k)["MSI+4"] = L
              /\ device.is64 => C(k)["MSI+8"] = 0 /\ C(k)["MSI+12"] = v
              /\ ~device.is64 => C(k)["MSI+8"] = v
  <2>1. k \in Nat /\ n - 1 \in 1 .. k /\ 2 \in 1 .. k /\ 3 \in 1 .. k /\ 4 \in 1 .. k
    BY <1>6
  <2>2. /\ \A m \in (n - 1) + 1 .. k : ws[m].reg # "MSI_ENABLE"
        /\ \A m \in 2 + 1 .. k : ws[m].reg # "MSI+4"
        /\ \A m \in 3 + 1 .. k : ws[m].reg # "MSI+8"
        /\ \A m \in 4 + 1 .. k : ws[m].reg # "MSI+12"
    BY <1>6, <1>7
  <2>3. C(k)["MSI_ENABLE"] = 1
    <3> DEFINE j == n - 1
    <3>1. j \in 1 .. k /\ To(ws, j, "MSI_ENABLE", 0) /\ ws[j].val = 1
          /\ \A m \in j + 1 .. k : ws[m].reg # "MSI_ENABLE"
      BY <1>4, <2>1, <2>2
    <3> HIDE DEF j
    <3> QED
      BY <2>1, <3>1, ConfigLast, ValueFacts
  <2>4. C(k)["MSI+4"] = L
    BY <1>4, <2>1, <2>2, ConfigLast, ValueFacts
  <2>5. C(k)["MSI+8"] = ws[3].val
    BY <1>4, <2>1, <2>2, ConfigLast, ValueFacts
  <2>6. device.is64 => C(k)["MSI+12"] = ws[4].val
    BY <1>4, <2>1, <2>2, ConfigLast, ValueFacts
  <2> QED
    BY <1>4, <2>3, <2>4, <2>5, <2>6
<1>11. C(n)["INTX_DISABLE"] = 1
  <2>1. n \in Nat /\ n \in 1 .. n /\ \A m \in n + 1 .. n : ws[m].reg # "INTX_DISABLE"
    BY <1>6
  <2> QED
    BY <1>4, <2>1, ConfigLast, ValueFacts
<1>12. C(0) = config
  BY <1>2, AfterNone
<1> HIDE DEF C, T
<1>13. SentMsi(device, config, asked) /\ SentMsix(device, config, table, asked)
  BY <1>1 DEF Settled, SentIn
<1>14. ASSUME NEW k \in 0 .. n PROVE SentMsix(device, C(k), T(k), asked)
  BY <1>8, <1>13 DEF SentMsix
<1>15. ASSUME NEW k \in n - 1 .. n PROVE SentMsi(device, C(k), a)
  <2>1. (IF device.is64 THEN Message(C(k)["MSI+4"], C(k)["MSI+8"], C(k)["MSI+12"])
         ELSE Message(C(k)["MSI+4"], 0, C(k)["MSI+8"])) = Message(L, 0, v)
    BY <1>2, <1>10
  <2>2. Message(L, 0, v) \in a[MsiSource]
    BY <1>5 DEF Asks, L
  <2> QED
    BY <2>1, <2>2 DEF SentMsi
<1>16. ASSUME NEW k \in 0 .. Len(ws)
       PROVE  SentIn(device, ConfigAfter(config, ws, k), TableAfter(device, table, ws, k), Both(a))
  <2>1. k \in 0 .. n /\ (k = 0 \/ k \in 1 .. n - 2 \/ k \in n - 1 .. n)
    BY <1>3, <1>6
  <2>2. SentMsi(device, C(k), asked) \/ SentMsi(device, C(k), a)
    <3>1. CASE k = 0
      BY <1>12, <1>13, <3>1
    <3>2. CASE k \in 1 .. n - 2
      BY <1>9, <3>2 DEF SentMsi
    <3>3. CASE k \in n - 1 .. n
      BY <1>15, <3>3
    <3> QED
      BY <2>1, <3>1, <3>2, <3>3
  <2>3. SentMsix(device, C(k), T(k), asked)
    BY <1>14, <2>1
  <2>4. SentIn(device, C(k), T(k), Both(a))
    BY <2>2, <2>3, BothMore DEF SentIn
  <2> QED
    BY <2>4 DEF C, T
<1>17. Settled(device, C(n), T(n), a, "msi", hushed, handle \/ "msi" = "msix")
  <2>1. n \in 0 .. n /\ n \in n - 1 .. n
    BY <1>6
  <2>2. SentMsi(device, C(n), a)
    BY <1>15, <2>1
  <2>3. T(n) = table
    BY <1>8, <2>1
  <2>4. SentMsix(device, C(n), T(n), a)
    BY <1>5, <1>14, <2>1 DEF SentMsix
  <2>5. Heard(device, C(n), T(n), "msi", hushed)
    BY <1>10, <1>11, <2>1 DEF Heard
  <2>6. /\ device.bar.base = 0 => \A i \in 0 .. device.table_size - 1 : table[i].MASK = 1
        /\ handle /\ device.bar.base # 0 =>
             \A i \in 0 .. device.table_size - 1 : EntryOK(table, asked, i)
    BY <1>1 DEF Settled
  <2>7. \A i \in 0 .. device.table_size - 1 : EntryOK(table, asked, i) => EntryOK(table, a, i)
    BY <1>5 DEF EntryOK
  <2> QED
    BY <2>2, <2>3, <2>4, <2>5, <2>6, <2>7 DEF Settled, SentIn
<1>18. Settled(device, ConfigAfter(config, ws, Len(ws)), TableAfter(device, table, ws, Len(ws)),
               a, "msi", hushed, handle \/ "msi" = "msix")
  BY <1>3, <1>17 DEF C, T, n
<1>19. Begin("Ok", ws, "msi", a, hushed)
  BY DEF ws, a
<1>20. "Ok" # "none"
  OBVIOUS
<1> QED
  BY <1>3, <1>5, <1>16, <1>18, <1>19, <1>20, BeginInv

\* Two writes.
LEMMA TwoWrites ==
  ASSUME NEW W, NEW c1 \in W, NEW c2 \in W
  PROVE  LET ws == <<c1>> \o <<c2>>
         IN  ws \in Seq(W) /\ Len(ws) = 2 /\ ws[1] = c1 /\ ws[2] = c2
<1> DEFINE s == <<c1>>
<1>1. s \in Seq(W) /\ Len(s) = 1 /\ s[1] = c1
  OBVIOUS
<1> HIDE DEF s
<1>2. /\ s \o <<c2>> \in Seq(W) /\ Len(s \o <<c2>>) = Len(s) + 1
      /\ \A i \in 1 .. Len(s) : (s \o <<c2>>)[i] = s[i]
      /\ (s \o <<c2>>)[Len(s) + 1] = c2
  BY <1>1, CatOne, ZenonT(60)
<1> QED
  BY <1>1, <1>2 DEF s

\* disable_msi and disable_msix
LEMMA DisableInv ==
  ASSUME MsiInv, NEW en \in {"MSI_ENABLE", "MSIX_ENABLE"},
         Begin("Ok", <<ToConfig(en, 0)>> \o enable_intx, "intx", asked, hushed)
  PROVE  MsiInv'
<1> DEFINE W == Writes(device.table_size)
           c1 == ToConfig(en, 0)
           c2 == ToConfig("INTX_DISABLE", 0)
           ws == <<c1>> \o <<c2>>
           a == asked
           C(k) == ConfigAfter(config, ws, k)
           T(k) == TableAfter(device, table, ws, k)
<1>1. /\ Idle /\ MsiTypeOK /\ Settled(device, config, table, asked, mode, hushed, handle)
  BY DEF MsiInv, Begin
<1>2. /\ config \in [ConfigRegs -> Values] /\ table \in TableType(device.table_size)
      /\ DOMAIN a = Sources /\ handle \in BOOLEAN
  BY <1>1 DEF MsiTypeOK, TableType, Entries
<1>3. en \in ConfigRegs /\ en # "INTX_DISABLE" /\ en \notin Fields /\ "INTX_DISABLE" \notin Fields
  BY ValueFacts DEF Fields
<1>4. /\ c1 \in W /\ c1.reg = en /\ c1.index = 0 /\ c1.val = 0
      /\ c2 \in W /\ c2.reg = "INTX_DISABLE" /\ c2.index = 0 /\ c2.val = 0
  BY <1>3, ValueFacts, ConfigWrite
<1>5. Begin("Ok", ws, "intx", a, hushed)
  BY DEF enable_intx
<1>7. ws \in Seq(W) /\ Len(ws) = 2 /\ ws[1] = c1 /\ ws[2] = c2
  <2> HIDE DEF W, c1, c2
  <2> QED
    BY <1>4, TwoWrites
<1> HIDE DEF W, c1, c2, a
<1> HIDE DEF ws
<1>8. ASSUME NEW k \in 0 .. 2
      PROVE  /\ T(k) = table
             /\ \A r \in ConfigRegs : r # en /\ r # "INTX_DISABLE" => C(k)[r] = config[r]
  <2>1. k \in Nat /\ \A m \in 1 .. k : ws[m].reg \in {en, "INTX_DISABLE"}
    BY <1>4, <1>7
  <2>2. \A m \in 1 .. k : ws[m].reg \notin Fields
    BY <1>3, <2>1
  <2>3. TableAfter(device, table, ws, k) = table
    BY <1>2, <2>1, <2>2, TableSame
  <2>4. ASSUME NEW r \in ConfigRegs, r # en, r # "INTX_DISABLE" PROVE C(k)[r] = config[r]
    <3>1. \A m \in 1 .. k : ws[m].reg # r
      BY <2>1, <2>4
    <3> QED
      BY <2>1, <3>1, ConfigKept
  <2> QED
    BY <2>3, <2>4
<1>9. ASSUME NEW k \in 1 .. 2 PROVE C(k)[en] = 0
  <2>1. k \in Nat /\ 1 \in 1 .. k /\ To(ws, 1, en, 0) /\ \A m \in 1 + 1 .. k : ws[m].reg # en
    BY <1>3, <1>4, <1>7 DEF To
  <2> QED
    BY <1>3, <1>4, <1>7, <2>1, ConfigLast
<1>10. C(2)["INTX_DISABLE"] = 0
  <2>1. 2 \in Nat /\ 2 \in 1 .. 2 /\ To(ws, 2, "INTX_DISABLE", 0)
        /\ \A m \in 2 + 1 .. 2 : ws[m].reg # "INTX_DISABLE"
    BY <1>4, <1>7 DEF To
  <2> QED
    BY <1>4, <1>7, <2>1, ConfigLast, ValueFacts
<1>11. C(0) = config
  BY <1>2, AfterNone
<1> HIDE DEF C, T
<1>12. SentMsi(device, config, a) /\ SentMsix(device, config, table, a)
  BY <1>1 DEF Settled, SentIn, a
<1>13. ASSUME NEW k \in 0 .. 2 PROVE SentMsi(device, C(k), a) /\ SentMsix(device, C(k), T(k), a)
  <2>1. CASE k = 0
    BY <1>8, <1>11, <1>12, <2>1
  <2>2. CASE k \in 1 .. 2 /\ en = "MSI_ENABLE"
    <3>1. C(k)["MSI_ENABLE"] = 0 /\ C(k)["MSIX_ENABLE"] = config["MSIX_ENABLE"] /\ T(k) = table
      BY <1>8, <1>9, <2>2, ValueFacts
    <3> QED
      BY <1>12, <3>1 DEF SentMsi, SentMsix
  <2>3. CASE k \in 1 .. 2 /\ en = "MSIX_ENABLE"
    <3>1. /\ C(k)["MSIX_ENABLE"] = 0 /\ C(k)["MSI_ENABLE"] = config["MSI_ENABLE"]
          /\ C(k)["MSI+4"] = config["MSI+4"] /\ C(k)["MSI+8"] = config["MSI+8"]
          /\ C(k)["MSI+12"] = config["MSI+12"]
      BY <1>8, <1>9, <2>3, ValueFacts
    <3> QED
      BY <1>12, <3>1 DEF SentMsi, SentMsix
  <2> QED
    BY <2>1, <2>2, <2>3
<1>14. ASSUME NEW k \in 0 .. Len(ws)
       PROVE  SentIn(device, ConfigAfter(config, ws, k), TableAfter(device, table, ws, k), Both(a))
  <2>1. SentMsi(device, C(k), asked) /\ SentMsix(device, C(k), T(k), asked)
    BY <1>7, <1>13 DEF a
  <2>2. SentIn(device, C(k), T(k), Both(a))
    BY <2>1, BothMore DEF SentIn
  <2> QED
    BY <2>2 DEF C, T
<1>15. Settled(device, C(2), T(2), a, "intx", hushed, handle \/ "intx" = "msix")
  <2>1. SentIn(device, C(2), T(2), a)
    BY <1>13 DEF SentIn
  <2>2. Heard(device, C(2), T(2), "intx", hushed)
    BY <1>10 DEF Heard
  <2>3. T(2) = table
    BY <1>8
  <2> QED
    BY <1>1, <2>1, <2>2, <2>3 DEF Settled, a
<1>16. Settled(device, ConfigAfter(config, ws, Len(ws)), TableAfter(device, table, ws, Len(ws)),
               a, "intx", hushed, handle \/ "intx" = "msix")
  BY <1>7, <1>15 DEF C, T
<1>17. "Ok" # "none"
  OBVIOUS
<1> QED
  BY <1>2, <1>5, <1>7, <1>14, <1>16, <1>17, BeginInv DEF W

-----------------------------------------------------------------------------
(* Writes to the table *)

\* A write to entry i is one.
LEMMA TableWrite ==
  ASSUME NEW n, NEW i \in 0 .. n - 1, NEW f \in Fields, NEW x \in Values
  PROVE  /\ ToTable(i, f, x) \in Writes(n)
         /\ ToTable(i, f, x).reg = f /\ ToTable(i, f, x).index = i /\ ToTable(i, f, x).val = x
<1> DEFINE w == ToTable(i, f, x)
<1>1. w = [reg |-> f, index |-> i, val |-> x]
  BY DEF ToTable
<1>2. w.reg = f /\ w.index = i /\ w.val = x
  BY <1>1
<1>3. w \in [reg : Fields, index : 0 .. n - 1, val : Values]
  BY <1>1
<1> QED
  BY <1>2, <1>3, Zenon DEF Writes

\* An entry in order sends what was asked for.
LEMMA EntrySent ==
  ASSUME NEW tab, NEW ask, NEW i, EntryOK(tab, ask, i), tab[i].MASK = 0
  PROVE  ask[i] # {} /\ Message(tab[i].ADDR, tab[i].UPPER, tab[i].DATA) \in ask[i]
<1>1. ask[i] # {}
  BY DEF EntryOK
<1>2. PICK v \in Vectors : /\ ask[i] = Asks(v) /\ tab[i].DATA = v
                           /\ tab[i].ADDR = LAPIC_MSI_ADDRESS_BASE /\ tab[i].UPPER = 0
  BY <1>1 DEF EntryOK
<1> QED
  BY <1>1, <1>2 DEF Asks

\* A call that writes only to the table, on a device that was configured: it is
\* enough to look at each entry.
LEMMA TableInv ==
  ASSUME MsiInv, handle, NEW ws \in Seq(Writes(device.table_size)), NEW a, NEW h,
         \A m \in 1 .. Len(ws) : ws[m].reg \in Fields,
         DOMAIN a = Sources, a[MsiSource] = asked[MsiSource],
         Begin("Ok", ws, mode, a, h),
         device.bar.base # 0 =>
           \A i \in 0 .. device.table_size - 1 :
             /\ \A k \in 0 .. Len(ws) :
                  LET T == TableAfter(device, table, ws, k)
                  IN  T[i].MASK = 0 => Message(T[i].ADDR, T[i].UPPER, T[i].DATA) \in asked[i] \cup a[i]
             /\ EntryOK(TableAfter(device, table, ws, Len(ws)), a, i)
             /\ mode = "msix" /\ i \notin h => TableAfter(device, table, ws, Len(ws))[i].MASK = 0
  PROVE  MsiInv'
<1> DEFINE C(k) == ConfigAfter(config, ws, k)
           T(k) == TableAfter(device, table, ws, k)
           n == Len(ws)
           E == 0 .. device.table_size - 1
<1>1. /\ Idle /\ MsiTypeOK /\ Settled(device, config, table, asked, mode, hushed, handle)
  BY DEF MsiInv, Begin
<1>2. /\ config \in [ConfigRegs -> Values] /\ handle \in BOOLEAN /\ n \in Nat
  BY <1>1 DEF MsiTypeOK
<1>3. ASSUME NEW k \in 0 .. n PROVE C(k) = config
  <2>1. k \in Nat /\ \A r \in ConfigRegs : \A m \in 1 .. k : ws[m].reg # r
    BY <1>2, Names
  <2>2. \A r \in ConfigRegs : Later(ws, k, r, 0, config[r]) = config[r]
    <3> SUFFICES ASSUME NEW r \in ConfigRegs PROVE Later(ws, k, r, 0, config[r]) = config[r]
      OBVIOUS
    <3> DEFINE old == config[r]
    <3>1. \A m \in 1 .. k : ~To(ws, m, r, 0)
      BY <2>1, Zenon DEF To
    <3> HIDE DEF old
    <3>2. Later(ws, k, r, 0, old) = old
      BY <2>1, <3>1, NoWrite
    <3> QED
      BY <3>2 DEF old
  <2>3. C(k) = [r \in ConfigRegs |-> config[r]]
    BY <2>2, Zenon DEF ConfigAfter
  <2> QED
    BY <1>2, <2>3
<1>4. SentMsi(device, config, asked) /\ SentMsi(device, config, a)
  BY <1>1 DEF Settled, SentIn, SentMsi
<1>5. ASSUME device.bar.base = 0, NEW k \in 0 .. n
      PROVE  T(k) = table /\ \A i \in E : table[i].MASK = 1
  BY <1>1, <1>5 DEF TableAfter, Settled
<1>6. ASSUME NEW k \in 0 .. n PROVE SentMsix(device, config, T(k), Both(a))
  <2>1. CASE device.bar.base = 0
    BY <1>5, <2>1 DEF SentMsix
  <2>2. CASE device.bar.base # 0
    <3>1. \A i \in E : Both(a)[i] = asked[i] \cup a[i]
      BY DEF Both, Sources, Entries
    <3>2. \A i \in E : T(k)[i].MASK = 0 =>
            Message(T(k)[i].ADDR, T(k)[i].UPPER, T(k)[i].DATA) \in asked[i] \cup a[i]
      BY <2>2
    <3> HIDE DEF T
    <3> QED
      BY <3>1, <3>2, Zenon DEF SentMsix
  <2> QED
    BY <2>1, <2>2
<1>7. ASSUME NEW k \in 0 .. Len(ws)
      PROVE  SentIn(device, ConfigAfter(config, ws, k), TableAfter(device, table, ws, k), Both(a))
  <2>1. SentMsi(device, config, Both(a))
    BY <1>4, BothMore
  <2>2. SentIn(device, config, T(k), Both(a))
    BY <1>6, <2>1 DEF SentIn
  <2> QED
    BY <1>3, <2>2
<1>8. n \in 0 .. n
  BY <1>2
<1>9. SentMsix(device, config, T(n), a)
  <2>1. CASE device.bar.base = 0
    BY <1>5, <1>8, <2>1 DEF SentMsix
  <2>2. CASE device.bar.base # 0
    <3>1. \A i \in E : EntryOK(T(n), a, i)
      BY <2>2
    <3> HIDE DEF T, n, E
    <3>2. \A i \in E : T(n)[i].MASK = 0 => Message(T(n)[i].ADDR, T(n)[i].UPPER, T(n)[i].DATA) \in a[i]
      BY <3>1, EntrySent
    <3> QED
      BY <3>2, Zenon DEF SentMsix, E
  <2> QED
    BY <2>1, <2>2
<1>10. Heard(device, config, T(n), mode, h)
  <2>1. Heard(device, config, table, mode, hushed)
    BY <1>1 DEF Settled
  <2>2. mode = "msix" /\ device.bar.base # 0 => \A i \in E \ h : T(n)[i].MASK = 0
    OBVIOUS
  <2> HIDE DEF T, n
  <2> QED
    BY <2>1, <2>2 DEF Heard
<1>11. Settled(device, config, T(n), a, mode, h, handle \/ mode = "msix")
  <2>1. device.bar.base = 0 => \A i \in E : T(n)[i].MASK = 1
    BY <1>5, <1>8
  <2>2. device.bar.base # 0 => \A i \in E : EntryOK(T(n), a, i)
    OBVIOUS
  <2> HIDE DEF T, n
  <2> QED
    BY <1>4, <1>9, <1>10, <2>1, <2>2 DEF Settled, SentIn
<1>12. Settled(device, ConfigAfter(config, ws, Len(ws)), TableAfter(device, table, ws, Len(ws)),
               a, mode, h, handle \/ mode = "msix")
  BY <1>3, <1>8, <1>11
<1>13. "Ok" # "none"
  OBVIOUS
<1> QED
  BY <1>7, <1>12, <1>13, BeginInv

\* The masks and unmasks of all entries, one write each.
LEMMA MaskSeq ==
  ASSUME NEW n \in Nat
  PROVE  /\ ForEach(n, 1, MaskWrites) = [j \in 1 .. n |-> ToTable(j - 1, "MASK", 1)]
         /\ ForEach(n, 1, UnmaskWrites) = [j \in 1 .. n |-> ToTable(j - 1, "MASK", 0)]
<1>1. ASSUME NEW j \in 1 .. n PROVE (j - 1) \div 1 = j - 1 /\ 1 + ((j - 1) % 1) = 1
  OBVIOUS
<1>2. n * 1 = n
  OBVIOUS
<1>3. ASSUME NEW j \in 1 .. n
      PROVE  /\ MaskWrites((j - 1) \div 1)[1 + ((j - 1) % 1)] = ToTable(j - 1, "MASK", 1)
             /\ UnmaskWrites((j - 1) \div 1)[1 + ((j - 1) % 1)] = ToTable(j - 1, "MASK", 0)
  BY <1>1 DEF MaskWrites, UnmaskWrites
<1>4. ForEach(n, 1, MaskWrites) = [j \in 1 .. n |-> ToTable(j - 1, "MASK", 1)]
  BY <1>2, <1>3 DEF ForEach
<1>5. ForEach(n, 1, UnmaskWrites) = [j \in 1 .. n |-> ToTable(j - 1, "MASK", 0)]
  BY <1>2, <1>3 DEF ForEach
<1> QED
  BY <1>4, <1>5

\* Masking entries keeps the rest.
LEMMA MaskEntries ==
  ASSUME MsiInv, handle, NEW ws \in Seq(Writes(device.table_size)), NEW h,
         \A m \in 1 .. Len(ws) : ws[m].reg = "MASK" /\ ws[m].val = 1,
         \A i \in 0 .. device.table_size - 1 : mode = "msix" /\ i \notin h =>
           i \notin hushed /\ \A m \in 1 .. Len(ws) : ws[m].index # i,
         Begin("Ok", ws, mode, asked, h)
  PROVE  MsiInv'
<1> DEFINE T(k) == TableAfter(device, table, ws, k)
           E == 0 .. device.table_size - 1
<1>1. /\ Idle /\ MsiTypeOK /\ Settled(device, config, table, asked, mode, hushed, handle)
      /\ DOMAIN asked = Sources /\ Len(ws) \in Nat
  <2>1. /\ Idle /\ MsiTypeOK /\ Settled(device, config, table, asked, mode, hushed, handle)
    BY DEF MsiInv, Begin
  <2>2. DOMAIN asked = Sources
    BY <2>1 DEF MsiTypeOK
  <2>3. Len(ws) \in Nat
    OBVIOUS
  <2> QED
    BY <2>1, <2>2, <2>3, Zenon
<1>2. ASSUME device.bar.base # 0, NEW i \in E, NEW k \in 0 .. Len(ws)
      PROVE  /\ T(k)[i].ADDR = table[i].ADDR /\ T(k)[i].UPPER = table[i].UPPER
             /\ T(k)[i].DATA = table[i].DATA
             /\ T(k)[i].MASK = 1 \/ T(k)[i].MASK = table[i].MASK
             /\ (\A m \in 1 .. Len(ws) : ws[m].index # i) => T(k)[i].MASK = table[i].MASK
  <2>1. k \in Nat /\ \A m \in 1 .. k : m \in 1 .. Len(ws)
    BY <1>1
  <2>2. ASSUME NEW f \in Fields, f # "MASK" PROVE T(k)[i][f] = table[i][f]
    <3>1. \A m \in 1 .. k : ~To(ws, m, f, i)
      BY <2>1, <2>2 DEF To
    <3> QED
      BY <2>1, <3>1, FieldKept
  <2>3. CASE \E m \in 1 .. k : To(ws, m, "MASK", i)
    <3>1. PICK j \in 1 .. k : To(ws, j, "MASK", i) /\ \A m \in j + 1 .. k : ~To(ws, m, "MASK", i)
      BY <2>1, <2>3, LastExists
    <3>2. T(k)[i]["MASK"] = ws[j].val
      BY <1>2, <2>1, <3>1, FieldLast, Names
    <3>3. ws[j].val = 1 /\ ws[j].index = i /\ j \in 1 .. Len(ws)
      BY <2>1, <3>1 DEF To
    <3> QED
      BY <2>2, <3>2, <3>3, Names
  <2>4. CASE \A m \in 1 .. k : ~To(ws, m, "MASK", i)
    <3>1. T(k)[i]["MASK"] = table[i]["MASK"]
      BY <2>1, <2>4, FieldKept, Names
    <3> QED
      BY <2>2, <3>1, Names
  <2> QED
    BY <2>3, <2>4
<1> HIDE DEF T
<1>3. ASSUME device.bar.base # 0, NEW i \in E, NEW k \in 0 .. Len(ws) PROVE EntryOK(T(k), asked, i)
  <2>1. EntryOK(table, asked, i)
    BY <1>1, <1>3 DEF Settled
  <2> QED
    BY <1>2, <1>3, <2>1 DEF EntryOK
<1>4. ASSUME device.bar.base # 0, NEW i \in E, NEW k \in 0 .. Len(ws), T(k)[i].MASK = 0
      PROVE  Message(T(k)[i].ADDR, T(k)[i].UPPER, T(k)[i].DATA) \in asked[i] \cup asked[i]
  <2> DEFINE t == T(k)
  <2>1. EntryOK(t, asked, i) /\ t[i].MASK = 0
    BY <1>3, <1>4
  <2> HIDE DEF t
  <2>2. Message(t[i].ADDR, t[i].UPPER, t[i].DATA) \in asked[i]
    BY <2>1, EntrySent
  <2> QED
    BY <2>2 DEF t
<1>5. ASSUME device.bar.base # 0, NEW i \in E
      PROVE  /\ EntryOK(T(Len(ws)), asked, i)
             /\ mode = "msix" /\ i \notin h => T(Len(ws))[i].MASK = 0
  <2>1. Len(ws) \in 0 .. Len(ws)
    BY <1>1
  <2>2. mode = "msix" /\ i \notin h => T(Len(ws))[i].MASK = table[i].MASK
    BY <1>2, <1>5, <2>1
  <2>3. mode = "msix" /\ i \notin hushed => table[i].MASK = 0
    BY <1>1, <1>5 DEF Settled, Heard
  <2> QED
    BY <1>3, <1>5, <2>1, <2>2, <2>3
<1>6. \A m \in 1 .. Len(ws) : ws[m].reg \in Fields
  BY Names
<1> DEFINE a == asked
<1>7. /\ DOMAIN a = Sources /\ a[MsiSource] = asked[MsiSource] /\ Begin("Ok", ws, mode, a, h)
      /\ device.bar.base # 0 =>
           \A i \in 0 .. device.table_size - 1 :
             /\ \A k \in 0 .. Len(ws) :
                  LET S == TableAfter(device, table, ws, k)
                  IN  S[i].MASK = 0 => Message(S[i].ADDR, S[i].UPPER, S[i].DATA) \in asked[i] \cup a[i]
             /\ EntryOK(TableAfter(device, table, ws, Len(ws)), a, i)
             /\ mode = "msix" /\ i \notin h => TableAfter(device, table, ws, Len(ws))[i].MASK = 0
  BY <1>1, <1>4, <1>5 DEF T
<1> HIDE DEF a
<1> QED
  BY <1>6, <1>7, TableInv

\* mask_entry
LEMMA MaskEntryInv ==
  ASSUME MsiInv, handle, NEW i \in Entries,
         Begin("Ok", MaskWrites(i), mode, asked, hushed \cup {i})
  PROVE  MsiInv'
<1> DEFINE W == Writes(device.table_size)
           c == ToTable(i, "MASK", 1)
           ws == <<c>>
           h == hushed \cup {i}
<1>1. c \in W /\ c.reg = "MASK" /\ c.index = i /\ c.val = 1
  BY TableWrite, ValueFacts, Names DEF Entries
<1>2. Begin("Ok", ws, mode, asked, h)
  BY DEF MaskWrites
<1> HIDE DEF W, c, h
<1>3. ws \in Seq(W) /\ Len(ws) = 1 /\ ws[1] = c
  BY <1>1
<1> HIDE DEF ws
<1>4. \A m \in 1 .. Len(ws) : ws[m].reg = "MASK" /\ ws[m].val = 1 /\ ws[m].index = i
  BY <1>1, <1>3
<1>5. \A x \in 0 .. device.table_size - 1 : mode = "msix" /\ x \notin h =>
        x \notin hushed /\ \A m \in 1 .. Len(ws) : ws[m].index # x
  BY <1>4 DEF h
<1> QED
  BY <1>2, <1>3, <1>4, <1>5, MaskEntries DEF W

\* mask_all
LEMMA MaskAllInv ==
  ASSUME MsiInv, MaskAll
  PROVE  MsiInv'
<1> DEFINE W == Writes(device.table_size)
           n == device.table_size
           ws == mask_all
           h == Entries
<1>1. handle /\ Begin("Ok", ws, mode, asked, h)
  BY DEF MaskAll
<1>2. n \in Nat
  BY DeviceFacts DEF MsiInv, MsiTypeOK
<1>3. ws = [j \in 1 .. n |-> ToTable(j - 1, "MASK", 1)]
  BY <1>2, MaskSeq DEF mask_all
<1>4. ASSUME NEW j \in 1 .. n
      PROVE  LET c == ToTable(j - 1, "MASK", 1) IN c \in W /\ c.reg = "MASK" /\ c.val = 1
  <2> DEFINE i == j - 1
  <2>1. i \in 0 .. n - 1
    BY <1>2
  <2> HIDE DEF i
  <2>2. LET c == ToTable(i, "MASK", 1) IN c \in W /\ c.reg = "MASK" /\ c.val = 1
    BY <2>1, TableWrite, ValueFacts, Names
  <2> QED
    BY <2>2 DEF i
<1> HIDE DEF W, ws, n
<1>5. ws \in Seq(W) /\ Len(ws) = n
  BY <1>2, <1>3, <1>4
<1>6. \A m \in 1 .. Len(ws) : ws[m].reg = "MASK" /\ ws[m].val = 1
  BY <1>3, <1>4, <1>5
<1>7. \A x \in 0 .. device.table_size - 1 : mode = "msix" /\ x \notin h =>
        x \notin hushed /\ \A m \in 1 .. Len(ws) : ws[m].index # x
  BY DEF Entries
<1> HIDE DEF h
<1> QED
  BY <1>1, <1>5, <1>6, <1>7, MaskEntries DEF W

\* unmask_entry, of an entry that was configured
LEMMA UnmaskEntryInv ==
  ASSUME MsiInv, handle, NEW i \in Entries, asked[i] # {},
         Begin("Ok", UnmaskWrites(i), mode, asked, hushed \ {i})
  PROVE  MsiInv'
<1> DEFINE W == Writes(device.table_size)
           c == ToTable(i, "MASK", 0)
           ws == <<c>>
           a == asked
           h == hushed \ {i}
           E == 0 .. device.table_size - 1
           T(k) == TableAfter(device, table, ws, k)
<1>1. c \in W /\ c.reg = "MASK" /\ c.index = i /\ c.val = 0 /\ i \in E
  BY TableWrite, ValueFacts, Names DEF Entries
<1>2. Begin("Ok", ws, mode, a, h)
  BY DEF UnmaskWrites
<1>3. /\ Idle /\ MsiTypeOK /\ Settled(device, config, table, asked, mode, hushed, handle)
  BY DEF MsiInv, Begin
<1>4. DOMAIN a = Sources
  BY <1>3 DEF MsiTypeOK
<1> HIDE DEF W, c, h
<1>5. ws \in Seq(W) /\ Len(ws) = 1 /\ ws[1] = c
  BY <1>1
<1> HIDE DEF ws
<1>6. ASSUME device.bar.base # 0, NEW x \in E, NEW k \in 0 .. 1
      PROVE  /\ T(k)[x].ADDR = table[x].ADDR /\ T(k)[x].UPPER = table[x].UPPER
             /\ T(k)[x].DATA = table[x].DATA
             /\ x # i => T(k)[x].MASK = table[x].MASK
             /\ x = i /\ k = 1 => T(k)[x].MASK = 0
             /\ k = 0 => T(k)[x].MASK = table[x].MASK
  <2>1. k \in Nat /\ \A m \in 1 .. k : ws[m].reg = "MASK" /\ ws[m].index = i /\ k = 1
    BY <1>1, <1>5
  <2>2. ASSUME NEW f \in Fields, f # "MASK" \/ x # i \/ k = 0 PROVE T(k)[x][f] = table[x][f]
    <3>1. \A m \in 1 .. k : ~To(ws, m, f, x)
      BY <2>1, <2>2 DEF To
    <3> QED
      BY <2>1, <3>1, FieldKept
  <2>3. ASSUME x = i, k = 1 PROVE T(k)[x]["MASK"] = 0
    <3>1. 1 \in 1 .. k /\ To(ws, 1, "MASK", x) /\ \A m \in 1 + 1 .. k : ~To(ws, m, "MASK", x)
      BY <1>1, <1>5, <2>3 DEF To
    <3>2. T(k)[x]["MASK"] = ws[1].val
      BY <1>6, <2>1, <3>1, FieldLast, Names
    <3> QED
      BY <1>1, <1>5, <3>2
  <2> QED
    BY <2>2, <2>3, Names
<1> HIDE DEF T
<1>7. ASSUME device.bar.base # 0, NEW x \in E, NEW k \in 0 .. 1 PROVE EntryOK(T(k), a, x)
  <2>1. EntryOK(table, a, x)
    BY <1>3, <1>7 DEF Settled
  <2>2. CASE x = i
    BY <1>6, <1>7, <2>1, <2>2 DEF EntryOK
  <2>3. CASE x # i
    BY <1>6, <1>7, <2>1, <2>3 DEF EntryOK
  <2> QED
    BY <2>2, <2>3
<1>8. ASSUME device.bar.base # 0, NEW x \in E, NEW k \in 0 .. 1, T(k)[x].MASK = 0
      PROVE  Message(T(k)[x].ADDR, T(k)[x].UPPER, T(k)[x].DATA) \in asked[x] \cup a[x]
  <2> DEFINE t == T(k)
  <2>1. EntryOK(t, a, x) /\ t[x].MASK = 0
    BY <1>7, <1>8
  <2> HIDE DEF t, a
  <2>2. Message(t[x].ADDR, t[x].UPPER, t[x].DATA) \in a[x]
    BY <2>1, EntrySent
  <2> QED
    BY <2>2 DEF t
<1>9. ASSUME device.bar.base # 0, NEW x \in E, mode = "msix", x \notin h PROVE T(1)[x].MASK = 0
  <2>1. x # i => table[x].MASK = 0
    BY <1>3, <1>9 DEF Settled, Heard, h
  <2> QED
    BY <1>6, <1>9, <2>1
<1>10. \A m \in 1 .. Len(ws) : ws[m].reg \in Fields
  BY <1>1, <1>5, Names
<1>11. /\ DOMAIN a = Sources /\ a[MsiSource] = asked[MsiSource]
       /\ device.bar.base # 0 =>
            \A x \in 0 .. device.table_size - 1 :
              /\ \A k \in 0 .. Len(ws) :
                   LET S == TableAfter(device, table, ws, k)
                   IN  S[x].MASK = 0 => Message(S[x].ADDR, S[x].UPPER, S[x].DATA) \in asked[x] \cup a[x]
              /\ EntryOK(TableAfter(device, table, ws, Len(ws)), a, x)
              /\ mode = "msix" /\ x \notin h => TableAfter(device, table, ws, Len(ws))[x].MASK = 0
  BY <1>4, <1>5, <1>7, <1>8, <1>9 DEF T
<1> HIDE DEF a
<1> QED
  BY <1>2, <1>5, <1>10, <1>11, TableInv DEF W

\* configure_entry: the new message replaces the old one in its last field, the
\* others being the same for all messages.
LEMMA ConfigureEntryInv ==
  ASSUME MsiInv, handle, NEW i \in Entries, NEW v \in Vectors,
         Begin("Ok", EntryWrites(i, v), mode,
               [s \in Sources |-> IF s = i THEN Asks(v) ELSE asked[s]], hushed)
  PROVE  MsiInv'
<1> DEFINE W == Writes(device.table_size)
           L == LAPIC_MSI_ADDRESS_BASE
           c1 == ToTable(i, "ADDR", L)
           c2 == ToTable(i, "UPPER", 0)
           c3 == ToTable(i, "DATA", v)
           ws == <<c1, c2, c3>>
           a == [s \in Sources |-> IF s = i THEN Asks(v) ELSE asked[s]]
           E == 0 .. device.table_size - 1
           T(k) == TableAfter(device, table, ws, k)
<1>1. /\ c1 \in W /\ c1.reg = "ADDR" /\ c1.index = i /\ c1.val = L
      /\ c2 \in W /\ c2.reg = "UPPER" /\ c2.index = i /\ c2.val = 0
      /\ c3 \in W /\ c3.reg = "DATA" /\ c3.index = i /\ c3.val = v
      /\ i \in E
  BY TableWrite, ValueFacts, Names DEF Entries
<1>2. Begin("Ok", ws, mode, a, hushed)
  BY DEF EntryWrites
<1>3. /\ Idle /\ MsiTypeOK /\ Settled(device, config, table, asked, mode, hushed, handle)
  BY DEF MsiInv, Begin
<1>4. /\ DOMAIN a = Sources /\ a[MsiSource] = asked[MsiSource]
      /\ a[i] = Asks(v) /\ \A x \in E : x # i => a[x] = asked[x]
  BY <1>1 DEF Sources, Entries, MsiSource
<1> HIDE DEF W, c1, c2, c3, a, L
<1>5. ws \in Seq(W) /\ Len(ws) = 3 /\ ws[1] = c1 /\ ws[2] = c2 /\ ws[3] = c3
  BY <1>1
<1> HIDE DEF ws
<1>6. ASSUME NEW m \in 1 .. 3
      PROVE  /\ ws[m].index = i /\ ws[m].reg \in {"ADDR", "UPPER", "DATA"}
             /\ ws[m].reg = "ADDR" => m = 1
             /\ ws[m].reg = "UPPER" => m = 2
             /\ ws[m].reg = "DATA" => m = 3
  BY <1>1, <1>5
<1>7. ASSUME device.bar.base # 0, NEW x \in E, NEW k \in 0 .. 3
      PROVE  /\ T(k)[x].MASK = table[x].MASK
             /\ x # i => T(k)[x].ADDR = table[x].ADDR /\ T(k)[x].UPPER = table[x].UPPER
                         /\ T(k)[x].DATA = table[x].DATA
  <2>1. k \in Nat /\ \A m \in 1 .. k : m \in 1 .. 3
    OBVIOUS
  <2>2. ASSUME NEW f \in Fields, f = "MASK" \/ x # i PROVE T(k)[x][f] = table[x][f]
    <3>1. \A m \in 1 .. k : ~To(ws, m, f, x)
      BY <1>6, <2>1, <2>2 DEF To
    <3> QED
      BY <2>1, <3>1, FieldKept
  <2> QED
    BY <2>2, Names
<1>8. ASSUME device.bar.base # 0, NEW k \in 0 .. 3, NEW f \in Fields, NEW j \in 1 .. 3, ws[j].reg = f
      PROVE  T(k)[i][f] = IF j <= k THEN ws[j].val ELSE table[i][f]
  <2>1. k \in Nat /\ \A m \in 1 .. k : m \in 1 .. 3
    OBVIOUS
  <2>2. \A m \in 1 .. 3 : To(ws, m, f, i) <=> m = j
    BY <1>6, <1>8 DEF To
  <2>3. CASE j <= k
    <3>1. j \in 1 .. k /\ To(ws, j, f, i) /\ \A m \in j + 1 .. k : ~To(ws, m, f, i)
      BY <2>1, <2>2, <2>3
    <3>2. T(k)[i][f] = ws[j].val
      BY <1>1, <1>8, <2>1, <3>1, FieldLast
    <3> QED
      BY <2>3, <3>2
  <2>4. CASE ~(j <= k)
    <3>1. \A m \in 1 .. k : ~To(ws, m, f, i)
      BY <2>1, <2>2, <2>4
    <3>2. T(k)[i][f] = table[i][f]
      BY <1>1, <2>1, <3>1, FieldKept
    <3> QED
      BY <2>4, <3>2
  <2> QED
    BY <2>3, <2>4
<1>9. ASSUME device.bar.base # 0, NEW k \in 0 .. 3
      PROVE  /\ T(k)[i].ADDR = IF 1 <= k THEN L ELSE table[i].ADDR
             /\ T(k)[i].UPPER = IF 2 <= k THEN 0 ELSE table[i].UPPER
             /\ T(k)[i].DATA = IF 3 <= k THEN v ELSE table[i].DATA
  <2>1. /\ ws[1].reg = "ADDR" /\ ws[1].val = L /\ ws[2].reg = "UPPER" /\ ws[2].val = 0
        /\ ws[3].reg = "DATA" /\ ws[3].val = v
    BY <1>1, <1>5
  <2>2. /\ T(k)[i]["ADDR"] = IF 1 <= k THEN ws[1].val ELSE table[i]["ADDR"]
        /\ T(k)[i]["UPPER"] = IF 2 <= k THEN ws[2].val ELSE table[i]["UPPER"]
        /\ T(k)[i]["DATA"] = IF 3 <= k THEN ws[3].val ELSE table[i]["DATA"]
    BY <1>8, <1>9, <2>1, Names
  <2> QED
    BY <2>1, <2>2
<1> HIDE DEF T
<1>10. ASSUME device.bar.base # 0, NEW x \in E, NEW k \in 0 .. 3, T(k)[x].MASK = 0
       PROVE  Message(T(k)[x].ADDR, T(k)[x].UPPER, T(k)[x].DATA) \in asked[x] \cup a[x]
  <2>1. EntryOK(table, asked, x) /\ table[x].MASK = 0
    BY <1>3, <1>7, <1>10 DEF Settled
  <2>2. asked[x] # {} /\ Message(table[x].ADDR, table[x].UPPER, table[x].DATA) \in asked[x]
    BY <2>1, EntrySent
  <2>3. CASE x # i
    BY <1>7, <1>10, <2>2, <2>3
  <2>4. CASE x = i
    <3>1. table[i].ADDR = L /\ table[i].UPPER = 0
      BY <2>1, <2>2, <2>4 DEF EntryOK, L
    <3>2. T(k)[i].ADDR = L /\ T(k)[i].UPPER = 0 /\ (T(k)[i].DATA = v \/ T(k)[i].DATA = table[i].DATA)
      BY <1>9, <1>10, <3>1
    <3>3. Message(L, 0, v) \in a[i]
      BY <1>4 DEF Asks, L
    <3>4. Message(L, 0, table[i].DATA) \in asked[i]
      BY <2>2, <2>4, <3>1
    <3> QED
      BY <2>4, <3>2, <3>3, <3>4
  <2> QED
    BY <2>3, <2>4
<1>11. ASSUME device.bar.base # 0, NEW x \in E
       PROVE  /\ EntryOK(T(3), a, x)
              /\ mode = "msix" /\ x \notin hushed => T(3)[x].MASK = 0
  <2>1. EntryOK(table, asked, x) /\ (mode = "msix" /\ x \notin hushed => table[x].MASK = 0)
    BY <1>3, <1>11 DEF Settled, Heard
  <2>2. T(3)[x].MASK = table[x].MASK
    BY <1>7, <1>11
  <2>3. CASE x = i
    <3>1. T(3)[i].ADDR = L /\ T(3)[i].UPPER = 0 /\ T(3)[i].DATA = v
      BY <1>9, <1>11
    <3>2. a[i] = Asks(v) /\ a[i] # {}
      BY <1>4 DEF Asks
    <3>3. EntryOK(T(3), a, i)
      BY <3>1, <3>2 DEF EntryOK, L
    <3> QED
      BY <2>1, <2>2, <2>3, <3>3
  <2>4. CASE x # i
    BY <1>4, <1>7, <1>11, <2>1, <2>4 DEF EntryOK
  <2> QED
    BY <2>3, <2>4
<1>12. \A m \in 1 .. Len(ws) : ws[m].reg \in Fields
  BY <1>5, <1>6, Names
<1>13. device.bar.base # 0 =>
         \A x \in 0 .. device.table_size - 1 :
           /\ \A k \in 0 .. Len(ws) :
                LET S == TableAfter(device, table, ws, k)
                IN  S[x].MASK = 0 => Message(S[x].ADDR, S[x].UPPER, S[x].DATA) \in asked[x] \cup a[x]
           /\ EntryOK(TableAfter(device, table, ws, Len(ws)), a, x)
           /\ mode = "msix" /\ x \notin hushed => TableAfter(device, table, ws, Len(ws))[x].MASK = 0
  BY <1>5, <1>10, <1>11 DEF T
<1> QED
  BY <1>2, <1>4, <1>5, <1>12, <1>13, TableInv DEF W

-----------------------------------------------------------------------------
(* configure_msix *)

\* The writes to the first n entries, three each.
EntrySeq(n, vs) ==
  [j \in 1 .. n * 3 |-> EntryWrites((j - 1) \div 3, vs[((j - 1) \div 3) + 1])[1 + ((j - 1) % 3)]]

\* All that configure_msix writes.
MsixWrites(n, vs) ==
  (<<ToConfig("MSIX_ENABLE", 0)>> \o mask_all \o EntrySeq(n, vs))
  \o (ForEach(n, 1, UnmaskWrites) \o <<ToConfig("MSIX_ENABLE", 1)>> \o disable_intx)

\* The three writes to entry i, and no others.
LEMMA EntrySeqAt ==
  ASSUME NEW n \in Nat, NEW vs
  PROVE  /\ \A i \in 0 .. n - 1 :
              /\ EntrySeq(n, vs)[3 * i + 1] = ToTable(i, "ADDR", LAPIC_MSI_ADDRESS_BASE)
              /\ EntrySeq(n, vs)[3 * i + 2] = ToTable(i, "UPPER", 0)
              /\ EntrySeq(n, vs)[3 * i + 3] = ToTable(i, "DATA", vs[i + 1])
         /\ \A p \in 1 .. 3 * n : \E i \in 0 .. n - 1 : p \in {3 * i + 1, 3 * i + 2, 3 * i + 3}
<1>1. ASSUME NEW i \in 0 .. n - 1, NEW c \in 0 .. 2
      PROVE  EntrySeq(n, vs)[3 * i + 1 + c] = EntryWrites(i, vs[i + 1])[1 + c]
  <2> DEFINE j == 3 * i + 1 + c
  <2>1. j \in 1 .. n * 3 /\ (j - 1) \div 3 = i /\ (j - 1) % 3 = c
    OBVIOUS
  <2> HIDE DEF j
  <2>2. EntrySeq(n, vs)[j] = EntryWrites((j - 1) \div 3, vs[((j - 1) \div 3) + 1])[1 + ((j - 1) % 3)]
    BY <2>1, Zenon DEF EntrySeq
  <2> QED
    BY <2>1, <2>2 DEF j
<1>2. ASSUME NEW i \in 0 .. n - 1
      PROVE  /\ EntrySeq(n, vs)[3 * i + 1] = ToTable(i, "ADDR", LAPIC_MSI_ADDRESS_BASE)
             /\ EntrySeq(n, vs)[3 * i + 2] = ToTable(i, "UPPER", 0)
             /\ EntrySeq(n, vs)[3 * i + 3] = ToTable(i, "DATA", vs[i + 1])
  <2>1. 3 * i + 1 + 0 = 3 * i + 1 /\ 3 * i + 1 + 1 = 3 * i + 2 /\ 3 * i + 1 + 2 = 3 * i + 3
    OBVIOUS
  <2>2. /\ EntrySeq(n, vs)[3 * i + 1] = EntryWrites(i, vs[i + 1])[1]
        /\ EntrySeq(n, vs)[3 * i + 2] = EntryWrites(i, vs[i + 1])[2]
        /\ EntrySeq(n, vs)[3 * i + 3] = EntryWrites(i, vs[i + 1])[3]
    BY <1>1, <2>1
  <2> QED
    BY <2>2 DEF EntryWrites
<1>3. ASSUME NEW p \in 1 .. 3 * n
      PROVE  \E i \in 0 .. n - 1 : p \in {3 * i + 1, 3 * i + 2, 3 * i + 3}
  <2> DEFINE i == (p - 1) \div 3
  <2>1. i \in 0 .. n - 1 /\ p \in {3 * i + 1, 3 * i + 2, 3 * i + 3}
    OBVIOUS
  <2> QED
    BY <2>1
<1> QED
  BY <1>2, <1>3

\* The parts of what configure_msix writes, and where they are in it.
Parts(e0, A, B, U, e1, x1) == (<<e0>> \o A \o B) \o (U \o <<e1>> \o <<x1>>)

IsParts(W, ws, N, n, e0, A, B, U, e1, x1) ==
  /\ ws \in Seq(W) /\ Len(ws) = N + 3 + 4 * n /\ ws[1] = e0
  /\ \A i \in 1 .. N : ws[1 + i] = A[i]
  /\ \A i \in 1 .. 3 * n : ws[N + 1 + i] = B[i]
  /\ \A i \in 1 .. n : ws[(N + 1 + 3 * n) + i] = U[i]
  /\ ws[N + 2 + 4 * n] = e1 /\ ws[N + 3 + 4 * n] = x1

\* The parts are where they should be.
LEMMA CatAll ==
  ASSUME NEW W, NEW N \in Nat, NEW n \in Nat, NEW e0 \in W, NEW e1 \in W, NEW x1 \in W,
         NEW A \in Seq(W), NEW B \in Seq(W), NEW U \in Seq(W),
         Len(A) = N, Len(B) = 3 * n, Len(U) = n
  PROVE  IsParts(W, Parts(e0, A, B, U, e1, x1), N, n, e0, A, B, U, e1, x1)
<1> DEFINE s == <<e0>>
<1>1. s \in Seq(W) /\ Len(s) = 1 /\ s[1] = e0
  OBVIOUS
<1> HIDE DEF s
<1> DEFINE p == s \o A
<1>2. p \in Seq(W) /\ Len(p) = N + 1 /\ p[1] = e0 /\ \A i \in 1 .. N : p[1 + i] = A[i]
  <2>1. IsCat(W, p, s, A)
    BY <1>1, Cat
  <2> HIDE DEF p
  <2> QED
    BY <1>1, <2>1 DEF IsCat
<1> HIDE DEF p
<1> DEFINE q == p \o B
<1>3. /\ q \in Seq(W) /\ Len(q) = N + 1 + 3 * n /\ \A i \in 1 .. N + 1 : q[i] = p[i]
      /\ \A i \in 1 .. 3 * n : q[N + 1 + i] = B[i]
  <2>1. IsCat(W, q, p, B)
    BY <1>2, Cat
  <2> HIDE DEF q
  <2> QED
    BY <1>2, <2>1 DEF IsCat
<1> HIDE DEF q
<1> DEFINE u == U \o <<e1>>
<1>4. u \in Seq(W) /\ Len(u) = n + 1 /\ u[n + 1] = e1 /\ \A i \in 1 .. n : u[i] = U[i]
  <2>1. /\ u \in Seq(W) /\ Len(u) = Len(U) + 1 /\ u[Len(U) + 1] = e1
        /\ \A i \in 1 .. Len(U) : u[i] = U[i]
    BY CatOne
  <2> HIDE DEF u
  <2> QED
    BY <2>1
<1> HIDE DEF u
<1> DEFINE t == u \o <<x1>>
<1>5. t \in Seq(W) /\ Len(t) = n + 2 /\ t[n + 2] = x1 /\ \A i \in 1 .. n + 1 : t[i] = u[i]
  <2>1. /\ t \in Seq(W) /\ Len(t) = Len(u) + 1 /\ t[Len(u) + 1] = x1
        /\ \A i \in 1 .. Len(u) : t[i] = u[i]
    BY <1>4, CatOne
  <2> HIDE DEF t
  <2> QED
    BY <1>4, <2>1
<1> HIDE DEF t
<1> DEFINE ws == q \o t
           c == N + 1 + 3 * n
<1>6. /\ ws \in Seq(W) /\ Len(ws) = c + (n + 2) /\ \A i \in 1 .. c : ws[i] = q[i]
      /\ \A i \in 1 .. n + 2 : ws[c + i] = t[i]
  <2>1. IsCat(W, ws, q, t)
    BY <1>3, <1>5, Cat
  <2> HIDE DEF ws
  <2> QED
    BY <1>3, <1>5, <2>1 DEF IsCat
<1> HIDE DEF ws
<1>7. Len(ws) = N + 3 + 4 * n /\ ws[1] = e0
  <2>1. 1 \in 1 .. c /\ 1 \in 1 .. N + 1 /\ c + (n + 2) = N + 3 + 4 * n
    OBVIOUS
  <2>2. ws[1] = q[1] /\ q[1] = p[1] /\ p[1] = e0
    BY <1>2, <1>3, <1>6, <2>1, Zenon
  <2>3. Len(ws) = c + (n + 2)
    BY <1>6
  <2> QED
    BY <2>1, <2>2, <2>3
<1>8. ASSUME NEW i \in 1 .. N PROVE ws[1 + i] = A[i]
  <2>1. 1 + i \in 1 .. N + 1 /\ 1 + i \in 1 .. c
    OBVIOUS
  <2> QED
    BY <1>2, <1>3, <1>6, <2>1, ZenonT(60)
<1>9. ASSUME NEW i \in 1 .. 3 * n PROVE ws[N + 1 + i] = B[i]
  <2>1. N + 1 + i \in 1 .. c
    OBVIOUS
  <2> QED
    BY <1>3, <1>6, <2>1
<1>10. ASSUME NEW i \in 1 .. n PROVE ws[c + i] = U[i]
  <2>1. i \in 1 .. n + 1 /\ i \in 1 .. n + 2
    OBVIOUS
  <2> QED
    BY <1>4, <1>5, <1>6, <2>1
<1>11. ws[N + 2 + 4 * n] = e1 /\ ws[N + 3 + 4 * n] = x1
  <2>1. /\ n + 1 \in 1 .. n + 2 /\ n + 2 \in 1 .. n + 2 /\ n + 1 \in 1 .. n + 1
        /\ c + (n + 1) = N + 2 + 4 * n /\ c + (n + 2) = N + 3 + 4 * n
    OBVIOUS
  <2>2. ws[c + (n + 1)] = e1 /\ ws[c + (n + 2)] = x1
    BY <1>4, <1>5, <1>6, <2>1
  <2> QED
    BY <2>1, <2>2
<1>12. IsParts(W, ws, N, n, e0, A, B, U, e1, x1)
  BY <1>6, <1>7, <1>8, <1>9, <1>10, <1>11 DEF IsParts
<1>13. ws = Parts(e0, A, B, U, e1, x1)
  BY DEF Parts, ws, q, t, u, p, s
<1> QED
  BY <1>12, <1>13

\* Where they are among the writes.
LEMMA MsixProgram ==
  ASSUME MsiTypeOK, NEW n \in 0 .. device.table_size, NEW vs, \A j \in 1 .. n : vs[j] \in Vectors
  PROVE  LET N == device.table_size
             ws == MsixWrites(n, vs)
             l == N + 1 + 4 * n
         IN  /\ ws \in Seq(Writes(N)) /\ Len(ws) = l + 2
             /\ ws[1] = ToConfig("MSIX_ENABLE", 0)
             /\ \A i \in 0 .. N - 1 : ws[2 + i] = ToTable(i, "MASK", 1)
             /\ \A p \in 1 .. 3 * n : ws[N + 1 + p] = EntrySeq(n, vs)[p]
             /\ \A i \in 0 .. n - 1 : ws[N + 2 + 3 * n + i] = ToTable(i, "MASK", 0)
             /\ ws[l + 1] = ToConfig("MSIX_ENABLE", 1)
             /\ ws[l + 2] = ToConfig("INTX_DISABLE", 1)
<1> DEFINE N == device.table_size
           W == Writes(N)
           e0 == ToConfig("MSIX_ENABLE", 0)
           e1 == ToConfig("MSIX_ENABLE", 1)
           x1 == ToConfig("INTX_DISABLE", 1)
           A == [j \in 1 .. N |-> ToTable(j - 1, "MASK", 1)]
           B == EntrySeq(n, vs)
           U == [j \in 1 .. n |-> ToTable(j - 1, "MASK", 0)]
<1>1. N \in Nat /\ n \in Nat /\ n <= N
  BY DeviceFacts DEF MsiTypeOK
<1>2. MsixWrites(n, vs) = (<<e0>> \o A \o B) \o (U \o <<e1>> \o <<x1>>)
  <2>1. mask_all = A /\ ForEach(n, 1, UnmaskWrites) = U
    BY <1>1, MaskSeq DEF mask_all
  <2> QED
    BY <2>1, Zenon DEF MsixWrites, disable_intx
<1>3. e0 \in W /\ e1 \in W /\ x1 \in W
  BY ValueFacts, ConfigWrite
<1>4. ASSUME NEW i \in 0 .. N - 1, NEW f \in Fields, NEW x \in Values PROVE ToTable(i, f, x) \in W
  BY TableWrite
<1>5. A \in Seq(W) /\ Len(A) = N /\ \A i \in 0 .. N - 1 : A[i + 1] = ToTable(i, "MASK", 1)
  <2>1. ASSUME NEW j \in 1 .. N PROVE ToTable(j - 1, "MASK", 1) \in W
    <3>1. j - 1 \in 0 .. N - 1
      BY <1>1
    <3> QED
      BY <1>4, <3>1, ValueFacts, Names
  <2>2. A \in [1 .. N -> W]
    BY <2>1
  <2>3. A \in Seq(W) /\ Len(A) = N
    <3> HIDE DEF A, W, N
    <3> QED
      BY <1>1, <2>2
  <2>4. ASSUME NEW i \in 0 .. N - 1 PROVE A[i + 1] = ToTable(i, "MASK", 1)
    <3>1. i + 1 \in 1 .. N /\ (i + 1) - 1 = i
      BY <1>1
    <3> QED
      BY <3>1
  <2> QED
    BY <2>3, <2>4
<1>6. U \in Seq(W) /\ Len(U) = n /\ \A i \in 0 .. n - 1 : U[i + 1] = ToTable(i, "MASK", 0)
  <2>1. ASSUME NEW j \in 1 .. n PROVE ToTable(j - 1, "MASK", 0) \in W
    <3>1. j - 1 \in 0 .. N - 1
      BY <1>1
    <3> QED
      BY <1>4, <3>1, ValueFacts, Names
  <2>2. U \in [1 .. n -> W]
    BY <2>1
  <2>3. U \in Seq(W) /\ Len(U) = n
    BY <1>1, <2>2
  <2>4. ASSUME NEW i \in 0 .. n - 1 PROVE U[i + 1] = ToTable(i, "MASK", 0)
    <3>1. i + 1 \in 1 .. n /\ (i + 1) - 1 = i
      BY <1>1
    <3> QED
      BY <3>1
  <2> QED
    BY <2>3, <2>4
<1>7. B \in Seq(W) /\ Len(B) = 3 * n
  <2>1. ASSUME NEW p \in 1 .. 3 * n PROVE B[p] \in W
    <3>1. PICK i \in 0 .. n - 1 : p \in {3 * i + 1, 3 * i + 2, 3 * i + 3}
      BY <1>1, EntrySeqAt
    <3>2. i \in 0 .. N - 1 /\ i + 1 \in 1 .. n
      BY <1>1
    <3>3. B[p] = ToTable(i, "ADDR", LAPIC_MSI_ADDRESS_BASE) \/ B[p] = ToTable(i, "UPPER", 0)
          \/ B[p] = ToTable(i, "DATA", vs[i + 1])
      BY <1>1, <3>1, EntrySeqAt
    <3>4. vs[i + 1] \in Values
      BY <3>2, ValueFacts
    <3> QED
      BY <1>4, <3>2, <3>3, <3>4, ValueFacts, Names
  <2>2. DOMAIN B = 1 .. n * 3 /\ n * 3 = 3 * n /\ 3 * n \in Nat
    BY <1>1 DEF EntrySeq
  <2>3. B = [p \in 1 .. 3 * n |-> B[p]]
    BY <2>2 DEF EntrySeq
  <2> HIDE DEF B
  <2>4. B \in [1 .. 3 * n -> W]
    BY <2>1, <2>3
  <2> QED
    BY <2>2, <2>4
<1> HIDE DEF W, e0, e1, x1, A, B, U
<1> DEFINE ws == Parts(e0, A, B, U, e1, x1)
           l == N + 1 + 4 * n
<1> HIDE DEF N
<1>13. /\ ws \in Seq(W) /\ Len(ws) = N + 3 + 4 * n /\ ws[1] = e0
       /\ \A i \in 1 .. N : ws[1 + i] = A[i]
       /\ \A i \in 1 .. 3 * n : ws[N + 1 + i] = B[i]
       /\ \A i \in 1 .. n : ws[(N + 1 + 3 * n) + i] = U[i]
       /\ ws[N + 2 + 4 * n] = e1 /\ ws[N + 3 + 4 * n] = x1
  <2>1. IsParts(W, ws, N, n, e0, A, B, U, e1, x1)
    BY <1>1, <1>3, <1>5, <1>6, <1>7, CatAll
  <2> HIDE DEF ws
  <2> QED
    BY <2>1 DEF IsParts
<1> HIDE DEF ws
<1>14. ws = MsixWrites(n, vs)
  BY <1>2 DEF ws, Parts
<1>15. Len(ws) = l + 2 /\ N + 2 + 4 * n = l + 1 /\ N + 3 + 4 * n = l + 2
  BY <1>1, <1>13
<1>16. ASSUME NEW i \in 0 .. N - 1 PROVE ws[2 + i] = ToTable(i, "MASK", 1)
  <2>1. 2 + i = 1 + (i + 1) /\ i + 1 \in 1 .. N
    BY <1>1
  <2> QED
    BY <1>5, <1>13, <2>1, SMTT(60)
<1>17. ASSUME NEW i \in 0 .. n - 1 PROVE ws[N + 2 + 3 * n + i] = ToTable(i, "MASK", 0)
  <2>1. N + 2 + 3 * n + i = (N + 1 + 3 * n) + (i + 1) /\ i + 1 \in 1 .. n
    BY <1>1
  <2> QED
    BY <1>6, <1>13, <2>1
<1> QED
  BY <1>13, <1>14, <1>15, <1>16, <1>17 DEF W, e0, e1, x1, B, N

\* configure_msix: MSI-X is off while the table changes.
LEMMA ConfigureMsixInv ==
  ASSUME MsiInv, NEW n \in 0 .. device.table_size, NEW vs, \A j \in 1 .. n : vs[j] \in Vectors,
         NEW a, a = [s \in Sources |-> IF s = MsiSource THEN asked[s]
                                       ELSE IF s < n THEN Asks(vs[s + 1]) ELSE {}],
         Begin("Ok", MsixWrites(n, vs), "msix", a, Entries \ (0 .. n - 1))
  PROVE  MsiInv'
<1> DEFINE N == device.table_size
           L == LAPIC_MSI_ADDRESS_BASE
           E == 0 .. N - 1
           W == Writes(N)
           ws == MsixWrites(n, vs)
           B == EntrySeq(n, vs)
           l == N + 1 + 4 * n
           h == Entries \ (0 .. n - 1)
           C(k) == ConfigAfter(config, ws, k)
           T(k) == TableAfter(device, table, ws, k)
<1>1. /\ Idle /\ MsiTypeOK /\ Settled(device, config, table, asked, mode, hushed, handle)
  BY DEF MsiInv, Begin
<1>2. /\ config \in [ConfigRegs -> Values] /\ table \in TableType(N)
      /\ handle \in BOOLEAN /\ N \in Nat /\ n \in Nat /\ n <= N /\ N # 0
  BY <1>1, DeviceFacts DEF MsiTypeOK, TableType, Entries
<1>3. /\ DOMAIN a = Sources /\ a[MsiSource] = asked[MsiSource]
      /\ \A i \in E : a[i] = IF i < n THEN Asks(vs[i + 1]) ELSE {}
  <2>1. MsiSource \in Sources /\ \A i \in E : i \in Sources /\ i # MsiSource
    BY DEF Sources, Entries, MsiSource
  <2> QED
    BY <2>1
<1>4. /\ ws \in Seq(W) /\ Len(ws) = l + 2
      /\ ws[1] = ToConfig("MSIX_ENABLE", 0)
      /\ \A i \in E : ws[2 + i] = ToTable(i, "MASK", 1)
      /\ \A p \in 1 .. 3 * n : ws[N + 1 + p] = B[p]
      /\ \A i \in 0 .. n - 1 : ws[N + 2 + 3 * n + i] = ToTable(i, "MASK", 0)
      /\ ws[l + 1] = ToConfig("MSIX_ENABLE", 1)
      /\ ws[l + 2] = ToConfig("INTX_DISABLE", 1)
  BY <1>1, MsixProgram
<1>5. /\ To(ws, 1, "MSIX_ENABLE", 0) /\ ws[1].val = 0
      /\ To(ws, l + 1, "MSIX_ENABLE", 0) /\ ws[l + 1].val = 1
      /\ To(ws, l + 2, "INTX_DISABLE", 0) /\ ws[l + 2].val = 1
  BY <1>4, ValueFacts, ConfigWrite DEF To
<1> HIDE DEF W, B, ws
<1>6. ASSUME NEW i \in E PROVE ws[2 + i].reg = "MASK" /\ ws[2 + i].index = i /\ ws[2 + i].val = 1
  BY <1>4, TableWrite, ValueFacts, Names
<1>7. ASSUME NEW i \in 0 .. n - 1
      PROVE  LET m == N + 2 + 3 * n + i
             IN  ws[m].reg = "MASK" /\ ws[m].index = i /\ ws[m].val = 0
  <2>1. i \in E
    BY <1>2
  <2> QED
    BY <1>4, <2>1, TableWrite, ValueFacts, Names
<1>8. ASSUME NEW i \in 0 .. n - 1
      PROVE  /\ ws[N + 2 + 3 * i].reg = "ADDR" /\ ws[N + 2 + 3 * i].index = i /\ ws[N + 2 + 3 * i].val = L
             /\ ws[N + 3 + 3 * i].reg = "UPPER" /\ ws[N + 3 + 3 * i].index = i /\ ws[N + 3 + 3 * i].val = 0
             /\ ws[N + 4 + 3 * i].reg = "DATA" /\ ws[N + 4 + 3 * i].index = i
             /\ ws[N + 4 + 3 * i].val = vs[i + 1]
  <2> DEFINE w == vs[i + 1]
  <2>1. /\ 3 * i + 1 \in 1 .. 3 * n /\ 3 * i + 2 \in 1 .. 3 * n /\ 3 * i + 3 \in 1 .. 3 * n
        /\ N + 1 + (3 * i + 1) = N + 2 + 3 * i /\ N + 1 + (3 * i + 2) = N + 3 + 3 * i
        /\ N + 1 + (3 * i + 3) = N + 4 + 3 * i /\ i \in E /\ i + 1 \in 1 .. n
    BY <1>2
  <2>2. /\ ws[N + 2 + 3 * i] = B[3 * i + 1] /\ ws[N + 3 + 3 * i] = B[3 * i + 2]
        /\ ws[N + 4 + 3 * i] = B[3 * i + 3]
    BY <1>4, <2>1
  <2>3. /\ B[3 * i + 1] = ToTable(i, "ADDR", L) /\ B[3 * i + 2] = ToTable(i, "UPPER", 0)
        /\ B[3 * i + 3] = ToTable(i, "DATA", w)
    BY <1>2, EntrySeqAt DEF B
  <2>4. w \in Values
    BY <2>1, ValueFacts
  <2> HIDE DEF w
  <2>5. /\ ToTable(i, "ADDR", L).reg = "ADDR" /\ ToTable(i, "ADDR", L).index = i
        /\ ToTable(i, "ADDR", L).val = L
        /\ ToTable(i, "UPPER", 0).reg = "UPPER" /\ ToTable(i, "UPPER", 0).index = i
        /\ ToTable(i, "UPPER", 0).val = 0
        /\ ToTable(i, "DATA", w).reg = "DATA" /\ ToTable(i, "DATA", w).index = i
        /\ ToTable(i, "DATA", w).val = w
    BY <2>1, <2>4, TableWrite, ValueFacts, Names
  <2> QED
    BY <2>2, <2>3, <2>5 DEF w
<1>9. ASSUME NEW m \in 2 .. l
      PROVE  \/ \E i \in E : m = 2 + i
             \/ \E i \in 0 .. n - 1 : m \in {N + 2 + 3 * i, N + 3 + 3 * i, N + 4 + 3 * i}
             \/ \E i \in 0 .. n - 1 : m = N + 2 + 3 * n + i
  <2>1. CASE m <= N + 1
    <3>1. m - 2 \in E /\ m = 2 + (m - 2)
      BY <1>2, <2>1
    <3> QED
      BY <3>1
  <2>2. CASE m > N + 1 /\ m <= N + 1 + 3 * n
    <3> DEFINE p == m - (N + 1)
    <3>1. p \in 1 .. 3 * n /\ m = N + 1 + p
      BY <1>2, <2>2
    <3>2. PICK i \in 0 .. n - 1 : p \in {3 * i + 1, 3 * i + 2, 3 * i + 3}
      BY <1>2, <3>1, EntrySeqAt
    <3>3. m \in {N + 2 + 3 * i, N + 3 + 3 * i, N + 4 + 3 * i}
      BY <1>2, <3>1, <3>2
    <3> QED
      BY <3>3
  <2>3. CASE m > N + 1 + 3 * n
    <3> DEFINE i == m - (N + 2 + 3 * n)
    <3>1. i \in 0 .. n - 1 /\ m = N + 2 + 3 * n + i
      BY <1>2, <2>3
    <3> QED
      BY <3>1
  <2> QED
    BY <1>2, <2>1, <2>2, <2>3
<1>10. ASSUME NEW m \in 2 .. l
       PROVE  /\ ws[m].reg \in Fields
              /\ \A i \in E : To(ws, m, "ADDR", i) => m = N + 2 + 3 * i
              /\ \A i \in E : To(ws, m, "UPPER", i) => m = N + 3 + 3 * i
              /\ \A i \in E : To(ws, m, "DATA", i) => m = N + 4 + 3 * i
              /\ \A i \in E : To(ws, m, "MASK", i) => m = 2 + i \/ (i < n /\ m = N + 2 + 3 * n + i)
  <2>1. CASE \E i \in E : m = 2 + i
    BY <1>6, <2>1, Names DEF To
  <2>2. CASE \E i \in 0 .. n - 1 : m \in {N + 2 + 3 * i, N + 3 + 3 * i, N + 4 + 3 * i}
    <3>1. PICK i \in 0 .. n - 1 : m = N + 2 + 3 * i \/ m = N + 3 + 3 * i \/ m = N + 4 + 3 * i
      BY <2>2
    <3>2. CASE m = N + 2 + 3 * i
      <4>1. ws[m].reg = "ADDR" /\ ws[m].index = i
        BY <1>8, <3>2
      <4> QED
        BY <3>2, <4>1, Names DEF To
    <3>3. CASE m = N + 3 + 3 * i
      <4>1. ws[m].reg = "UPPER" /\ ws[m].index = i
        BY <1>8, <3>3
      <4> QED
        BY <3>3, <4>1, Names DEF To
    <3>4. CASE m = N + 4 + 3 * i
      <4>1. ws[m].reg = "DATA" /\ ws[m].index = i
        BY <1>8, <3>4
      <4> QED
        BY <3>4, <4>1, Names DEF To
    <3> QED
      BY <3>1, <3>2, <3>3, <3>4
  <2>3. CASE \E i \in 0 .. n - 1 : m = N + 2 + 3 * n + i
    <3>1. PICK i \in 0 .. n - 1 : m = N + 2 + 3 * n + i
      BY <2>3
    <3>2. ws[m].reg = "MASK" /\ ws[m].index = i /\ i < n
      BY <1>2, <1>7, <3>1
    <3> QED
      BY <3>1, <3>2, Names DEF To
  <2> QED
    BY <1>9, <2>1, <2>2, <2>3
<1>11. l \in Nat /\ l >= 2 /\ (l + 1) \in Nat /\ (l + 2) \in Nat
  BY <1>2
<1>12. ASSUME NEW m \in 1 .. l + 2 PROVE ws[m].reg \notin {"MSI_ENABLE", "MSI+4", "MSI+8", "MSI+12"}
  <2>1. m = 1 \/ m \in 2 .. l \/ m = l + 1 \/ m = l + 2
    BY <1>11
  <2> QED
    BY <1>5, <1>10, <2>1 DEF To, Fields
<1>13. ASSUME NEW k \in 0 .. l + 2 PROVE SentMsi(device, C(k), asked)
  <2>1. k \in Nat /\ \A m \in 1 .. k : ws[m].reg \notin {"MSI_ENABLE", "MSI+4", "MSI+8", "MSI+12"}
    BY <1>11, <1>12
  <2>2. SentMsi(device, config, asked)
    BY <1>1 DEF Settled, SentIn
  <2> DEFINE d == device
             ask == asked
  <2> HIDE DEF d, ask
  <2>3. SentMsi(d, ConfigAfter(config, ws, k), ask)
    BY <2>1, <2>2, MsiKept DEF d, ask
  <2> QED
    BY <2>3 DEF d, ask
<1>14. ASSUME NEW k \in 1 .. l PROVE C(k)["MSIX_ENABLE"] = 0
  <2>1. k \in Nat /\ 1 \in 1 .. k /\ \A m \in 1 + 1 .. k : m \in 2 .. l
    BY <1>11
  <2>2. \A m \in 1 + 1 .. k : ws[m].reg # "MSIX_ENABLE"
    BY <1>10, <2>1, Names, ValueFacts
  <2> QED
    BY <1>5, <2>1, <2>2, ConfigLast, ValueFacts
<1>15. ASSUME NEW k \in l + 1 .. l + 2 PROVE C(k)["MSIX_ENABLE"] = 1
  <2> DEFINE j == l + 1
  <2>1. k \in Nat /\ j \in 1 .. k /\ \A m \in j + 1 .. k : m = l + 2
    BY <1>11
  <2>2. \A m \in j + 1 .. k : ws[m].reg # "MSIX_ENABLE"
    BY <1>5, <2>1 DEF To
  <2>3. To(ws, j, "MSIX_ENABLE", 0) /\ ws[j].val = 1
    BY <1>5
  <2> HIDE DEF j
  <2> QED
    BY <2>1, <2>2, <2>3, ConfigLast, ValueFacts
<1>16. C(l + 2)["INTX_DISABLE"] = 1
  <2> DEFINE j == l + 2
  <2>1. /\ j \in Nat /\ j \in 1 .. j /\ \A m \in j + 1 .. j : ws[m].reg # "INTX_DISABLE"
        /\ To(ws, j, "INTX_DISABLE", 0) /\ ws[j].val = 1
    BY <1>5, <1>11
  <2> HIDE DEF j
  <2>2. ConfigAfter(config, ws, j)["INTX_DISABLE"] = 1
    BY <2>1, ConfigLast, ValueFacts
  <2> QED
    BY <2>2 DEF j
<1> HIDE DEF E
<1>17. ASSUME device.bar.base # 0, NEW k \in l + 1 .. l + 2, NEW i \in E, NEW f \in Fields,
              NEW j \in 2 .. l, To(ws, j, f, i), \A m \in j + 1 .. l : ~To(ws, m, f, i)
       PROVE  T(k)[i][f] = ws[j].val
  <2>1. k \in Nat /\ j \in 1 .. k /\ i \in 0 .. device.table_size - 1
    BY <1>11 DEF E
  <2>2. ASSUME NEW m \in j + 1 .. k PROVE ~To(ws, m, f, i)
    <3>1. m \in j + 1 .. l \/ m = l + 1 \/ m = l + 2
      BY <1>11
    <3>2. CASE m \in j + 1 .. l
      BY <1>17, <3>2
    <3>3. CASE m = l + 1 \/ m = l + 2
      BY <1>5, <3>3, Names, ValueFacts DEF To
    <3> QED
      BY <3>1, <3>2, <3>3
  <2> HIDE DEF l
  <2> QED
    BY <1>17, <2>1, <2>2, FieldLast
<1>18. ASSUME device.bar.base # 0, NEW k \in l + 1 .. l + 2, NEW i \in E, i < n
       PROVE  /\ T(k)[i].ADDR = L /\ T(k)[i].UPPER = 0
              /\ T(k)[i].DATA = vs[i + 1] /\ T(k)[i].MASK = 0
  <2>1. i \in 0 .. n - 1
    BY <1>2, <1>18 DEF E
  <2> DEFINE j1 == N + 2 + 3 * i
             j2 == N + 3 + 3 * i
             j3 == N + 4 + 3 * i
             j4 == N + 2 + 3 * n + i
  <2>2. j1 \in 2 .. l /\ j2 \in 2 .. l /\ j3 \in 2 .. l /\ j4 \in 2 .. l
    BY <1>2, <2>1
  <2>3. /\ \A m \in j1 + 1 .. l : m \in 2 .. l /\ m # j1
        /\ \A m \in j2 + 1 .. l : m \in 2 .. l /\ m # j2
        /\ \A m \in j3 + 1 .. l : m \in 2 .. l /\ m # j3
        /\ \A m \in j4 + 1 .. l : m \in 2 .. l /\ m # j4 /\ m # 2 + i
    BY <1>2, <2>1, <2>2
  <2>4. /\ To(ws, j1, "ADDR", i) /\ ws[j1].val = L
        /\ To(ws, j2, "UPPER", i) /\ ws[j2].val = 0
        /\ To(ws, j3, "DATA", i) /\ ws[j3].val = vs[i + 1]
        /\ To(ws, j4, "MASK", i) /\ ws[j4].val = 0
    BY <1>7, <1>8, <2>1 DEF To
  <2>5. /\ \A m \in 2 .. l : To(ws, m, "ADDR", i) => m = j1
        /\ \A m \in 2 .. l : To(ws, m, "UPPER", i) => m = j2
        /\ \A m \in 2 .. l : To(ws, m, "DATA", i) => m = j3
        /\ \A m \in 2 .. l : To(ws, m, "MASK", i) => m = 2 + i \/ m = j4
    BY <1>10 DEF E
  <2> HIDE DEF j1, j2, j3, j4, l
  <2>6. T(k)[i]["ADDR"] = L
    BY <1>17, <1>18, <2>2, <2>3, <2>4, <2>5, Names
  <2>7. T(k)[i]["UPPER"] = 0
    BY <1>17, <1>18, <2>2, <2>3, <2>4, <2>5, Names
  <2>8. T(k)[i]["DATA"] = vs[i + 1]
    BY <1>17, <1>18, <2>2, <2>3, <2>4, <2>5, Names
  <2>9. T(k)[i]["MASK"] = 0
    BY <1>17, <1>18, <2>2, <2>3, <2>4, <2>5, Names
  <2> QED
    BY <2>6, <2>7, <2>8, <2>9
<1>19. ASSUME device.bar.base # 0, NEW k \in l + 1 .. l + 2, NEW i \in E, ~(i < n)
       PROVE  T(k)[i].MASK = 1
  <2> DEFINE j == 2 + i
  <2>1. j \in 2 .. l /\ \A m \in j + 1 .. l : m \in 2 .. l /\ m # j
    BY <1>2 DEF E
  <2>2. To(ws, j, "MASK", i) /\ ws[j].val = 1
    BY <1>6 DEF To
  <2>3. \A m \in 2 .. l : To(ws, m, "MASK", i) => m = j
    BY <1>10, <1>19 DEF E
  <2> HIDE DEF j, l
  <2>4. T(k)[i]["MASK"] = 1
    BY <1>17, <1>19, <2>1, <2>2, <2>3, Names
  <2> QED
    BY <2>4
<1>20. C(0) = config /\ T(0) = table
  BY <1>2, AfterNone
<1> HIDE DEF C, T, l
<1>21. ASSUME NEW k \in l + 1 .. l + 2, device.bar.base # 0, NEW i \in E PROVE EntryOK(T(k), a, i)
  <2>1. CASE i < n
    <3>1. i + 1 \in 1 .. n
      BY <1>2, <2>1 DEF E
    <3> DEFINE v == vs[i + 1]
    <3>2. v \in Vectors /\ a[i] = Asks(v) /\ a[i] # {}
      <4>1. v \in Vectors
        BY <3>1
      <4>2. a[i] = Asks(v)
        BY <1>3, <2>1
      <4> HIDE DEF v
      <4>3. Asks(v) # {}
        BY DEF Asks
      <4> QED
        BY <4>1, <4>2, <4>3
    <3>3. T(k)[i].ADDR = L /\ T(k)[i].UPPER = 0 /\ T(k)[i].DATA = v
      BY <1>18, <1>21, <2>1
    <3> HIDE DEF v
    <3> QED
      BY <3>2, <3>3 DEF EntryOK
  <2>2. CASE ~(i < n)
    <3>1. a[i] = {} /\ T(k)[i].MASK = 1
      BY <1>3, <1>19, <1>21, <2>2
    <3> QED
      BY <3>1 DEF EntryOK
  <2> QED
    BY <2>1, <2>2
<1>22. ASSUME device.bar.base = 0, NEW k \in Nat PROVE T(k) = table /\ \A i \in E : table[i].MASK = 1
  BY <1>1, <1>22 DEF TableAfter, Settled, T, E
<1>23. ASSUME NEW k \in l + 1 .. l + 2 PROVE SentMsix(device, C(k), T(k), a)
  <2> DEFINE t == T(k)
  <2>1. CASE device.bar.base = 0
    <3>1. \A i \in E : t[i].MASK = 1
      BY <1>11, <1>22, <2>1
    <3> QED
      BY <3>1 DEF SentMsix, E
  <2>2. CASE device.bar.base # 0
    <3>1. \A i \in E : EntryOK(t, a, i)
      BY <1>21, <2>2
    <3> HIDE DEF t
    <3>2. \A i \in E : t[i].MASK = 0 => Message(t[i].ADDR, t[i].UPPER, t[i].DATA) \in a[i]
      BY <3>1, EntrySent
    <3>3. SentMsix(device, C(k), t, a)
      BY <3>2, Zenon DEF SentMsix, E
    <3> QED
      BY <3>3 DEF t
  <2> QED
    BY <2>1, <2>2
<1>24. ASSUME NEW k \in 0 .. l + 2
       PROVE  SentMsix(device, C(k), T(k), asked) \/ SentMsix(device, C(k), T(k), a)
  <2>1. k = 0 \/ k \in 1 .. l \/ k \in l + 1 .. l + 2
    BY <1>11
  <2>2. CASE k = 0
    BY <1>1, <1>20, <2>2 DEF Settled, SentIn
  <2>3. CASE k \in 1 .. l
    BY <1>14, <2>3 DEF SentMsix
  <2>4. CASE k \in l + 1 .. l + 2
    BY <1>23, <2>4
  <2> QED
    BY <2>1, <2>2, <2>3, <2>4
<1>25. ASSUME NEW k \in 0 .. Len(ws)
       PROVE  SentIn(device, ConfigAfter(config, ws, k), TableAfter(device, table, ws, k), Both(a))
  <2>1. k \in 0 .. l + 2
    BY <1>4 DEF l
  <2>2. SentIn(device, C(k), T(k), Both(a))
    BY <1>13, <1>24, <2>1, BothMore DEF SentIn
  <2> QED
    BY <2>2 DEF C, T
<1>26. Settled(device, C(l + 2), T(l + 2), a, "msix", h, handle \/ "msix" = "msix")
  <2> DEFINE k == l + 2
  <2>1. k \in l + 1 .. l + 2 /\ k \in 0 .. l + 2 /\ k \in Nat
    BY <1>11
  <2>2. SentMsi(device, C(k), asked)
    BY <1>13, <2>1
  <2>3. SentMsi(device, C(k), a) /\ SentMsix(device, C(k), T(k), a)
    BY <1>3, <1>23, <2>1, <2>2 DEF SentMsi
  <2>4. C(k)["MSIX_ENABLE"] = 1 /\ C(k)["INTX_DISABLE"] = 1
    BY <1>15, <1>16, <2>1
  <2>5. device.bar.base # 0 => \A i \in E \ h : T(k)[i].MASK = 0
    <3>1. \A i \in E \ h : i < n
      BY <1>2 DEF E, Entries
    <3> QED
      BY <1>18, <2>1, <3>1
  <2>6. Heard(device, C(k), T(k), "msix", h)
    BY <2>4, <2>5 DEF Heard, E
  <2>7. device.bar.base = 0 => \A i \in E : T(k)[i].MASK = 1
    BY <1>22, <2>1
  <2>8. device.bar.base # 0 => \A i \in E : EntryOK(T(k), a, i)
    BY <1>21, <2>1
  <2> HIDE DEF h, k
  <2>9. Settled(device, C(k), T(k), a, "msix", h, handle \/ "msix" = "msix")
    BY <2>3, <2>6, <2>7, <2>8 DEF Settled, SentIn, E
  <2> QED
    BY <2>9 DEF k
<1>27. Settled(device, ConfigAfter(config, ws, Len(ws)), TableAfter(device, table, ws, Len(ws)),
               a, "msix", h, handle \/ "msix" = "msix")
  BY <1>4, <1>26 DEF C, T, l
<1>28. Begin("Ok", ws, "msix", a, h) /\ "Ok" # "none"
  BY DEF ws
<1> HIDE DEF h
<1> QED
  BY <1>3, <1>4, <1>25, <1>27, <1>28, BeginInv DEF W

-----------------------------------------------------------------------------
(* All steps *)

\* What the firmware leaves.
LEMMA InitInv == Init => MsiInv
<1> SUFFICES ASSUME Init PROVE MsiInv
  OBVIOUS
<1> DEFINE N == device.table_size
           m == IF device.left = "msix" THEN 0 ELSE 1
<1>1. /\ device \in Devices /\ N \in Nat \ {0} /\ (device.left = "msix" => device.bar.base # 0)
      /\ Idle /\ handle = FALSE /\ mode = "firmware"
  BY DeviceFacts DEF Init, Idle
<1>2. Stale \in Values /\ 0 \in Values /\ 1 \in Values
  BY DEF Values
<1>3. config \in [ConfigRegs -> Values]
  <2> DEFINE c(r) == CASE r = "INTX_DISABLE" -> 0
                       [] r = "MSI_ENABLE" -> IF device.left = "msi" THEN 1 ELSE 0
                       [] r = "MSIX_ENABLE" -> IF device.left = "msix" THEN 1 ELSE 0
                       [] OTHER -> Stale
  <2>1. ASSUME NEW r \in ConfigRegs PROVE c(r) \in Values
    BY <1>2
  <2>2. config = [r \in ConfigRegs |-> c(r)]
    BY DEF Init
  <2> HIDE DEF c
  <2> QED
    BY <2>1, <2>2
<1>4. /\ table = [i \in Entries |-> [ADDR |-> Stale, UPPER |-> Stale, DATA |-> Stale, MASK |-> m]]
      /\ m \in Values
  BY <1>2 DEF Init
<1>5. table \in [Entries -> [ADDR : Values, UPPER : Values, DATA : Values, MASK : Values]]
  BY <1>2, <1>4
<1>6. /\ DOMAIN asked = Sources /\ MsiMessage \in asked[MsiSource]
      /\ \A i \in Entries : EntryMessage(i) \in asked[i]
  <2>1. asked = [s \in Sources |-> IF s = MsiSource THEN {MsiMessage} ELSE {EntryMessage(s)}]
    BY DEF Init
  <2>2. MsiSource \in Sources /\ \A i \in Entries : i \in Sources /\ i # MsiSource
    BY <1>1 DEF Sources, Entries, MsiSource
  <2> QED
    BY <2>1, <2>2
<1>7. SentMsi(device, config, asked)
  BY <1>6 DEF SentMsi, MsiMessage
<1>8. SentMsix(device, config, table, asked)
  BY <1>6 DEF SentMsix, EntryMessage, Entries
<1>9. device.bar.base = 0 => \A i \in 0 .. N - 1 : table[i].MASK = 1
  BY <1>1, <1>4 DEF Entries
<1>10. Heard(device, config, table, mode, hushed)
  BY <1>1 DEF Heard
<1>11. Settled(device, config, table, asked, mode, hushed, handle)
  BY <1>1, <1>7, <1>8, <1>9, <1>10 DEF Settled, SentIn
<1>12. MsiTypeOK
  BY <1>1, <1>3, <1>5, <1>6 DEF MsiTypeOK
<1> QED
  BY <1>1, <1>11, <1>12 DEF MsiInv

\* configure_msix with vectors that pass its validation finds nothing to object
\* to later on.
LEMMA MsixAccepts ==
  ASSUME MsiTypeOK, NEW vs \in Seq(Vectors), MsixRejects(vs) = "Ok", configure_msix(vs)
  PROVE  /\ Len(vs) \in 0 .. device.table_size
         /\ Begin("Ok", MsixWrites(Len(vs), vs), "msix",
                  [s \in Sources |-> IF s = MsiSource THEN asked[s]
                                     ELSE IF s < Len(vs) THEN Asks(vs[s + 1]) ELSE {}],
                  Entries \ (0 .. Len(vs) - 1))
<1> DEFINE n == Len(vs)
           N == device.table_size
           bad == {j \in DOMAIN vs : EntryError(j - 1, vs[j]) # "Ok"}
<1>1. n \in Nat /\ DOMAIN vs = 1 .. n /\ N \in Nat
  BY DeviceFacts DEF MsiTypeOK
<1>2. ~(n > N) /\ \A j \in DOMAIN vs : ValidVector(vs[j])
  BY DEF MsixRejects
<1>3. ASSUME NEW j \in DOMAIN vs PROVE EntryError(j - 1, vs[j]) = "Ok"
  <2>1. ~BadIndex(j - 1)
    BY <1>1, <1>2 DEF BadIndex
  <2> QED
    BY <1>2, <2>1 DEF EntryError
<1>4. bad = {}
  BY <1>3
<1> DEFINE done == IF bad = {} THEN n ELSE Min(bad) - 1
           entry(i) == EntryWrites(i, vs[i + 1])
           start == <<ToConfig("MSIX_ENABLE", 0)>> \o mask_all \o ForEach(done, 3, entry)
           finish == ForEach(done, 1, UnmaskWrites) \o <<ToConfig("MSIX_ENABLE", 1)>> \o disable_intx
           new == [s \in Sources |-> IF s = MsiSource THEN asked[s]
                                     ELSE IF s < n THEN Asks(vs[s + 1]) ELSE {}]
<1>5. Begin("Ok", start \o finish, "msix", new, Entries \ (0 .. n - 1))
  BY <1>4 DEF configure_msix
<1>6. done = n
  BY <1>4
<1>7. ForEach(done, 3, entry) = EntrySeq(n, vs)
  BY <1>6, Zenon DEF ForEach, EntrySeq
<1>8. start \o finish = MsixWrites(n, vs)
  BY <1>6, <1>7, Zenon DEF MsixWrites
<1>9. n \in 0 .. N
  BY <1>1, <1>2
<1> HIDE DEF start, finish
<1>10. Begin("Ok", MsixWrites(n, vs), "msix", new, Entries \ (0 .. n - 1))
  BY <1>5, <1>8
<1> QED
  BY <1>9, <1>10

\* Every step keeps the invariant.
LEMMA NextInv == MsiInv /\ [Next]_vars => MsiInv'
<1> SUFFICES ASSUME MsiInv, [Next]_vars PROVE MsiInv'
  OBVIOUS
<1>1. MsiTypeOK /\ device.table_size \in Nat
  BY DeviceFacts DEF MsiInv, MsiTypeOK
<1>2. ASSUME NEW v \in Vectors, configure_msi(v) PROVE MsiInv'
  <2>1. CASE Fail("InvalidVector") \/ Fail("NotSupported")
    BY <2>1, FailInv
  <2>2. CASE ~(Fail("InvalidVector") \/ Fail("NotSupported"))
    <3>1. Begin("Ok", MsiWrites(v), "msi", [asked EXCEPT ![MsiSource] = Asks(v)], hushed)
      BY <1>2, <2>2, Zenon DEF configure_msi
    <3> QED
      BY <3>1, ConfigureMsiInv
  <2> QED
    BY <2>1, <2>2
<1>3. ASSUME disable_msi PROVE MsiInv'
  <2>1. CASE Fail("NotSupported")
    BY <2>1, FailInv
  <2>2. CASE ~Fail("NotSupported")
    <3>1. Begin("Ok", <<ToConfig("MSI_ENABLE", 0)>> \o enable_intx, "intx", asked, hushed)
      BY <1>3, <2>2, Zenon DEF disable_msi
    <3> QED
      BY <3>1, DisableInv
  <2> QED
    BY <2>1, <2>2
<1>4. ASSUME NEW vs \in VectorLists, configure_msix(vs) PROVE MsiInv'
  <2>1. vs \in Seq(Vectors)
    <3>1. PICK n \in 0 .. device.table_size + 1 : vs \in [1 .. n -> Vectors]
      BY DEF VectorLists
    <3>2. n \in Nat
      BY <1>1
    <3> QED
      BY <3>1, <3>2
  <2>2. CASE MsixRejects(vs) # "Ok"
    <3> DEFINE res == MsixRejects(vs)
    <3>1. Fail(res)
      BY <1>4, <2>2 DEF configure_msix
    <3>2. res # "none"
      BY DEF MsixRejects, TableError
    <3> HIDE DEF res
    <3> QED
      BY <3>1, <3>2, FailInv
  <2>3. CASE MsixRejects(vs) = "Ok"
    <3> DEFINE n == Len(vs)
               a == [s \in Sources |-> IF s = MsiSource THEN asked[s]
                                       ELSE IF s < n THEN Asks(vs[s + 1]) ELSE {}]
    <3>1. /\ n \in 0 .. device.table_size
          /\ Begin("Ok", MsixWrites(n, vs), "msix", a, Entries \ (0 .. n - 1))
      BY <1>1, <1>4, <2>1, <2>3, MsixAccepts
    <3>2. \A j \in 1 .. n : vs[j] \in Vectors
      BY <2>1
    <3>3. a = [s \in Sources |-> IF s = MsiSource THEN asked[s]
                                 ELSE IF s < n THEN Asks(vs[s + 1]) ELSE {}]
      OBVIOUS
    <3> HIDE DEF n, a
    <3> QED
      BY <3>1, <3>2, <3>3, ConfigureMsixInv
  <2> QED
    BY <2>2, <2>3
<1>5. ASSUME disable_msix PROVE MsiInv'
  <2>1. CASE Fail("NotSupported")
    BY <2>1, FailInv
  <2>2. CASE ~Fail("NotSupported")
    <3>1. Begin("Ok", <<ToConfig("MSIX_ENABLE", 0)>> \o enable_intx, "intx", asked, hushed)
      BY <1>5, <2>2, Zenon DEF disable_msix
    <3> QED
      BY <3>1, DisableInv
  <2> QED
    BY <2>1, <2>2
<1>6. ASSUME NEW i \in 0 .. device.table_size, ~BadIndex(i) PROVE i \in Entries
  BY <1>1, <1>6 DEF BadIndex, Entries
<1>7. ASSUME NEW i \in 0 .. device.table_size, NEW v \in Vectors, configure_entry(i, v) PROVE MsiInv'
  <2>1. CASE EntryError(i, v) # "Ok"
    <3> DEFINE res == EntryError(i, v)
    <3>1. Fail(res)
      BY <1>7, <2>1 DEF configure_entry
    <3>2. res # "none"
      BY DEF EntryError
    <3> HIDE DEF res
    <3> QED
      BY <3>1, <3>2, FailInv
  <2>2. CASE EntryError(i, v) = "Ok"
    <3>1. i \in Entries
      BY <1>6, <2>2 DEF EntryError
    <3>2. handle /\ Begin("Ok", EntryWrites(i, v), mode,
                          [s \in Sources |-> IF s = i THEN Asks(v) ELSE asked[s]], hushed)
      BY <1>7, <2>2 DEF configure_entry
    <3> QED
      BY <3>1, <3>2, ConfigureEntryInv
  <2> QED
    BY <2>1, <2>2
<1>8. ASSUME NEW i \in 0 .. device.table_size, mask_entry(i) PROVE MsiInv'
  <2>1. CASE BadIndex(i)
    <3>1. Fail("InvalidEntry")
      BY <1>8, <2>1 DEF mask_entry
    <3> QED
      BY <3>1, FailInv
  <2>2. CASE ~BadIndex(i)
    <3>1. handle /\ Begin("Ok", MaskWrites(i), mode, asked, hushed \cup {i})
      BY <1>8, <2>2 DEF mask_entry
    <3> QED
      BY <1>6, <2>2, <3>1, MaskEntryInv
  <2> QED
    BY <2>1, <2>2
<1>9. ASSUME NEW i \in 0 .. device.table_size, unmask_entry(i) PROVE MsiInv'
  <2>1. CASE BadIndex(i)
    <3>1. Fail("InvalidEntry")
      BY <1>9, <2>1 DEF unmask_entry
    <3> QED
      BY <3>1, FailInv
  <2>2. CASE ~BadIndex(i)
    <3>1. handle /\ Begin("Ok", UnmaskWrites(i), mode, asked, hushed \ {i})
      BY <1>9, <2>2 DEF unmask_entry
    <3>2. i \in Entries /\ asked[i] # {}
      BY <1>6, <1>9, <2>2 DEF unmask_entry
    <3> QED
      BY <3>1, <3>2, UnmaskEntryInv
  <2> QED
    BY <2>1, <2>2
<1>10. CASE UNCHANGED vars
  <2>1. MsiTypeOK'
    BY <1>1, <1>10 DEF vars, MsiTypeOK, Entries, Sources
  <2>2. UNCHANGED <<device, config, table, call, handle, mode, asked, hushed>>
    BY <1>10 DEF vars
  <2>3. (Idle => Settled(device, config, table, asked, mode, hushed, handle))'
    BY <2>2 DEF MsiInv, Idle
  <2>4. (~Idle => CallOK)'
    <3>1. Idle' = Idle
      BY <2>2 DEF Idle
    <3>2. CallOK' = CallOK
      BY <2>2 DEF CallOK, Sources, Entries
    <3> QED
      BY <3>1, <3>2 DEF MsiInv
  <2> QED
    BY <2>1, <2>3, <2>4 DEF MsiInv
<1> QED
  BY <1>2, <1>3, <1>4, <1>5, <1>7, <1>8, <1>9, <1>10, MaskAllInv, WriteInv, ReturnInv, Zenon DEF Next

\* The invariant holds.
LEMMA MsiInvHolds == Spec => []MsiInv
  BY InitInv, NextInv, PTL DEF Spec

-----------------------------------------------------------------------------
(* The properties *)

\* Between any two register writes, for every device, table size and vectors,
\* whatever the device sends is a message asked for on that source.
THEOREM MsiSentAsAsked == Spec => []SentAsAsked
<1>1. MsiInv => SentAsAsked
  <2> SUFFICES ASSUME MsiInv PROVE SentAsAsked
    OBVIOUS
  <2>1. SentIn(device, config, table, asked)
    <3>1. CASE Idle
      BY <3>1 DEF MsiInv, Settled
    <3>2. CASE ~Idle
      <4> DEFINE ws == call.writes
                 d == device
      <4>1. CallOK /\ ws \in Seq(Writes(device.table_size))
        BY <3>2 DEF MsiInv, CallOK
      <4>2. 0 \in 0 .. Len(ws)
        <5> DEFINE W == Writes(device.table_size)
        <5>1. ws \in Seq(W)
          BY <4>1
        <5> HIDE DEF W, ws
        <5> QED
          BY <5>1
      <4>3. SentIn(device, ConfigAfter(config, ws, 0), TableAfter(device, table, ws, 0), asked)
        BY <4>1, <4>2 DEF CallOK
      <4>4. config \in [ConfigRegs -> Values] /\ table \in TableType(d.table_size)
        BY DEF MsiInv, MsiTypeOK, TableType, Entries
      <4> HIDE DEF ws, d
      <4>5. ConfigAfter(config, ws, 0) = config /\ TableAfter(d, table, ws, 0) = table
        BY <4>4, AfterNone
      <4> QED
        BY <4>3, <4>5 DEF d
    <3> QED
      BY <3>1, <3>2
  <2>2. ASSUME config["MSI_ENABLE"] = 1 PROVE MsiMessage \in asked[MsiSource]
    BY <2>1, <2>2, Zenon DEF SentIn, SentMsi, MsiMessage
  <2>3. ASSUME NEW i \in Entries, config["MSIX_ENABLE"] = 1, ~device.fmask, table[i].MASK = 0
        PROVE  EntryMessage(i) \in asked[i]
    BY <2>1, <2>3, Zenon DEF SentIn, SentMsix, EntryMessage, Entries
  <2>4. ASSUME NEW m \in Messages PROVE m[2] \in asked[m[1]]
    <3>1. CASE config["MSI_ENABLE"] = 1 /\ m = <<MsiSource, MsiMessage>>
      BY <2>2, <3>1
    <3>2. CASE \E i \in Entries : /\ config["MSIX_ENABLE"] = 1 /\ ~device.fmask /\ table[i].MASK = 0
                                  /\ m = <<i, EntryMessage(i)>>
      BY <2>3, <3>2
    <3> QED
      BY <3>1, <3>2, Zenon DEF Messages
  <2> QED
    BY <2>4 DEF SentAsAsked
<1> QED
  BY <1>1, MsiInvHolds, PTL

\* A call that returns an error has written no register.
THEOREM MsiFailureChangesNothing == Spec => []FailureChangesNothing
<1>1. MsiInv => FailureChangesNothing
  BY DEF MsiInv, CallOK, FailureChangesNothing
<1> QED
  BY <1>1, MsiInvHolds, PTL

\* After a call that succeeded the device can be heard the way the driver chose.
THEOREM MsiNeverMute == Spec => []NeverMute
<1>1. MsiInv => NeverMute
  <2> SUFFICES ASSUME MsiInv, Idle PROVE NeverMute
    BY DEF NeverMute
  <2>1. Heard(device, config, table, mode, hushed)
    BY DEF MsiInv, Settled
  <2>2. ASSUME mode = "msix", NEW i \in Entries \ hushed, ~device.fmask, device.bar.base # 0
        PROVE  \E m \in Messages : m[1] = i
    <3>1. config["MSIX_ENABLE"] = 1 /\ table[i].MASK = 0
      BY <2>1, <2>2 DEF Heard, Entries
    <3>2. <<i, EntryMessage(i)>> \in Messages
      BY <2>2, <3>1, Zenon DEF Messages
    <3>3. <<i, EntryMessage(i)>>[1] = i
      OBVIOUS
    <3> QED
      BY <3>2, <3>3, Zenon
  <2>3. mode = "msi" => config["MSI_ENABLE"] = 1 /\ config["INTX_DISABLE"] = 1
    BY <2>1 DEF Heard
  <2>4. mode = "msix" => config["INTX_DISABLE"] = 1
    BY <2>1 DEF Heard
  <2>5. mode = "intx" => config["INTX_DISABLE"] = 0
    BY <2>1 DEF Heard
  <2> QED
    BY <2>2, <2>3, <2>4, <2>5, Zenon DEF NeverMute
<1> QED
  BY <1>1, MsiInvHolds, PTL

-----------------------------------------------------------------------------
(* The capability list *)

\* The offset after x on the list.
After(x) == IF x = 0 THEN 0 ELSE device.next[x]

\* The recursion of walk is well defined.
LEMMA WalkIs ==
  ASSUME device \in Devices
  PROVE  /\ walk[0] = device.pointer
         /\ \A i \in 1 .. NumSlots : walk[i] = After(walk[i - 1])
<1> DEFINE N == MaxWalk
           p == device.pointer
           Fits(f, n) == /\ DOMAIN f = 0 .. n /\ f[0] = p
                         /\ \A i \in 1 .. n : f[i] = After(f[i - 1])
           S == {n \in Nat : \E f : Fits(f, n)}
           Body(f) == [n \in 0 .. N |-> IF n = 0 THEN p ELSE After(f[n - 1])]
<1>0. N \in Nat /\ N = NumSlots
  BY MsiAssumption
<1>1. 0 \in S
  <2> DEFINE f == [i \in 0 .. 0 |-> p]
  <2>1. Fits(f, 0)
    OBVIOUS
  <2> QED
    BY <2>1
<1>2. ASSUME NEW n \in Nat, n \in S PROVE n + 1 \in S
  <2>1. PICK f : Fits(f, n)
    BY <1>2
  <2> DEFINE g == [i \in 0 .. n + 1 |-> IF i = n + 1 THEN After(f[n]) ELSE f[i]]
  <2>2. DOMAIN g = 0 .. n + 1 /\ g[0] = p
    BY <2>1
  <2>3. ASSUME NEW i \in 1 .. n + 1 PROVE g[i] = After(g[i - 1])
    <3>1. i \in 0 .. n + 1 /\ i - 1 \in 0 .. n + 1 /\ i - 1 # n + 1
      OBVIOUS
    <3>2. g[i - 1] = f[i - 1]
      BY <3>1
    <3>3. CASE i = n + 1
      <4>1. g[i] = After(f[n]) /\ i - 1 = n
        BY <3>1, <3>3
      <4> QED
        BY <3>2, <4>1, Zenon
    <3>4. CASE i # n + 1
      <4>1. g[i] = f[i] /\ i \in 1 .. n
        BY <3>1, <3>4
      <4> QED
        BY <2>1, <3>2, <4>1
    <3> QED
      BY <3>3, <3>4
  <2> HIDE DEF g
  <2>4. Fits(g, n + 1)
    BY <2>2, <2>3
  <2> QED
    BY <2>4
<1>3. N \in S
  <2> HIDE DEF S
  <2> QED
    BY <1>0, <1>1, <1>2, NatSet
<1>4. PICK h : Fits(h, N)
  BY <1>3
<1> DEFINE f == [i \in 0 .. N |-> h[i]]
<1>5. f = Body(f)
  <2>1. ASSUME NEW i \in 0 .. N PROVE f[i] = Body(f)[i]
    <3>1. CASE i = 0
      BY <1>0, <1>4, <3>1
    <3>2. CASE i # 0
      <4>1. i \in 1 .. N /\ i - 1 \in 0 .. N
        BY <1>0, <3>2
      <4>2. f[i] = h[i] /\ f[i - 1] = h[i - 1]
        BY <4>1
      <4>3. h[i] = After(h[i - 1])
        BY <1>4, <4>1
      <4> QED
        BY <3>2, <4>2, <4>3
    <3> QED
      BY <3>1, <3>2
  <2> QED
    BY <2>1
<1>6. \E e : e = Body(e)
  <2> HIDE DEF f, Body
  <2> QED
    BY <1>5, SMTT(60)
<1>7. walk = Body(walk)
  BY <1>6 DEF walk, After
<1> HIDE DEF Body
<1>8. ASSUME NEW i \in 0 .. N PROVE walk[i] = IF i = 0 THEN p ELSE After(walk[i - 1])
  <2> DEFINE w == walk
  <2>1. w = Body(w)
    BY <1>7
  <2> HIDE DEF w
  <2>2. w[i] = IF i = 0 THEN p ELSE After(w[i - 1])
    BY <2>1, Zenon DEF Body
  <2> QED
    BY <2>2 DEF w
<1> QED
  <2>1. 0 \in 0 .. N /\ \A i \in 1 .. NumSlots : i \in 0 .. N /\ i # 0
    BY <1>0
  <2> QED
    BY <1>8, <2>1

\* The offsets are slots, or 0 from the end of the list on.
LEMMA WalkType ==
  ASSUME device \in Devices
  PROVE  /\ \A n \in 0 .. NumSlots : walk[n] \in 0 .. NumSlots
         /\ \A n \in 0 .. NumSlots : walk[NumSlots] # 0 => walk[n] # 0
<1> DEFINE M == NumSlots
           w == walk
           S == {n \in Nat : n <= M => w[n] \in 0 .. M}
           Z == {n \in Nat : n <= M /\ w[M] # 0 => w[M - n] # 0}
<1>1. M \in Nat /\ w[0] \in 0 .. M /\ device.next \in [1 .. M -> 0 .. M]
  BY DeviceFacts, MsiAssumption, WalkIs DEF Slots
<1>2. \A i \in 1 .. M : w[i] = After(w[i - 1])
  BY WalkIs
<1> HIDE DEF M, w
<1>3. 0 \in S
  BY <1>1
<1>4. ASSUME NEW n \in Nat, n \in S PROVE n + 1 \in S
  <2> SUFFICES ASSUME n + 1 <= M PROVE w[n + 1] \in 0 .. M
    OBVIOUS
  <2>1. n + 1 \in 1 .. M /\ (n + 1) - 1 = n /\ w[n] \in 0 .. M
    BY <1>1, <1>4
  <2>2. w[n + 1] = After(w[n])
    BY <1>2, <2>1
  <2> QED
    BY <1>1, <2>1, <2>2 DEF After
<1>5. \A n \in Nat : n \in S
  <2> HIDE DEF S
  <2> QED
    BY <1>3, <1>4, NatSet
<1>6. 0 \in Z
  BY <1>1
<1>7. ASSUME NEW n \in Nat, n \in Z PROVE n + 1 \in Z
  <2> SUFFICES ASSUME n + 1 <= M, w[M] # 0 PROVE w[M - (n + 1)] # 0
    OBVIOUS
  <2>1. M - n \in 1 .. M /\ (M - n) - 1 = M - (n + 1) /\ w[M - n] # 0
    BY <1>1, <1>7
  <2>2. w[M - n] = After(w[M - (n + 1)])
    BY <1>2, <2>1
  <2> QED
    BY <2>1, <2>2 DEF After
<1>8. \A n \in Nat : n \in Z
  <2> HIDE DEF Z
  <2> QED
    BY <1>6, <1>7, NatSet
<1>9. ASSUME NEW n \in 0 .. M PROVE w[n] \in 0 .. M /\ (w[M] # 0 => w[n] # 0)
  <2>1. n \in Nat /\ n <= M /\ M - n \in Nat /\ M - n <= M /\ M - (M - n) = n
    BY <1>1
  <2>2. w[n] \in 0 .. M
    BY <1>5, <2>1
  <2>3. w[M] # 0 => w[n] # 0
    <3> DEFINE k == M - n
    <3>1. k \in Z
      BY <1>8, <2>1
    <3> QED
      BY <2>1, <3>1
  <2> QED
    BY <2>2, <2>3
<1> QED
  BY <1>9 DEF M, w

\* A walk as long as there are slots has come back to where it was, or to the
\* end of the list.
LEMMA WalkReturns ==
  ASSUME device \in Devices, walk[NumSlots] # 0
  PROVE  \E n \in 0 .. NumSlots - 1 : walk[NumSlots] = walk[n]
<1> DEFINE M == NumSlots
           w == walk
           f == [n \in 0 .. M |-> w[n]]
<1>1. /\ M \in Nat /\ w[M] # 0 /\ \A i \in 1 .. M : w[i] = After(w[i - 1])
      /\ \A n \in 0 .. M : w[n] \in 1 .. M
  <2>1. M \in Nat /\ w[M] # 0 /\ \A i \in 1 .. M : w[i] = After(w[i - 1])
    BY MsiAssumption, WalkIs
  <2>2. ASSUME NEW n \in 0 .. M PROVE w[n] \in 1 .. M
    <3>1. w[n] \in 0 .. M /\ w[n] # 0
      BY <2>1, WalkType
    <3> QED
      BY <2>1, <3>1
  <2> QED
    BY <2>1, <2>2
<1> HIDE DEF M, w
<1>2. \E x, y \in 0 .. M : x # y /\ f[x] = f[y]
  <2> DEFINE X == 0 .. M
             Y == 1 .. M
  <2>1. /\ IsFiniteSet(X) /\ Cardinality(X) = M + 1
        /\ IsFiniteSet(Y) /\ Cardinality(Y) = M
    <3>1. IsFiniteSet(0 .. M) /\ Cardinality(0 .. M) = IF 0 > M THEN 0 ELSE M - 0 + 1
      BY <1>1, FS_Interval
    <3>2. IsFiniteSet(1 .. M) /\ Cardinality(1 .. M) = IF 1 > M THEN 0 ELSE M - 1 + 1
      BY <1>1, FS_Interval
    <3> QED
      BY <1>1, <3>1, <3>2
  <2>2. f \in [X -> Y]
    BY <1>1
  <2>3. Cardinality(Y) < Cardinality(X)
    BY <1>1, <2>1
  <2> HIDE DEF f, X, Y
  <2>4. \E x, y \in X : x # y /\ f[x] = f[y]
    BY <2>1, <2>2, <2>3, FS_PigeonHole
  <2> QED
    BY <2>4 DEF X
<1>3. PICK x, y \in 0 .. M : x < y /\ w[x] = w[y]
  <2>1. PICK x, y \in 0 .. M : x # y /\ f[x] = f[y]
    BY <1>2
  <2>2. w[x] = w[y] /\ (x < y \/ y < x)
    BY <1>1, <2>1
  <2> QED
    BY <2>2
<1> DEFINE S == {t \in Nat : y + t <= M => w[x + t] = w[y + t]}
<1>4. 0 \in S
  BY <1>1, <1>3
<1>5. ASSUME NEW t \in Nat, t \in S PROVE t + 1 \in S
  <2> SUFFICES ASSUME y + (t + 1) <= M PROVE w[x + (t + 1)] = w[y + (t + 1)]
    OBVIOUS
  <2>1. /\ x + (t + 1) \in 1 .. M /\ (x + (t + 1)) - 1 = x + t
        /\ y + (t + 1) \in 1 .. M /\ (y + (t + 1)) - 1 = y + t /\ y + t <= M
    BY <1>1, <1>3
  <2>2. w[x + t] = w[y + t]
    BY <1>5, <2>1
  <2>3. w[x + (t + 1)] = After(w[x + t]) /\ w[y + (t + 1)] = After(w[y + t])
    BY <1>1, <2>1
  <2> QED
    BY <2>2, <2>3
<1>6. \A t \in Nat : t \in S
  <2> HIDE DEF S
  <2> QED
    BY <1>4, <1>5, NatSet
<1> DEFINE t == M - y
           n == x + t
<1>7. t \in Nat /\ y + t = M /\ n \in 0 .. M - 1
  BY <1>1, <1>3
<1>8. w[n] = w[M]
  <2>1. t \in S
    BY <1>6, <1>7
  <2> QED
    BY <1>7, <2>1
<1> QED
  BY <1>7, <1>8 DEF M, w

\* What the walk passes is what can be reached.
LEMMA ReachableIs ==
  ASSUME device \in Devices
  PROVE  \A s : s \in Reachable <=> s # 0 /\ \E n \in 0 .. NumSlots - 1 : walk[n] = s
<1> DEFINE M == NumSlots
           w == walk
           V == {s \in Slots : \E n \in 0 .. M - 1 : w[n] = s}
           Closed(c) == /\ device.pointer \in c \cup {0}
                        /\ \A x \in c : device.next[x] \in c \cup {0}
<1>1. /\ M \in Nat /\ w[0] = device.pointer /\ \A i \in 1 .. M : w[i] = After(w[i - 1])
      /\ \A n \in 0 .. M : w[n] \in 0 .. M
      /\ w[M] # 0 => \E n \in 0 .. M - 1 : w[M] = w[n]
      /\ Slots = 1 .. M
  BY MsiAssumption, WalkIs, WalkType, WalkReturns DEF Slots
<1>2. Reachable = {s \in Slots : \A c \in SUBSET Slots : Closed(c) => s \in c}
  BY Zenon DEF Reachable
<1> HIDE DEF M, w
<1>3. ASSUME NEW n \in 0 .. M PROVE w[n] \in V \cup {0}
  <2>1. w[n] = 0 \/ w[n] \in Slots
    BY <1>1
  <2>2. CASE n = M /\ w[M] # 0
    <3>1. PICK k \in 0 .. M - 1 : w[M] = w[k]
      BY <1>1, <2>2
    <3> QED
      BY <2>1, <2>2, <3>1
  <2>3. CASE n # M
    <3>1. n \in 0 .. M - 1
      BY <1>1, <2>3
    <3> QED
      BY <2>1, <3>1
  <2> QED
    BY <2>1, <2>2, <2>3
<1>4. Closed(V)
  <2>1. device.pointer \in V \cup {0}
    <3>1. 0 \in 0 .. M
      BY <1>1
    <3> QED
      BY <1>1, <1>3, <3>1
  <2>2. ASSUME NEW x \in V PROVE device.next[x] \in V \cup {0}
    <3>1. PICK n \in 0 .. M - 1 : w[n] = x
      OBVIOUS
    <3>2. n + 1 \in 1 .. M /\ n + 1 \in 0 .. M /\ (n + 1) - 1 = n /\ x # 0
      BY <1>1
    <3>3. w[n + 1] = device.next[x]
      BY <1>1, <3>1, <3>2 DEF After
    <3>4. w[n + 1] \in V \cup {0}
      BY <1>3, <3>2
    <3> QED
      BY <3>3, <3>4
  <2> QED
    BY <2>1, <2>2
<1>5. ASSUME NEW s \in Reachable PROVE s # 0 /\ \E n \in 0 .. M - 1 : w[n] = s
  <2>1. V \in SUBSET Slots
    OBVIOUS
  <2>2. s \in V
    <3> HIDE DEF V, Closed
    <3> QED
      BY <1>2, <1>4, <2>1, Zenon
  <2> QED
    BY <1>1, <2>2
<1>6. ASSUME NEW c \in SUBSET Slots, Closed(c), NEW k \in 0 .. M - 1, w[k] # 0 PROVE w[k] \in c
  <2> DEFINE S == {n \in Nat : n <= M => w[n] \in c \cup {0}}
  <2>1. 0 \in S
    BY <1>1, <1>6
  <2>2. ASSUME NEW n \in Nat, n \in S PROVE n + 1 \in S
    <3> SUFFICES ASSUME n + 1 <= M PROVE w[n + 1] \in c \cup {0}
      OBVIOUS
    <3>1. n + 1 \in 1 .. M /\ (n + 1) - 1 = n /\ w[n] \in c \cup {0}
      BY <1>1, <2>2
    <3>2. w[n + 1] = After(w[n])
      BY <1>1, <3>1
    <3>3. CASE w[n] = 0
      BY <3>2, <3>3 DEF After
    <3>4. CASE w[n] # 0
      BY <1>6, <3>1, <3>2, <3>4 DEF After
    <3> QED
      BY <3>3, <3>4
  <2>3. \A n \in Nat : n \in S
    <3> HIDE DEF S
    <3> QED
      BY <2>1, <2>2, NatSet
  <2>4. k \in Nat /\ k <= M
    BY <1>1
  <2> QED
    BY <1>6, <2>3, <2>4
<1>7. ASSUME NEW n \in 0 .. M - 1, w[n] # 0 PROVE w[n] \in Reachable
  <2>1. w[n] \in Slots
    <3>1. n \in 0 .. M
      BY <1>1
    <3> QED
      BY <1>1, <1>7, <3>1
  <2> HIDE DEF Closed
  <2> QED
    BY <1>2, <1>6, <1>7, <2>1
<1> QED
  BY <1>5, <1>7 DEF M, w

\* For every shape of list, cycles included, and whatever is on it: the walk
\* finds a capability with the id if and only if one can be reached.
THEOREM MsiCapabilityFound == Spec => []CapabilityFound
<1>1. ASSUME device \in Devices, NEW id
      PROVE  LET p == find_capability(id)
                 there == {s \in Reachable : device.listed /\ device.id[s] = id}
             IN  IF there = {} THEN p = 0 ELSE p \in there
  <2> DEFINE M == NumSlots
             w == walk
             R == Reachable
             hits == {n \in 0 .. MaxWalk - 1 : w[n] # 0 /\ device.id[w[n]] = id}
             there == {s \in R : device.listed /\ device.id[s] = id}
             p == find_capability(id)
  <2>1. M \in Nat /\ MaxWalk = M
    BY MsiAssumption
  <2>2. \A s : s \in R <=> s # 0 /\ \E n \in 0 .. M - 1 : w[n] = s
    BY <1>1, ReachableIs
  <2>3. p = IF ~device.listed \/ hits = {} THEN 0 ELSE w[Min(hits)]
    BY DEF find_capability
  <2>4. hits \in SUBSET Nat
    BY <2>1
  <2> HIDE DEF M, w, R, p
  <2>5. CASE ~device.listed
    BY <2>3, <2>5 DEF p, R
  <2>6. CASE device.listed /\ hits = {}
    <3>1. there = {}
      BY <2>1, <2>2, <2>6
    <3> QED
      BY <2>3, <2>6, <3>1 DEF p, R
  <2>7. CASE device.listed /\ hits # {}
    <3> DEFINE m == Min(hits)
    <3>1. m \in hits
      <4> HIDE DEF hits
      <4> QED
        BY <2>4, <2>7, MinNat
    <3> HIDE DEF m
    <3>2. w[m] \in R /\ device.id[w[m]] = id
      BY <2>1, <2>2, <3>1
    <3>3. p = w[m]
      BY <2>3, <2>7 DEF m
    <3> QED
      BY <2>7, <3>2, <3>3 DEF p, R
  <2> QED
    BY <2>5, <2>6, <2>7
<1>2. MsiInv => CapabilityFound
  BY <1>1 DEF CapabilityFound, MsiInv, MsiTypeOK
<1> QED
  BY <1>2, MsiInvHolds, PTL
=============================================================================
