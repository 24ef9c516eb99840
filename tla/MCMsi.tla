------------------------------- MODULE MCMsi -------------------------------
(* Msi with up to two table entries and lists of up to three capabilities.    *)
EXTENDS Msi, TLC

Ordinary ==
  [listed |-> TRUE, pointer |-> 1, next |-> <<2, 0, 0>>, id |-> <<"MSIX", "MSI", "other">>,
   is64 |-> TRUE, fmask |-> FALSE, table_size |-> 2,
   bar |-> [index |-> 4, kind |-> "mem64", base |-> 8, offset |-> 4], left |-> "none"]

Small == [Ordinary EXCEPT !.table_size = 1]
Bar(i, k, base, off) ==
  [Small EXCEPT !.bar = [index |-> i, kind |-> k, base |-> base, offset |-> off]]

\* Capability lists of several shapes (the longest, two with a cycle, one out of
\* order, none) on a device that is ordinary otherwise, with one table entry.
Lists ==
  {[Small EXCEPT !.next = n, !.id = t] :
     n \in {<<2, 3, 0>>, <<2, 1, 0>>, <<3, 0, 2>>, <<1, 0, 0>>},
     t \in {<<"other", "MSI", "MSIX">>, <<"MSI", "MSIX", "other">>}}
  \cup {[Small EXCEPT !.listed = FALSE], [Small EXCEPT !.pointer = 0]}

MCDevices ==
  {Ordinary, [Small EXCEPT !.fmask = TRUE], [Small EXCEPT !.is64 = FALSE]}
  \cup {[Small EXCEPT !.left = "msi", !.is64 = b] : b \in BOOLEAN}
  \cup {[Ordinary EXCEPT !.left = "msix"]}
  \cup {Bar(0, "mem32", 8, 0), Bar(5, "mem32", 8, 0), Bar(5, "mem64", 8, 0), Bar(1, "pref32", 0, 4),
        Bar(6, "mem32", 8, 0), Bar(0, "unused", 0, 4), Bar(0, "io", 8, 0),
        Bar(0, "mem64", 0, 0), Bar(0, "mem64", 0, 4), Bar(0, "mem64", 14, 4)}
  \cup Lists
=============================================================================
