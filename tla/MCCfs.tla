------------------------------- MODULE MCCfs -------------------------------
(* Instances of Cfs: the boot order of kernel_main_inner, cut down. *)
EXTENDS Cfs

MCClass == <<"Realtime", "Idle", "Normal", "Normal", "Normal", "Normal", "Normal">>
MCSchedClass == [t \in Tasks |-> MCClass[t + 1]]
MCRtPriority == [t \in Tasks |-> IF t = 0 THEN 99 ELSE 0]

\* Weights of nice 0, 0, 0, -5 and 0 (KernelMain).
MCWeight == [t \in Tasks |-> IF t = 5 THEN 3121 ELSE 1024]
MCCooperative == {0, 6}

\* Two Normal tasks that never yield, nice -5 and nice +19, beside KernelMain.
NiceClass == <<"Idle", "Normal", "Normal", "Normal">>
NiceSchedClass == [t \in Tasks |-> NiceClass[t + 1]]
NiceRtPriority == [t \in Tasks |-> 0]
NiceWeight == [t \in Tasks |-> CASE t = 1 -> 3121 [] t = 2 -> 15 [] OTHER -> 1024]
NiceCooperative == {3}
=============================================================================
