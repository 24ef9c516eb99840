------------------------------ MODULE MCKernel ------------------------------
(* Instances of Kernel.  Task 0 is the idle task, as main.rs creates them.   *)
EXTENDS Kernel

MCRtPriority == [t \in Tasks |-> IF SchedClass[t] = "Realtime" THEN 99 ELSE 0]

\* One Realtime sleeper and one Normal sleeper that also yields.
SleepClass == [t \in Tasks |-> CASE t = 0 -> "Idle" [] t = 1 -> "Realtime"
                                 [] OTHER -> "Normal"]
SleepOps == [t \in Tasks |-> CASE t = 0 -> {} [] t = 1 -> {"sleep"}
                               [] OTHER -> {"sleep", "yield"}]

\* Three Normal tasks contending for the mutex; one of them may also try, and
\* one may block forever, as KernelMain does.
MutexClass == [t \in Tasks |-> IF t = 0 THEN "Idle" ELSE "Normal"]
MutexOps == [t \in Tasks |-> CASE t = 0 -> {} [] t = 1 -> {"lock", "trylock"}
                               [] t = 2 -> {"lock"} [] OTHER -> {"lock", "block"}]
=============================================================================
