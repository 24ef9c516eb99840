----------------------------- MODULE MutexSpec -----------------------------
(* What BlockingMutex promises its callers: a task that runs gets the guard  *)
(* for itself, and only when none is held; the guard goes away only when the *)
(* task that holds it runs.                                                  *)
CONSTANTS Tasks, NoTask

VARIABLES holder,   \* the task that has the guard
          running   \* the task that takes the step

Init == holder = NoTask

Acquire == holder = NoTask /\ running \in Tasks /\ holder' = running
Release == holder \in Tasks /\ running = holder /\ holder' = NoTask

Next == Acquire \/ Release

Spec == Init /\ [][Next]_holder
=============================================================================
