-------------------------- MODULE MCVisualization --------------------------
(* Two demo tasks, as many as there are tracking slots, with at most one      *)
(* flush in each buffer.  The first may find its buffer locked, and have two  *)
(* ids in its wait queue; the second finds it free.                           *)
EXTENDS Visualization

MCMaxCommands == [d \in Demos |-> FlushSize]
MCMaxWaiters == [d \in Demos |-> IF d = "demo1" THEN 2 ELSE 0]
=============================================================================
