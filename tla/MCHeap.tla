------------------------------- MODULE MCHeap -------------------------------
(* Five size classes, up to a page of 16 bytes, with slabs of 31, 15, 7, 3 and *)
(* 1 block; the buddy's half has 9 pages, two blocks of the highest order and  *)
(* one page more.  Of the layouts one is of the last class because of its      *)
(* alignment only and falls back to the buddy, which serves the others with    *)
(* two and with four pages.  The callers are interchangeable.                  *)
EXTENDS Heap

MCClasses == <<1, 2, 4, 8, 16>>
MCLayouts == {[size |-> 1, align |-> 16], [size |-> 17, align |-> 32],
              [size |-> 40, align |-> 8]}
MCSymmetry == Permutations(Callers)
=============================================================================
