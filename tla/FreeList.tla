------------------------------ MODULE FreeList ------------------------------
(***************************************************************************)
(* The intrusive doubly linked free list of one order of BuddyAllocator    *)
(* (kernel/src/allocator.rs).  The links live in the free blocks           *)
(* themselves: whoever owns a block that is not on the list writes over    *)
(* them, so nothing is known of the links of such a block.                 *)
(*                                                                         *)
(* list is a history variable, the sequence that module Buddy uses for the *)
(* list; Linked says that the pointers represent it.                       *)
(***************************************************************************)
EXTENDS Naturals, Sequences

CONSTANTS Nodes,  \* addresses of blocks
          None    \* the null link

ASSUME FreeListAssumption == None \notin Nodes

Link == Nodes \cup {None}

VARIABLES head,  \* free_lists[order]
          next,  \* BuddyFreeNode::next, by address
          prev,  \* BuddyFreeNode::prev, by address
          list

freeListVars == <<head, next, prev, list>>

FreeListInit ==
  /\ head = None
  /\ next \in [Nodes -> Link]
  /\ prev \in [Nodes -> Link]
  /\ list = <<>>

OnList(n) == \E i \in DOMAIN list : list[i] = n

WithoutIndex(s, i) ==
  [j \in 1 .. Len(s) - 1 |-> IF j < i THEN s[j] ELSE s[j + 1]]

\* add_to_free_list: a block that is not on the list becomes its head.
add_to_free_list(n) ==
  /\ ~OnList(n)
  /\ next' = [next EXCEPT ![n] = head]
  /\ prev' = [m \in Nodes |-> IF m = head THEN n
                              ELSE IF m = n THEN None ELSE prev[m]]
  /\ head' = n
  /\ list' = <<n>> \o list

\* remove_from_free_list: take the head off.
remove_from_free_list ==
  /\ head # None
  /\ prev' = [m \in Nodes |-> IF m = next[head] THEN None ELSE prev[m]]
  /\ head' = next[head]
  /\ list' = Tail(list)
  /\ UNCHANGED next

\* Mutant: the successor's prev is not updated.
remove_node_from_free_list_KeepsPrev(n) ==
  /\ OnList(n)
  /\ next' = [m \in Nodes |-> IF m = prev[n] THEN next[n] ELSE next[m]]
  /\ head' = IF prev[n] = None THEN next[n] ELSE head
  /\ \E i \in DOMAIN list : list[i] = n /\ list' = WithoutIndex(list, i)
  /\ UNCHANGED prev

\* remove_node_from_free_list: unlink a block from the middle, without a walk.
remove_node_from_free_list(n) ==
  /\ OnList(n)
  /\ next' = [m \in Nodes |-> IF m = prev[n] THEN next[n] ELSE next[m]]
  /\ prev' = [m \in Nodes |-> IF m = next[n] THEN prev[n] ELSE prev[m]]
  /\ head' = IF prev[n] = None THEN next[n] ELSE head
  /\ \E i \in DOMAIN list : list[i] = n /\ list' = WithoutIndex(list, i)

\* The owner of an allocated block overwrites the links that were in it.
Scribble(n) ==
  /\ ~OnList(n)
  /\ \E a, b \in Link : /\ next' = [next EXCEPT ![n] = a]
                       /\ prev' = [prev EXCEPT ![n] = b]
  /\ UNCHANGED <<head, list>>

FreeListNext ==
  \/ \E n \in Nodes : add_to_free_list(n)
  \/ remove_from_free_list
  \/ \E n \in Nodes : remove_node_from_free_list(n)
  \/ \E n \in Nodes : Scribble(n)

FreeListSpec == FreeListInit /\ [][FreeListNext]_freeListVars

-----------------------------------------------------------------------------
(* Properties *)

\* Links are addresses of blocks or null.
FreeListTypeOK ==
  /\ head \in Link
  /\ next \in [Nodes -> Link]
  /\ prev \in [Nodes -> Link]
  /\ list \in Seq(Nodes)

\* The pointers represent the sequence: following next from head visits
\* list[1], list[2], ... and ends, prev leads back, and no block is on the list
\* twice.  So unlinking a block by its own links alone removes that block only,
\* and what owners write into allocated blocks never shows.
Linked ==
  /\ head = IF list = <<>> THEN None ELSE list[1]
  /\ \A i \in DOMAIN list :
       /\ next[list[i]] = IF i = Len(list) THEN None ELSE list[i + 1]
       /\ prev[list[i]] = IF i = 1 THEN None ELSE list[i - 1]
  /\ \A i, j \in DOMAIN list : list[i] = list[j] => i = j

=============================================================================
