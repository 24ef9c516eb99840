------------------------------- MODULE Buddy -------------------------------
(***************************************************************************)
(* BuddyAllocator of kernel/src/allocator.rs: free lists and free bitmaps  *)
(* per order, splitting on allocate and merging on deallocate.             *)
(*                                                                         *)
(* Addresses and sizes are in pages (MIN_BLOCK_SIZE), relative to          *)
(* region_start, as buddy_address and addr_to_bit_index take them.  A free *)
(* list is the sequence of the nodes that its links connect (module        *)
(* FreeList shows that the pointers implement it).  allocate and           *)
(* deallocate run with interrupts disabled: each is one action.            *)
(***************************************************************************)
EXTENDS Integers, FiniteSets, Sequences, SequencesExt, FiniteSetsExt

CONSTANTS RegionPages,   \* aligned_size of init, in pages
          MAX_ORDER,
          Requests       \* sizes asked for: max(layout.size, layout.align)

Orders == 0 .. MAX_ORDER - 1
Pages == 0 .. RegionPages - 1

ASSUME BuddyAssumption ==
  /\ RegionPages \in Nat
  /\ MAX_ORDER \in Nat \ {0}
  /\ Requests \subseteq Nat \ {0}

VARIABLES free_lists,    \* by order, the addresses of the free blocks
          free_bitmaps,  \* by order, the indices of the bits that are set
          live           \* the blocks handed out: [addr, size requested]

buddyVars == <<free_lists, free_bitmaps, live>>

order_to_size(k) == 2 ^ k

\* The least order whose blocks hold size pages.
size_to_order(size) == Min({k \in 0 .. size : order_to_size(k) >= size})

\* The greatest order whose blocks fit in size pages.
max_order_for_size(size) == Max({k \in 0 .. size : order_to_size(k) <= size})

\* relative ^ order_to_size(order), for a block start.
buddy_address(a, k) ==
  IF (a \div order_to_size(k)) % 2 = 0
  THEN a + order_to_size(k) ELSE a - order_to_size(k)

addr_to_bit_index(a, k) == a \div order_to_size(k)
\* MAX_BITMAP_WORDS is taken to cover the region (allocator.rs:168, 182, 196).
is_free(a, k) == addr_to_bit_index(a, k) \in free_bitmaps[k]

-----------------------------------------------------------------------------
(* init: cut the region into the largest aligned blocks, front to back *)

trailing_zeros(a) == Max({k \in 0 .. a : a % order_to_size(k) = 0})

\* The order of the block that init puts at page a.
InitOrder(a) ==
  Min({max_order_for_size(RegionPages - a), MAX_ORDER - 1,
       IF a = 0 THEN MAX_ORDER - 1 ELSE trailing_zeros(a)})

\* init's loop: where current goes after the block at page a, the pages at which
\* it arrives from the start of the region, and the blocks it adds.
NextStart(a) == a + order_to_size(InitOrder(a))

InitStarts ==
  {a \in Pages : \A S \in SUBSET Pages :
     /\ 0 \in S
     /\ \A b \in S : NextStart(b) \in Pages => NextStart(b) \in S
     => a \in S}

InitBlocks == {<<a, InitOrder(a)>> : a \in InitStarts}

\* The sequence that lists S in descending order.
Descending(S) ==
  CHOOSE q \in [1 .. Cardinality(S) -> S] :
    /\ ToSet(q) = S
    /\ \A i, j \in DOMAIN q : i < j => q[i] > q[j]

\* Blocks are pushed in front, so each list ends up in descending order.
BuddyInit ==
  /\ free_lists = [k \in Orders |->
       Descending({b[1] : b \in {c \in InitBlocks : c[2] = k}})]
  /\ free_bitmaps = [k \in Orders |->
       {addr_to_bit_index(b[1], k) : b \in {c \in InitBlocks : c[2] = k}}]
  /\ live = {}

-----------------------------------------------------------------------------
(* allocate *)

\* The first order, from k up, whose free list is not empty.
FoundOrders(k) == {o \in Orders : o >= k /\ free_lists[o] # <<>>}

\* Mutant: the upper half is looked for one order too high.
Split_Beyond(a, k, o) ==
  /\ free_lists' = [j \in Orders |->
       IF j = o THEN Tail(free_lists[j])
       ELSE IF j \in k .. o - 1 THEN <<a + order_to_size(j + 1)>> \o free_lists[j]
       ELSE free_lists[j]]
  /\ free_bitmaps' = [j \in Orders |->
       IF j = o THEN free_bitmaps[j] \ {addr_to_bit_index(a, j)}
       ELSE IF j \in k .. o - 1
       THEN free_bitmaps[j] \cup {addr_to_bit_index(a + order_to_size(j + 1), j)}
       ELSE free_bitmaps[j]]

\* remove_from_free_list at order o, then add_to_free_list of the upper half at
\* every order from o - 1 down to k.
Split(a, k, o) ==
  /\ free_lists' = [j \in Orders |->
       IF j = o THEN Tail(free_lists[j])
       ELSE IF j \in k .. o - 1 THEN <<a + order_to_size(j)>> \o free_lists[j]
       ELSE free_lists[j]]
  /\ free_bitmaps' = [j \in Orders |->
       IF j = o THEN free_bitmaps[j] \ {addr_to_bit_index(a, j)}
       ELSE IF j \in k .. o - 1
       THEN free_bitmaps[j] \cup {addr_to_bit_index(a + order_to_size(j), j)}
       ELSE free_bitmaps[j]]

\* allocate() succeeds, returning page a.
BuddyAllocate(size, a) ==
  LET k == size_to_order(size)
      o == Min(FoundOrders(k))
  IN  /\ FoundOrders(k) # {}
      /\ a = Head(free_lists[o])
      /\ Split(a, k, o)

\* allocate() returns None: the size is beyond MAX_ORDER or nothing is free.
BuddyOutOfMemory(size) == FoundOrders(size_to_order(size)) = {}

-----------------------------------------------------------------------------
(* deallocate *)

\* The block of order k that holds page a: the start that repeated merging
\* (block_addr.min(buddy_addr)) arrives at.
BlockStart(a, k) == a - (a % order_to_size(k))

\* remove_node_from_free_list takes a block out of its list.
Unlink(s, a) == RemoveAt(s, CHOOSE i \in DOMAIN s : s[i] = a)

\* Mutant: blocks are never merged.
Mergeable_Never(a, j) == FALSE

\* The buddy of the block reached at order j is in the region and free.
Mergeable(a, j) ==
  LET b == buddy_address(BlockStart(a, j), j)
  IN  b \in Pages /\ is_free(b, j)

\* The order at which deallocate's loop stops.
MergedOrder(a, k) ==
  Max({m \in k .. MAX_ORDER - 1 : \A j \in k .. m - 1 : Mergeable(a, j)})

\* Mutant: the buddies merged away keep their bits.
BuddyDeallocate_KeepsBits(a, size) ==
  LET k == size_to_order(size)
      m == MergedOrder(a, k)
      buddy(j) == buddy_address(BlockStart(a, j), j)
  IN  /\ free_lists' = [j \in Orders |->
           IF j = m THEN <<BlockStart(a, m)>> \o free_lists[j]
           ELSE IF j \in k .. m - 1 THEN Unlink(free_lists[j], buddy(j))
           ELSE free_lists[j]]
      /\ free_bitmaps' = [j \in Orders |->
           IF j = m THEN free_bitmaps[j] \cup {addr_to_bit_index(a, j)}
           ELSE free_bitmaps[j]]

\* deallocate(): the buddies merged away leave their lists
\* (remove_node_from_free_list), the result is pushed on its own.
BuddyDeallocate(a, size) ==
  LET k == size_to_order(size)
      m == MergedOrder(a, k)
      buddy(j) == buddy_address(BlockStart(a, j), j)
  IN  /\ free_lists' = [j \in Orders |->
           IF j = m THEN <<BlockStart(a, m)>> \o free_lists[j]
           ELSE IF j \in k .. m - 1 THEN Unlink(free_lists[j], buddy(j))
           ELSE free_lists[j]]
      /\ free_bitmaps' = [j \in Orders |->
           IF j = m THEN free_bitmaps[j] \cup {addr_to_bit_index(a, j)}
           ELSE IF j \in k .. m - 1
           THEN free_bitmaps[j] \ {addr_to_bit_index(buddy(j), j)}
           ELSE free_bitmaps[j]]

-----------------------------------------------------------------------------
(* The callers: they free what they were given, once, with the same size *)

HandOut(size, a) ==
  /\ BuddyAllocate(size, a)
  /\ live' = live \cup {[addr |-> a, size |-> size]}

TakeBack(b) ==
  /\ BuddyDeallocate(b.addr, b.size)
  /\ live' = live \ {b}

BuddyNext ==
  \/ \E size \in Requests : \E a \in Pages : HandOut(size, a)
  \/ \E size \in Requests : BuddyOutOfMemory(size) /\ UNCHANGED buddyVars
  \/ \E b \in live : TakeBack(b)

BuddySpec == BuddyInit /\ [][BuddyNext]_buddyVars

-----------------------------------------------------------------------------
(* Properties *)

Span(a, k) == a .. a + order_to_size(k) - 1

\* The free blocks, and the blocks in use, as <<start, order>>.
FreeBlocks == UNION {{<<free_lists[k][i], k>> : i \in DOMAIN free_lists[k]} : k \in Orders}
UsedBlocks == {<<b.addr, size_to_order(b.size)>> : b \in live}

\* The blocks in use and the free blocks tile the region: every page is in
\* exactly one of them.  Nothing is handed out twice, nothing leaks, whatever
\* the order of splits and merges.
Tiled ==
  /\ \A p \in Pages : \E b \in FreeBlocks \cup UsedBlocks : p \in Span(b[1], b[2])
  /\ \A b, c \in FreeBlocks \cup UsedBlocks :
       b # c => Span(b[1], b[2]) \cap Span(c[1], c[2]) = {}
  /\ FreeBlocks \cap UsedBlocks = {}
  /\ \A u, v \in live : u.addr = v.addr => u = v
  /\ \A b \in FreeBlocks \cup UsedBlocks : Span(b[1], b[2]) \subseteq Pages

\* is_free(a, k), which deallocate trusts before it unlinks a node, is true of
\* exactly the blocks on the list of order k, and none is on a list twice.
BitmapMatchesLists ==
  \A k \in Orders :
    /\ \A a \in Pages : BlockStart(a, k) = a =>
         (is_free(a, k) <=> \E i \in DOMAIN free_lists[k] : free_lists[k][i] = a)
    /\ \A i, j \in DOMAIN free_lists[k] : free_lists[k][i] = free_lists[k][j] => i = j

\* Merging is complete: a run of pages that is free and aligned (relative to the
\* region) can be allocated as one block, so allocate never reports exhaustion
\* because of blocks that were freed but not merged.
NoFalseOutOfMemory ==
  \A k \in Orders : \A a \in Pages :
    /\ BlockStart(a, k) = a
    /\ Span(a, k) \subseteq Pages
    /\ \A p \in Span(a, k) : \E b \in FreeBlocks : p \in Span(b[1], b[2])
    => FoundOrders(k) # {}
=============================================================================
