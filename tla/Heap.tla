-------------------------------- MODULE Heap --------------------------------
(***************************************************************************)
(* KernelAllocator of kernel/src/allocator.rs, the global allocator: slab  *)
(* caches for small sizes in the first half of the heap, the buddy         *)
(* allocator (module Buddy) in the second half, for larger sizes and for   *)
(* small ones when their slab is empty.                                    *)
(*                                                                         *)
(* Each critical section is one action.  alloc has two, the slab's and the *)
(* buddy's; the caller can be preempted between them.                      *)
(***************************************************************************)
EXTENDS Buddy

CONSTANTS HeapStart, HeapSize,
          SIZE_CLASSES,    \* sequence of block sizes, each twice the previous
          Layouts,         \* layouts asked for: [size, align]
          Callers,
          NoCall           \* a caller that is not inside alloc

MIN_BLOCK_SIZE == Last(SIZE_CLASSES)
NUM_SIZE_CLASSES == Len(SIZE_CLASSES)
Classes == 1 .. NUM_SIZE_CLASSES

\* Size classes and alignments are powers of two (Layout guarantees the latter).
PowerOfTwo(n) == \E k \in 0 .. n : n = 2 ^ k

ASSUME HeapAssumption ==
  /\ HeapStart \in Nat /\ HeapSize \in Nat
  /\ SIZE_CLASSES \in Seq(Nat \ {0}) /\ SIZE_CLASSES # <<>>
  /\ PowerOfTwo(SIZE_CLASSES[1])
  /\ \A i \in 1 .. NUM_SIZE_CLASSES - 1 : SIZE_CLASSES[i + 1] = 2 * SIZE_CLASSES[i]
  /\ Layouts \subseteq [size : Nat \ {0}, align : Nat \ {0}]
  /\ \A l \in Layouts : PowerOfTwo(l.align)
  /\ NoCall \notin Layouts

VARIABLES slab_caches,    \* SlabCache::free_list, by class
          allocated,      \* what callers hold: [ptr, layout]
          call            \* by caller: the layout whose slab was found empty

vars == <<slab_caches, buddyVars, allocated, call>>

align_up(a, n) == ((a + n - 1) \div n) * n
align_down(a, n) == (a \div n) * n

\* init: the first half of the heap goes to the slabs, the rest, cut to whole
\* pages, to the buddy allocator.
slab_region_size == HeapSize \div 2
buddy_start == align_up(HeapStart + slab_region_size, MIN_BLOCK_SIZE)
buddy_end == align_down(HeapStart + HeapSize, MIN_BLOCK_SIZE)

\* Mutant: the alignment is forgotten.
Bytes_SizeOnly(l) == l.size

\* layout.size().max(layout.align()), in bytes and in pages.
Bytes(l) == Max({l.size, l.align})

PagesOf(l) == align_up(Bytes(l), MIN_BLOCK_SIZE) \div MIN_BLOCK_SIZE

PageAddr(p) == buddy_start + p * MIN_BLOCK_SIZE

PageOf(ptr) == (ptr - buddy_start) \div MIN_BLOCK_SIZE

\* The buddy allocator's region and the sizes it is asked for.
ASSUME BuddyHalf ==
  /\ RegionPages = Max({buddy_end - buddy_start, 0}) \div MIN_BLOCK_SIZE
  /\ Requests = {PagesOf(l) : l \in Layouts}

\* Mutant: a slab is rounded up to whole blocks.
slab_size_RoundsUp(i) == align_up(slab_region_size \div NUM_SIZE_CLASSES, SIZE_CLASSES[i])

\* The size of the slab of class i, the addresses where it ends and starts.
slab_size(i) == align_down(slab_region_size \div NUM_SIZE_CLASSES, SIZE_CLASSES[i])

slab_end[i \in 0 .. NUM_SIZE_CLASSES] ==
  IF i = 0 THEN HeapStart ELSE slab_end[i - 1] + slab_size(i)

slab_start(i) == slab_end[i - 1]

num_blocks(i) == slab_size(i) \div SIZE_CLASSES[i]

\* add_slab pushes the blocks front to back, so the last one is the head.
InitSlab(i) ==
  [j \in 1 .. num_blocks(i) |->
     slab_start(i) + (num_blocks(i) - j) * SIZE_CLASSES[i]]

Init ==
  /\ slab_caches = [i \in Classes |-> InitSlab(i)]
  /\ allocated = {}
  /\ call = [c \in Callers |-> NoCall]
  /\ BuddyInit

\* size_to_class: the least class that holds the size, or none.
ClassesFor(size) == {i \in Classes : SIZE_CLASSES[i] >= size}
size_to_class(size) == Min(ClassesFor(size))

-----------------------------------------------------------------------------
\* alloc(), first part: take the head of the slab's list, or go on to the buddy.
SlabAlloc(c, l) ==
  /\ call[c] = NoCall
  /\ LET i == size_to_class(Bytes(l)) IN
       IF ClassesFor(Bytes(l)) # {} /\ slab_caches[i] # <<>>
       THEN /\ slab_caches' = [slab_caches EXCEPT ![i] = Tail(@)]
            /\ allocated' = allocated \cup {[ptr |-> Head(slab_caches[i]), layout |-> l]}
            /\ UNCHANGED call
       ELSE /\ call' = [call EXCEPT ![c] = l]
            /\ UNCHANGED <<slab_caches, allocated>>
  /\ UNCHANGED buddyVars

\* alloc(), second part: the buddy allocator; null if it has nothing.
BuddyAlloc(c) ==
  /\ call[c] # NoCall
  /\ call' = [call EXCEPT ![c] = NoCall]
  /\ \/ \E p \in Pages :
          /\ HandOut(PagesOf(call[c]), p)
          /\ allocated' = allocated \cup {[ptr |-> PageAddr(p), layout |-> call[c]]}
     \/ /\ BuddyOutOfMemory(PagesOf(call[c]))
        /\ UNCHANGED <<buddyVars, allocated>>
  /\ UNCHANGED slab_caches

\* Mutant: the class is chosen by layout.size() without the alignment.
Dealloc_IgnoresAlign(u) ==
  /\ allocated' = allocated \ {u}
  /\ IF u.ptr >= buddy_start
     THEN /\ TakeBack([addr |-> PageOf(u.ptr), size |-> PagesOf(u.layout)])
          /\ UNCHANGED slab_caches
     ELSE /\ slab_caches' = [slab_caches EXCEPT
               ![size_to_class(u.layout.size)] = <<u.ptr>> \o @]
          /\ UNCHANGED buddyVars
  /\ UNCHANGED call

\* dealloc(): the address decides between buddy and slab, the layout the class.
Dealloc(u) ==
  /\ allocated' = allocated \ {u}
  /\ IF u.ptr >= buddy_start
     THEN /\ TakeBack([addr |-> PageOf(u.ptr), size |-> PagesOf(u.layout)])
          /\ UNCHANGED slab_caches
     ELSE /\ slab_caches' = [slab_caches EXCEPT
               ![size_to_class(Bytes(u.layout))] = <<u.ptr>> \o @]
          /\ UNCHANGED buddyVars
  /\ UNCHANGED call

Next ==
  \/ \E c \in Callers : \E l \in Layouts : SlabAlloc(c, l)
  \/ \E c \in Callers : BuddyAlloc(c)
  \/ \E u \in allocated : Dealloc(u)

Spec == Init /\ [][Next]_vars

-----------------------------------------------------------------------------
(* Properties *)

BytesOf(u) == u.ptr .. u.ptr + Bytes(u.layout) - 1

\* Two allocations never share a byte, and none leaves the heap, however slab
\* and buddy allocations and frees of several callers interleave.
NoOverlap ==
  \A u, v \in allocated :
    /\ BytesOf(u) \subseteq HeapStart .. HeapStart + HeapSize - 1
    /\ u # v => BytesOf(u) \cap BytesOf(v) = {}

\* A slab block goes back to the cache it came from: the blocks that cache i
\* was given by init are exactly those on its list and those in use below
\* buddy_start with a layout of class i, each once.
SlabConserved ==
  \A i \in Classes :
    LET inUse == {u.ptr : u \in {v \in allocated :
                    v.ptr < buddy_start /\ ClassesFor(Bytes(v.layout)) # {}
                    /\ size_to_class(Bytes(v.layout)) = i}}
    IN  /\ ToSet(slab_caches[i]) \cup inUse = ToSet(InitSlab(i))
        /\ ToSet(slab_caches[i]) \cap inUse = {}
        /\ IsInjective(slab_caches[i])

\* Relative to the start of its slab or of the buddy region an address has the
\* alignment its layout asks for, although alloc only turns the alignment into a
\* size.  (Slabs follow each other without alignment, and the buddy region is
\* aligned to a page: the address itself may be aligned to less.)
AlignedInRegion ==
  \A u \in allocated :
    LET base == IF u.ptr >= buddy_start THEN buddy_start
                ELSE slab_start(size_to_class(Bytes(u.layout)))
    IN  (u.ptr - base) % u.layout.align = 0

=============================================================================
