----------------------------- MODULE HeapProofs -----------------------------
(***************************************************************************)
(* The heap of kernel/src/allocator.rs, from the bottom up: for any set of *)
(* blocks the pointers of FreeList represent its sequence; for every size  *)
(* of the region, number of orders and set of requests the blocks of the   *)
(* buddy allocator tile its region, its bitmaps agree with its lists, and  *)
(* what is free and aligned can be allocated; for every heap, set of size  *)
(* classes and set of layouts no byte is allocated twice, slab blocks go   *)
(* back where they came from, and addresses are aligned.                   *)
(***************************************************************************)
EXTENDS Heap, FreeList, FiniteSetTheorems, SequenceTheorems, NaturalsInduction,
        WellFoundedInduction, TLAPS

-----------------------------------------------------------------------------
(* FreeList: the pointers of one list *)

FreeListInv == FreeListTypeOK /\ Linked

\* The length, the elements and the type of a sequence with one element taken
\* out, as remove_node_from_free_list takes it out.
LEMMA WithoutIndexFacts ==
  ASSUME NEW s \in Seq(Nodes), NEW i \in 1 .. Len(s)
  PROVE  /\ WithoutIndex(s, i) \in Seq(Nodes)
         /\ Len(WithoutIndex(s, i)) = Len(s) - 1
         /\ \A j \in 1 .. Len(s) - 1 :
              WithoutIndex(s, i)[j] = IF j < i THEN s[j] ELSE s[j + 1]
<1>1. Len(s) \in Nat /\ Len(s) - 1 \in Nat
  OBVIOUS
<1>2. \A j \in 1 .. Len(s) - 1 : (IF j < i THEN s[j] ELSE s[j + 1]) \in Nodes
  OBVIOUS
<1>3. WithoutIndex(s, i) \in [1 .. Len(s) - 1 -> Nodes]
  BY <1>2 DEF WithoutIndex
<1>. QED
  BY <1>1, <1>3 DEF WithoutIndex

\* A sequence is a function on its indices.
LEMMA SeqIsFunction ==
  ASSUME NEW s \in Seq(Nodes)
  PROVE  s \in [1 .. Len(s) -> Nodes]
  OBVIOUS

\* Pushing an element in front.
LEMMA AddFacts ==
  ASSUME NEW s \in Seq(Nodes), NEW n \in Nodes
  PROVE  /\ <<n>> \o s \in Seq(Nodes)
         /\ Len(<<n>> \o s) = Len(s) + 1
         /\ (<<n>> \o s)[1] = n
         /\ \A j \in 2 .. Len(s) + 1 : (<<n>> \o s)[j] = s[j - 1]
  OBVIOUS

\* The empty list represents the empty sequence.
LEMMA InitLinked == FreeListInit => FreeListInv
<1>. SUFFICES ASSUME FreeListInit PROVE FreeListInv
  OBVIOUS
<1>1. list = <<>> /\ head = None /\ DOMAIN list = {}
  BY DEF FreeListInit
<1>2. FreeListTypeOK
  BY <1>1 DEF FreeListInit, FreeListTypeOK, Link
<1>. QED
  BY <1>1, <1>2 DEF FreeListInv, Linked

\* add_to_free_list keeps the representation: only the old head's prev and the
\* new block's links change.
LEMMA AddLinked ==
  ASSUME FreeListInv, NEW n \in Nodes, add_to_free_list(n)
  PROVE  FreeListInv'
<1>. USE FreeListAssumption DEF FreeListInv, FreeListTypeOK, Link
<1>1. /\ list' \in Seq(Nodes) /\ Len(list') = Len(list) + 1 /\ Len(list) \in Nat
      /\ list'[1] = n
      /\ \A j \in 2 .. Len(list) + 1 : list'[j] = list[j - 1]
  BY AddFacts DEF add_to_free_list
<1>2. FreeListTypeOK'
  BY <1>1 DEF add_to_free_list
<1>3. head' = list'[1] /\ list' # <<>>
  BY <1>1 DEF add_to_free_list
<1>4. \A j \in 1 .. Len(list) : list[j] # n
  BY DEF add_to_free_list, OnList
<1>6. \A m \in 1 .. Len(list) :
        /\ next[list[m]] = IF m = Len(list) THEN None ELSE list[m + 1]
        /\ prev[list[m]] = IF m = 1 THEN None ELSE list[m - 1]
  <2>1. DOMAIN list = 1 .. Len(list)
    OBVIOUS
  <2>. QED
    BY <2>1, Zenon DEF Linked
<1>5. ASSUME NEW i \in DOMAIN list'
      PROVE  /\ next'[list'[i]] = IF i = Len(list') THEN None ELSE list'[i + 1]
             /\ prev'[list'[i]] = IF i = 1 THEN None ELSE list'[i - 1]
  <2>1. CASE i = 1
    <3>1. list'[i] = n /\ prev'[n] = None
      <4>1. head # n
        BY <1>4 DEF Linked
      <4>. QED
        BY <1>1, <2>1, <4>1 DEF add_to_free_list
    <3>2. next'[n] = head
      BY DEF add_to_free_list
    <3>3. head = IF i = Len(list') THEN None ELSE list'[i + 1]
      BY <1>1, <2>1 DEF Linked
    <3>. QED
      BY <3>1, <3>2, <3>3, <2>1
  <2>2. CASE i # 1
    <3>1. /\ i \in 2 .. Len(list) + 1 /\ i - 1 \in 1 .. Len(list)
          /\ list'[i] = list[i - 1] /\ list'[i] # n /\ list'[i] \in Nodes
      BY <1>1, <1>4, <2>2
    <3>2. next'[list'[i]] = next[list[i - 1]]
      BY <3>1 DEF add_to_free_list
    <3>3. next[list[i - 1]] = IF i = Len(list') THEN None ELSE list'[i + 1]
      <4>1. next[list[i - 1]] = IF i - 1 = Len(list) THEN None ELSE list[(i - 1) + 1]
        BY <1>6, <3>1
      <4>. QED
        BY <1>1, <3>1, <4>1
    <3>4. prev'[list'[i]] = list'[i - 1]
      <4>1. CASE i = 2
        BY <1>1, <3>1, <4>1 DEF add_to_free_list, Linked
      <4>2. CASE i # 2
        <5>1. i - 1 # 1 /\ i - 2 \in 1 .. Len(list) /\ list'[i - 1] = list[i - 2]
          BY <1>1, <3>1, <4>2
        <5>2. list[i - 1] # head
          BY <3>1, <5>1 DEF Linked
        <5>3. prev'[list'[i]] = prev[list[i - 1]]
          BY <3>1, <5>2 DEF add_to_free_list
        <5>4. prev[list[i - 1]] = list[i - 2]
          <6>1. prev[list[i - 1]] = IF i - 1 = 1 THEN None ELSE list[(i - 1) - 1]
            BY <1>6, <3>1
          <6>. QED
            BY <3>1, <5>1, <6>1
        <5>. QED
          BY <5>1, <5>3, <5>4
      <4>. QED
        BY <4>1, <4>2
    <3>. QED
      BY <2>2, <3>2, <3>3, <3>4
  <2>. QED
    BY <2>1, <2>2
<1>7. \A i, j \in DOMAIN list' : list'[i] = list'[j] => i = j
  <2>1. SUFFICES ASSUME NEW i \in 1 .. Len(list) + 1, NEW j \in 1 .. Len(list) + 1,
                        list'[i] = list'[j]
                 PROVE  i = j
    BY <1>1
  <2>2. CASE i = 1 \/ j = 1
    BY <1>1, <1>4, <2>1, <2>2, SMTT(60)
  <2>3. CASE i # 1 /\ j # 1
    <3>1. i - 1 \in 1 .. Len(list) /\ j - 1 \in 1 .. Len(list)
      BY <2>3, <1>1
    <3>2. list[i - 1] = list[j - 1]
      BY <1>1, <2>1, <2>3
    <3>3. i - 1 = j - 1
      BY <3>1, <3>2 DEF Linked
    <3>. QED
      BY <3>3
  <2>. QED
    BY <2>2, <2>3
<1>. QED
  BY <1>2, <1>3, <1>5, <1>7 DEF Linked

\* remove_node_from_free_list keeps the representation: the neighbours are
\* joined and every other link stays.
LEMMA RemoveNodeLinked ==
  ASSUME FreeListInv, NEW n \in Nodes, remove_node_from_free_list(n)
  PROVE  FreeListInv'
<1>. USE FreeListAssumption DEF FreeListInv, FreeListTypeOK, Link
<1>1. PICK i \in 1 .. Len(list) : list[i] = n /\ list' = WithoutIndex(list, i)
  BY DEF remove_node_from_free_list
<1>2. /\ list' \in Seq(Nodes) /\ Len(list') = Len(list) - 1 /\ Len(list) \in Nat
      /\ \A j \in 1 .. Len(list) - 1 : list'[j] = IF j < i THEN list[j] ELSE list[j + 1]
  <2>1. list \in Seq(Nodes)
    OBVIOUS
  <2>2. /\ WithoutIndex(list, i) \in Seq(Nodes)
        /\ Len(WithoutIndex(list, i)) = Len(list) - 1
        /\ \A j \in 1 .. Len(list) - 1 :
             WithoutIndex(list, i)[j] = IF j < i THEN list[j] ELSE list[j + 1]
    BY <2>1, WithoutIndexFacts, Zenon
  <2>3. Len(list) \in Nat /\ list' = WithoutIndex(list, i)
    BY <1>1, <2>1
  <2>. QED
    BY <2>2, <2>3, Zenon
<1>3. /\ next[n] = IF i = Len(list) THEN None ELSE list[i + 1]
      /\ prev[n] = IF i = 1 THEN None ELSE list[i - 1]
  BY <1>1 DEF Linked
<1>4. FreeListTypeOK'
  BY <1>2, <1>3 DEF remove_node_from_free_list
<1>5. head' = IF list' = <<>> THEN None ELSE list'[1]
  <2>1. CASE i = 1
    <3>1. head' = next[n]
      BY <1>3, <2>1 DEF remove_node_from_free_list
    <3>2. CASE Len(list) = 1
      BY <1>2, <1>3, <2>1, <3>1, <3>2
    <3>3. CASE Len(list) # 1
      BY <1>2, <1>3, <2>1, <3>1, <3>3
    <3>. QED
      BY <3>2, <3>3
  <2>2. CASE i # 1
    <3>1. prev[n] # None /\ head' = head
      BY <1>3, <2>2 DEF remove_node_from_free_list
    <3>2. list' # <<>> /\ list'[1] = list[1] /\ list # <<>>
      BY <1>2, <2>2
    <3>. QED
      BY <3>1, <3>2 DEF Linked
  <2>. QED
    BY <2>1, <2>2
<1>6. ASSUME NEW j \in DOMAIN list'
      PROVE  /\ next'[list'[j]] = IF j = Len(list') THEN None ELSE list'[j + 1]
             /\ prev'[list'[j]] = IF j = 1 THEN None ELSE list'[j - 1]
  <2>. DEFINE k == IF j < i THEN j ELSE j + 1
  <2>1. /\ j \in 1 .. Len(list) - 1 /\ k \in 1 .. Len(list) /\ k # i
        /\ list'[j] = list[k] /\ list[k] \in Nodes /\ list[k] # n
    <3>1. j \in 1 .. Len(list) - 1 /\ k \in 1 .. Len(list) /\ k # i /\ list'[j] = list[k]
      BY <1>2
    <3>. QED
      BY <1>1, <3>1 DEF Linked
  <2>. HIDE DEF k
  <2>2. next'[list[k]] = IF list[k] = prev[n] THEN next[n] ELSE next[list[k]]
    BY <2>1 DEF remove_node_from_free_list
  <2>3. prev'[list[k]] = IF list[k] = next[n] THEN prev[n] ELSE prev[list[k]]
    BY <2>1 DEF remove_node_from_free_list
  <2>4. list[k] = prev[n] <=> k = i - 1
    BY <1>3, <2>1 DEF Linked
  <2>5. list[k] = next[n] <=> k = i + 1
    BY <1>3, <2>1 DEF Linked
  <2>6. /\ next[list[k]] = IF k = Len(list) THEN None ELSE list[k + 1]
        /\ prev[list[k]] = IF k = 1 THEN None ELSE list[k - 1]
    BY <2>1, SMTT(60) DEF Linked
  <2>7. next'[list'[j]] = IF j = Len(list') THEN None ELSE list'[j + 1]
    <3>1. CASE k = i - 1
      BY <1>2, <1>3, <2>1, <2>2, <2>4, <3>1, SMTT(60) DEF k
    <3>2. CASE k # i - 1
      BY <1>2, <2>1, <2>2, <2>4, <2>6, <3>2, SMTT(60) DEF k
    <3>. QED
      BY <3>1, <3>2
  <2>8. prev'[list'[j]] = IF j = 1 THEN None ELSE list'[j - 1]
    <3>1. CASE k = i + 1
      BY <1>2, <1>3, <2>1, <2>3, <2>5, <3>1 DEF k
    <3>2. CASE k # i + 1
      BY <1>2, <2>1, <2>3, <2>5, <2>6, <3>2, SMTT(60) DEF k
    <3>. QED
      BY <3>1, <3>2
  <2>. QED
    BY <2>7, <2>8
<1>7. \A a, b \in DOMAIN list' : list'[a] = list'[b] => a = b
  <2>1. SUFFICES ASSUME NEW a \in 1 .. Len(list) - 1, NEW b \in 1 .. Len(list) - 1,
                        list'[a] = list'[b]
                 PROVE  a = b
    BY <1>2
  <2>. DEFINE A == IF a < i THEN a ELSE a + 1
              B == IF b < i THEN b ELSE b + 1
  <2>2. A \in 1 .. Len(list) /\ B \in 1 .. Len(list) /\ list[A] = list[B]
    BY <1>2, <2>1
  <2>3. A = B
    BY <2>2 DEF Linked
  <2>. QED
    BY <2>3
<1>. QED
  BY <1>4, <1>5, <1>6, <1>7 DEF Linked

\* remove_from_free_list has the effect of remove_node_from_free_list on the
\* head, whose prev is null.
LEMMA RemoveFirstLinked ==
  ASSUME FreeListInv, remove_from_free_list
  PROVE  FreeListInv'
<1>. USE FreeListAssumption DEF FreeListInv, FreeListTypeOK, Link
<1>1. list # <<>> /\ head = list[1] /\ head \in Nodes /\ 1 \in DOMAIN list
  BY DEF remove_from_free_list, Linked
<1>2. prev[head] = None
  BY <1>1 DEF Linked
<1>3. Tail(list) = WithoutIndex(list, 1)
  <2>1. Tail(list) = [j \in 1 .. Len(list) - 1 |-> list[j + 1]]
    <3>1. /\ Tail(list) \in Seq(Nodes) /\ Len(Tail(list)) = Len(list) - 1
          /\ \A j \in 1 .. Len(list) - 1 : Tail(list)[j] = list[j + 1]
      BY <1>1
    <3>2. Tail(list) \in [1 .. Len(list) - 1 -> Nodes]
      BY <3>1, SeqIsFunction
    <3>. QED
      BY <3>1, <3>2
  <2>2. \A j \in 1 .. Len(list) - 1 : ~(j < 1)
    BY <1>1
  <2>. QED
    BY <2>1, <2>2 DEF WithoutIndex
<1>4. remove_node_from_free_list(head)
  <2>1. OnList(head)
    BY <1>1 DEF OnList
  <2>2. next' = [m \in Nodes |-> IF m = prev[head] THEN next[head] ELSE next[m]]
    BY <1>2 DEF remove_from_free_list
  <2>3. prev' = [m \in Nodes |-> IF m = next[head] THEN prev[head] ELSE prev[m]]
    BY <1>2 DEF remove_from_free_list
  <2>4. head' = IF prev[head] = None THEN next[head] ELSE head
    BY <1>2 DEF remove_from_free_list
  <2>5. list[1] = head /\ list' = WithoutIndex(list, 1)
    BY <1>1, <1>3 DEF remove_from_free_list
  <2>. QED
    BY <1>1, <2>1, <2>2, <2>3, <2>4, <2>5 DEF remove_node_from_free_list
<1>. QED
  BY <1>1, <1>4, RemoveNodeLinked

\* What an owner writes into a block that is not on the list is not seen.
LEMMA ScribbleLinked ==
  ASSUME FreeListInv, NEW n \in Nodes, Scribble(n)
  PROVE  FreeListInv'
<1>. USE FreeListAssumption DEF FreeListInv, FreeListTypeOK, Link
<1>1. FreeListTypeOK'
  BY DEF Scribble
<1>2. \A i \in DOMAIN list : list[i] \in Nodes /\ list[i] # n
  BY DEF Scribble, OnList
<1>3. \A i \in DOMAIN list : next'[list[i]] = next[list[i]] /\ prev'[list[i]] = prev[list[i]]
  BY <1>2 DEF Scribble
<1>4. head' = head /\ list' = list
  BY DEF Scribble
<1>. QED
  BY <1>1, <1>3, <1>4 DEF Linked

\* Every reachable free list is well formed: the pointer operations of
\* allocator.rs implement the sequence operations that module Buddy uses, for
\* any set of blocks and whatever is written into allocated blocks.
THEOREM FreeListLinked == FreeListSpec => []Linked
<1>1. FreeListInv /\ [FreeListNext]_freeListVars => FreeListInv'
  <2>1. ASSUME FreeListInv, UNCHANGED freeListVars
        PROVE  FreeListInv'
    BY <2>1 DEF FreeListInv, FreeListTypeOK, Linked, freeListVars
  <2>. QED
    BY <2>1, AddLinked, RemoveFirstLinked, RemoveNodeLinked, ScribbleLinked DEF FreeListNext
<1>2. FreeListInv => Linked
  BY DEF FreeListInv
<1>. QED
  BY InitLinked, <1>1, <1>2, PTL DEF FreeListSpec

-----------------------------------------------------------------------------
(* Powers of two *)

\* 2 ^ n is the number of subsets of n elements, so it doubles with every n.
LEMMA Doubling ==
  ASSUME NEW n \in Nat
  PROVE  2 ^ n \in Nat /\ 2 ^ (n + 1) = 2 * 2 ^ n
<1> DEFINE A == SUBSET (1 .. n)
           B == SUBSET (1 .. n + 1)
           C == {T \in B : n + 1 \in T}
           f == [T \in A |-> T \cup {n + 1}]
<1>1. IsFiniteSet(1 .. n) /\ Cardinality(1 .. n) = n
  BY FS_Interval
<1>2. IsFiniteSet(1 .. n + 1) /\ Cardinality(1 .. n + 1) = n + 1
  BY FS_Interval
<1>3. IsFiniteSet(A) /\ Cardinality(A) = 2 ^ n
  BY <1>1, FS_SUBSET, Zenon
<1>4. IsFiniteSet(B) /\ Cardinality(B) = 2 ^ (n + 1)
  BY <1>2, FS_SUBSET, Zenon
<1>5. f \in Bijection(A, C)
  <2>1. f \in [A -> C]
    OBVIOUS
  <2>2. \A S, T \in A : f[S] = f[T] => S = T
    <3>1. ASSUME NEW S \in A, NEW T \in A, f[S] = f[T]
          PROVE  S = T
      <4>1. n + 1 \notin S /\ n + 1 \notin T
        OBVIOUS
      <4> QED
        BY <3>1, <4>1
    <3> QED
      BY <3>1
  <2>3. \A T \in C : \E S \in A : f[S] = T
    <3>1. ASSUME NEW T \in C
          PROVE  \E S \in A : f[S] = T
      <4>1. T \ {n + 1} \in A
        OBVIOUS
      <4>2. f[T \ {n + 1}] = T
        BY <4>1
      <4> QED
        BY <4>1, <4>2
    <3> QED
      BY <3>1
  <2> QED
    <3> HIDE DEF f, A, C
    <3> QED
      BY <2>1, <2>2, <2>3 DEF Bijection, Injection, Surjection, IsInjective
<1>6. IsFiniteSet(C) /\ Cardinality(C) = Cardinality(A)
  <2> HIDE DEF f, A, C
  <2>1. ExistsBijection(A, C)
    BY <1>5 DEF ExistsBijection
  <2> QED
    BY <1>3, <2>1, FS_Bijection, Zenon
<1>7. B = A \cup C /\ A \cap C = {}
  <2>1. A \cap C = {}
    OBVIOUS
  <2>2. A \subseteq B
    OBVIOUS
  <2>3. ASSUME NEW T \in B, T \notin C
        PROVE  T \in A
    BY <2>3
  <2> QED
    BY <2>1, <2>2, <2>3
<1>8. Cardinality(B) = Cardinality(A) + Cardinality(C) - Cardinality(A \cap C)
  BY <1>3, <1>6, <1>7, FS_Union, Zenon
<1>9. Cardinality(A \cap C) = 0 /\ Cardinality(A) \in Nat
  BY <1>3, <1>7, FS_EmptySet, FS_CardinalityType
<1> HIDE DEF A, B, C
<1> QED
  BY <1>3, <1>4, <1>6, <1>8, <1>9

\* A set of naturals that is not empty has a least element.
LEMMA LeastNat ==
  ASSUME NEW S \in SUBSET Nat, S # {}
  PROVE  \E m \in S : \A k \in S : m <= k
<1>1. PICK m \in S : \A k \in S : <<k, m>> \notin OpToRel(<, Nat)
  BY NatLessThanWellFounded, WFMin, Zenon
<1>2. \A k \in S : ~(k < m)
  BY <1>1 DEF OpToRel
<1> QED
  BY <1>2

\* And a greatest one, if it is bounded.
LEMMA GreatestNat ==
  ASSUME NEW S \in SUBSET Nat, S # {}, NEW n \in Nat, \A k \in S : k <= n
  PROVE  \E m \in S : \A k \in S : k <= m
<1> DEFINE T == {n - k : k \in S}
<1>1. T \in SUBSET Nat /\ T # {}
  <2>1. \A k \in S : n - k \in Nat
    OBVIOUS
  <2> QED
    BY <2>1, Zenon
<1>2. PICK t \in T : \A u \in T : t <= u
  BY <1>1, LeastNat
<1>3. PICK m \in S : t = n - m
  OBVIOUS
<1>4. ASSUME NEW k \in S PROVE k <= m
  <2>1. n - k \in T /\ n - m <= n - k
    BY <1>2, <1>3
  <2> QED
    BY <2>1
<1> QED
  BY <1>4

\* A set that holds 0 and, with a natural, the next one, holds them all.
LEMMA NatSet ==
  ASSUME NEW S, 0 \in S, \A n \in Nat : n \in S => n + 1 \in S
  PROVE  \A n \in Nat : n \in S
<1> SUFFICES ASSUME NEW n \in Nat, n \notin S PROVE FALSE
  OBVIOUS
<1> DEFINE T == {k \in Nat : k \notin S}
<1>1. PICK m \in T : \A k \in T : m <= k
  BY LeastNat
<1>2. m # 0 /\ m - 1 \in Nat /\ m - 1 \notin T
  BY <1>1
<1>3. m - 1 \in S /\ (m - 1) + 1 = m
  BY <1>2
<1> QED
  BY <1>1, <1>2, <1>3

\* The powers of two are positive and start at 1.
LEMMA PowPos ==
  /\ 2 ^ 0 = 1
  /\ \A n \in Nat : 2 ^ n \in Nat /\ 2 ^ n > 0
<1>1. 2 ^ 0 = 1
  <2>1. IsFiniteSet({}) /\ Cardinality({}) = 0
    BY FS_EmptySet
  <2>2. Cardinality(SUBSET {}) = 2 ^ 0
    BY <2>1, FS_SUBSET
  <2>3. SUBSET {} = {{}}
    OBVIOUS
  <2> QED
    BY <2>2, <2>3, FS_Singleton, Zenon
<1> DEFINE S == {n \in Nat : 2 ^ n > 0}
<1>2. \A n \in Nat : n \in S => n + 1 \in S
  BY Doubling
<1>3. \A n \in Nat : n \in S
  <2>1. 0 \in S
    BY <1>1
  <2> HIDE DEF S
  <2> QED
    BY <1>2, <2>1, NatSet
<1> QED
  BY <1>1, <1>3, Doubling

\* A smaller power divides a larger one, and twice the smaller is at most a
\* strictly larger one.
LEMMA PowDivides ==
  ASSUME NEW i \in Nat, NEW j \in Nat, i <= j
  PROVE  /\ \E c \in Nat \ {0} : 2 ^ j = c * 2 ^ i
         /\ 2 ^ i <= 2 ^ j
         /\ i < j => \E c \in Nat \ {0} : 2 ^ j = c * (2 * 2 ^ i)
         /\ i < j => 2 ^ i + 2 ^ i <= 2 ^ j
<1> DEFINE S == {n \in Nat : \E c \in Nat \ {0} : 2 ^ (i + n) = c * 2 ^ i}
<1>1. 0 \in S
  BY PowPos
<1>2. ASSUME NEW n \in Nat, n \in S PROVE n + 1 \in S
  <2>1. PICK c \in Nat \ {0} : 2 ^ (i + n) = c * 2 ^ i
    BY <1>2
  <2>2. 2 ^ (i + (n + 1)) = 2 * 2 ^ (i + n)
    BY Doubling
  <2>3. 2 ^ (i + (n + 1)) = (2 * c) * 2 ^ i /\ 2 * c \in Nat \ {0}
    BY <2>1, <2>2, PowPos
  <2>4. \E d \in Nat \ {0} : 2 ^ (i + (n + 1)) = d * 2 ^ i
    BY <2>3, Zenon
  <2> QED
    BY <2>4
<1>3. \A n \in Nat : n \in S
  <2> HIDE DEF S
  <2> QED
    BY <1>1, <1>2, NatSet
<1>4. PICK c \in Nat \ {0} : 2 ^ j = c * 2 ^ i
  <2>1. j - i \in S /\ i + (j - i) = j
    BY <1>3
  <2> QED
    BY <2>1
<1>5. 2 ^ i <= 2 ^ j
  BY <1>4, PowPos
<1>6. ASSUME i < j
      PROVE  \E d \in Nat \ {0} : 2 ^ j = d * (2 * 2 ^ i)
  <2>1. (j - 1) - i \in S /\ i + ((j - 1) - i) = j - 1 /\ j - 1 \in Nat
    BY <1>3, <1>6
  <2>2. PICK d \in Nat \ {0} : 2 ^ (j - 1) = d * 2 ^ i
    BY <2>1
  <2>3. 2 ^ ((j - 1) + 1) = 2 * 2 ^ (j - 1) /\ (j - 1) + 1 = j
    BY <2>1, Doubling
  <2>4. 2 ^ j = d * (2 * 2 ^ i)
    BY <2>2, <2>3, PowPos
  <2> QED
    BY <2>4
<1>7. ASSUME i < j PROVE 2 ^ i + 2 ^ i <= 2 ^ j
  <2>1. PICK d \in Nat \ {0} : 2 ^ j = d * (2 * 2 ^ i)
    BY <1>6, <1>7
  <2> QED
    BY <2>1, PowPos
<1> QED
  BY <1>4, <1>5, <1>6, <1>7

\* 2 ^ n exceeds n.
LEMMA PowBig == \A n \in Nat : n < 2 ^ n
<1> DEFINE S == {n \in Nat : n < 2 ^ n}
<1>1. 0 \in S
  BY PowPos
<1>2. \A n \in Nat : n \in S => n + 1 \in S
  BY Doubling
<1> HIDE DEF S
<1>3. \A n \in Nat : n \in S
  BY <1>1, <1>2, NatSet
<1> QED
  BY <1>3 DEF S

-----------------------------------------------------------------------------
(* Aligned blocks *)

Aligned(a, k) == \E q \in Nat : a = q * 2 ^ k

\* Page p is in the block of order k at a.
In(p, a, k) == a <= p /\ p < a + 2 ^ k

\* Quotient and remainder.
LEMMA DivMod ==
  ASSUME NEW a \in Nat, NEW b \in Nat \ {0}
  PROVE  a \div b \in Nat /\ a % b \in 0 .. b - 1 /\ a = (a \div b) * b + (a % b)
<1> DEFINE q == a \div b
<1>1. q \in Nat
  OBVIOUS
<1>2. q * b <= a
  OBVIOUS
<1>3. a < q * b + b
  OBVIOUS
<1> HIDE DEF q
<1> DEFINE r == a - q * b
<1>4. r \in 0 .. b - 1 /\ a = q * b + r
  BY <1>1, <1>2, <1>3
<1> HIDE DEF r
<1>5. a % b = r
  BY <1>1, <1>4
<1> QED
  BY <1>1, <1>4, <1>5 DEF q

\* A multiple divided.
LEMMA MultipleDiv ==
  ASSUME NEW q \in Nat, NEW b \in Nat \ {0}
  PROVE  (q * b) \div b = q /\ (q * b) % b = 0
<1> DEFINE a == q * b
<1>1. a \in Nat /\ q * b <= a /\ a < (q + 1) * b
  OBVIOUS
<1>2. a \div b = q
  <2> HIDE DEF a
  <2> QED
    BY <1>1
<1>3. a = (a \div b) * b + (a % b) /\ a % b \in 0 .. b - 1
  <2> HIDE DEF a
  <2> QED
    BY <1>1, DivMod
<1> QED
  BY <1>2, <1>3

\* The block of order k that holds a page.
LEMMA StartOf ==
  ASSUME NEW a \in Nat, NEW k \in Nat
  PROVE  /\ BlockStart(a, k) \in Nat /\ addr_to_bit_index(a, k) \in Nat
         /\ BlockStart(a, k) = addr_to_bit_index(a, k) * 2 ^ k
         /\ Aligned(BlockStart(a, k), k)
         /\ In(a, BlockStart(a, k), k)
         /\ Aligned(a, k) <=> BlockStart(a, k) = a
<1> DEFINE z == 2 ^ k
           q == a \div z
           r == a % z
<1>1. z \in Nat \ {0}
  BY PowPos
<1> HIDE DEF z
<1>2. q \in Nat /\ r \in 0 .. z - 1 /\ a = q * z + r
  BY <1>1, DivMod
<1>3. \A c \in Nat : (c * z) % z = 0
  BY <1>1, MultipleDiv
<1>4. (\E c \in Nat : a = c * z) => r = 0
  BY <1>3
<1> HIDE DEF q, r
<1>5. a - r = q * z /\ a - r \in Nat
  BY <1>1, <1>2
<1>6. a - r <= a /\ a < (a - r) + z
  BY <1>1, <1>2
<1>7. (\E c \in Nat : a = c * z) <=> a - r = a
  BY <1>1, <1>2, <1>4
<1>8. \E c \in Nat : a - r = c * z
  BY <1>2, <1>5
<1>9. BlockStart(a, k) = a - r /\ addr_to_bit_index(a, k) = q
  BY DEF BlockStart, addr_to_bit_index, order_to_size, q, r, z
<1> QED
  BY <1>2, <1>5, <1>6, <1>7, <1>8, <1>9 DEF Aligned, In, z

\* The index of the bit of an aligned block.
LEMMA BitOf ==
  ASSUME NEW q \in Nat, NEW k \in Nat
  PROVE  addr_to_bit_index(q * 2 ^ k, k) = q
  BY PowPos, MultipleDiv DEF addr_to_bit_index, order_to_size

\* Two aligned blocks that share a page are nested.
LEMMA Nesting ==
  ASSUME NEW q \in Nat, NEW r \in Nat, NEW c \in Nat \ {0}, NEW z \in Nat \ {0},
         NEW p \in Nat, q * z <= p, p < q * z + z,
         r * (c * z) <= p, p < r * (c * z) + c * z
  PROVE  r * (c * z) <= q * z /\ q * z + z <= r * (c * z) + c * z
<1> DEFINE m == r * c
           n == r * c + c
<1>1. m \in Nat /\ n \in Nat /\ r * (c * z) = m * z /\ r * (c * z) + c * z = n * z
  OBVIOUS
<1> HIDE DEF m, n
<1>2. m <= q
  BY <1>1
<1>3. q + 1 <= n
  BY <1>1
<1>4. m * z <= q * z /\ (q + 1) * z <= n * z
  BY <1>1, <1>2, <1>3
<1> QED
  BY <1>1, <1>4

\* The same for blocks of orders i and j.
LEMMA Nested ==
  ASSUME NEW i \in Nat, NEW j \in Nat, i <= j, NEW x, NEW y, NEW p \in Nat,
         Aligned(x, i), Aligned(y, j), In(p, x, i), In(p, y, j)
  PROVE  y <= x /\ x + 2 ^ i <= y + 2 ^ j
<1>1. PICK q \in Nat : x = q * 2 ^ i
  BY DEF Aligned
<1>2. PICK r \in Nat : y = r * 2 ^ j
  BY DEF Aligned
<1>3. PICK c \in Nat \ {0} : 2 ^ j = c * 2 ^ i
  BY PowDivides
<1>4. 2 ^ i \in Nat \ {0}
  BY PowPos
<1> DEFINE z == 2 ^ i
<1>5. q * z <= p /\ p < q * z + z /\ r * (c * z) <= p /\ p < r * (c * z) + c * z
  BY <1>1, <1>2, <1>3 DEF In
<1>6. r * (c * z) <= q * z /\ q * z + z <= r * (c * z) + c * z
  <2> HIDE DEF z
  <2> QED
    BY <1>4, <1>5, Nesting DEF z
<1> QED
  BY <1>1, <1>2, <1>3, <1>6

\* A start is a natural, and its first page is in the block.
LEMMA AlignedNat ==
  ASSUME NEW k \in Nat, NEW a, Aligned(a, k)
  PROVE  a \in Nat /\ In(a, a, k) /\ a + 2 ^ k \in Nat
  BY PowPos DEF Aligned, In

\* Two blocks of one order that share a page are the same.
LEMMA SameBlock ==
  ASSUME NEW k \in Nat, NEW x, NEW y, NEW p \in Nat,
         Aligned(x, k), Aligned(y, k), In(p, x, k), In(p, y, k)
  PROVE  x = y
<1>1. x \in Nat /\ y \in Nat
  BY AlignedNat
<1>2. y <= x /\ x <= y
  BY Nested
<1> QED
  BY <1>1, <1>2

\* The parity that decides on which side the buddy is.
LEMMA Parity ==
  ASSUME NEW q \in Nat
  PROVE  \/ \E h \in Nat : q = 2 * h /\ q % 2 = 0 /\ (q + 1) % 2 # 0
         \/ \E h \in Nat : q = 2 * h + 1 /\ q % 2 # 0 /\ (q - 1) % 2 = 0 /\ q - 1 \in Nat
<1>1. CASE q % 2 = 0
  <2>1. q = 2 * (q \div 2) /\ q \div 2 \in Nat /\ (q + 1) % 2 # 0
    BY <1>1
  <2> QED
    BY <1>1, <2>1
<1>2. CASE q % 2 # 0
  <2>1. q = 2 * (q \div 2) + 1 /\ q \div 2 \in Nat /\ (q - 1) % 2 = 0 /\ q - 1 \in Nat
    BY <1>2
  <2> QED
    BY <1>2, <2>1
<1> QED
  BY <1>1, <1>2

\* The buddy of an aligned block: the two are the halves of a block of the next
\* order, and each is the other's buddy.
LEMMA BuddyFacts ==
  ASSUME NEW k \in Nat, NEW a, Aligned(a, k)
  PROVE  /\ Aligned(buddy_address(a, k), k)
         /\ buddy_address(a, k) # a
         /\ buddy_address(buddy_address(a, k), k) = a
         /\ \E P : /\ Aligned(P, k + 1)
                   /\ \A p \in Nat : In(p, P, k + 1) <=>
                        (In(p, a, k) \/ In(p, buddy_address(a, k), k))
<1>1. PICK q \in Nat : a = q * 2 ^ k
  BY DEF Aligned
<1> DEFINE z == 2 ^ k
           b == buddy_address(a, k)
<1>2. z \in Nat /\ z > 0 /\ 2 ^ (k + 1) = 2 * z
  BY PowPos, Doubling
<1>3. \A m \in Nat : (m * z) \div z = m
  BY <1>2, MultipleDiv
<1>4. \A m \in Nat : buddy_address(m * z, k) =
        IF m % 2 = 0 THEN m * z + z ELSE m * z - z
  BY <1>3 DEF buddy_address, order_to_size
<1>5. CASE \E h \in Nat : q = 2 * h /\ q % 2 = 0 /\ (q + 1) % 2 # 0
  <2>1. PICK h \in Nat : q = 2 * h /\ q % 2 = 0 /\ (q + 1) % 2 # 0
    BY <1>5
  <2>2. b = a + z
    BY <1>1, <1>4, <2>1
  <2>3. b = (q + 1) * z
    BY <1>1, <1>2, <2>2
  <2>4. buddy_address(b, k) = a
    <3>0. q + 1 \in Nat
      OBVIOUS
    <3>1. buddy_address((q + 1) * z, k) = (q + 1) * z - z
      BY <1>4, <2>1, <3>0, Zenon
    <3> QED
      BY <1>1, <1>2, <2>3, <3>1
  <2>5. Aligned(b, k)
    <3>1. q + 1 \in Nat
      OBVIOUS
    <3> QED
      BY <2>3, <3>1, Zenon DEF Aligned
  <2>6. a = h * (2 * z)
    BY <1>1, <1>2, <2>1
  <2>7. Aligned(a, k + 1)
    BY <1>2, <2>6 DEF Aligned
  <2>8. \A p \in Nat : In(p, a, k + 1) <=> (In(p, a, k) \/ In(p, b, k))
    <3>1. a \in Nat
      BY <1>1, <1>2
    <3> HIDE DEF b
    <3> QED
      BY <3>1, <1>2, <2>2 DEF In
  <2>9. b # a
    <3>1. a \in Nat
      BY <1>1, <1>2
    <3> HIDE DEF b
    <3> QED
      BY <3>1, <1>2, <2>2
  <2> QED
    BY <2>4, <2>5, <2>7, <2>8, <2>9
<1>6. CASE \E h \in Nat : q = 2 * h + 1 /\ q % 2 # 0 /\ (q - 1) % 2 = 0 /\ q - 1 \in Nat
  <2>1. PICK h \in Nat : q = 2 * h + 1 /\ q % 2 # 0 /\ (q - 1) % 2 = 0 /\ q - 1 \in Nat
    BY <1>6
  <2>2. b = a - z
    BY <1>1, <1>4, <2>1
  <2>3. b = (q - 1) * z
    BY <1>1, <1>2, <2>1, <2>2
  <2>4. buddy_address(b, k) = a
    <3>1. buddy_address((q - 1) * z, k) = (q - 1) * z + z
      BY <1>4, <2>1
    <3> QED
      BY <1>1, <1>2, <2>3, <3>1
  <2>5. Aligned(b, k)
    BY <2>1, <2>3 DEF Aligned
  <2>6. b = h * (2 * z)
    BY <1>2, <2>1, <2>3
  <2>7. Aligned(b, k + 1)
    BY <1>2, <2>6 DEF Aligned
  <2>8. \A p \in Nat : In(p, b, k + 1) <=> (In(p, a, k) \/ In(p, b, k))
    <3>1. a \in Nat
      BY <1>1, <1>2
    <3> HIDE DEF b
    <3> QED
      BY <3>1, <1>2, <2>2 DEF In
  <2>9. b # a
    <3>1. a \in Nat
      BY <1>1, <1>2
    <3> HIDE DEF b
    <3> QED
      BY <3>1, <1>2, <2>2
  <2> QED
    BY <2>4, <2>5, <2>7, <2>8, <2>9
<1> QED
  BY <1>5, <1>6, Parity

\* A start of order o is one of every lower order too.
LEMMA AlignedDown ==
  ASSUME NEW o \in Nat, NEW j \in Nat, j <= o, NEW a, Aligned(a, o)
  PROVE  Aligned(a, j)
<1>1. PICK q \in Nat : a = q * 2 ^ o
  BY DEF Aligned
<1>2. PICK c \in Nat \ {0} : 2 ^ o = c * 2 ^ j
  BY PowDivides
<1>3. a = (q * c) * 2 ^ j /\ q * c \in Nat
  BY <1>1, <1>2, PowPos
<1> QED
  BY <1>3 DEF Aligned

\* What allocate splits off: the upper half at order j of a block of order above
\* j, whose buddy is the lower half.
LEMMA UpperHalf ==
  ASSUME NEW o \in Nat, NEW j \in Nat, j < o, NEW a, Aligned(a, o)
  PROVE  /\ Aligned(a + 2 ^ j, j)
         /\ buddy_address(a + 2 ^ j, j) = a
         /\ \A p \in Nat : In(p, a + 2 ^ j, j) => In(p, a, o)
<1>1. PICK q \in Nat : a = q * 2 ^ o
  BY DEF Aligned
<1>2. PICK c \in Nat \ {0} : 2 ^ o = c * (2 * 2 ^ j)
  <2>1. j <= o
    OBVIOUS
  <2> QED
    BY <2>1, PowDivides, Zenon
<1> DEFINE z == 2 ^ j
           m == q * c
<1>3. z \in Nat \ {0} /\ m \in Nat
  BY PowPos
<1>4. a = (2 * m) * z
  <2> HIDE DEF z
  <2> QED
    BY <1>1, <1>2, <1>3 DEF z
<1> HIDE DEF m
<1>5. a + z = (2 * m + 1) * z /\ 2 * m + 1 \in Nat
  <2> HIDE DEF z
  <2> QED
    BY <1>3, <1>4
<1>6. buddy_address((2 * m + 1) * z, j) = a
  <2>1. ((2 * m + 1) * z) \div z = 2 * m + 1
    BY <1>3, <1>5, MultipleDiv
  <2>2. (2 * m + 1) % 2 # 0
    BY <1>3
  <2>3. (2 * m + 1) * z - z = a
    <3> HIDE DEF z
    <3> QED
      BY <1>3, <1>4
  <2> QED
    BY <2>1, <2>2, <2>3 DEF buddy_address, order_to_size
<1>7. Aligned(a + z, j)
  BY <1>5, Zenon DEF Aligned
<1>8. 2 ^ j + 2 ^ j <= 2 ^ o /\ 2 ^ o \in Nat
  BY PowDivides, PowPos
<1>9. \A p \in Nat : In(p, a + 2 ^ j, j) => In(p, a, o)
  BY <1>3, <1>8, AlignedNat DEF In
<1> QED
  BY <1>5, <1>6, <1>7, <1>9

\* A block of order o is its part of order k and the upper halves between.
LEMMA SplitCover ==
  ASSUME NEW k \in Nat, NEW o \in Nat, k <= o, NEW a \in Nat, NEW p \in Nat
  PROVE  In(p, a, o) <=> \/ In(p, a, k)
                         \/ \E j \in k .. o - 1 : In(p, a + 2 ^ j, j)
<1>1. 2 ^ k <= 2 ^ o /\ 2 ^ k \in Nat /\ 2 ^ o \in Nat
  BY PowDivides, PowPos
<1>2. In(p, a, k) => In(p, a, o)
  BY <1>1 DEF In
<1>3. ASSUME NEW j \in k .. o - 1, In(p, a + 2 ^ j, j)
      PROVE  In(p, a, o)
  <2>1. 2 ^ j + 2 ^ j <= 2 ^ o /\ 2 ^ j \in Nat
    BY PowDivides, PowPos
  <2> QED
    BY <1>1, <1>3, <2>1 DEF In
<1>4. ASSUME In(p, a, o), ~In(p, a, k)
      PROVE  \E j \in k .. o - 1 : In(p, a + 2 ^ j, j)
  <2> DEFINE S == {j \in k .. o - 1 : a + 2 ^ j <= p}
  <2>1. a + 2 ^ k <= p /\ p < a + 2 ^ o
    BY <1>1, <1>4 DEF In
  <2>2. k < o
    BY <1>1, <2>1
  <2>3. k \in S /\ S \in SUBSET Nat /\ \A j \in S : j <= o
    BY <2>1, <2>2
  <2>4. PICK j \in S : \A i \in S : i <= j
    <3> HIDE DEF S
    <3> QED
      BY <2>3, GreatestNat
  <2>5. 2 ^ (j + 1) = 2 ^ j + 2 ^ j /\ 2 ^ j \in Nat
    BY Doubling
  <2>6. p < a + 2 ^ (j + 1)
    <3>1. CASE j + 1 = o
      BY <2>1, <3>1
    <3>2. CASE j + 1 # o
      <4>1. j + 1 \in k .. o - 1 /\ j + 1 \notin S
        BY <2>4, <3>2
      <4> QED
        BY <2>5, <4>1
    <3> QED
      BY <3>1, <3>2
  <2>7. In(p, a + 2 ^ j, j)
    BY <2>4, <2>5, <2>6 DEF In
  <2> QED
    BY <2>4, <2>7
<1> QED
  BY <1>2, <1>3, <1>4

\* Upper halves of different orders share no page, nor does the part of order k.
LEMMA SplitDisjoint ==
  ASSUME NEW k \in Nat, NEW i \in Nat, NEW j \in Nat, k <= i, NEW a \in Nat, NEW p \in Nat
  PROVE  /\ ~(In(p, a, k) /\ In(p, a + 2 ^ i, i))
         /\ i < j => ~(In(p, a + 2 ^ i, i) /\ In(p, a + 2 ^ j, j))
<1>1. 2 ^ k <= 2 ^ i /\ 2 ^ k \in Nat /\ 2 ^ i \in Nat /\ 2 ^ j \in Nat
  BY PowDivides, PowPos
<1>2. i < j => 2 ^ i + 2 ^ i <= 2 ^ j
  BY PowDivides
<1> QED
  BY <1>1, <1>2 DEF In

\* The block that deallocate has reached at order j, and that block's buddy.
MergeBuddy(a, j) == buddy_address(BlockStart(a, j), j)

\* One merge: the block at order j and its buddy are the block at order j + 1.
LEMMA MergeOne ==
  ASSUME NEW a \in Nat, NEW j \in Nat, NEW p \in Nat
  PROVE  In(p, BlockStart(a, j + 1), j + 1) <=>
           (In(p, BlockStart(a, j), j) \/ In(p, MergeBuddy(a, j), j))
<1> DEFINE s == BlockStart(a, j)
           t == BlockStart(a, j + 1)
<1>1. Aligned(s, j) /\ In(a, s, j) /\ Aligned(t, j + 1) /\ In(a, t, j + 1)
  <2>1. j + 1 \in Nat
    OBVIOUS
  <2> QED
    BY <2>1, StartOf, Zenon
<1> HIDE DEF s, t
<1>2. PICK P : /\ Aligned(P, j + 1)
               /\ \A x \in Nat : In(x, P, j + 1) <=>
                    (In(x, s, j) \/ In(x, buddy_address(s, j), j))
  BY <1>1, BuddyFacts
<1>3. P = t
  BY <1>1, <1>2, SameBlock
<1> QED
  BY <1>2, <1>3 DEF MergeBuddy, s, t

\* All merges: the block at order m is the block freed and the buddies between.
LEMMA MergeCover ==
  ASSUME NEW a \in Nat, NEW k \in Nat, NEW m \in Nat, k <= m, NEW p \in Nat
  PROVE  In(p, BlockStart(a, m), m) <=>
           \/ In(p, BlockStart(a, k), k)
           \/ \E j \in k .. m - 1 : In(p, MergeBuddy(a, j), j)
<1> DEFINE At(n) == In(p, BlockStart(a, n), n)
<1>1. \A j \in Nat : At(j + 1) <=> At(j) \/ In(p, MergeBuddy(a, j), j)
  BY MergeOne
<1> HIDE DEF At
<1>2. \A n \in Nat : At(k) => At(k + n)
  <2> DEFINE S == {n \in Nat : At(k) => At(k + n)}
  <2>1. 0 \in S
    <3>1. k + 0 = k
      OBVIOUS
    <3> QED
      BY <3>1
  <2>2. ASSUME NEW n \in Nat, n \in S PROVE n + 1 \in S
    <3>1. At((k + n) + 1) <=> At(k + n) \/ In(p, MergeBuddy(a, k + n), k + n)
      BY <1>1
    <3>2. (k + n) + 1 = k + (n + 1)
      OBVIOUS
    <3> QED
      BY <2>2, <3>1, <3>2
  <2> HIDE DEF S
  <2>3. \A n \in Nat : n \in S
    BY <2>1, <2>2, NatSet
  <2> QED
    BY <2>3 DEF S
<1>3. \A j \in Nat, n \in Nat : In(p, MergeBuddy(a, j), j) => At((j + 1) + n)
  <2> SUFFICES ASSUME NEW j \in Nat, In(p, MergeBuddy(a, j), j)
               PROVE  \A n \in Nat : At((j + 1) + n)
    OBVIOUS
  <2> DEFINE S == {n \in Nat : At((j + 1) + n)}
  <2>1. 0 \in S
    <3>1. At(j + 1) /\ (j + 1) + 0 = j + 1
      BY <1>1
    <3> QED
      BY <3>1
  <2>2. ASSUME NEW n \in Nat, n \in S PROVE n + 1 \in S
    <3>1. At(((j + 1) + n) + 1)
      BY <1>1, <2>2
    <3>2. ((j + 1) + n) + 1 = (j + 1) + (n + 1)
      OBVIOUS
    <3> QED
      BY <3>1, <3>2
  <2> HIDE DEF S
  <2>3. \A n \in Nat : n \in S
    BY <2>1, <2>2, NatSet
  <2> QED
    BY <2>3 DEF S
<1>4. At(k) => At(m)
  <2>1. m - k \in Nat /\ k + (m - k) = m
    OBVIOUS
  <2> QED
    BY <1>2, <2>1
<1>5. ASSUME NEW j \in k .. m - 1, In(p, MergeBuddy(a, j), j) PROVE At(m)
  <2>1. m - (j + 1) \in Nat /\ (j + 1) + (m - (j + 1)) = m /\ j \in Nat
    OBVIOUS
  <2> QED
    BY <1>3, <1>5, <2>1
<1>6. ASSUME At(m), ~At(k)
      PROVE  \E j \in k .. m - 1 : In(p, MergeBuddy(a, j), j)
  <2> DEFINE S == {n \in k .. m : At(n)}
  <2>1. S \in SUBSET Nat /\ m \in S /\ k \notin S
    BY <1>6
  <2>2. PICK n \in S : \A i \in S : n <= i
    <3> HIDE DEF S
    <3> QED
      BY <2>1, LeastNat
  <2>3. n # k /\ n - 1 \in k .. m - 1 /\ n - 1 \notin S /\ (n - 1) + 1 = n
    BY <2>1, <2>2
  <2>4. ~At(n - 1) /\ At((n - 1) + 1) /\ n - 1 \in Nat
    BY <2>2, <2>3
  <2>5. In(p, MergeBuddy(a, n - 1), n - 1)
    BY <1>1, <2>4
  <2> QED
    BY <2>3, <2>5
<1> QED
  BY <1>4, <1>5, <1>6 DEF At

-----------------------------------------------------------------------------
(* Tilings *)

\* The blocks of B share no page and cover the region.
Tiling(B) ==
  /\ \A b, c \in B : \A p \in Nat : In(p, b[1], b[2]) /\ In(p, c[1], c[2]) => b = c
  /\ \A p \in Pages : \E b \in B : In(p, b[1], b[2])

\* Some blocks of a tiling may be replaced by others with the same pages.
LEMMA Replace ==
  ASSUME NEW B, Tiling(B), NEW R \in SUBSET B, NEW N,
         \A b, c \in N : \A p \in Nat : In(p, b[1], b[2]) /\ In(p, c[1], c[2]) => b = c,
         \A p \in Nat : (\E b \in R : In(p, b[1], b[2])) <=> (\E b \in N : In(p, b[1], b[2])),
         Pages \subseteq Nat
  PROVE  Tiling((B \ R) \cup N)
<1> DEFINE C == (B \ R) \cup N
<1>1. ASSUME NEW b \in N, NEW c \in B \ R, NEW p \in Nat,
             In(p, b[1], b[2]), In(p, c[1], c[2])
      PROVE  FALSE
  <2>1. PICK d \in R : In(p, d[1], d[2])
    BY <1>1
  <2> QED
    BY <1>1, <2>1, Zenon DEF Tiling
<1>2. \A b, c \in C : \A p \in Nat : In(p, b[1], b[2]) /\ In(p, c[1], c[2]) => b = c
  BY <1>1, Zenon DEF Tiling
<1>3. ASSUME NEW p \in Pages
      PROVE  \E b \in C : In(p, b[1], b[2])
  <2>1. PICK b \in B : In(p, b[1], b[2])
    BY <1>3, Zenon DEF Tiling
  <2>2. p \in Nat
    OBVIOUS
  <2> QED
    BY <2>1, <2>2, Zenon
<1> QED
  BY <1>2, <1>3, Zenon DEF Tiling

-----------------------------------------------------------------------------
(* Free lists *)

NoRepeat(s) == \A i, j \in DOMAIN s : s[i] = s[j] => i = j

\* Taking the head off a list without repetitions takes one block away.
LEMMA TailFacts ==
  ASSUME NEW S, NEW s \in Seq(S), s # <<>>, NoRepeat(s)
  PROVE  /\ Head(s) \in ToSet(s) /\ Head(s) \in S
         /\ Tail(s) \in Seq(S) /\ NoRepeat(Tail(s))
         /\ ToSet(Tail(s)) = ToSet(s) \ {Head(s)}
<1>1. /\ DOMAIN s = 1 .. Len(s) /\ Len(s) \in Nat /\ Len(s) # 0
      /\ Tail(s) \in Seq(S) /\ Len(Tail(s)) = Len(s) - 1
      /\ DOMAIN Tail(s) = 1 .. Len(s) - 1
      /\ \A i \in 1 .. Len(s) - 1 : Tail(s)[i] = s[i + 1]
  OBVIOUS
<1>2. Head(s) = s[1] /\ 1 \in DOMAIN s /\ s[1] \in S
  BY <1>1
<1>3. NoRepeat(Tail(s))
  <2>1. ASSUME NEW i \in 1 .. Len(s) - 1, NEW j \in 1 .. Len(s) - 1,
               Tail(s)[i] = Tail(s)[j]
        PROVE  i = j
    <3>1. s[i + 1] = s[j + 1] /\ i + 1 \in DOMAIN s /\ j + 1 \in DOMAIN s
      BY <1>1, <2>1
    <3>2. i + 1 = j + 1
      BY <3>1, Zenon DEF NoRepeat
    <3> QED
      BY <3>2
  <2> QED
    BY <1>1, <2>1, Zenon DEF NoRepeat
<1>4. ToSet(Tail(s)) \subseteq ToSet(s) \ {Head(s)}
  <2>1. ASSUME NEW i \in 1 .. Len(s) - 1
        PROVE  Tail(s)[i] \in ToSet(s) /\ Tail(s)[i] # Head(s)
    <3>1. i + 1 \in DOMAIN s /\ i + 1 # 1
      BY <1>1
    <3>2. Tail(s)[i] = s[i + 1]
      BY <1>1
    <3> QED
      BY <1>2, <3>1, <3>2, Zenon DEF ToSet, NoRepeat
  <2> QED
    BY <1>1, <2>1, Zenon DEF ToSet
<1>5. ASSUME NEW i \in DOMAIN s, s[i] # Head(s)
      PROVE  s[i] \in ToSet(Tail(s))
  <2>1. i - 1 \in 1 .. Len(s) - 1 /\ (i - 1) + 1 = i
    BY <1>1, <1>2, <1>5
  <2>2. Tail(s)[i - 1] = s[i]
    BY <1>1, <2>1
  <2> QED
    BY <1>1, <2>1, <2>2, Zenon DEF ToSet
<1>6. ToSet(s) \ {Head(s)} \subseteq ToSet(Tail(s))
  BY <1>5, Zenon DEF ToSet
<1> QED
  BY <1>1, <1>2, <1>3, <1>4, <1>6, Zenon DEF ToSet

\* Pushing a block that is not on the list.
LEMMA PushFacts ==
  ASSUME NEW S, NEW s \in Seq(S), NoRepeat(s), NEW x \in S, x \notin ToSet(s)
  PROVE  /\ <<x>> \o s \in Seq(S) /\ NoRepeat(<<x>> \o s)
         /\ ToSet(<<x>> \o s) = ToSet(s) \cup {x}
<1> DEFINE t == <<x>> \o s
<1>1. /\ t \in Seq(S) /\ Len(t) = Len(s) + 1 /\ Len(s) \in Nat
      /\ DOMAIN t = 1 .. Len(s) + 1 /\ DOMAIN s = 1 .. Len(s)
      /\ t[1] = x
      /\ \A j \in 2 .. Len(s) + 1 : t[j] = s[j - 1]
  OBVIOUS
<1> HIDE DEF t
<1>2. \A i \in DOMAIN s : s[i] # x
  BY Zenon DEF ToSet
<1>3. ASSUME NEW i \in DOMAIN t, NEW j \in DOMAIN t, t[i] = t[j]
      PROVE  i = j
  <2>1. CASE i = 1 /\ j # 1
    <3>1. j \in 2 .. Len(s) + 1 /\ j - 1 \in DOMAIN s
      BY <1>1, <2>1
    <3> QED
      BY <1>1, <1>2, <1>3, <2>1, <3>1
  <2>2. CASE i # 1 /\ j = 1
    <3>1. i \in 2 .. Len(s) + 1 /\ i - 1 \in DOMAIN s
      BY <1>1, <2>2
    <3> QED
      BY <1>1, <1>2, <1>3, <2>2, <3>1
  <2>3. CASE i # 1 /\ j # 1
    <3>1. /\ i \in 2 .. Len(s) + 1 /\ i - 1 \in DOMAIN s
          /\ j \in 2 .. Len(s) + 1 /\ j - 1 \in DOMAIN s
      BY <1>1, <2>3
    <3>2. s[i - 1] = s[j - 1]
      BY <1>1, <1>3, <3>1
    <3>3. i - 1 = j - 1
      BY <3>1, <3>2, Zenon DEF NoRepeat
    <3> QED
      BY <3>1, <3>3
  <2> QED
    BY <2>1, <2>2, <2>3
<1>4. ToSet(t) \subseteq ToSet(s) \cup {x}
  <2>1. ASSUME NEW i \in DOMAIN t PROVE t[i] \in ToSet(s) \cup {x}
    <3>1. CASE i = 1
      BY <1>1, <3>1
    <3>2. CASE i # 1
      <4>1. i \in 2 .. Len(s) + 1 /\ i - 1 \in DOMAIN s
        BY <1>1, <3>2
      <4>2. t[i] = s[i - 1]
        BY <1>1, <4>1
      <4> QED
        BY <4>1, <4>2, Zenon DEF ToSet
    <3> QED
      BY <3>1, <3>2
  <2> QED
    BY <2>1, Zenon DEF ToSet
<1>5. ToSet(s) \cup {x} \subseteq ToSet(t)
  <2>1. x \in ToSet(t)
    <3>1. 1 \in DOMAIN t /\ t[1] = x
      BY <1>1
    <3> QED
      BY <3>1, Zenon DEF ToSet
  <2>2. ASSUME NEW i \in DOMAIN s PROVE s[i] \in ToSet(t)
    <3>1. i + 1 \in DOMAIN t /\ t[i + 1] = s[i]
      BY <1>1
    <3> QED
      BY <3>1, Zenon DEF ToSet
  <2> QED
    BY <2>1, <2>2, Zenon DEF ToSet
<1>6. NoRepeat(t) /\ ToSet(t) = ToSet(s) \cup {x} /\ t \in Seq(S)
  BY <1>1, <1>3, <1>4, <1>5, Zenon DEF NoRepeat
<1> QED
  BY <1>6 DEF t

\* What follows the element at n.
LEMMA SubSeqAfter ==
  ASSUME NEW S, NEW s \in Seq(S), NEW n \in 1 .. Len(s)
  PROVE  /\ SubSeq(s, n + 1, Len(s)) \in Seq(S)
         /\ Len(SubSeq(s, n + 1, Len(s))) = Len(s) - n
         /\ \A i \in 1 .. Len(s) - n : SubSeq(s, n + 1, Len(s))[i] = s[n + i]
<1> DEFINE m == n + 1
<1>1. m \in Nat /\ m = n + 1
  OBVIOUS
<1> HIDE DEF m
<1>2. SubSeq(s, m, Len(s)) \in Seq(S)
  BY <1>1
<1>3. Len(SubSeq(s, m, Len(s))) = Len(s) - n
  BY <1>1
<1>4. \A i \in 1 .. Len(s) - n : SubSeq(s, m, Len(s))[i] = s[n + i]
  BY <1>1
<1> QED
  BY <1>2, <1>3, <1>4 DEF m

\* Unlinking a block that is on the list.
LEMMA UnlinkIs ==
  ASSUME NEW S, NEW s \in Seq(S), NoRepeat(s), NEW x \in ToSet(s)
  PROVE  /\ Unlink(s, x) \in Seq(S) /\ NoRepeat(Unlink(s, x))
         /\ ToSet(Unlink(s, x)) = ToSet(s) \ {x}
         /\ \E n \in 1 .. Len(s) :
              /\ s[n] = x /\ DOMAIN Unlink(s, x) = 1 .. Len(s) - 1
              /\ \A i \in 1 .. Len(s) - 1 :
                   Unlink(s, x)[i] = IF i < n THEN s[i] ELSE s[i + 1]
<1> DEFINE n == CHOOSE i \in DOMAIN s : s[i] = x
           t == Unlink(s, x)
<1>1. n \in DOMAIN s /\ s[n] = x
  BY Zenon DEF ToSet
<1>2. t = SubSeq(s, 1, n - 1) \o SubSeq(s, n + 1, Len(s))
  BY DEF Unlink, RemoveAt
<1> HIDE DEF n, t
<1>3. /\ Len(s) \in Nat /\ DOMAIN s = 1 .. Len(s) /\ n \in 1 .. Len(s)
      /\ \A i \in 1 .. Len(s) : s[i] \in S
  BY <1>1
<1> DEFINE u == SubSeq(s, 1, n - 1)
           v == SubSeq(s, n + 1, Len(s))
<1>4. u \in Seq(S) /\ Len(u) = n - 1 /\ \A i \in 1 .. n - 1 : u[i] = s[i]
  BY <1>3, SMTT(60)
<1>5. v \in Seq(S) /\ Len(v) = Len(s) - n /\ \A i \in 1 .. Len(s) - n : v[i] = s[n + i]
  BY <1>3, SubSeqAfter
<1>12. t = u \o v
  BY <1>2
<1> HIDE DEF u, v
<1>6. /\ t \in Seq(S) /\ Len(t) = Len(s) - 1 /\ DOMAIN t = 1 .. Len(s) - 1
      /\ \A i \in 1 .. n - 1 : t[i] = u[i]
      /\ \A i \in n .. Len(s) - 1 : t[i] = v[i - (n - 1)]
  <2>1. /\ t \in Seq(S) /\ Len(t) = Len(u) + Len(v)
        /\ \A i \in 1 .. Len(u) + Len(v) : t[i] = IF i <= Len(u) THEN u[i] ELSE v[i - Len(u)]
    BY <1>4, <1>5, <1>12, ConcatProperties, ZenonT(60)
  <2>2. Len(t) = Len(s) - 1 /\ DOMAIN t = 1 .. Len(t)
    BY <1>3, <1>4, <1>5, <2>1, SMTT(60)
  <2> QED
    BY <1>3, <1>4, <1>5, <2>1, <2>2, SMTT(60)
<1>7. ASSUME NEW i \in 1 .. Len(s) - 1 PROVE t[i] = IF i < n THEN s[i] ELSE s[i + 1]
  <2>1. CASE i < n
    <3>1. i \in 1 .. n - 1
      BY <1>3, <2>1
    <3> QED
      BY <1>4, <1>6, <2>1, <3>1
  <2>2. CASE ~(i < n)
    <3>1. i \in n .. Len(s) - 1 /\ i - (n - 1) \in 1 .. Len(s) - n /\ n + (i - (n - 1)) = i + 1
      BY <1>3, <2>2
    <3>2. t[i] = v[i - (n - 1)]
      BY <1>6, <3>1
    <3>3. v[i - (n - 1)] = s[n + (i - (n - 1))]
      BY <1>5, <3>1
    <3> QED
      BY <2>2, <3>1, <3>2, <3>3
  <2> QED
    BY <2>1, <2>2
<1>8. ASSUME NEW i \in DOMAIN t, NEW j \in DOMAIN t, t[i] = t[j]
      PROVE  i = j
  <2> DEFINE i1 == IF i < n THEN i ELSE i + 1
             j1 == IF j < n THEN j ELSE j + 1
  <2>1. i1 \in DOMAIN s /\ j1 \in DOMAIN s /\ (i1 = j1 => i = j)
    BY <1>3, <1>6, SMTT(60)
  <2>2. s[i1] = s[j1]
    BY <1>6, <1>7, <1>8
  <2>3. i1 = j1
    BY <2>1, <2>2, Zenon DEF NoRepeat
  <2> QED
    BY <2>1, <2>3
<1>9. ToSet(t) \subseteq ToSet(s) \ {x}
  <2>1. ASSUME NEW i \in DOMAIN t PROVE t[i] \in ToSet(s) /\ t[i] # x
    <3> DEFINE i1 == IF i < n THEN i ELSE i + 1
    <3>1. i1 \in DOMAIN s /\ i1 # n /\ t[i] = s[i1]
      BY <1>3, <1>6, <1>7
    <3> HIDE DEF i1
    <3> QED
      BY <1>1, <3>1, Zenon DEF ToSet, NoRepeat
  <2> QED
    BY <2>1, Zenon DEF ToSet
<1>10. ToSet(s) \ {x} \subseteq ToSet(t)
  <2>1. ASSUME NEW i \in DOMAIN s, s[i] # x PROVE s[i] \in ToSet(t)
    <3> DEFINE i1 == IF i < n THEN i ELSE i - 1
    <3>1. i # n
      BY <1>1, <2>1
    <3>2. i1 \in DOMAIN t /\ t[i1] = s[i]
      BY <1>3, <1>6, <1>7, <3>1
    <3> HIDE DEF i1
    <3> QED
      BY <3>2, Zenon DEF ToSet
  <2> QED
    BY <2>1, Zenon DEF ToSet
<1>11. NoRepeat(t) /\ ToSet(t) = ToSet(s) \ {x} /\ t \in Seq(S)
  BY <1>6, <1>8, <1>9, <1>10, Zenon DEF NoRepeat
<1>13. \E m \in 1 .. Len(s) :
         /\ s[m] = x /\ DOMAIN t = 1 .. Len(s) - 1
         /\ \A i \in 1 .. Len(s) - 1 : t[i] = IF i < m THEN s[i] ELSE s[i + 1]
  BY <1>1, <1>3, <1>6, <1>7, Zenon
<1> QED
  BY <1>11, <1>13, Zenon DEF t

\* The same without the positions.
LEMMA UnlinkFacts ==
  ASSUME NEW S, NEW s \in Seq(S), NoRepeat(s), NEW x \in ToSet(s)
  PROVE  /\ Unlink(s, x) \in Seq(S) /\ NoRepeat(Unlink(s, x))
         /\ ToSet(Unlink(s, x)) = ToSet(s) \ {x}
  BY UnlinkIs

\* remove_node_from_free_list, which unlinks a block by its own pointers, does to
\* the sequence what deallocate of module Buddy does: it removes that block.
LEMMA RemoveNodeUnlinks ==
  ASSUME FreeListInv, NEW n \in Nodes, remove_node_from_free_list(n)
  PROVE  list' = Unlink(list, n)
<1>1. list \in Seq(Nodes) /\ NoRepeat(list)
  BY DEF FreeListInv, FreeListTypeOK, Linked, NoRepeat
<1>2. PICK k \in DOMAIN list : list[k] = n /\ list' = WithoutIndex(list, k)
  BY DEF remove_node_from_free_list
<1>3. n \in ToSet(list) /\ Len(list) \in Nat /\ DOMAIN list = 1 .. Len(list)
  BY <1>1, <1>2 DEF ToSet
<1> DEFINE t == Unlink(list, n)
           q == Len(list) - 1
<1>4. t \in Seq(Nodes)
  BY <1>1, <1>3, UnlinkIs
<1>5. PICK m \in 1 .. Len(list) :
        /\ list[m] = n /\ DOMAIN t = 1 .. q
        /\ \A i \in 1 .. q : t[i] = IF i < m THEN list[i] ELSE list[i + 1]
  BY <1>1, <1>3, UnlinkIs, SMTT(60)
<1>6. m = k
  BY <1>1, <1>2, <1>3, <1>5, Zenon DEF NoRepeat
<1> HIDE DEF t
<1>7. t = [i \in 1 .. q |-> t[i]]
  BY <1>4, <1>5
<1>8. [i \in 1 .. q |-> t[i]] = [i \in 1 .. q |-> IF i < k THEN list[i] ELSE list[i + 1]]
  BY <1>5, <1>6
<1> QED
  BY <1>2, <1>7, <1>8 DEF WithoutIndex, t

-----------------------------------------------------------------------------
(* Orders *)

\* The least element of a set of naturals.
LEMMA MinNat ==
  ASSUME NEW S \in SUBSET Nat, S # {}
  PROVE  Min(S) \in S /\ \A x \in S : Min(S) <= x
  BY LeastNat, Zenon DEF Min

\* The greatest element of a bounded set of naturals.
LEMMA MaxNat ==
  ASSUME NEW S \in SUBSET Nat, S # {}, NEW n \in Nat, \A x \in S : x <= n
  PROVE  Max(S) \in S /\ \A x \in S : x <= Max(S)
<1>1. PICK m \in S : \A x \in S : x <= m
  BY GreatestNat
<1>2. m \in S /\ \A x \in S : m >= x
  BY <1>1
<1>3. Max(S) \in S /\ \A x \in S : Max(S) >= x
  BY <1>2, Zenon DEF Max
<1> QED
  BY <1>3

\* Every size has an order whose blocks hold it.
LEMMA SizeToOrder ==
  ASSUME NEW size \in Nat
  PROVE  size_to_order(size) \in Nat /\ 2 ^ size_to_order(size) >= size
<1> DEFINE S == {k \in 0 .. size : order_to_size(k) >= size}
<1>1. size \in S
  <2>1. 2 ^ size > size /\ 2 ^ size \in Nat
    BY PowBig, PowPos
  <2> QED
    BY <2>1 DEF order_to_size
<1>2. Min(S) \in S
  <2>1. S \in SUBSET Nat
    OBVIOUS
  <2> HIDE DEF S
  <2> QED
    BY <1>1, <2>1, MinNat
<1> QED
  BY <1>2 DEF size_to_order, order_to_size

\* Orders and pages are naturals.
LEMMA OrdersNat ==
  /\ MAX_ORDER \in Nat \ {0} /\ RegionPages \in Nat /\ Requests \subseteq Nat \ {0}
  /\ Orders \subseteq Nat /\ Pages \subseteq Nat
  /\ \A k : k \in Orders <=> k \in Nat /\ k < MAX_ORDER
  /\ \A p : p \in Pages <=> p \in Nat /\ p < RegionPages
<1>1. MAX_ORDER \in Nat \ {0} /\ RegionPages \in Nat /\ Requests \subseteq Nat \ {0}
  BY BuddyAssumption
<1>2. Orders \subseteq Nat /\ Pages \subseteq Nat
  BY <1>1 DEF Orders, Pages
<1>3. \A k : k \in Orders <=> k \in Nat /\ k < MAX_ORDER
  BY <1>1 DEF Orders
<1>4. \A p : p \in Pages <=> p \in Nat /\ p < RegionPages
  BY <1>1 DEF Pages
<1> QED
  BY <1>1, <1>2, <1>3, <1>4

-----------------------------------------------------------------------------
(* The invariant *)

BuddyTypeOK ==
  /\ free_lists \in [Orders -> Seq(Pages)]
  /\ free_bitmaps \in [Orders -> SUBSET Nat]
  /\ live \subseteq [addr : Pages, size : Requests]
  /\ \A b \in live : size_to_order(b.size) \in Orders

Blocks == FreeBlocks \cup UsedBlocks

\* Every block is at a multiple of its size and ends in the region.
BlocksAligned ==
  \A b \in Blocks : Aligned(b[1], b[2]) /\ b[1] + 2 ^ b[2] <= RegionPages

\* No block is in use twice, nor in use and free.
UsedOnce ==
  /\ FreeBlocks \cap UsedBlocks = {}
  /\ \A u, v \in live : u.addr = v.addr => u = v

\* Bit q of order k stands for the block at q * 2 ^ k; lists have no repetitions.
BitsAgree ==
  \A k \in Orders :
    /\ \A q \in Nat : q \in free_bitmaps[k] <=> <<q * 2 ^ k, k>> \in FreeBlocks
    /\ NoRepeat(free_lists[k])

\* Buddies are never both free, below the highest order.
Merged ==
  \A k \in Orders : k + 1 \in Orders =>
    \A a \in Nat : ~(<<a, k>> \in FreeBlocks /\ <<buddy_address(a, k), k>> \in FreeBlocks)

BuddyInv ==
  /\ BuddyTypeOK
  /\ BlocksAligned
  /\ Tiling(Blocks)
  /\ UsedOnce
  /\ BitsAgree
  /\ Merged

\* A block is free when it is on the list of its order.
LEMMA FreeBlocksAre ==
  /\ \A a, k : <<a, k>> \in FreeBlocks <=> k \in Orders /\ a \in ToSet(free_lists[k])
  /\ \A b \in FreeBlocks : b = <<b[1], b[2]>> /\ b[2] \in Orders
<1>1. ASSUME NEW b \in FreeBlocks
      PROVE  \E k \in Orders : \E i \in DOMAIN free_lists[k] : b = <<free_lists[k][i], k>>
  BY Zenon DEF FreeBlocks
<1>2. ASSUME NEW a, NEW k, <<a, k>> \in FreeBlocks
      PROVE  k \in Orders /\ a \in ToSet(free_lists[k])
  <2>1. PICK l \in Orders : \E i \in DOMAIN free_lists[l] : <<a, k>> = <<free_lists[l][i], l>>
    BY <1>1, <1>2, Zenon
  <2>2. PICK i \in DOMAIN free_lists[l] : <<a, k>> = <<free_lists[l][i], l>>
    BY <2>1, Zenon
  <2>3. k = l /\ a = free_lists[l][i]
    BY <2>2
  <2> QED
    BY <2>3, Zenon DEF ToSet
<1>3. ASSUME NEW k \in Orders, NEW a \in ToSet(free_lists[k])
      PROVE  <<a, k>> \in FreeBlocks
  <2>1. PICK i \in DOMAIN free_lists[k] : a = free_lists[k][i]
    BY Zenon DEF ToSet
  <2>2. <<a, k>> \in {<<free_lists[k][j], k>> : j \in DOMAIN free_lists[k]}
    BY <2>1, Zenon
  <2> QED
    BY <2>2, Zenon DEF FreeBlocks
<1>4. ASSUME NEW b \in FreeBlocks
      PROVE  b = <<b[1], b[2]>> /\ b[2] \in Orders
  <2>1. PICK k \in Orders : \E i \in DOMAIN free_lists[k] : b = <<free_lists[k][i], k>>
    BY <1>1
  <2> QED
    BY <2>1
<1> QED
  BY <1>2, <1>3, <1>4, Zenon

\* A block is in use when a caller was handed it.
LEMMA UsedBlocksAre ==
  ASSUME BuddyTypeOK
  PROVE  /\ \A a, k : <<a, k>> \in UsedBlocks <=>
                \E u \in live : a = u.addr /\ k = size_to_order(u.size)
         /\ \A b \in UsedBlocks : b = <<b[1], b[2]>> /\ b[2] \in Orders
<1>1. \A a, k : <<a, k>> \in UsedBlocks <=>
        \E u \in live : a = u.addr /\ k = size_to_order(u.size)
  BY DEF UsedBlocks
<1>2. ASSUME NEW b \in UsedBlocks
      PROVE  b = <<b[1], b[2]>> /\ b[2] \in Orders
  <2>1. PICK u \in live : b = <<u.addr, size_to_order(u.size)>>
    BY Zenon DEF UsedBlocks
  <2> QED
    BY <2>1 DEF BuddyTypeOK
<1> QED
  BY <1>1, <1>2

\* What the invariant says of one block.
LEMMA BlockFacts ==
  ASSUME BuddyInv, NEW b \in Blocks
  PROVE  /\ b = <<b[1], b[2]>> /\ b[2] \in Orders /\ b[2] \in Nat
         /\ Aligned(b[1], b[2]) /\ b[1] \in Nat
         /\ In(b[1], b[1], b[2])
         /\ 2 ^ b[2] \in Nat /\ 2 ^ b[2] > 0
         /\ b[1] + 2 ^ b[2] <= RegionPages
<1>1. b = <<b[1], b[2]>> /\ b[2] \in Orders
  BY FreeBlocksAre, UsedBlocksAre DEF Blocks, BuddyInv
<1>2. b[2] \in Nat
  BY <1>1, OrdersNat
<1>3. Aligned(b[1], b[2]) /\ b[1] + 2 ^ b[2] <= RegionPages
  BY DEF BuddyInv, BlocksAligned
<1> QED
  BY <1>1, <1>2, <1>3, AlignedNat, PowPos

\* A page of a block, as Span has it.
LEMMA SpanIn ==
  ASSUME NEW a \in Nat, NEW k \in Nat
  PROVE  /\ \A p : p \in Span(a, k) <=> p \in Nat /\ In(p, a, k)
         /\ a + 2 ^ k <= RegionPages => Span(a, k) \subseteq Pages
<1>1. 2 ^ k \in Nat /\ 2 ^ k > 0 /\ RegionPages \in Nat
  BY PowPos, OrdersNat
<1>2. \A p : p \in Span(a, k) <=> p \in Nat /\ In(p, a, k)
  BY <1>1 DEF Span, In, order_to_size
<1>3. ASSUME a + 2 ^ k <= RegionPages, NEW p \in Span(a, k) PROVE p \in Pages
  <2>1. p \in Nat /\ p < RegionPages
    BY <1>1, <1>2, <1>3 DEF In
  <2> QED
    BY <2>1, OrdersNat
<1> QED
  BY <1>2, <1>3

\* The invariant implies that the blocks tile the region.
LEMMA InvTiled == BuddyInv => Tiled
<1> SUFFICES ASSUME BuddyInv PROVE Tiled
  OBVIOUS
<1>1. \A b \in Blocks : b[1] \in Nat /\ b[2] \in Nat /\ b[1] + 2 ^ b[2] <= RegionPages
  BY BlockFacts
<1>2. \A b \in Blocks : /\ \A p : p \in Span(b[1], b[2]) <=> p \in Nat /\ In(p, b[1], b[2])
                        /\ Span(b[1], b[2]) \subseteq Pages
  BY <1>1, SpanIn
<1>3. Tiling(Blocks) /\ UsedOnce
  BY DEF BuddyInv
<1>4. Pages \subseteq Nat
  BY OrdersNat
<1>5. \A p \in Pages : \E b \in Blocks : p \in Span(b[1], b[2])
  BY <1>2, <1>3, <1>4, Zenon DEF Tiling
<1>6. ASSUME NEW b \in Blocks, NEW c \in Blocks, b # c
      PROVE  Span(b[1], b[2]) \cap Span(c[1], c[2]) = {}
  BY <1>2, <1>3, <1>6, Zenon DEF Tiling
<1> QED
  BY <1>2, <1>3, <1>5, <1>6 DEF Tiled, UsedOnce, Blocks

\* And that the bitmaps agree with the lists.
LEMMA InvBitmap == BuddyInv => BitmapMatchesLists
<1> SUFFICES ASSUME BuddyInv, NEW k \in Orders
             PROVE  /\ \A a \in Pages : BlockStart(a, k) = a =>
                         (is_free(a, k) <=> \E i \in DOMAIN free_lists[k] : free_lists[k][i] = a)
                    /\ \A i, j \in DOMAIN free_lists[k] :
                         free_lists[k][i] = free_lists[k][j] => i = j
  BY DEF BitmapMatchesLists
<1>1. /\ \A q \in Nat : q \in free_bitmaps[k] <=> <<q * 2 ^ k, k>> \in FreeBlocks
      /\ NoRepeat(free_lists[k])
  BY DEF BuddyInv, BitsAgree
<1>2. ASSUME NEW a \in Pages, BlockStart(a, k) = a
      PROVE  is_free(a, k) <=> \E i \in DOMAIN free_lists[k] : free_lists[k][i] = a
  <2>1. a \in Nat /\ k \in Nat
    BY OrdersNat
  <2>2. addr_to_bit_index(a, k) \in Nat /\ a = addr_to_bit_index(a, k) * 2 ^ k
    BY <1>2, <2>1, StartOf
  <2>3. is_free(a, k) <=> <<a, k>> \in FreeBlocks
    BY <1>1, <2>2 DEF is_free
  <2>4. <<a, k>> \in FreeBlocks <=> a \in ToSet(free_lists[k])
    BY FreeBlocksAre, Zenon
  <2> QED
    BY <2>3, <2>4, Zenon DEF ToSet
<1> QED
  BY <1>1, <1>2, Zenon DEF NoRepeat

\* And that what is free and aligned is not in pieces: the smallest free block in
\* such a run would have a free buddy.
LEMMA InvNoFalse == BuddyInv => NoFalseOutOfMemory
<1> SUFFICES ASSUME BuddyInv, NEW k \in Orders, NEW a \in Pages, BlockStart(a, k) = a,
                    Span(a, k) \subseteq Pages,
                    \A p \in Span(a, k) : \E b \in FreeBlocks : p \in Span(b[1], b[2]),
                    FoundOrders(k) = {}
             PROVE  FALSE
  BY DEF NoFalseOutOfMemory
<1>1. a \in Nat /\ k \in Nat /\ k < MAX_ORDER /\ MAX_ORDER \in Nat
  BY OrdersNat
<1>2. Aligned(a, k) /\ In(a, a, k)
  BY <1>1, StartOf
<1>3. \A b \in FreeBlocks : b \in Blocks
  BY DEF Blocks
<1>4. \A b \in FreeBlocks : b[2] < k
  <2>1. ASSUME NEW b \in FreeBlocks, ~(b[2] < k) PROVE FALSE
    <3>1. b = <<b[1], b[2]>> /\ b[2] \in Orders /\ b[2] \in Nat
      BY <1>3, BlockFacts
    <3>2. b[1] \in ToSet(free_lists[b[2]])
      BY <3>1, FreeBlocksAre
    <3>3. free_lists[b[2]] # <<>>
      BY <3>2 DEF ToSet
    <3>4. b[2] \in FoundOrders(k)
      BY <1>1, <2>1, <3>1, <3>3 DEF FoundOrders
    <3> QED
      BY <3>4
  <2> QED
    BY <2>1
<1>5. \A p \in Nat : In(p, a, k) => \E b \in FreeBlocks : In(p, b[1], b[2])
  <2>1. ASSUME NEW p \in Nat, In(p, a, k)
        PROVE  \E b \in FreeBlocks : In(p, b[1], b[2])
    <3>1. p \in Span(a, k)
      BY <1>1, <2>1, SpanIn
    <3>2. PICK b \in FreeBlocks : p \in Span(b[1], b[2])
      BY <3>1
    <3>3. b[1] \in Nat /\ b[2] \in Nat
      BY <1>3, BlockFacts
    <3> QED
      BY <3>2, <3>3, SpanIn
  <2> QED
    BY <2>1
<1> DEFINE S == {j \in Nat : \E b \in FreeBlocks : \E p \in Nat :
                    b[2] = j /\ In(p, b[1], j) /\ In(p, a, k)}
<1>6. PICK j \in S : \A i \in S : j <= i
  <2>1. PICK b \in FreeBlocks : In(a, b[1], b[2])
    BY <1>1, <1>2, <1>5
  <2>2. b[2] \in Nat
    BY <1>3, BlockFacts
  <2>3. b[2] \in S
    BY <1>1, <1>2, <2>1, <2>2
  <2>4. S \in SUBSET Nat
    OBVIOUS
  <2> HIDE DEF S
  <2> QED
    BY <2>3, <2>4, LeastNat
<1>7. PICK b \in FreeBlocks, p \in Nat : b[2] = j /\ In(p, b[1], j) /\ In(p, a, k)
  BY <1>6
<1>8. /\ b = <<b[1], j>> /\ j \in Orders /\ j \in Nat /\ Aligned(b[1], j) /\ b[1] \in Nat
      /\ j < k /\ In(b[1], b[1], j)
  BY <1>3, <1>4, <1>7, BlockFacts
<1> DEFINE x == b[1]
           y == buddy_address(x, j)
<1>9. PICK P : /\ Aligned(P, j + 1)
               /\ \A n \in Nat : In(n, P, j + 1) <=> (In(n, x, j) \/ In(n, y, j))
  BY <1>8, BuddyFacts
<1>10. Aligned(y, j) /\ y \in Nat /\ In(y, y, j) /\ y # x
  <2>1. Aligned(y, j) /\ y # x
    BY <1>8, BuddyFacts
  <2> HIDE DEF y
  <2> QED
    BY <1>8, <2>1, AlignedNat
<1> HIDE DEF x, y, S
<1>11. \A n \in Nat : In(n, P, j + 1) => In(n, a, k)
  <2>1. j + 1 \in Nat /\ j + 1 <= k /\ In(p, P, j + 1)
    BY <1>1, <1>7, <1>8, <1>9 DEF x
  <2>2. a <= P /\ P + 2 ^ (j + 1) <= a + 2 ^ k
    BY <1>1, <1>2, <1>7, <1>9, <2>1, Nested
  <2>3. P \in Nat /\ 2 ^ (j + 1) \in Nat /\ 2 ^ k \in Nat
    BY <1>1, <1>9, <2>1, AlignedNat, PowPos
  <2> QED
    BY <1>1, <2>2, <2>3 DEF In
<1>12. In(y, a, k) /\ In(x, P, j + 1) /\ In(y, P, j + 1)
  BY <1>8, <1>9, <1>10, <1>11 DEF x
<1>13. PICK d \in FreeBlocks : In(y, d[1], d[2])
  BY <1>5, <1>10, <1>12
<1>14. /\ d = <<d[1], d[2]>> /\ d[2] \in Nat /\ Aligned(d[1], d[2]) /\ d[1] \in Nat
       /\ 2 ^ d[2] \in Nat
  BY <1>3, BlockFacts
<1>15. d[2] \in S
  BY <1>10, <1>12, <1>13, <1>14 DEF S
<1>16. j <= d[2]
  BY <1>6, <1>15
<1>17. CASE d[2] = j
  <2>1. d[1] = y
    BY <1>8, <1>10, <1>13, <1>14, <1>17, SameBlock
  <2>2. <<y, j>> \in FreeBlocks /\ <<x, j>> \in FreeBlocks
    BY <1>8, <1>14, <1>17, <2>1 DEF x
  <2>3. j + 1 \in Orders
    BY <1>1, <1>8, OrdersNat
  <2> QED
    BY <1>8, <2>2, <2>3 DEF BuddyInv, Merged, x, y
<1>18. CASE d[2] # j
  <2>1. j + 1 \in Nat /\ j + 1 <= d[2]
    BY <1>8, <1>14, <1>16, <1>18
  <2>2. d[1] <= P /\ P + 2 ^ (j + 1) <= d[1] + 2 ^ d[2]
    BY <1>9, <1>10, <1>12, <1>13, <1>14, <2>1, Nested
  <2>3. In(x, d[1], d[2])
    <3>1. P \in Nat /\ 2 ^ (j + 1) \in Nat /\ x \in Nat
      BY <1>8, <1>9, <2>1, AlignedNat, PowPos DEF x
    <3> QED
      BY <1>12, <1>14, <2>2, <3>1 DEF In
  <2>4. b = d
    BY <1>3, <1>7, <1>8, <2>3, Zenon DEF BuddyInv, Tiling, x
  <2> QED
    BY <1>7, <1>18, <2>4
<1> QED
  BY <1>17, <1>18

-----------------------------------------------------------------------------
(* allocate *)

\* The index of an aligned block determines it.
LEMMA BitIs ==
  ASSUME NEW k \in Nat, NEW a, Aligned(a, k), NEW q \in Nat
  PROVE  addr_to_bit_index(a, k) = q <=> q * 2 ^ k = a
<1>1. PICK r \in Nat : a = r * 2 ^ k
  BY DEF Aligned
<1>2. addr_to_bit_index(r * 2 ^ k, k) = r /\ addr_to_bit_index(q * 2 ^ k, k) = q
  BY BitOf
<1> QED
  BY <1>1, <1>2

\* The blocks after a step, as FreeBlocksAre says of the blocks before it.
LEMMA FreeBlocksAfter ==
  /\ \A a, k : <<a, k>> \in FreeBlocks' <=> k \in Orders /\ a \in ToSet(free_lists'[k])
  /\ \A b \in FreeBlocks' : b = <<b[1], b[2]>> /\ b[2] \in Orders
<1>1. (/\ \A a, k : <<a, k>> \in FreeBlocks <=> k \in Orders /\ a \in ToSet(free_lists[k])
       /\ \A b \in FreeBlocks : b = <<b[1], b[2]>> /\ b[2] \in Orders)'
  BY FreeBlocksAre, PTL
<1> QED
  BY <1>1

\* The block that allocate takes, at the least order that has one.
LEMMA Found ==
  ASSUME BuddyInv, NEW size \in Requests, NEW a, BuddyAllocate(size, a)
  PROVE  LET k == size_to_order(size)
             o == Min(FoundOrders(k))
         IN  /\ k \in Nat /\ k \in Orders /\ o \in Orders /\ o \in Nat /\ k <= o
             /\ free_lists[o] # <<>> /\ a = Head(free_lists[o])
             /\ <<a, o>> \in FreeBlocks /\ a \in Nat /\ Aligned(a, o)
             /\ a + 2 ^ o <= RegionPages /\ 2 ^ o \in Nat
             /\ Split(a, k, o)
<1> DEFINE k == size_to_order(size)
           o == Min(FoundOrders(k))
<1>1. k \in Nat /\ FoundOrders(k) # {} /\ a = Head(free_lists[o]) /\ Split(a, k, o)
  BY SizeToOrder, OrdersNat DEF BuddyAllocate
<1> HIDE DEF k
<1>2. FoundOrders(k) \in SUBSET Nat
  BY OrdersNat DEF FoundOrders
<1>3. o \in FoundOrders(k)
  BY <1>1, <1>2, MinNat
<1> HIDE DEF o
<1>4. o \in Orders /\ o >= k /\ free_lists[o] # <<>> /\ o \in Nat
  BY <1>3, OrdersNat DEF FoundOrders
<1>5. k \in Orders
  BY <1>1, <1>4, OrdersNat
<1>6. free_lists[o] \in Seq(Pages) /\ NoRepeat(free_lists[o])
  BY <1>4 DEF BuddyInv, BuddyTypeOK, BitsAgree
<1>7. a \in ToSet(free_lists[o])
  BY <1>1, <1>4, <1>6, TailFacts
<1>8. <<a, o>> \in FreeBlocks
  BY <1>4, <1>7, FreeBlocksAre
<1>9. a \in Nat /\ Aligned(a, o) /\ a + 2 ^ o <= RegionPages /\ 2 ^ o \in Nat
  <2>1. <<a, o>> \in Blocks /\ <<a, o>>[1] = a /\ <<a, o>>[2] = o
    BY <1>8 DEF Blocks
  <2> QED
    BY <2>1, BlockFacts
<1> QED
  BY <1>1, <1>4, <1>5, <1>8, <1>9 DEF k, o

\* The lists and bitmaps after a split.
LEMMA SplitLists ==
  ASSUME BuddyInv, NEW k \in Orders, NEW o \in Orders, k <= o,
         free_lists[o] # <<>>, NEW a, a = Head(free_lists[o]), <<a, o>> \in FreeBlocks,
         Aligned(a, o), a + 2 ^ o <= RegionPages,
         Split(a, k, o)
  PROVE  /\ free_lists' \in [Orders -> Seq(Pages)]
         /\ free_bitmaps' \in [Orders -> SUBSET Nat]
         /\ \A j \in Orders : NoRepeat(free_lists'[j])
         /\ \A x, j : <<x, j>> \in FreeBlocks' <=>
               \/ <<x, j>> \in FreeBlocks /\ <<x, j>> # <<a, o>>
               \/ j \in k .. o - 1 /\ x = a + 2 ^ j
         /\ \A j \in Orders : \A q \in Nat :
               q \in free_bitmaps'[j] <=> <<q * 2 ^ j, j>> \in FreeBlocks'
<1>1. /\ k \in Nat /\ o \in Nat /\ a \in Nat /\ RegionPages \in Nat
      /\ \A j \in k .. o - 1 : j \in Orders /\ j \in Nat /\ j < o
  BY OrdersNat, AlignedNat, SMTT(60)
<1>2. \A j \in Orders : /\ free_lists[j] \in Seq(Pages) /\ NoRepeat(free_lists[j])
                        /\ free_bitmaps[j] \in SUBSET Nat
  BY DEF BuddyInv, BuddyTypeOK, BitsAgree
<1>3. ASSUME NEW j \in k .. o - 1
      PROVE  /\ Aligned(a + 2 ^ j, j) /\ a + 2 ^ j \in Nat /\ a + 2 ^ j \in Pages
             /\ a + 2 ^ j \notin ToSet(free_lists[j])
             /\ In(a + 2 ^ j, a, o)
  <2>1. Aligned(a + 2 ^ j, j) /\ \A p \in Nat : In(p, a + 2 ^ j, j) => In(p, a, o)
    BY <1>1, UpperHalf
  <2>2. a + 2 ^ j \in Nat /\ In(a + 2 ^ j, a + 2 ^ j, j)
    BY <1>1, <2>1, AlignedNat
  <2>3. In(a + 2 ^ j, a, o)
    BY <2>1, <2>2
  <2>4. a + 2 ^ j \in Pages
    <3>1. a + 2 ^ j < RegionPages
      BY <1>1, <2>2, <2>3, PowPos, SMTT(60) DEF In
    <3> QED
      BY <2>2, <3>1, OrdersNat
  <2>5. ASSUME a + 2 ^ j \in ToSet(free_lists[j]) PROVE FALSE
    <3>1. <<a + 2 ^ j, j>> \in Blocks /\ <<a, o>> \in Blocks
      BY <1>1, <2>5, FreeBlocksAre DEF Blocks
    <3>2. <<a + 2 ^ j, j>> = <<a, o>>
      BY <2>2, <2>3, <3>1 DEF BuddyInv, Tiling
    <3> QED
      BY <1>1, <3>2
  <2> QED
    BY <2>1, <2>2, <2>3, <2>4, <2>5
<1>4. ASSUME NEW j \in Orders
      PROVE  /\ free_lists'[j] \in Seq(Pages) /\ NoRepeat(free_lists'[j])
             /\ ToSet(free_lists'[j]) =
                  IF j = o THEN ToSet(free_lists[j]) \ {a}
                  ELSE IF j \in k .. o - 1 THEN ToSet(free_lists[j]) \cup {a + 2 ^ j}
                  ELSE ToSet(free_lists[j])
  <2>1. CASE j = o
    <3>1. free_lists'[j] = Tail(free_lists[j])
      BY <2>1 DEF Split
    <3> QED
      BY <1>2, <2>1, <3>1, TailFacts
  <2>2. CASE j # o /\ j \in k .. o - 1
    <3>1. free_lists'[j] = <<a + 2 ^ j>> \o free_lists[j]
      BY <2>2 DEF Split, order_to_size
    <3>2. /\ <<a + 2 ^ j>> \o free_lists[j] \in Seq(Pages)
          /\ NoRepeat(<<a + 2 ^ j>> \o free_lists[j])
          /\ ToSet(<<a + 2 ^ j>> \o free_lists[j]) = ToSet(free_lists[j]) \cup {a + 2 ^ j}
      <4> DEFINE s == free_lists[j]
                 x == a + 2 ^ j
      <4>1. s \in Seq(Pages) /\ NoRepeat(s) /\ x \in Pages /\ x \notin ToSet(s)
        BY <1>2, <1>3, <2>2
      <4> HIDE DEF s, x
      <4>2. /\ <<x>> \o s \in Seq(Pages) /\ NoRepeat(<<x>> \o s)
            /\ ToSet(<<x>> \o s) = ToSet(s) \cup {x}
        BY <4>1, PushFacts, ZenonT(60)
      <4> QED
        BY <4>2 DEF s, x
    <3> QED
      BY <2>2, <3>1, <3>2, Zenon
  <2>3. CASE j # o /\ j \notin k .. o - 1
    <3>1. free_lists'[j] = free_lists[j]
      BY <2>3 DEF Split
    <3> QED
      BY <1>2, <2>3, <3>1
  <2> QED
    BY <2>1, <2>2, <2>3
<1>5. free_lists' \in [Orders -> Seq(Pages)]
  <2>1. free_lists' = [j \in Orders |-> free_lists'[j]]
    BY DEF Split
  <2> QED
    BY <1>4, <2>1
<1>6. \A j \in Orders : free_bitmaps'[j] =
        IF j = o THEN free_bitmaps[j] \ {addr_to_bit_index(a, j)}
        ELSE IF j \in k .. o - 1
        THEN free_bitmaps[j] \cup {addr_to_bit_index(a + 2 ^ j, j)}
        ELSE free_bitmaps[j]
  BY DEF Split, order_to_size
<1>7. free_bitmaps' \in [Orders -> SUBSET Nat]
  <2>1. \A j \in Orders : free_bitmaps'[j] \in SUBSET Nat
    <3>1. \A j \in k .. o - 1 : addr_to_bit_index(a + 2 ^ j, j) \in Nat
      BY <1>1, <1>3, StartOf
    <3> QED
      BY <1>2, <1>6, <3>1, ZenonT(60)
  <2>2. free_bitmaps' = [j \in Orders |-> free_bitmaps'[j]]
    BY DEF Split
  <2> QED
    BY <2>1, <2>2
<1>8. ASSUME NEW x, NEW j
      PROVE  <<x, j>> \in FreeBlocks' <=>
               \/ <<x, j>> \in FreeBlocks /\ <<x, j>> # <<a, o>>
               \/ j \in k .. o - 1 /\ x = a + 2 ^ j
  <2>1. <<x, j>> \in FreeBlocks' <=> j \in Orders /\ x \in ToSet(free_lists'[j])
    BY FreeBlocksAfter, Zenon
  <2>2. <<x, j>> \in FreeBlocks <=> j \in Orders /\ x \in ToSet(free_lists[j])
    BY FreeBlocksAre, Zenon
  <2>3. <<x, j>> = <<a, o>> <=> x = a /\ j = o
    OBVIOUS
  <2>4. j \in k .. o - 1 => j \in Orders /\ j # o
    BY <1>1
  <2> QED
    BY <1>4, <2>1, <2>2, <2>3, <2>4
<1>9. ASSUME NEW j \in Orders, NEW q \in Nat
      PROVE  q \in free_bitmaps'[j] <=> <<q * 2 ^ j, j>> \in FreeBlocks'
  <2>1. q \in free_bitmaps[j] <=> <<q * 2 ^ j, j>> \in FreeBlocks
    BY DEF BuddyInv, BitsAgree
  <2>2. j = o => (addr_to_bit_index(a, j) = q <=> q * 2 ^ j = a)
    BY <1>1, BitIs
  <2>3. j \in k .. o - 1 => (addr_to_bit_index(a + 2 ^ j, j) = q <=> q * 2 ^ j = a + 2 ^ j)
    BY <1>1, <1>3, BitIs
  <2>4. <<q * 2 ^ j, j>> = <<a, o>> <=> q * 2 ^ j = a /\ j = o
    OBVIOUS
  <2>5. j \in k .. o - 1 => j # o
    BY <1>1
  <2>6. <<q * 2 ^ j, j>> \in FreeBlocks' <=>
          \/ <<q * 2 ^ j, j>> \in FreeBlocks /\ ~(q * 2 ^ j = a /\ j = o)
          \/ j \in k .. o - 1 /\ q * 2 ^ j = a + 2 ^ j
    BY <1>8, <2>4, Zenon
  <2> QED
    BY <1>6, <2>1, <2>2, <2>3, <2>5, <2>6, Zenon
<1> QED
  BY <1>4, <1>5, <1>7, <1>8, <1>9

\* The block handed out and the halves put back make up the block taken.
LEMMA HandOutBlocks ==
  ASSUME BuddyInv, NEW k \in Orders, NEW o \in Orders, k <= o, NEW a,
         <<a, o>> \in FreeBlocks, Aligned(a, o), a + 2 ^ o <= RegionPages,
         \A x, j : <<x, j>> \in FreeBlocks' <=>
           \/ <<x, j>> \in FreeBlocks /\ <<x, j>> # <<a, o>>
           \/ j \in k .. o - 1 /\ x = a + 2 ^ j,
         UsedBlocks' = UsedBlocks \cup {<<a, k>>}
  PROVE  BlocksAligned' /\ Tiling(Blocks)' /\ FreeBlocks' \cap UsedBlocks' = {} /\ Merged'
<1> DEFINE N == {<<a, k>>} \cup {<<a + 2 ^ j, j>> : j \in k .. o - 1}
           R == {<<a, o>>}
<1>1. /\ k \in Nat /\ o \in Nat /\ a \in Nat /\ RegionPages \in Nat /\ Pages \subseteq Nat
      /\ \A j \in k .. o - 1 : j \in Orders /\ j \in Nat /\ j < o
  BY OrdersNat, AlignedNat
<1>2. <<a, o>> \in Blocks /\ <<a, o>> \notin UsedBlocks /\ In(a, a, o)
  BY <1>1, AlignedNat DEF BuddyInv, UsedOnce, Blocks
<1>3. FreeBlocks' = (FreeBlocks \ R) \cup {<<a + 2 ^ j, j>> : j \in k .. o - 1}
  <2> DEFINE H == {<<a + 2 ^ j, j>> : j \in k .. o - 1}
  <2>1. ASSUME NEW b \in FreeBlocks' PROVE b \in (FreeBlocks \ R) \cup H
    <3>1. b = <<b[1], b[2]>>
      BY FreeBlocksAfter
    <3>2. \/ <<b[1], b[2]>> \in FreeBlocks /\ <<b[1], b[2]>> # <<a, o>>
          \/ b[2] \in k .. o - 1 /\ b[1] = a + 2 ^ b[2]
      BY <3>1
    <3> QED
      BY <3>1, <3>2
  <2>2. ASSUME NEW b \in FreeBlocks \ R PROVE b \in FreeBlocks'
    <3>1. b = <<b[1], b[2]>>
      BY FreeBlocksAre
    <3>2. <<b[1], b[2]>> \in FreeBlocks /\ <<b[1], b[2]>> # <<a, o>>
      BY <3>1
    <3>3. <<b[1], b[2]>> \in FreeBlocks'
      BY <3>2
    <3> QED
      BY <3>1, <3>3
  <2>3. ASSUME NEW j \in k .. o - 1 PROVE <<a + 2 ^ j, j>> \in FreeBlocks'
    OBVIOUS
  <2> QED
    BY <2>1, <2>2, <2>3, Zenon
<1>4. Blocks' = (Blocks \ R) \cup N
  <2> DEFINE H == {<<a + 2 ^ j, j>> : j \in k .. o - 1}
  <2>1. N = H \cup {<<a, k>>} /\ FreeBlocks' = (FreeBlocks \ R) \cup H
    BY <1>3, Zenon
  <2>2. UsedBlocks \ R = UsedBlocks
    BY <1>2, Zenon
  <2> HIDE DEF N, H, R
  <2>3. Blocks' = FreeBlocks' \cup UsedBlocks'
    BY DEF Blocks
  <2> QED
    BY <2>1, <2>2, <2>3 DEF Blocks
<1>5. \A b \in N : \/ b = <<a, k>> /\ b[1] = a /\ b[2] = k
                   \/ \E j \in k .. o - 1 : b = <<a + 2 ^ j, j>> /\ b[1] = a + 2 ^ j /\ b[2] = j
  OBVIOUS
<1>6. ASSUME NEW p \in Nat
      PROVE  (\E b \in R : In(p, b[1], b[2])) <=> (\E b \in N : In(p, b[1], b[2]))
  <2>1. (\E b \in R : In(p, b[1], b[2])) <=> In(p, a, o)
    <3>1. <<a, o>>[1] = a /\ <<a, o>>[2] = o
      OBVIOUS
    <3> QED
      BY <3>1, Zenon
  <2>2. In(p, a, o) <=> In(p, a, k) \/ \E j \in k .. o - 1 : In(p, a + 2 ^ j, j)
    BY <1>1, SplitCover
  <2>3. ASSUME In(p, a, k) PROVE \E b \in N : In(p, b[1], b[2])
    <3>1. <<a, k>>[1] = a /\ <<a, k>>[2] = k /\ <<a, k>> \in N
      OBVIOUS
    <3> QED
      BY <2>3, <3>1, Zenon
  <2>4. ASSUME NEW j \in k .. o - 1, In(p, a + 2 ^ j, j) PROVE \E b \in N : In(p, b[1], b[2])
    <3> DEFINE c == <<a + 2 ^ j, j>>
    <3>1. c[1] = a + 2 ^ j /\ c[2] = j /\ c \in N
      OBVIOUS
    <3> HIDE DEF c
    <3> QED
      BY <2>4, <3>1, Zenon
  <2>5. ASSUME NEW b \in N, In(p, b[1], b[2])
        PROVE  In(p, a, k) \/ \E j \in k .. o - 1 : In(p, a + 2 ^ j, j)
    BY <1>5, <2>5, ZenonT(60)
  <2> QED
    BY <2>1, <2>2, <2>3, <2>4, <2>5, Zenon
<1>7. ASSUME NEW b \in N, NEW c \in N, NEW p \in Nat, In(p, b[1], b[2]), In(p, c[1], c[2])
      PROVE  b = c
  <2>1. \A j \in k .. o - 1 : ~(In(p, a, k) /\ In(p, a + 2 ^ j, j))
    BY <1>1, SplitDisjoint
  <2>2. ASSUME NEW i \in k .. o - 1, NEW j \in k .. o - 1,
               In(p, a + 2 ^ i, i), In(p, a + 2 ^ j, j)
        PROVE  i = j
    <3>1. i \in Nat /\ j \in Nat /\ k <= i /\ k <= j
      BY <1>1
    <3>2. ~(i < j) /\ ~(j < i)
      BY <1>1, <2>2, <3>1, SplitDisjoint
    <3> QED
      BY <3>1, <3>2
  <2>3. CASE b = <<a, k>> /\ b[1] = a /\ b[2] = k
    BY <1>5, <1>7, <2>1, <2>3, Zenon
  <2>4. CASE \E j \in k .. o - 1 : b = <<a + 2 ^ j, j>> /\ b[1] = a + 2 ^ j /\ b[2] = j
    <3>1. PICK j \in k .. o - 1 : b = <<a + 2 ^ j, j>> /\ b[1] = a + 2 ^ j /\ b[2] = j
      BY <2>4
    <3>2. In(p, a + 2 ^ j, j)
      BY <1>7, <3>1
    <3>3. PICK i \in k .. o - 1 : c = <<a + 2 ^ i, i>> /\ c[1] = a + 2 ^ i /\ c[2] = i
      BY <1>5, <1>7, <2>1, <3>2, ZenonT(60)
    <3>4. In(p, a + 2 ^ i, i)
      BY <1>7, <3>3
    <3>5. i = j
      BY <2>2, <3>2, <3>4
    <3> QED
      BY <3>1, <3>3, <3>5
  <2> QED
    BY <1>5, <2>3, <2>4
<1>8. Tiling(Blocks')
  <2>1. R \in SUBSET Blocks /\ Tiling(Blocks)
    BY <1>2 DEF BuddyInv
  <2> HIDE DEF R, N
  <2>2. Tiling((Blocks \ R) \cup N)
    BY <1>1, <1>6, <1>7, <2>1, Replace
  <2> QED
    BY <1>4, <2>2
<1>9. ASSUME NEW b \in N
      PROVE  Aligned(b[1], b[2]) /\ b[1] + 2 ^ b[2] <= RegionPages
  <2>1. CASE b = <<a, k>> /\ b[1] = a /\ b[2] = k
    <3>1. Aligned(a, k) /\ 2 ^ k <= 2 ^ o /\ 2 ^ k \in Nat /\ 2 ^ o \in Nat
      BY <1>1, AlignedDown, PowDivides, PowPos
    <3>2. a + 2 ^ k <= RegionPages
      BY <1>1, <3>1
    <3> QED
      BY <2>1, <3>1, <3>2
  <2>2. CASE \E j \in k .. o - 1 : b = <<a + 2 ^ j, j>> /\ b[1] = a + 2 ^ j /\ b[2] = j
    <3>1. PICK j \in k .. o - 1 : b[1] = a + 2 ^ j /\ b[2] = j
      BY <2>2
    <3>2. Aligned(a + 2 ^ j, j)
      BY <1>1, UpperHalf
    <3>3. 2 ^ j + 2 ^ j <= 2 ^ o /\ 2 ^ j \in Nat /\ 2 ^ o \in Nat
      BY <1>1, PowDivides, PowPos
    <3>4. (a + 2 ^ j) + 2 ^ j <= RegionPages
      BY <1>1, <3>3
    <3> QED
      BY <3>1, <3>2, <3>4
  <2> QED
    BY <1>5, <2>1, <2>2
<1>10. \A b \in Blocks' : Aligned(b[1], b[2]) /\ b[1] + 2 ^ b[2] <= RegionPages
  <2> HIDE DEF R, N
  <2> QED
    BY <1>4, <1>9, Zenon DEF BuddyInv, BlocksAligned
<1>11. ASSUME NEW j \in k .. o - 1 PROVE <<a + 2 ^ j, j>> \notin Blocks
  <2>1. a + 2 ^ j \in Nat /\ In(a + 2 ^ j, a + 2 ^ j, j) /\ In(a + 2 ^ j, a, o)
    BY <1>1, UpperHalf, AlignedNat
  <2>2. <<a + 2 ^ j, j>> \in Blocks => <<a + 2 ^ j, j>> = <<a, o>>
    BY <1>2, <2>1 DEF BuddyInv, Tiling
  <2>3. j # o
    BY <1>1
  <2> QED
    BY <2>2, <2>3
<1>12. \A j \in Orders : j # o => <<a, j>> \notin Blocks
  <2>1. ASSUME NEW j \in Orders, j # o, <<a, j>> \in Blocks PROVE FALSE
    <3>1. <<a, j>>[1] = a /\ <<a, j>>[2] = j /\ <<a, o>>[1] = a /\ <<a, o>>[2] = o
      OBVIOUS
    <3>2. In(a, a, j)
      BY <2>1, <3>1, BlockFacts
    <3>3. <<a, j>> = <<a, o>>
      BY <1>1, <1>2, <2>1, <3>1, <3>2, Zenon DEF BuddyInv, Tiling
    <3> QED
      BY <2>1, <3>3
  <2> QED
    BY <2>1
<1>13. FreeBlocks' \cap UsedBlocks' = {}
  <2>1. ASSUME NEW b \in FreeBlocks', b \in UsedBlocks' PROVE FALSE
    <3>1. CASE b \in FreeBlocks \ R /\ b \in UsedBlocks
      BY <3>1 DEF BuddyInv, UsedOnce
    <3>2. CASE b \in FreeBlocks \ R /\ b = <<a, k>>
      <4>1. k = o
        BY <1>12, <3>2 DEF Blocks
      <4> QED
        BY <3>2, <4>1
    <3>3. CASE b \in {<<a + 2 ^ j, j>> : j \in k .. o - 1} /\ b \in UsedBlocks
      BY <1>11, <3>3, ZenonT(60) DEF Blocks
    <3>4. CASE b \in {<<a + 2 ^ j, j>> : j \in k .. o - 1} /\ b = <<a, k>>
      <4>1. PICK j \in k .. o - 1 : <<a + 2 ^ j, j>> = <<a, k>>
        BY <3>4
      <4>2. 2 ^ j \in Nat /\ 2 ^ j > 0
        BY <1>1, PowPos
      <4> QED
        BY <1>1, <4>1, <4>2
    <3> QED
      BY <1>3, <2>1, <3>1, <3>2, <3>3, <3>4, Zenon
  <2> QED
    BY <2>1
<1>14. ASSUME NEW j \in Orders, j + 1 \in Orders, NEW x \in Nat,
              <<x, j>> \in FreeBlocks', <<buddy_address(x, j), j>> \in FreeBlocks'
       PROVE  FALSE
  <2> DEFINE y == buddy_address(x, j)
  <2>1. Aligned(x, j)
    <3>1. <<x, j>> \in Blocks' /\ <<x, j>>[1] = x /\ <<x, j>>[2] = j
      BY <1>14 DEF Blocks
    <3> QED
      BY <1>10, <3>1
  <2>2. buddy_address(y, j) = x
    BY <2>1, BuddyFacts, OrdersNat
  <2>3. ASSUME j \in k .. o - 1 PROVE <<a, j>> \notin FreeBlocks'
    <3>1. j # o /\ 2 ^ j \in Nat /\ 2 ^ j > 0 /\ a # a + 2 ^ j
      BY <1>1, <2>3, PowPos
    <3>2. <<a, j>> \notin FreeBlocks
      BY <1>12, <3>1 DEF Blocks
    <3> QED
      BY <3>1, <3>2, Zenon
  <2>4. ASSUME j \in k .. o - 1, x = a + 2 ^ j PROVE FALSE
    <3>1. y = a
      BY <1>1, <2>4, UpperHalf
    <3> QED
      BY <1>14, <2>3, <2>4, <3>1
  <2>5. ASSUME j \in k .. o - 1, y = a + 2 ^ j PROVE FALSE
    <3>1. buddy_address(a + 2 ^ j, j) = a
      BY <1>1, <2>5, UpperHalf
    <3>2. x = a
      BY <2>2, <2>5, <3>1
    <3> QED
      BY <1>14, <2>3, <2>5, <3>2
  <2>6. <<x, j>> \in FreeBlocks /\ <<y, j>> \in FreeBlocks
    BY <1>14, <2>4, <2>5, Zenon
  <2> QED
    BY <1>14, <2>6 DEF BuddyInv, Merged
<1>15. Merged'
  BY <1>14 DEF Merged
<1> QED
  BY <1>8, <1>10, <1>13, <1>15 DEF BlocksAligned, Tiling, Blocks

\* allocate preserves the invariant.
LEMMA HandOutInv ==
  ASSUME BuddyInv, NEW size \in Requests, NEW a \in Pages, HandOut(size, a)
  PROVE  BuddyInv' /\ \A u \in live : u.addr # a
<1> DEFINE k == size_to_order(size)
           o == Min(FoundOrders(k))
<1>1. /\ k \in Orders /\ o \in Orders /\ k <= o /\ o \in Nat
      /\ free_lists[o] # <<>> /\ a = Head(free_lists[o])
      /\ <<a, o>> \in FreeBlocks /\ a \in Nat /\ Aligned(a, o)
      /\ a + 2 ^ o <= RegionPages /\ Split(a, k, o)
  BY Found, Zenon DEF HandOut
<1>2. k = size_to_order(size)
  OBVIOUS
<1> HIDE DEF k, o
<1>3. /\ free_lists' \in [Orders -> Seq(Pages)]
      /\ free_bitmaps' \in [Orders -> SUBSET Nat]
      /\ \A j \in Orders : NoRepeat(free_lists'[j])
      /\ \A x, j : <<x, j>> \in FreeBlocks' <=>
           \/ <<x, j>> \in FreeBlocks /\ <<x, j>> # <<a, o>>
           \/ j \in k .. o - 1 /\ x = a + 2 ^ j
      /\ \A j \in Orders : \A q \in Nat :
           q \in free_bitmaps'[j] <=> <<q * 2 ^ j, j>> \in FreeBlocks'
  BY <1>1, SplitLists, SMTT(60)
<1>4. live' = live \cup {[addr |-> a, size |-> size]}
  BY DEF HandOut
<1>5. UsedBlocks' = UsedBlocks \cup {<<a, k>>}
  <2> DEFINE r == [addr |-> a, size |-> size]
             f(b) == <<b.addr, size_to_order(b.size)>>
  <2>1. f(r) = <<a, k>>
    BY <1>2
  <2>2. UsedBlocks' = {f(b) : b \in live'} /\ UsedBlocks = {f(b) : b \in live}
    BY DEF UsedBlocks
  <2> HIDE DEF r, f
  <2>3. live' = live \cup {r}
    BY <1>4 DEF r
  <2> QED
    BY <2>1, <2>2, <2>3, Zenon
<1>6. BlocksAligned' /\ Tiling(Blocks)' /\ FreeBlocks' \cap UsedBlocks' = {} /\ Merged'
  BY <1>1, <1>3, <1>5, HandOutBlocks
<1>7. \A u \in live : u.addr # a
  <2>1. ASSUME NEW u \in live, u.addr = a PROVE FALSE
    <3> DEFINE b == <<u.addr, size_to_order(u.size)>>
    <3>1. b \in UsedBlocks /\ b[1] = a
      BY <2>1 DEF UsedBlocks
    <3>2. b \in Blocks /\ <<a, o>> \in Blocks /\ <<a, o>>[1] = a /\ <<a, o>>[2] = o
      BY <1>1, <3>1 DEF Blocks
    <3> HIDE DEF b
    <3>3. In(a, b[1], b[2]) /\ In(a, a, o)
      BY <1>1, <3>1, <3>2, BlockFacts, AlignedNat
    <3>4. b = <<a, o>>
      BY <1>1, <3>2, <3>3, Zenon DEF BuddyInv, Tiling
    <3> QED
      BY <1>1, <3>1, <3>4 DEF BuddyInv, UsedOnce
  <2> QED
    BY <2>1
<1>8. \A u, v \in live' : u.addr = v.addr => u = v
  BY <1>4, <1>7 DEF BuddyInv, UsedOnce
<1>9. BuddyTypeOK'
  <2>1. live' \subseteq [addr : Pages, size : Requests]
    BY <1>4 DEF BuddyInv, BuddyTypeOK
  <2>2. \A b \in live' : size_to_order(b.size) \in Orders
    BY <1>1, <1>2, <1>4 DEF BuddyInv, BuddyTypeOK
  <2> QED
    BY <1>3, <2>1, <2>2 DEF BuddyTypeOK
<1>10. UsedOnce'
  BY <1>6, <1>8 DEF UsedOnce
<1>11. BitsAgree'
  BY <1>3 DEF BitsAgree
<1> QED
  BY <1>6, <1>7, <1>9, <1>10, <1>11 DEF BuddyInv

-----------------------------------------------------------------------------
(* deallocate *)

\* The loop goes on exactly while the buddy is on its list.
LEMMA MergeableIs ==
  ASSUME BuddyInv, NEW a \in Nat, NEW j \in Orders
  PROVE  Mergeable(a, j) <=> <<MergeBuddy(a, j), j>> \in FreeBlocks
<1> DEFINE b == MergeBuddy(a, j)
<1>1. j \in Nat
  BY OrdersNat
<1>2. Aligned(b, j)
  BY <1>1, StartOf, BuddyFacts DEF MergeBuddy
<1>3. Mergeable(a, j) <=> b \in Pages /\ addr_to_bit_index(b, j) \in free_bitmaps[j]
  BY DEF Mergeable, is_free, MergeBuddy
<1> HIDE DEF b
<1>4. b \in Nat /\ addr_to_bit_index(b, j) \in Nat /\ b = addr_to_bit_index(b, j) * 2 ^ j
  <2>1. b \in Nat
    BY <1>1, <1>2, AlignedNat
  <2> QED
    BY <1>1, <1>2, <2>1, StartOf
<1>5. addr_to_bit_index(b, j) \in free_bitmaps[j] <=> <<b, j>> \in FreeBlocks
  BY <1>4 DEF BuddyInv, BitsAgree
<1>6. <<b, j>> \in FreeBlocks => b \in Pages
  <2>1. ASSUME <<b, j>> \in FreeBlocks PROVE b \in Pages
    <3>1. b \in ToSet(free_lists[j])
      BY <2>1, FreeBlocksAre
    <3>2. free_lists[j] \in Seq(Pages)
      BY DEF BuddyInv, BuddyTypeOK
    <3> QED
      BY <3>1, <3>2 DEF ToSet
  <2> QED
    BY <2>1
<1> QED
  BY <1>3, <1>5, <1>6 DEF b

\* Where deallocate's loop stops.
LEMMA MergedOrderIs ==
  ASSUME BuddyInv, NEW a \in Nat, NEW k \in Orders
  PROVE  /\ MergedOrder(a, k) \in Orders /\ k <= MergedOrder(a, k)
         /\ \A j \in k .. MergedOrder(a, k) - 1 : <<MergeBuddy(a, j), j>> \in FreeBlocks
         /\ MergedOrder(a, k) + 1 \in Orders =>
              <<MergeBuddy(a, MergedOrder(a, k)), MergedOrder(a, k)>> \notin FreeBlocks
<1> DEFINE S == {m \in k .. MAX_ORDER - 1 : \A j \in k .. m - 1 : Mergeable(a, j)}
           m == MergedOrder(a, k)
<1>1. k \in Nat /\ MAX_ORDER \in Nat /\ k < MAX_ORDER
  BY OrdersNat
<1>2. S \in SUBSET Nat /\ k \in S /\ \A x \in S : x <= MAX_ORDER
  BY <1>1
<1>3. m = Max(S)
  BY DEF MergedOrder
<1>4. m \in S /\ \A x \in S : x <= m
  <2> HIDE DEF S
  <2> QED
    BY <1>1, <1>2, <1>3, MaxNat
<1> HIDE DEF m
<1>5. m \in Orders /\ k <= m /\ m \in Nat
  BY <1>1, <1>4, OrdersNat
<1>6. \A j \in k .. m - 1 : j \in Orders
  BY <1>1, <1>5, OrdersNat
<1>7. \A j \in k .. m - 1 : <<MergeBuddy(a, j), j>> \in FreeBlocks
  BY <1>4, <1>6, MergeableIs
<1>8. ASSUME m + 1 \in Orders, <<MergeBuddy(a, m), m>> \in FreeBlocks PROVE FALSE
  <2>1. Mergeable(a, m)
    BY <1>5, <1>8, MergeableIs
  <2>2. m + 1 \in k .. MAX_ORDER - 1
    BY <1>1, <1>5, <1>8, OrdersNat
  <2>3. \A j \in k .. (m + 1) - 1 : j = m \/ j \in k .. m - 1
    BY <1>1, <1>5
  <2>4. m + 1 \in S
    BY <1>4, <2>1, <2>2, <2>3
  <2> QED
    BY <1>4, <1>5, <2>4
<1> QED
  BY <1>5, <1>7, <1>8 DEF m

\* The lists and bitmaps after the merges.
LEMMA MergeLists ==
  ASSUME BuddyInv, NEW b \in live, BuddyDeallocate(b.addr, b.size),
         NEW a, a = b.addr, NEW k, k = size_to_order(b.size),
         NEW m, m = MergedOrder(a, k), NEW s, s = BlockStart(a, m)
  PROVE  /\ free_lists' \in [Orders -> Seq(Pages)]
         /\ free_bitmaps' \in [Orders -> SUBSET Nat]
         /\ \A j \in Orders : NoRepeat(free_lists'[j])
         /\ \A x, j : <<x, j>> \in FreeBlocks' <=>
               \/ <<x, j>> \in FreeBlocks /\ ~(j \in k .. m - 1 /\ x = MergeBuddy(a, j))
               \/ j = m /\ x = s
         /\ \A j \in Orders : \A q \in Nat :
               q \in free_bitmaps'[j] <=> <<q * 2 ^ j, j>> \in FreeBlocks'
<1>1. a \in Pages /\ a \in Nat /\ k \in Orders /\ k \in Nat
  BY OrdersNat DEF BuddyInv, BuddyTypeOK
<1>2. /\ m \in Orders /\ m \in Nat /\ k <= m
      /\ \A j \in k .. m - 1 : <<MergeBuddy(a, j), j>> \in FreeBlocks
  BY <1>1, MergedOrderIs, OrdersNat
<1>3. \A j \in k .. m - 1 : j \in Orders /\ j \in Nat /\ j < m
  BY <1>1, <1>2, OrdersNat
<1>4. \A j \in Orders : /\ free_lists[j] \in Seq(Pages) /\ NoRepeat(free_lists[j])
                        /\ free_bitmaps[j] \in SUBSET Nat
  BY DEF BuddyInv, BuddyTypeOK, BitsAgree
<1>5. /\ s \in Nat /\ Aligned(s, m) /\ In(a, s, m)
      /\ addr_to_bit_index(a, m) \in Nat /\ s = addr_to_bit_index(a, m) * 2 ^ m
  BY <1>1, <1>2, StartOf
<1>6. s \in Pages
  <2>1. s <= a /\ a < RegionPages
    BY <1>1, <1>5, OrdersNat DEF In
  <2>2. RegionPages \in Nat /\ s < RegionPages
    BY <1>1, <1>5, <2>1, OrdersNat
  <2> QED
    BY <1>5, <2>2, OrdersNat
<1>7. <<a, k>> \in UsedBlocks /\ <<a, k>> \notin FreeBlocks
  BY DEF UsedBlocks, BuddyInv, UsedOnce
<1>8. s \notin ToSet(free_lists[m])
  <2>1. ASSUME <<s, m>> \in FreeBlocks PROVE FALSE
    <3>1. /\ <<s, m>> \in Blocks /\ <<a, k>> \in Blocks
          /\ <<s, m>>[1] = s /\ <<s, m>>[2] = m /\ <<a, k>>[1] = a /\ <<a, k>>[2] = k
      BY <1>7, <2>1 DEF Blocks
    <3>2. In(a, a, k)
      BY <3>1, BlockFacts
    <3>3. <<s, m>> = <<a, k>>
      BY <1>1, <1>5, <3>1, <3>2, Zenon DEF BuddyInv, Tiling
    <3> QED
      BY <1>7, <2>1, <3>3
  <2> QED
    BY <1>2, <2>1, FreeBlocksAre
<1>9. \A j \in k .. m - 1 : /\ MergeBuddy(a, j) \in ToSet(free_lists[j])
                            /\ Aligned(MergeBuddy(a, j), j)
  <2>1. ASSUME NEW j \in k .. m - 1
        PROVE  MergeBuddy(a, j) \in ToSet(free_lists[j])
    BY <1>2, FreeBlocksAre
  <2>2. ASSUME NEW j \in k .. m - 1
        PROVE  Aligned(MergeBuddy(a, j), j)
    BY <1>1, <1>3, StartOf, BuddyFacts DEF MergeBuddy
  <2> QED
    BY <2>1, <2>2
<1>10. /\ free_lists' = [j \in Orders |->
            IF j = m THEN <<s>> \o free_lists[j]
            ELSE IF j \in k .. m - 1 THEN Unlink(free_lists[j], MergeBuddy(a, j))
            ELSE free_lists[j]]
       /\ free_bitmaps' = [j \in Orders |->
            IF j = m THEN free_bitmaps[j] \cup {addr_to_bit_index(a, j)}
            ELSE IF j \in k .. m - 1
            THEN free_bitmaps[j] \ {addr_to_bit_index(MergeBuddy(a, j), j)}
            ELSE free_bitmaps[j]]
  BY DEF BuddyDeallocate, MergeBuddy
<1>11. ASSUME NEW j \in Orders
       PROVE  /\ free_lists'[j] \in Seq(Pages) /\ NoRepeat(free_lists'[j])
              /\ ToSet(free_lists'[j]) =
                   IF j = m THEN ToSet(free_lists[j]) \cup {s}
                   ELSE IF j \in k .. m - 1 THEN ToSet(free_lists[j]) \ {MergeBuddy(a, j)}
                   ELSE ToSet(free_lists[j])
  <2> DEFINE l == free_lists[j]
             x == MergeBuddy(a, j)
  <2>1. l \in Seq(Pages) /\ NoRepeat(l)
    BY <1>4
  <2>2. CASE j = m
    <3>1. free_lists'[j] = <<s>> \o l /\ s \notin ToSet(l)
      BY <1>8, <1>10, <2>2
    <3> HIDE DEF l
    <3>2. /\ <<s>> \o l \in Seq(Pages) /\ NoRepeat(<<s>> \o l)
          /\ ToSet(<<s>> \o l) = ToSet(l) \cup {s}
      BY <1>6, <2>1, <3>1, PushFacts
    <3> QED
      BY <2>2, <3>1, <3>2 DEF l
  <2>3. CASE j # m /\ j \in k .. m - 1
    <3>1. free_lists'[j] = Unlink(l, x) /\ x \in ToSet(l)
      BY <1>9, <1>10, <2>3
    <3> HIDE DEF l, x
    <3>2. /\ Unlink(l, x) \in Seq(Pages) /\ NoRepeat(Unlink(l, x))
          /\ ToSet(Unlink(l, x)) = ToSet(l) \ {x}
      BY <2>1, <3>1, UnlinkFacts, Zenon
    <3> QED
      BY <2>3, <3>1, <3>2 DEF l, x
  <2>4. CASE j # m /\ j \notin k .. m - 1
    <3>1. free_lists'[j] = l
      BY <1>10, <2>4
    <3> QED
      BY <2>1, <2>4, <3>1
  <2> QED
    BY <2>2, <2>3, <2>4
<1>12. free_lists' \in [Orders -> Seq(Pages)]
  <2>1. free_lists' = [j \in Orders |-> free_lists'[j]]
    BY <1>10
  <2> QED
    BY <1>11, <2>1
<1>13. free_bitmaps' \in [Orders -> SUBSET Nat]
  <2>1. \A j \in Orders : free_bitmaps'[j] \in SUBSET Nat
    BY <1>4, <1>5, <1>10
  <2>2. free_bitmaps' = [j \in Orders |-> free_bitmaps'[j]]
    BY <1>10
  <2> QED
    BY <2>1, <2>2
<1>14. ASSUME NEW x, NEW j
       PROVE  <<x, j>> \in FreeBlocks' <=>
                \/ <<x, j>> \in FreeBlocks /\ ~(j \in k .. m - 1 /\ x = MergeBuddy(a, j))
                \/ j = m /\ x = s
  <2>1. <<x, j>> \in FreeBlocks' <=> j \in Orders /\ x \in ToSet(free_lists'[j])
    BY FreeBlocksAfter, Zenon
  <2>2. <<x, j>> \in FreeBlocks <=> j \in Orders /\ x \in ToSet(free_lists[j])
    BY FreeBlocksAre, Zenon
  <2>3. j \in k .. m - 1 => j \in Orders /\ j # m
    BY <1>3, <1>2
  <2> QED
    BY <1>2, <1>11, <2>1, <2>2, <2>3, ZenonT(60)
<1>15. ASSUME NEW j \in Orders, NEW q \in Nat
       PROVE  q \in free_bitmaps'[j] <=> <<q * 2 ^ j, j>> \in FreeBlocks'
  <2>1. q \in free_bitmaps[j] <=> <<q * 2 ^ j, j>> \in FreeBlocks
    BY DEF BuddyInv, BitsAgree
  <2>2. j = m => (addr_to_bit_index(a, j) = q <=> q * 2 ^ j = s)
    <3>1. addr_to_bit_index(s, m) = addr_to_bit_index(a, m)
      BY <1>2, <1>5, BitOf
    <3>2. addr_to_bit_index(s, m) = q <=> q * 2 ^ m = s
      BY <1>2, <1>5, BitIs
    <3> QED
      BY <3>1, <3>2
  <2>3. j \in k .. m - 1 =>
          (addr_to_bit_index(MergeBuddy(a, j), j) = q <=> q * 2 ^ j = MergeBuddy(a, j))
    BY <1>3, <1>9, BitIs
  <2>4. j \in k .. m - 1 => j # m
    BY <1>2, <1>3
  <2>5. <<q * 2 ^ j, j>> \in FreeBlocks' <=>
          \/ <<q * 2 ^ j, j>> \in FreeBlocks /\ ~(j \in k .. m - 1 /\ q * 2 ^ j = MergeBuddy(a, j))
          \/ j = m /\ q * 2 ^ j = s
    BY <1>14, Zenon
  <2>6. free_bitmaps'[j] =
          IF j = m THEN free_bitmaps[j] \cup {addr_to_bit_index(a, j)}
          ELSE IF j \in k .. m - 1
          THEN free_bitmaps[j] \ {addr_to_bit_index(MergeBuddy(a, j), j)}
          ELSE free_bitmaps[j]
    BY <1>10, Zenon
  <2> QED
    BY <2>1, <2>2, <2>3, <2>4, <2>5, <2>6, Zenon
<1> QED
  BY <1>11, <1>12, <1>13, <1>14, <1>15

\* The block given back and the buddies taken off make up the block pushed.
LEMMA TakeBackBlocks ==
  ASSUME BuddyInv, NEW k \in Orders, NEW m \in Orders, k <= m, NEW a \in Nat,
         NEW s, s = BlockStart(a, m), <<a, k>> \in UsedBlocks,
         \A j \in k .. m - 1 : <<MergeBuddy(a, j), j>> \in FreeBlocks,
         m + 1 \in Orders => <<MergeBuddy(a, m), m>> \notin FreeBlocks,
         \A x, j : <<x, j>> \in FreeBlocks' <=>
           \/ <<x, j>> \in FreeBlocks /\ ~(j \in k .. m - 1 /\ x = MergeBuddy(a, j))
           \/ j = m /\ x = s,
         UsedBlocks' = UsedBlocks \ {<<a, k>>}
  PROVE  BlocksAligned' /\ Tiling(Blocks)' /\ FreeBlocks' \cap UsedBlocks' = {} /\ Merged'
<1> DEFINE H == {<<MergeBuddy(a, j), j>> : j \in k .. m - 1}
           R == H \cup {<<a, k>>}
           N == {<<s, m>>}
<1>1. /\ k \in Nat /\ m \in Nat /\ RegionPages \in Nat /\ Pages \subseteq Nat
      /\ \A j \in k .. m - 1 : j \in Orders /\ j \in Nat /\ j < m
  BY OrdersNat
<1>2. /\ <<a, k>> \in Blocks /\ <<a, k>> \notin FreeBlocks
      /\ <<a, k>>[1] = a /\ <<a, k>>[2] = k
      /\ <<s, m>>[1] = s /\ <<s, m>>[2] = m
  BY DEF BuddyInv, UsedOnce, Blocks
<1>3. Aligned(a, k) /\ In(a, a, k) /\ BlockStart(a, k) = a
  BY <1>1, <1>2, BlockFacts, StartOf
<1>4. s \in Nat /\ Aligned(s, m) /\ In(a, s, m)
  BY <1>1, StartOf
<1>5. H \subseteq FreeBlocks /\ R \subseteq Blocks
  BY <1>2, ZenonT(60) DEF Blocks
<1>6. FreeBlocks' = (FreeBlocks \ H) \cup N
  <2>1. ASSUME NEW b \in FreeBlocks' PROVE b \in (FreeBlocks \ H) \cup N
    <3>1. b = <<b[1], b[2]>>
      BY FreeBlocksAfter
    <3>2. \/ <<b[1], b[2]>> \in FreeBlocks /\ ~(b[2] \in k .. m - 1 /\ b[1] = MergeBuddy(a, b[2]))
          \/ b[2] = m /\ b[1] = s
      BY <3>1
    <3>3. b \in H => b[2] \in k .. m - 1 /\ b[1] = MergeBuddy(a, b[2])
      OBVIOUS
    <3> QED
      BY <3>1, <3>2, <3>3
  <2>2. ASSUME NEW b \in FreeBlocks \ H PROVE b \in FreeBlocks'
    <3>1. b = <<b[1], b[2]>>
      BY FreeBlocksAre
    <3>2. ~(b[2] \in k .. m - 1 /\ b[1] = MergeBuddy(a, b[2]))
      BY <3>1
    <3>3. <<b[1], b[2]>> \in FreeBlocks'
      BY <3>1, <3>2
    <3> QED
      BY <3>1, <3>3
  <2>3. <<s, m>> \in FreeBlocks'
    OBVIOUS
  <2> QED
    BY <2>1, <2>2, <2>3, Zenon
<1>7. Blocks' = (Blocks \ R) \cup N
  <2>1. Blocks' = FreeBlocks' \cup UsedBlocks'
    BY DEF Blocks
  <2>2. UsedBlocks \cap H = {}
    BY <1>5 DEF BuddyInv, UsedOnce
  <2> HIDE DEF N, H
  <2> QED
    BY <1>2, <1>6, <2>1, <2>2 DEF Blocks
<1>8. ASSUME NEW p \in Nat
      PROVE  (\E b \in R : In(p, b[1], b[2])) <=> (\E b \in N : In(p, b[1], b[2]))
  <2>1. (\E b \in N : In(p, b[1], b[2])) <=> In(p, s, m)
    BY <1>2, Zenon
  <2>2. In(p, s, m) <=> In(p, a, k) \/ \E j \in k .. m - 1 : In(p, MergeBuddy(a, j), j)
    BY <1>1, <1>3, MergeCover
  <2>3. ASSUME NEW j \in k .. m - 1, In(p, MergeBuddy(a, j), j)
        PROVE  \E b \in R : In(p, b[1], b[2])
    <3> DEFINE c == <<MergeBuddy(a, j), j>>
    <3>1. c[1] = MergeBuddy(a, j) /\ c[2] = j /\ c \in R
      OBVIOUS
    <3> HIDE DEF c
    <3> QED
      BY <2>3, <3>1, Zenon
  <2>4. ASSUME NEW b \in R, In(p, b[1], b[2])
        PROVE  In(p, a, k) \/ \E j \in k .. m - 1 : In(p, MergeBuddy(a, j), j)
    <3>1. CASE b = <<a, k>>
      BY <1>2, <2>4, <3>1, Zenon
    <3>2. CASE b \in H
      <4>1. PICK j \in k .. m - 1 : b = <<MergeBuddy(a, j), j>>
        BY <3>2
      <4>2. b[1] = MergeBuddy(a, j) /\ b[2] = j
        BY <4>1
      <4> QED
        BY <2>4, <4>2, Zenon
    <3> QED
      BY <3>1, <3>2
  <2>5. ASSUME In(p, a, k) PROVE \E b \in R : In(p, b[1], b[2])
    BY <1>2, <2>5, Zenon
  <2> QED
    BY <2>1, <2>2, <2>3, <2>4, <2>5, Zenon
<1>9. Tiling(Blocks')
  <2>1. \A b, c \in N : \A p \in Nat : In(p, b[1], b[2]) /\ In(p, c[1], c[2]) => b = c
    OBVIOUS
  <2>2. R \in SUBSET Blocks /\ Tiling(Blocks)
    BY <1>5 DEF BuddyInv
  <2> HIDE DEF R, N
  <2>3. Tiling((Blocks \ R) \cup N)
    BY <1>1, <1>8, <2>1, <2>2, Replace
  <2> QED
    BY <1>7, <2>3
<1>10. s + 2 ^ m <= RegionPages
  <2> DEFINE p == (s + 2 ^ m) - 1
  <2>1. 2 ^ m \in Nat /\ 2 ^ m > 0
    BY <1>1, PowPos
  <2>2. p \in Nat /\ In(p, s, m)
    BY <1>4, <2>1 DEF In
  <2> HIDE DEF p
  <2>3. \E b \in N : In(p, b[1], b[2])
    BY <1>2, <2>2, Zenon
  <2>4. PICK b \in R : In(p, b[1], b[2])
    BY <1>8, <2>2, <2>3
  <2>5. b[1] + 2 ^ b[2] <= RegionPages /\ b[1] \in Nat /\ 2 ^ b[2] \in Nat
    BY <1>5, BlockFacts
  <2>6. p < RegionPages
    BY <1>1, <2>2, <2>4, <2>5 DEF In
  <2> QED
    BY <1>1, <1>4, <2>1, <2>6 DEF p
<1>11. \A b \in Blocks' : Aligned(b[1], b[2]) /\ b[1] + 2 ^ b[2] <= RegionPages
  <2>1. \A b \in N : Aligned(b[1], b[2]) /\ b[1] + 2 ^ b[2] <= RegionPages
    BY <1>2, <1>4, <1>10
  <2> HIDE DEF R, N
  <2> QED
    BY <1>7, <2>1, Zenon DEF BuddyInv, BlocksAligned
<1>12. <<s, m>> \notin UsedBlocks'
  <2>1. ASSUME <<s, m>> \in UsedBlocks' PROVE FALSE
    <3>1. <<s, m>> \in Blocks /\ <<s, m>> # <<a, k>>
      BY <2>1 DEF Blocks
    <3> QED
      BY <1>2, <1>3, <1>4, <3>1, Zenon DEF BuddyInv, Tiling
  <2> QED
    BY <2>1
<1>13. FreeBlocks' \cap UsedBlocks' = {}
  <2> HIDE DEF H
  <2> QED
    BY <1>6, <1>12 DEF BuddyInv, UsedOnce
<1>14. ASSUME NEW j \in Orders, j + 1 \in Orders, NEW x \in Nat,
              <<x, j>> \in FreeBlocks', <<buddy_address(x, j), j>> \in FreeBlocks'
       PROVE  FALSE
  <2> DEFINE y == buddy_address(x, j)
  <2>1. Aligned(x, j)
    <3>1. <<x, j>> \in Blocks' /\ <<x, j>>[1] = x /\ <<x, j>>[2] = j
      BY <1>14 DEF Blocks
    <3> QED
      BY <1>11, <3>1
  <2>2. buddy_address(y, j) = x /\ y # x
    BY <2>1, BuddyFacts, OrdersNat
  <2>3. ASSUME j = m, x = s PROVE FALSE
    <3>1. y = MergeBuddy(a, m)
      BY <2>3 DEF MergeBuddy
    <3>2. <<y, m>> \in FreeBlocks
      BY <1>14, <2>2, <2>3, Zenon
    <3> QED
      BY <1>14, <2>3, <3>1, <3>2
  <2>4. ASSUME j = m, y = s PROVE FALSE
    <3>1. x = MergeBuddy(a, m)
      BY <2>2, <2>4 DEF MergeBuddy
    <3>2. <<x, m>> \in FreeBlocks
      BY <1>14, <2>2, <2>4, Zenon
    <3> QED
      BY <1>14, <2>4, <3>1, <3>2
  <2>5. <<x, j>> \in FreeBlocks /\ <<y, j>> \in FreeBlocks
    <3>1. <<x, j>> \in FreeBlocks \/ (j = m /\ x = s)
      BY <1>14
    <3>2. <<y, j>> \in FreeBlocks \/ (j = m /\ y = s)
      BY <1>14
    <3> QED
      BY <2>3, <2>4, <3>1, <3>2
  <2> QED
    BY <1>14, <2>5 DEF BuddyInv, Merged
<1>15. Merged'
  BY <1>14 DEF Merged
<1> QED
  BY <1>9, <1>11, <1>13, <1>15 DEF BlocksAligned, Tiling, Blocks

\* deallocate preserves the invariant.
LEMMA TakeBackInv ==
  ASSUME BuddyInv, NEW b \in live, TakeBack(b)
  PROVE  BuddyInv'
<1> DEFINE a == b.addr
           k == size_to_order(b.size)
           m == MergedOrder(a, k)
           s == BlockStart(a, m)
<1>1. BuddyDeallocate(b.addr, b.size) /\ live' = live \ {b}
  BY DEF TakeBack
<1>2. a \in Nat /\ k \in Orders
  BY OrdersNat DEF BuddyInv, BuddyTypeOK
<1>3. /\ m \in Orders /\ k <= m
      /\ \A j \in k .. m - 1 : <<MergeBuddy(a, j), j>> \in FreeBlocks
      /\ m + 1 \in Orders => <<MergeBuddy(a, m), m>> \notin FreeBlocks
  BY <1>2, MergedOrderIs
<1>4. /\ free_lists' \in [Orders -> Seq(Pages)]
      /\ free_bitmaps' \in [Orders -> SUBSET Nat]
      /\ \A j \in Orders : NoRepeat(free_lists'[j])
      /\ \A x, j : <<x, j>> \in FreeBlocks' <=>
           \/ <<x, j>> \in FreeBlocks /\ ~(j \in k .. m - 1 /\ x = MergeBuddy(a, j))
           \/ j = m /\ x = s
      /\ \A j \in Orders : \A q \in Nat :
           q \in free_bitmaps'[j] <=> <<q * 2 ^ j, j>> \in FreeBlocks'
  BY <1>1, MergeLists
<1>5. UsedBlocks' = UsedBlocks \ {<<a, k>>}
  <2> DEFINE f(c) == <<c.addr, size_to_order(c.size)>>
  <2>1. UsedBlocks' = {f(c) : c \in live'} /\ UsedBlocks = {f(c) : c \in live}
    BY DEF UsedBlocks
  <2>2. \A c \in live : f(c) = f(b) => c = b
    <3>1. ASSUME NEW c \in live, f(c) = f(b) PROVE c = b
      <4>1. c.addr = b.addr
        BY <3>1
      <4> QED
        BY <4>1 DEF BuddyInv, UsedOnce
    <3> QED
      BY <3>1
  <2>3. f(b) = <<a, k>>
    OBVIOUS
  <2> HIDE DEF f, a, k
  <2> QED
    BY <1>1, <2>1, <2>2, <2>3, Zenon
<1>6. <<a, k>> \in UsedBlocks
  BY DEF UsedBlocks
<1>7. s = BlockStart(a, m)
  OBVIOUS
<1>8. BlocksAligned' /\ Tiling(Blocks)' /\ FreeBlocks' \cap UsedBlocks' = {} /\ Merged'
  <2> HIDE DEF a, k, m, s
  <2> QED
    BY <1>2, <1>3, <1>4, <1>5, <1>6, <1>7, TakeBackBlocks, SMTT(60)
<1>9. UsedOnce'
  BY <1>1, <1>8 DEF BuddyInv, UsedOnce
<1>10. BuddyTypeOK'
  BY <1>1, <1>4 DEF BuddyInv, BuddyTypeOK
<1>11. BitsAgree'
  BY <1>4 DEF BitsAgree
<1> QED
  BY <1>8, <1>9, <1>10, <1>11 DEF BuddyInv

-----------------------------------------------------------------------------
(* init *)

\* The order that init chooses at a page: the block fits and is aligned, and no
\* larger one would be.
LEMMA InitOrderIs ==
  ASSUME NEW a \in Pages
  PROVE  /\ InitOrder(a) \in Orders /\ InitOrder(a) \in Nat
         /\ Aligned(a, InitOrder(a))
         /\ a + 2 ^ InitOrder(a) <= RegionPages
         /\ \A k \in Nat : k + 1 \in Orders /\ k = InitOrder(a) /\ Aligned(a, k + 1)
              => ~(a + 2 ^ (k + 1) <= RegionPages)
<1>1. a \in Nat /\ RegionPages \in Nat /\ a < RegionPages /\ MAX_ORDER \in Nat \ {0}
  BY OrdersNat
<1> DEFINE n == RegionPages - a
           S == {k \in 0 .. n : order_to_size(k) <= n}
           s == max_order_for_size(RegionPages - a)
           T == {k \in 0 .. a : a % order_to_size(k) = 0}
           t == IF a = 0 THEN MAX_ORDER - 1 ELSE trailing_zeros(a)
           o == InitOrder(a)
<1>2. n \in Nat /\ n > 0 /\ s = Max(S)
  BY <1>1 DEF max_order_for_size
<1>3. s \in Nat /\ 2 ^ s <= n /\ \A k \in Nat : 2 ^ k <= n => k <= s
  <2>1. S \in SUBSET Nat /\ 0 \in S /\ \A k \in S : k <= n
    BY <1>2, PowPos DEF order_to_size
  <2>2. s \in S /\ \A k \in S : k <= s
    <3> HIDE DEF S, n, s
    <3> QED
      BY <1>2, <2>1, MaxNat
  <2>3. \A k \in Nat : 2 ^ k <= n => k \in S
    <3>1. ASSUME NEW k \in Nat, 2 ^ k <= n PROVE k \in S
      <4>1. k < 2 ^ k /\ 2 ^ k \in Nat
        BY PowBig, PowPos
      <4>2. k \in 0 .. n
        BY <1>2, <3>1, <4>1
      <4> QED
        BY <3>1, <4>2 DEF order_to_size
    <3> QED
      BY <3>1
  <2> HIDE DEF s, n
  <2> QED
    BY <2>2, <2>3 DEF order_to_size
<1>4. \A k \in Nat : a % order_to_size(k) = 0 <=> Aligned(a, k)
  <2>1. ASSUME NEW k \in Nat
        PROVE  a % order_to_size(k) = 0 <=> Aligned(a, k)
    <3>1. 2 ^ k \in Nat \ {0}
      BY PowPos
    <3>2. a % 2 ^ k \in Nat
      BY <1>1, <3>1, DivMod
    <3>3. a - (a % 2 ^ k) = a <=> a % 2 ^ k = 0
      BY <1>1, <3>2
    <3>4. Aligned(a, k) <=> BlockStart(a, k) = a
      BY <1>1, StartOf
    <3> QED
      BY <3>3, <3>4 DEF BlockStart, order_to_size
  <2> QED
    BY <2>1
<1>5. /\ t \in Nat /\ (t <= MAX_ORDER - 1 \/ a # 0) /\ Aligned(a, t)
      /\ \A k \in Nat : k < MAX_ORDER /\ Aligned(a, k) => k <= t
  <2>1. CASE a = 0
    <3>1. t = MAX_ORDER - 1 /\ t \in Nat
      BY <1>1, <2>1
    <3>2. Aligned(0, t)
      <4>1. 0 = 0 * 2 ^ t
        BY <3>1, PowPos
      <4> QED
        BY <4>1 DEF Aligned
    <3> HIDE DEF t
    <3> QED
      BY <1>1, <2>1, <3>1, <3>2
  <2>2. CASE a # 0
    <3>1. t = Max(T)
      BY <2>2 DEF trailing_zeros
    <3>2. Aligned(a, 0)
      <4>1. a = a * 2 ^ 0
        BY <1>1, PowPos
      <4> QED
        BY <1>1, <4>1 DEF Aligned
    <3>3. T \in SUBSET Nat /\ 0 \in T /\ \A k \in T : k <= a
      BY <1>1, <1>4, <3>2
    <3>4. t \in T /\ \A k \in T : k <= t
      <4> HIDE DEF T, t
      <4> QED
        BY <1>1, <3>1, <3>3, MaxNat
    <3>5. ASSUME NEW k \in Nat, Aligned(a, k) PROVE k \in T
      <4>1. PICK q \in Nat : a = q * 2 ^ k
        BY <3>5 DEF Aligned
      <4>2. 2 ^ k \in Nat /\ k < 2 ^ k
        BY PowPos, PowBig
      <4>3. q # 0
        BY <1>1, <2>2, <4>1, <4>2
      <4>4. 2 ^ k <= a
        BY <4>1, <4>2, <4>3
      <4>5. k \in 0 .. a
        BY <1>1, <4>2, <4>4
      <4> QED
        BY <1>4, <3>5, <4>5
    <3>6. Aligned(a, t) /\ t \in Nat
      BY <1>4, <3>4
    <3> HIDE DEF T, t
    <3> QED
      BY <2>2, <3>4, <3>5, <3>6
  <2> QED
    BY <2>1, <2>2
<1> DEFINE U == {s, MAX_ORDER - 1, t}
<1>6. o = Min(U)
  BY DEF InitOrder
<1> HIDE DEF n, s, t, S, T, o
<1>7. o \in U /\ \A k \in U : o <= k
  <2>1. U \in SUBSET Nat /\ U # {}
    BY <1>1, <1>3, <1>5
  <2> HIDE DEF U
  <2> QED
    BY <1>6, <2>1, MinNat
<1>8. o \in Nat /\ o <= s /\ o <= MAX_ORDER - 1 /\ o <= t /\ o \in {s, MAX_ORDER - 1, t}
  BY <1>1, <1>3, <1>5, <1>7
<1>9. o \in Orders
  BY <1>1, <1>8, OrdersNat
<1>10. Aligned(a, o)
  BY <1>5, <1>8, AlignedDown
<1>11. a + 2 ^ o <= RegionPages
  <2>1. 2 ^ o <= 2 ^ s /\ 2 ^ o \in Nat /\ 2 ^ s \in Nat
    BY <1>3, <1>8, PowDivides, PowPos
  <2> QED
    BY <1>1, <1>2, <1>3, <2>1 DEF n
<1>12. ASSUME NEW k \in Nat, k + 1 \in Orders, k = o, Aligned(a, k + 1),
              a + 2 ^ (k + 1) <= RegionPages
       PROVE  FALSE
  <2>1. k + 1 < MAX_ORDER /\ k + 1 \in Nat
    BY <1>12, OrdersNat
  <2>2. k + 1 <= t
    BY <1>5, <1>12, <2>1
  <2>3. 2 ^ (k + 1) <= n
    <3>1. 2 ^ (k + 1) \in Nat
      BY <2>1, PowPos
    <3> QED
      BY <1>1, <1>12, <3>1 DEF n
  <2>4. k + 1 <= s
    BY <1>3, <2>1, <2>3
  <2> QED
    BY <1>1, <1>3, <1>5, <1>8, <1>12, <2>1, <2>2, <2>4
<1> QED
  BY <1>8, <1>9, <1>10, <1>11, <1>12 DEF o

\* The loop starts at the first page, and goes on from each block to the next.
LEMMA StartsForward ==
  /\ InitStarts \subseteq Pages
  /\ 0 \in Pages => 0 \in InitStarts
  /\ \A a \in InitStarts : NextStart(a) \in Pages => NextStart(a) \in InitStarts
  BY Zenon DEF InitStarts

\* It arrives at a page only from the block before.
LEMMA StartsBack ==
  ASSUME NEW a \in InitStarts, a # 0
  PROVE  \E b \in InitStarts : NextStart(b) = a
<1> SUFFICES ASSUME \A b \in InitStarts : NextStart(b) # a PROVE FALSE
  OBVIOUS
<1> DEFINE S == InitStarts \ {a}
<1>1. S \in SUBSET Pages
  BY StartsForward, Zenon
<1>2. a \in Pages /\ 0 \in Pages
  BY StartsForward, OrdersNat
<1>3. 0 \in S
  BY <1>2, StartsForward
<1>4. \A b \in S : NextStart(b) \in Pages => NextStart(b) \in S
  BY StartsForward, Zenon
<1>5. a \in S
  <2> HIDE DEF S
  <2> QED
    BY <1>1, <1>3, <1>4, Zenon DEF InitStarts
<1> QED
  BY <1>5

\* The blocks follow each other without overlap.
LEMMA StartsApart ==
  ASSUME NEW a \in InitStarts, NEW x \in InitStarts, x < a
  PROVE  NextStart(x) <= a
<1> DEFINE S == {c \in InitStarts : \E y \in InitStarts : y < c /\ ~(NextStart(y) <= c)}
<1> SUFFICES ASSUME S # {} PROVE FALSE
  OBVIOUS
<1>1. \A c \in InitStarts : c \in Nat /\ NextStart(c) \in Nat /\ NextStart(c) > c
  <2>1. ASSUME NEW c \in InitStarts
        PROVE  c \in Nat /\ NextStart(c) \in Nat /\ NextStart(c) > c
    <3>1. c \in Pages /\ c \in Nat
      BY StartsForward, OrdersNat
    <3>2. InitOrder(c) \in Nat
      BY <3>1, InitOrderIs
    <3>3. 2 ^ InitOrder(c) \in Nat /\ 2 ^ InitOrder(c) > 0
      BY <3>2, PowPos
    <3> QED
      BY <3>1, <3>3 DEF NextStart, order_to_size
  <2> QED
    BY <2>1
<1>2. S \in SUBSET Nat
  BY <1>1
<1>3. PICK c \in S : \A d \in S : c <= d
  <2> HIDE DEF S
  <2> QED
    BY <1>2, LeastNat
<1>4. PICK y \in InitStarts : y < c /\ ~(NextStart(y) <= c)
  BY <1>3
<1>5. PICK z \in InitStarts : NextStart(z) = c
  <2>1. c # 0 /\ c \in InitStarts
    BY <1>1, <1>3, <1>4
  <2> QED
    BY <2>1, StartsBack
<1>6. z < c /\ y # z /\ c \in Nat
  BY <1>1, <1>3, <1>4, <1>5
<1>7. CASE y < z
  <2>1. z \notin S
    BY <1>1, <1>3, <1>6
  <2>2. NextStart(y) <= z
    BY <1>7, <2>1
  <2> QED
    BY <1>1, <1>4, <1>6, <2>2
<1>8. CASE z < y
  <2>1. y \notin S
    BY <1>1, <1>3, <1>4
  <2>2. NextStart(z) <= y
    BY <1>8, <2>1
  <2> QED
    BY <1>1, <1>4, <1>5, <1>6, <2>2
<1> QED
  BY <1>1, <1>6, <1>7, <1>8

\* Every set of pages can be listed in descending order.
LEMMA DescendingExists ==
  ASSUME NEW U \in SUBSET Pages
  PROVE  \E q \in [1 .. Cardinality(U) -> U] :
           ToSet(q) = U /\ \A i, j \in DOMAIN q : i < j => q[i] > q[j]
<1> DEFINE Listed(T, n) == \E q \in [1 .. n -> T] :
                             ToSet(q) = T /\ \A i, j \in DOMAIN q : i < j => q[i] > q[j]
           S == {n \in Nat : \A T \in SUBSET Pages : Cardinality(T) = n => Listed(T, n)}
<1>1. \A T \in SUBSET Pages : IsFiniteSet(T) /\ Cardinality(T) \in Nat
  <2>1. IsFiniteSet(Pages)
    BY OrdersNat, FS_Interval DEF Pages
  <2> QED
    BY <2>1, FS_Subset, FS_CardinalityType
<1>2. 0 \in S
  <2>1. ASSUME NEW T \in SUBSET Pages, Cardinality(T) = 0 PROVE Listed(T, 0)
    <3>1. T = {}
      BY <1>1, <2>1, FS_EmptySet
    <3> DEFINE q == [i \in 1 .. 0 |-> 0]
    <3>2. q \in [1 .. 0 -> {}] /\ DOMAIN q = {}
      OBVIOUS
    <3>3. ToSet(q) = {}
      BY <3>2, Zenon DEF ToSet
    <3> HIDE DEF q
    <3> QED
      BY <3>1, <3>2, <3>3, Zenon
  <2> QED
    BY <2>1
<1>3. ASSUME NEW n \in Nat, n \in S PROVE n + 1 \in S
  <2>1. ASSUME NEW T \in SUBSET Pages, Cardinality(T) = n + 1 PROVE Listed(T, n + 1)
    <3>1. T \in SUBSET Nat /\ T # {} /\ \A x \in T : x <= RegionPages
      <4>1. T # {}
        BY <2>1, FS_EmptySet
      <4>2. \A x \in T : x \in Nat /\ x <= RegionPages
        BY OrdersNat
      <4> QED
        BY <4>1, <4>2
    <3>2. PICK x \in T : \A y \in T : y <= x
      BY <3>1, OrdersNat, GreatestNat
    <3>3. Cardinality(T \ {x}) = n /\ T \ {x} \in SUBSET Pages
      BY <1>1, <2>1, FS_RemoveElement
    <3>4. PICK q \in [1 .. n -> T \ {x}] :
            ToSet(q) = T \ {x} /\ \A i, j \in DOMAIN q : i < j => q[i] > q[j]
      BY <1>3, <3>3, Zenon
    <3> DEFINE r == [i \in 1 .. n + 1 |-> IF i = 1 THEN x ELSE q[i - 1]]
    <3>5. \A i \in 1 .. n + 1 : i # 1 => i - 1 \in 1 .. n
      OBVIOUS
    <3>6. r \in [1 .. n + 1 -> T]
      BY <3>5
    <3>7. /\ DOMAIN r = 1 .. n + 1 /\ r[1] = x
          /\ \A i \in 1 .. n + 1 : i # 1 => r[i] = q[i - 1] /\ q[i - 1] \in T \ {x}
      BY <3>5
    <3> HIDE DEF r
    <3>8. ASSUME NEW i \in DOMAIN r, NEW j \in DOMAIN r, i < j PROVE r[i] > r[j]
      <4>1. j # 1 /\ r[j] = q[j - 1] /\ j - 1 \in 1 .. n /\ r[j] \in T /\ r[j] # x
        BY <3>5, <3>7, <3>8
      <4>2. CASE i = 1
        <5>1. r[i] = x /\ r[j] <= x /\ x \in Nat /\ r[j] \in Nat
          BY <3>1, <3>2, <3>7, <4>1, <4>2
        <5> QED
          BY <4>1, <5>1
      <4>3. CASE i # 1
        <5>1. r[i] = q[i - 1] /\ i - 1 \in 1 .. n /\ i - 1 < j - 1
          BY <3>5, <3>7, <3>8, <4>3
        <5>2. DOMAIN q = 1 .. n
          OBVIOUS
        <5>3. q[i - 1] > q[j - 1]
          BY <3>4, <4>1, <5>1, <5>2
        <5> QED
          BY <4>1, <5>1, <5>3
      <4> QED
        BY <4>2, <4>3
    <3>9. ToSet(r) = T
      <4>1. ToSet(r) \subseteq T
        BY <3>6 DEF ToSet
      <4>2. x \in ToSet(r)
        <5>1. 1 \in DOMAIN r
          BY <3>7
        <5> QED
          BY <3>7, <5>1, Zenon DEF ToSet
      <4>3. ASSUME NEW y \in T \ {x} PROVE y \in ToSet(r)
        <5>1. PICK i \in 1 .. n : y = q[i]
          BY <3>4 DEF ToSet
        <5>2. i + 1 \in DOMAIN r /\ r[i + 1] = y
          <6>1. i + 1 \in 1 .. n + 1 /\ i + 1 # 1 /\ (i + 1) - 1 = i
            OBVIOUS
          <6>2. r[i + 1] = q[(i + 1) - 1]
            BY <3>7, <6>1
          <6> QED
            BY <3>7, <5>1, <6>1, <6>2
        <5> QED
          BY <5>2, Zenon DEF ToSet
      <4> QED
        BY <4>1, <4>2, <4>3
    <3> QED
      BY <3>6, <3>8, <3>9
  <2> HIDE DEF Listed
  <2> QED
    BY <2>1
<1>4. \A n \in Nat : n \in S
  <2> HIDE DEF S
  <2> QED
    BY <1>2, <1>3, NatSet
<1> HIDE DEF Listed
<1>5. Listed(U, Cardinality(U))
  BY <1>1, <1>4
<1> QED
  BY <1>5 DEF Listed

\* What the initial list of a set of blocks is.
LEMMA DescendingFacts ==
  ASSUME NEW U \in SUBSET Pages
  PROVE  /\ Descending(U) \in Seq(Pages) /\ ToSet(Descending(U)) = U
         /\ NoRepeat(Descending(U))
<1> DEFINE q == Descending(U)
<1>1. /\ q \in [1 .. Cardinality(U) -> U]
      /\ ToSet(q) = U /\ \A i, j \in DOMAIN q : i < j => q[i] > q[j]
  BY DescendingExists, Zenon DEF Descending
<1>2. Cardinality(U) \in Nat
  <2>1. IsFiniteSet(Pages)
    BY OrdersNat, FS_Interval DEF Pages
  <2> QED
    BY <2>1, FS_Subset, FS_CardinalityType
<1> HIDE DEF q
<1>3. q \in Seq(Pages)
  BY <1>1, <1>2
<1>4. NoRepeat(q)
  <2>1. ASSUME NEW i \in DOMAIN q, NEW j \in DOMAIN q, q[i] = q[j] PROVE i = j
    <3>0. DOMAIN q = 1 .. Cardinality(U) /\ Pages \subseteq Nat
      BY <1>1, OrdersNat
    <3>1. i \in Nat /\ j \in Nat
      BY <1>2, <3>0
    <3>3. q[i] \in Nat /\ q[j] \in Nat
      BY <1>1, <3>0
    <3>2. ~(i < j) /\ ~(j < i)
      BY <1>1, <2>1, <3>1, <3>3
    <3> QED
      BY <3>1, <3>2
  <2> QED
    BY <2>1 DEF NoRepeat
<1> QED
  BY <1>1, <1>3, <1>4 DEF q

\* init establishes the invariant.
LEMMA BuddyInitInv == BuddyInit => BuddyInv
<1> SUFFICES ASSUME BuddyInit PROVE BuddyInv
  OBVIOUS
<1> DEFINE C(k) == {b[1] : b \in {c \in InitBlocks : c[2] = k}}
<1>1. \A a \in InitStarts :
        /\ a \in Pages /\ a \in Nat /\ InitOrder(a) \in Orders /\ InitOrder(a) \in Nat
        /\ Aligned(a, InitOrder(a)) /\ a + 2 ^ InitOrder(a) <= RegionPages
        /\ NextStart(a) = a + 2 ^ InitOrder(a) /\ 2 ^ InitOrder(a) \in Nat
        /\ 2 ^ InitOrder(a) > 0
  <2>1. ASSUME NEW a \in InitStarts PROVE a \in Pages /\ a \in Nat
    BY StartsForward, OrdersNat
  <2> QED
    BY <2>1, InitOrderIs, PowPos DEF NextStart, order_to_size
<1>2. \A x, k : x \in C(k) <=> x \in InitStarts /\ k = InitOrder(x)
  <2>1. ASSUME NEW x, NEW k, x \in C(k) PROVE x \in InitStarts /\ k = InitOrder(x)
    <3>1. PICK b \in InitBlocks : b[2] = k /\ x = b[1]
      BY <2>1, Zenon
    <3>2. PICK a \in InitStarts : b = <<a, InitOrder(a)>>
      BY <3>1, Zenon DEF InitBlocks
    <3> QED
      BY <3>1, <3>2
  <2>2. ASSUME NEW x \in InitStarts PROVE x \in C(InitOrder(x))
    <3>1. <<x, InitOrder(x)>> \in InitBlocks
      BY Zenon DEF InitBlocks
    <3>2. <<x, InitOrder(x)>>[1] = x /\ <<x, InitOrder(x)>>[2] = InitOrder(x)
      OBVIOUS
    <3> QED
      BY <3>1, <3>2, Zenon
  <2> HIDE DEF C
  <2> QED
    BY <2>1, <2>2
<1>3. /\ free_lists = [k \in Orders |-> Descending(C(k))]
      /\ free_bitmaps = [k \in Orders |->
           {addr_to_bit_index(b[1], k) : b \in {c \in InitBlocks : c[2] = k}}]
      /\ live = {}
  BY DEF BuddyInit
<1>4. \A k \in Orders : \A n : n \in free_bitmaps[k] <=>
        \E x \in C(k) : n = addr_to_bit_index(x, k)
  BY <1>3, Zenon
<1> HIDE DEF C
<1>5. \A k \in Orders : /\ free_lists[k] \in Seq(Pages) /\ ToSet(free_lists[k]) = C(k)
                        /\ NoRepeat(free_lists[k])
  <2>1. ASSUME NEW k \in Orders
        PROVE  /\ Descending(C(k)) \in Seq(Pages) /\ ToSet(Descending(C(k))) = C(k)
               /\ NoRepeat(Descending(C(k)))
    <3>1. C(k) \in SUBSET Pages
      BY <1>1, <1>2
    <3> QED
      BY <3>1, DescendingFacts
  <2> QED
    BY <1>3, <2>1
<1>6. \A x, k : <<x, k>> \in FreeBlocks <=> x \in InitStarts /\ k = InitOrder(x)
  <2>1. \A x, k : <<x, k>> \in FreeBlocks <=> k \in Orders /\ x \in ToSet(free_lists[k])
    BY FreeBlocksAre, Zenon
  <2>2. ASSUME NEW x, NEW k, <<x, k>> \in FreeBlocks
        PROVE  x \in InitStarts /\ k = InitOrder(x)
    <3>1. x \in C(k)
      BY <1>5, <2>1, <2>2
    <3> QED
      BY <1>2, <3>1
  <2>3. ASSUME NEW x \in InitStarts PROVE <<x, InitOrder(x)>> \in FreeBlocks
    <3>1. x \in C(InitOrder(x)) /\ InitOrder(x) \in Orders
      BY <1>1, <1>2
    <3> QED
      BY <1>5, <2>1, <3>1
  <2> QED
    BY <2>2, <2>3
<1>7. UsedBlocks = {} /\ Blocks = FreeBlocks
  BY <1>3 DEF UsedBlocks, Blocks
<1>8. \A b \in Blocks : b = <<b[1], b[2]>> /\ b[1] \in InitStarts /\ b[2] = InitOrder(b[1])
  <2>1. ASSUME NEW b \in Blocks
        PROVE  b = <<b[1], b[2]>> /\ b[1] \in InitStarts /\ b[2] = InitOrder(b[1])
    <3>1. b = <<b[1], b[2]>> /\ b \in FreeBlocks
      BY <1>7, FreeBlocksAre
    <3> QED
      BY <1>6, <3>1
  <2> QED
    BY <2>1
<1>9. BlocksAligned
  BY <1>1, <1>8 DEF BlocksAligned
<1>10. ASSUME NEW b \in Blocks, NEW c \in Blocks, NEW p \in Nat,
              In(p, b[1], b[2]), In(p, c[1], c[2])
       PROVE  b = c
  <2>1. /\ b[1] \in InitStarts /\ c[1] \in InitStarts /\ b[1] \in Nat /\ c[1] \in Nat
        /\ p < NextStart(b[1]) /\ p < NextStart(c[1]) /\ b[1] <= p /\ c[1] <= p
        /\ NextStart(b[1]) \in Nat /\ NextStart(c[1]) \in Nat
    BY <1>1, <1>8, <1>10 DEF In
  <2>2. ~(b[1] < c[1]) /\ ~(c[1] < b[1])
    BY <2>1, StartsApart
  <2>3. b[1] = c[1]
    BY <2>1, <2>2
  <2> QED
    BY <1>8, <2>3
<1>11. ASSUME NEW p \in Pages
       PROVE  \E b \in Blocks : In(p, b[1], b[2])
  <2> DEFINE S == {a \in InitStarts : a <= p}
  <2>1. p \in Nat /\ p < RegionPages /\ 0 \in Pages /\ RegionPages \in Nat
    BY OrdersNat
  <2>2. 0 \in S /\ S \in SUBSET Nat /\ \A a \in S : a <= p
    <3>1. 0 \in InitStarts /\ 0 <= p
      BY <2>1, StartsForward
    <3>2. \A a \in InitStarts : a \in Nat
      BY <1>1
    <3> QED
      BY <3>1, <3>2
  <2>3. PICK a \in S : \A x \in S : x <= a
    <3> HIDE DEF S
    <3> QED
      BY <2>1, <2>2, GreatestNat
  <2>4. p < NextStart(a)
    <3> SUFFICES ASSUME ~(p < NextStart(a)) PROVE FALSE
      OBVIOUS
    <3>1. NextStart(a) \in Nat /\ NextStart(a) <= p /\ NextStart(a) > a /\ a \in Nat
      BY <1>1, <2>1
    <3>2. NextStart(a) \in Pages
      BY <2>1, <3>1, OrdersNat
    <3>3. NextStart(a) \in S
      BY <2>3, <3>1, <3>2, StartsForward
    <3> QED
      BY <2>3, <3>1, <3>3
  <2> DEFINE b == <<a, InitOrder(a)>>
  <2>5. b \in Blocks /\ b[1] = a /\ b[2] = InitOrder(a)
    BY <1>6, <1>7
  <2>6. In(p, a, InitOrder(a))
    BY <1>1, <2>3, <2>4 DEF In
  <2> HIDE DEF b
  <2> QED
    BY <2>5, <2>6
<1>12. Tiling(Blocks)
  BY <1>10, <1>11 DEF Tiling
<1>13. UsedOnce
  BY <1>3, <1>7 DEF UsedOnce
<1>14. BuddyTypeOK
  <2>1. free_lists \in [Orders -> Seq(Pages)]
    BY <1>3, <1>5
  <2>2. \A k \in Orders : free_bitmaps[k] \in SUBSET Nat
    BY <1>1, <1>2, <1>4, StartOf, OrdersNat
  <2>3. free_bitmaps \in [Orders -> SUBSET Nat]
    <3>1. free_bitmaps = [k \in Orders |-> free_bitmaps[k]]
      BY <1>3
    <3> QED
      BY <2>2, <3>1
  <2> QED
    BY <1>3, <2>1, <2>3 DEF BuddyTypeOK
<1>15. ASSUME NEW k \in Orders, NEW q \in Nat
       PROVE  q \in free_bitmaps[k] <=> <<q * 2 ^ k, k>> \in FreeBlocks
  <2>1. k \in Nat
    BY OrdersNat
  <2>2. ASSUME NEW x \in C(k) PROVE q = addr_to_bit_index(x, k) <=> q * 2 ^ k = x
    BY <1>1, <1>2, <2>1, BitIs
  <2>3. <<q * 2 ^ k, k>> \in FreeBlocks <=> q * 2 ^ k \in C(k)
    BY <1>2, <1>6, Zenon
  <2> QED
    BY <1>4, <2>2, <2>3, Zenon
<1>16. BitsAgree
  BY <1>5, <1>15 DEF BitsAgree
<1>17. ASSUME NEW k \in Orders, k + 1 \in Orders, NEW a \in Nat,
              <<a, k>> \in FreeBlocks, <<buddy_address(a, k), k>> \in FreeBlocks
       PROVE  FALSE
  <2> DEFINE y == buddy_address(a, k)
  <2>1. /\ a \in InitStarts /\ k = InitOrder(a) /\ y \in InitStarts /\ k = InitOrder(y)
        /\ k \in Nat
    BY <1>6, <1>17, OrdersNat
  <2>2. Aligned(a, k) /\ Aligned(y, k) /\ a + 2 ^ k <= RegionPages /\ y + 2 ^ k <= RegionPages
    BY <1>1, <2>1
  <2>3. PICK P : /\ Aligned(P, k + 1)
                 /\ \A p \in Nat : In(p, P, k + 1) <=> (In(p, a, k) \/ In(p, y, k))
    BY <2>1, <2>2, BuddyFacts
  <2> HIDE DEF y
  <2>4. P \in Nat /\ In(P, P, k + 1) /\ 2 ^ (k + 1) = 2 * 2 ^ k /\ 2 ^ k \in Nat /\ 2 ^ k > 0
    BY <2>1, <2>3, AlignedNat, Doubling, PowPos
  <2>5. a \in Nat /\ y \in Nat /\ In(a, a, k) /\ In(y, y, k) /\ RegionPages \in Nat
    BY <2>1, <2>2, AlignedNat, OrdersNat
  <2>6. P + 2 ^ (k + 1) <= RegionPages
    <3> DEFINE p == (P + 2 ^ (k + 1)) - 1
    <3>1. p \in Nat /\ In(p, P, k + 1)
      BY <2>4 DEF In
    <3>2. In(p, a, k) \/ In(p, y, k)
      BY <2>3, <3>1
    <3> HIDE DEF p
    <3>3. p < RegionPages
      BY <2>2, <2>4, <2>5, <3>1, <3>2 DEF In
    <3> QED
      BY <2>4, <2>5, <3>3 DEF p
  <2>7. P = a \/ P = y
    <3>1. In(P, a, k) \/ In(P, y, k)
      BY <2>3, <2>4
    <3>2. In(a, P, k + 1) /\ In(y, P, k + 1)
      BY <2>3, <2>5
    <3> QED
      BY <2>4, <2>5, <3>1, <3>2 DEF In
  <2> QED
    BY <1>1, <1>17, <2>1, <2>3, <2>6, <2>7, InitOrderIs
<1>18. Merged
  BY <1>17 DEF Merged
<1> QED
  BY <1>9, <1>12, <1>13, <1>14, <1>16, <1>18 DEF BuddyInv

-----------------------------------------------------------------------------
(* The theorems *)

\* A step of the buddy allocator preserves the invariant.
LEMMA BuddyNextInv == BuddyInv /\ [BuddyNext]_buddyVars => BuddyInv'
<1> SUFFICES ASSUME BuddyInv, [BuddyNext]_buddyVars PROVE BuddyInv'
  OBVIOUS
<1>1. ASSUME NEW size \in Requests, NEW a \in Pages, HandOut(size, a) PROVE BuddyInv'
  BY <1>1, HandOutInv
<1>2. ASSUME NEW b \in live, TakeBack(b) PROVE BuddyInv'
  BY <1>2, TakeBackInv
<1>3. CASE UNCHANGED buddyVars
  <2>1. free_lists' = free_lists /\ free_bitmaps' = free_bitmaps /\ live' = live
    BY <1>3 DEF buddyVars
  <2>2. FreeBlocks' = FreeBlocks /\ UsedBlocks' = UsedBlocks
    BY <2>1 DEF FreeBlocks, UsedBlocks
  <2>3. Blocks' = Blocks
    BY <2>2 DEF Blocks
  <2>4. BuddyTypeOK' /\ BlocksAligned' /\ UsedOnce'
    BY <2>1, <2>2, <2>3 DEF BuddyInv, BuddyTypeOK, BlocksAligned, UsedOnce
  <2>5. Tiling(Blocks)' /\ Merged'
    BY <2>2, <2>3 DEF BuddyInv, Tiling, Merged
  <2>6. BitsAgree'
    BY <2>1, <2>2 DEF BuddyInv, BitsAgree
  <2> QED
    BY <2>4, <2>5, <2>6 DEF BuddyInv
<1> QED
  BY <1>1, <1>2, <1>3 DEF BuddyNext

\* The blocks are aligned, they tile the region, the bitmaps stand for the lists
\* and buddies below the highest order are merged, in every reachable state.
LEMMA BuddyInvariant == BuddySpec => []BuddyInv
  BY BuddyInitInv, BuddyNextInv, PTL DEF BuddySpec

\* Nothing is handed out twice and nothing leaks, whatever the order of splits
\* and merges, for any region, number of orders and requests.
THEOREM BuddyTiled == BuddySpec => []Tiled
  BY BuddyInvariant, InvTiled, PTL

\* The bitmap that deallocate trusts is true of exactly the blocks on the lists.
THEOREM BuddyBitmapMatchesLists == BuddySpec => []BitmapMatchesLists
  BY BuddyInvariant, InvBitmap, PTL

\* allocate reports exhaustion only when no free run of pages has the size and
\* the alignment asked for: freed blocks are merged as far as they can be.
THEOREM BuddyNoFalseOutOfMemory == BuddySpec => []NoFalseOutOfMemory
  BY BuddyInvariant, InvNoFalse, PTL

-----------------------------------------------------------------------------
(* Rounding *)

\* Rounding up gives the next multiple, rounding down the previous one.
LEMMA Rounding ==
  ASSUME NEW a \in Nat, NEW n \in Nat \ {0}
  PROVE  /\ align_up(a, n) \in Nat /\ align_up(a, n) >= a
         /\ \E q \in Nat : align_up(a, n) = q * n
         /\ align_down(a, n) \in Nat /\ align_down(a, n) <= a
         /\ \E q \in Nat : align_down(a, n) = q * n
<1> DEFINE b == a + n - 1
           q == b \div n
           r == a \div n
<1>1. b \in Nat
  OBVIOUS
<1>2. q \in Nat /\ b % n \in 0 .. n - 1 /\ b = q * n + (b % n)
  <2> HIDE DEF b
  <2> QED
    BY <1>1, DivMod
<1>3. r \in Nat /\ a % n \in 0 .. n - 1 /\ a = r * n + (a % n)
  BY DivMod
<1>4. q * n \in Nat /\ q * n >= a
  <2> DEFINE t == q * n
             s == b % n
  <2>1. t \in Nat
    BY <1>2
  <2>2. s \in 0 .. n - 1 /\ b = t + s
    BY <1>2
  <2> HIDE DEF t, s, q
  <2> QED
    BY <2>1, <2>2 DEF t
<1>5. r * n \in Nat /\ r * n <= a
  <2> DEFINE t == r * n
             s == a % n
  <2>1. t \in Nat
    BY <1>3
  <2>2. s \in 0 .. n - 1 /\ a = t + s
    BY <1>3
  <2> HIDE DEF t, s, r
  <2> QED
    BY <2>1, <2>2 DEF t
<1>6. align_up(a, n) = q * n /\ align_down(a, n) = r * n
  BY DEF align_up, align_down
<1> HIDE DEF q, r
<1> QED
  BY <1>2, <1>3, <1>4, <1>5, <1>6

-----------------------------------------------------------------------------
(* Size classes *)

\* The size of every class is a power of two, and sizes grow.
LEMMA ClassSizes ==
  /\ NUM_SIZE_CLASSES \in Nat \ {0} /\ MIN_BLOCK_SIZE = SIZE_CLASSES[NUM_SIZE_CLASSES]
  /\ \A i \in Classes : SIZE_CLASSES[i] \in Nat \ {0} /\ \E k \in Nat : SIZE_CLASSES[i] = 2 ^ k
  /\ \A i, j \in Classes : i <= j => SIZE_CLASSES[i] <= SIZE_CLASSES[j]
<1> DEFINE N == NUM_SIZE_CLASSES
           C == SIZE_CLASSES
<1>1. N \in Nat \ {0} /\ C \in Seq(Nat \ {0}) /\ DOMAIN C = 1 .. N
  BY HeapAssumption DEF NUM_SIZE_CLASSES
<1>2. MIN_BLOCK_SIZE = C[N]
  BY DEF MIN_BLOCK_SIZE, Last, NUM_SIZE_CLASSES
<1>3. \A i \in Classes : C[i] \in Nat \ {0}
  BY <1>1 DEF Classes
<1>4. \A i \in 1 .. N - 1 : C[i + 1] = 2 * C[i]
  BY HeapAssumption
<1>5. \A i \in Classes : \E k \in Nat : C[i] = 2 ^ k
  <2> DEFINE S == {n \in Nat : n + 1 \in Classes => \E k \in Nat : C[n + 1] = 2 ^ k}
  <2>1. 0 \in S
    BY HeapAssumption DEF PowerOfTwo
  <2>2. ASSUME NEW n \in Nat, n \in S PROVE n + 1 \in S
    <3> SUFFICES ASSUME n + 1 + 1 \in Classes
                 PROVE  \E k \in Nat : C[n + 1 + 1] = 2 ^ k
      OBVIOUS
    <3>1. n + 1 \in Classes /\ n + 1 \in 1 .. N - 1
      BY <1>1 DEF Classes
    <3>2. PICK k \in Nat : C[n + 1] = 2 ^ k
      BY <2>2, <3>1
    <3>3. C[n + 1 + 1] = 2 * C[n + 1]
      BY <1>4, <3>1
    <3>4. 2 ^ (k + 1) = 2 * 2 ^ k /\ k + 1 \in Nat
      BY Doubling
    <3> QED
      BY <3>2, <3>3, <3>4
  <2> HIDE DEF S
  <2>3. \A n \in Nat : n \in S
    BY <2>1, <2>2, NatSet
  <2>4. ASSUME NEW i \in Classes PROVE \E k \in Nat : C[i] = 2 ^ k
    <3>1. i - 1 \in Nat /\ i - 1 + 1 = i
      BY <1>1 DEF Classes
    <3> QED
      BY <2>3, <3>1 DEF S
  <2> QED
    BY <2>4
<1>6. ASSUME NEW i \in Classes, NEW j \in Classes, i <= j
      PROVE  C[i] <= C[j]
  <2> DEFINE S == {n \in Nat : i + n \in Classes => C[i] <= C[i + n]}
  <2>0. i \in Nat \ {0}
    BY <1>1 DEF Classes
  <2>1. 0 \in S
    BY <1>3, <2>0
  <2>2. ASSUME NEW n \in Nat, n \in S PROVE n + 1 \in S
    <3> SUFFICES ASSUME i + (n + 1) \in Classes
                 PROVE  C[i] <= C[i + (n + 1)]
      OBVIOUS
    <3>1. i + n \in Classes /\ i + n \in 1 .. N - 1 /\ i + (n + 1) = (i + n) + 1
      BY <1>1, <2>0 DEF Classes
    <3>2. C[i] <= C[i + n]
      BY <2>2, <3>1
    <3>3. C[i + (n + 1)] = 2 * C[i + n]
      BY <1>4, <3>1
    <3> QED
      BY <3>1, <3>2, <3>3, <1>3
  <2> HIDE DEF S
  <2>3. \A n \in Nat : n \in S
    BY <2>1, <2>2, NatSet
  <2>4. j - i \in Nat /\ i + (j - i) = j
    BY <1>6, <2>0, <1>1 DEF Classes
  <2> QED
    BY <2>3, <2>4 DEF S
<1> QED
  BY <1>1, <1>2, <1>3, <1>5, <1>6

-----------------------------------------------------------------------------
(* Where the slabs lie *)

\* The recursion of slab_end is well defined.
LEMMA SlabEndIs ==
  /\ DOMAIN slab_end = 0 .. NUM_SIZE_CLASSES
  /\ slab_end[0] = HeapStart
  /\ \A i \in Classes : slab_end[i] = slab_end[i - 1] + slab_size(i)
<1> DEFINE N == NUM_SIZE_CLASSES
           Fits(f, n) == /\ DOMAIN f = 0 .. n /\ f[0] = HeapStart
                         /\ \A i \in 1 .. n : f[i] = f[i - 1] + slab_size(i)
           S == {n \in Nat : \E f : Fits(f, n)}
           Body(f) == [i \in 0 .. N |-> IF i = 0 THEN HeapStart ELSE f[i - 1] + slab_size(i)]
<1>0. N \in Nat
  BY ClassSizes
<1>1. 0 \in S
  <2> DEFINE f == [i \in 0 .. 0 |-> HeapStart]
  <2>1. Fits(f, 0)
    OBVIOUS
  <2> QED
    BY <2>1
<1>2. ASSUME NEW n \in Nat, n \in S PROVE n + 1 \in S
  <2>1. PICK f : Fits(f, n)
    BY <1>2
  <2> DEFINE g == [i \in 0 .. n + 1 |-> IF i = n + 1 THEN f[n] + slab_size(n + 1) ELSE f[i]]
  <2>2. DOMAIN g = 0 .. n + 1 /\ g[0] = HeapStart
    BY <2>1
  <2>3. ASSUME NEW i \in 1 .. n + 1 PROVE g[i] = g[i - 1] + slab_size(i)
    <3>1. i \in 0 .. n + 1 /\ i - 1 \in 0 .. n + 1 /\ i - 1 # n + 1
      OBVIOUS
    <3>2. g[i - 1] = f[i - 1]
      BY <3>1
    <3>3. CASE i = n + 1
      <4>1. g[i] = f[n] + slab_size(i) /\ i - 1 = n
        BY <3>1, <3>3
      <4> QED
        BY <3>2, <4>1, Zenon
    <3>4. CASE i # n + 1
      <4>1. g[i] = f[i] /\ i \in 1 .. n
        BY <3>1, <3>4
      <4> QED
        BY <2>1, <3>2, <4>1
    <3> QED
      BY <3>3, <3>4
  <2> HIDE DEF g
  <2>4. Fits(g, n + 1)
    BY <2>2, <2>3
  <2> QED
    BY <2>4
<1>3. N \in S
  <2> HIDE DEF S
  <2> QED
    BY <1>0, <1>1, <1>2, NatSet
<1>4. PICK h : Fits(h, N)
  BY <1>3
<1> DEFINE f == [i \in 0 .. N |-> h[i]]
<1>5. f = Body(f)
  <2>1. \A i \in 0 .. N : f[i] = Body(f)[i]
    <3>1. ASSUME NEW i \in 0 .. N PROVE f[i] = Body(f)[i]
      <4>1. CASE i = 0
        BY <1>4, <4>1, <1>0
      <4>2. CASE i # 0
        <5>1. i \in 1 .. N /\ i - 1 \in 0 .. N
          BY <4>2, <1>0
        <5>2. f[i] = h[i] /\ f[i - 1] = h[i - 1]
          BY <5>1
        <5>3. h[i] = h[i - 1] + slab_size(i)
          BY <1>4, <5>1
        <5> QED
          BY <5>2, <5>3, <4>2
      <4> QED
        BY <4>1, <4>2
    <3> QED
      BY <3>1
  <2> QED
    BY <2>1
<1>6. \E e : e = Body(e)
  <2> HIDE DEF f, Body
  <2> QED
    BY <1>5
<1>7. slab_end = Body(slab_end)
  BY <1>6 DEF slab_end
<1> QED
  BY <1>7, <1>0 DEF Classes

\* The size of a slab is a multiple of its class's and at most its share.
LEMMA SlabSizeIs ==
  ASSUME NEW i \in Classes
  PROVE  /\ slab_size(i) \in Nat /\ num_blocks(i) \in Nat
         /\ slab_size(i) = num_blocks(i) * SIZE_CLASSES[i]
         /\ slab_size(i) <= slab_region_size \div NUM_SIZE_CLASSES
<1> DEFINE q == slab_region_size \div NUM_SIZE_CLASSES
           z == SIZE_CLASSES[i]
<1>1. z \in Nat \ {0}
  BY ClassSizes
<1>2. q \in Nat
  <2>1. slab_region_size \in Nat
    BY HeapAssumption DEF slab_region_size
  <2>2. NUM_SIZE_CLASSES \in Nat \ {0}
    BY ClassSizes
  <2> QED
    BY <2>1, <2>2
<1>3. slab_size(i) = align_down(q, z) /\ num_blocks(i) = slab_size(i) \div z
  BY DEF slab_size, num_blocks
<1> HIDE DEF q, z
<1>4. PICK c \in Nat : align_down(q, z) = c * z
  BY <1>1, <1>2, Rounding
<1>5. align_down(q, z) \in Nat /\ align_down(q, z) <= q
  BY <1>1, <1>2, Rounding
<1>6. (c * z) \div z = c
  BY <1>1, MultipleDiv
<1> QED
  BY <1>3, <1>4, <1>5, <1>6 DEF q, z

\* Slabs follow each other, and all end before the buddy allocator's region.
LEMMA SlabPlaces ==
  /\ \A i \in 0 .. NUM_SIZE_CLASSES :
       slab_end[i] \in Nat /\ slab_end[i] >= HeapStart
       /\ slab_end[i] <= buddy_start /\ slab_end[i] <= HeapStart + HeapSize
  /\ \A i, j \in 0 .. NUM_SIZE_CLASSES : i <= j => slab_end[i] <= slab_end[j]
  /\ buddy_start \in Nat /\ HeapStart <= buddy_start
<1> DEFINE N == NUM_SIZE_CLASSES
           q == slab_region_size \div N
<1>1. N \in Nat \ {0} /\ MIN_BLOCK_SIZE \in Nat \ {0}
  BY ClassSizes DEF Classes
<1>2. /\ slab_region_size \in Nat /\ slab_region_size <= HeapSize
      /\ HeapStart \in Nat /\ HeapSize \in Nat
  BY HeapAssumption DEF slab_region_size
<1>3. buddy_start \in Nat /\ buddy_start >= HeapStart + slab_region_size
  <2> DEFINE w == HeapStart + slab_region_size
  <2>1. w \in Nat /\ buddy_start = align_up(w, MIN_BLOCK_SIZE)
    BY <1>2 DEF buddy_start
  <2> HIDE DEF w
  <2>2. buddy_start \in Nat /\ buddy_start >= w
    BY <1>1, <2>1, Rounding
  <2> QED
    BY <2>2 DEF w
<1>4. q \in Nat /\ q * N <= slab_region_size
  <2>1. q \in Nat /\ slab_region_size % N \in 0 .. N - 1
        /\ slab_region_size = q * N + (slab_region_size % N)
    BY <1>1, <1>2, DivMod
  <2> DEFINE t == q * N
             r == slab_region_size % N
  <2>2. t \in Nat /\ r \in Nat /\ slab_region_size = t + r
    BY <2>1, <1>1
  <2> HIDE DEF t, r
  <2>3. t <= slab_region_size
    BY <2>2, <1>2
  <2> QED
    BY <2>1, <2>3 DEF t
<1>5. \A i \in Classes : slab_size(i) \in Nat /\ slab_size(i) <= q
  BY SlabSizeIs
<1> DEFINE S == {n \in Nat : n <= N =>
                   slab_end[n] \in Nat /\ slab_end[n] >= HeapStart /\ slab_end[n] <= HeapStart + n * q}
<1> HIDE DEF q
<1>6. 0 \in S
  <2>1. 0 * q = 0
    BY <1>4
  <2> QED
    BY <2>1, <1>2, SlabEndIs
<1>7. ASSUME NEW n \in Nat, n \in S PROVE n + 1 \in S
  <2> SUFFICES ASSUME n + 1 <= N
               PROVE  /\ slab_end[n + 1] \in Nat /\ slab_end[n + 1] >= HeapStart
                      /\ slab_end[n + 1] <= HeapStart + (n + 1) * q
    OBVIOUS
  <2>1. n + 1 \in Classes /\ (n + 1) - 1 = n
    BY <1>1 DEF Classes
  <2>2. slab_end[n + 1] = slab_end[n] + slab_size(n + 1)
    BY <2>1, SlabEndIs
  <2>3. slab_end[n] \in Nat /\ slab_end[n] >= HeapStart /\ slab_end[n] <= HeapStart + n * q
    BY <1>7, <1>1
  <2>4. slab_size(n + 1) \in Nat /\ slab_size(n + 1) <= q
    BY <1>5, <2>1
  <2> DEFINE e == slab_end[n]
             z == slab_size(n + 1)
             t == n * q
  <2>5. t \in Nat /\ (n + 1) * q = t + q
    BY <1>4
  <2>6. e \in Nat /\ e >= HeapStart /\ e <= HeapStart + t /\ z \in Nat /\ z <= q
    BY <2>3, <2>4
  <2> HIDE DEF e, z, t
  <2>7. e + z \in Nat /\ e + z >= HeapStart /\ e + z <= HeapStart + (t + q)
    BY <2>5, <2>6, <1>2, <1>4
  <2> QED
    BY <2>2, <2>5, <2>7 DEF e, z
<1>8. \A n \in Nat : n \in S
  <2> HIDE DEF S
  <2> QED
    BY <1>6, <1>7, NatSet
<1>9. \A i \in 0 .. N : slab_end[i] \in Nat /\ slab_end[i] >= HeapStart /\ slab_end[i] <= HeapStart + i * q
  BY <1>8, <1>1
<1>10. ASSUME NEW i \in 0 .. N, NEW j \in 0 .. N, i <= j
       PROVE  slab_end[i] <= slab_end[j]
  <2> DEFINE T == {n \in Nat : i + n <= N => slab_end[i] <= slab_end[i + n]}
  <2>1. 0 \in T
    BY <1>9
  <2>2. ASSUME NEW n \in Nat, n \in T PROVE n + 1 \in T
    <3> SUFFICES ASSUME i + (n + 1) <= N PROVE slab_end[i] <= slab_end[i + (n + 1)]
      OBVIOUS
    <3>1. i + (n + 1) \in Classes /\ (i + (n + 1)) - 1 = i + n /\ i + n \in 0 .. N
      BY <1>1 DEF Classes
    <3>2. slab_end[i + (n + 1)] = slab_end[i + n] + slab_size(i + (n + 1))
      BY <3>1, SlabEndIs
    <3>3. slab_end[i] <= slab_end[i + n]
      BY <2>2, <3>1
    <3> QED
      BY <1>5, <1>9, <3>1, <3>2, <3>3
  <2> HIDE DEF T
  <2>3. \A n \in Nat : n \in T
    BY <2>1, <2>2, NatSet
  <2>4. j - i \in Nat /\ i + (j - i) = j /\ j <= N
    BY <1>10
  <2> QED
    BY <2>3, <2>4 DEF T
<1>11. slab_end[N] <= HeapStart + slab_region_size
  <2>1. slab_end[N] <= HeapStart + N * q /\ slab_end[N] \in Nat
    BY <1>9, <1>1
  <2>2. N * q = q * N
    BY <1>1, <1>4
  <2> DEFINE t == q * N
  <2>3. t \in Nat /\ t <= slab_region_size
    BY <1>1, <1>4
  <2>4. slab_end[N] <= HeapStart + t
    BY <2>1, <2>2
  <2> HIDE DEF t
  <2> QED
    BY <2>1, <2>3, <2>4, <1>2
<1>12. ASSUME NEW i \in 0 .. N
       PROVE  slab_end[i] <= buddy_start /\ slab_end[i] <= HeapStart + HeapSize
  <2>1. slab_end[i] <= slab_end[N] /\ slab_end[i] \in Nat /\ slab_end[N] \in Nat
    BY <1>1, <1>9, <1>10
  <2> QED
    BY <2>1, <1>2, <1>3, <1>11
<1> QED
  BY <1>2, <1>3, <1>9, <1>10, <1>12

\* The blocks of slab i: the m-th starts m sizes after the slab's start, and
\* init lists every one of them once.
LEMMA SlabBlocks ==
  ASSUME NEW i \in Classes
  PROVE  /\ slab_start(i) \in Nat
         /\ InitSlab(i) \in Seq(Nat) /\ NoRepeat(InitSlab(i))
         /\ \A p \in ToSet(InitSlab(i)) :
              /\ \E m \in Nat : p = slab_start(i) + m * SIZE_CLASSES[i]
              /\ p \in Nat /\ p >= slab_start(i)
              /\ p + SIZE_CLASSES[i] <= slab_end[i]
<1> DEFINE z == SIZE_CLASSES[i]
           s == slab_start(i)
           n == num_blocks(i)
           P(j) == s + (n - j) * z
<1>1. z \in Nat \ {0} /\ i \in 0 .. NUM_SIZE_CLASSES /\ i - 1 \in 0 .. NUM_SIZE_CLASSES
  BY ClassSizes DEF Classes
<1>2. s \in Nat
  BY <1>1, SlabPlaces DEF slab_start
<1>3. slab_end[i] = s + n * z /\ n \in Nat
  BY SlabEndIs, SlabSizeIs DEF slab_start
<1>4. InitSlab(i) = [j \in 1 .. n |-> P(j)]
  BY DEF InitSlab
<1> HIDE DEF z, s, n
<1>5. ASSUME NEW j \in 1 .. n
      PROVE  n - j \in Nat /\ P(j) \in Nat /\ P(j) >= s /\ P(j) + z <= s + n * z
  <2> DEFINE m == n - j
             r == j - 1
  <2>1. m \in Nat /\ r \in Nat /\ n = m + r + 1
    BY <1>3
  <2>2. n * z = m * z + r * z + z
    <3> HIDE DEF m, r
    <3> QED
      BY <2>1, <1>1
  <2>3. m * z \in Nat /\ r * z \in Nat
    <3> HIDE DEF m, r
    <3> QED
      BY <2>1, <1>1
  <2> DEFINE x == m * z
             y == r * z
  <2>4. x \in Nat /\ y \in Nat /\ n * z = x + y + z /\ P(j) = s + x
    BY <2>2, <2>3
  <2> HIDE DEF x, y, P, m, r
  <2> QED
    BY <2>1, <2>4, <1>1, <1>2 DEF m
<1>6. \A j, k \in 1 .. n : P(j) = P(k) => j = k
  <2>1. ASSUME NEW j \in 1 .. n, NEW k \in 1 .. n, j < k
        PROVE  P(j) > P(k)
    <3> DEFINE m == n - k
               d == k - j
    <3>1. m \in Nat /\ d \in Nat /\ d >= 1 /\ n - j = m + d
      BY <1>3, <2>1
    <3>2. (n - j) * z = m * z + d * z /\ m * z \in Nat /\ d * z \in Nat /\ d * z >= z
      <4> HIDE DEF m, d
      <4> QED
        BY <3>1, <1>1
    <3> DEFINE x == m * z
               y == d * z
    <3>3. P(j) = s + (x + y) /\ P(k) = s + x /\ x \in Nat /\ y \in Nat /\ y >= z
      BY <3>2
    <3> HIDE DEF x, y, P
    <3> QED
      BY <3>3, <1>1, <1>2
  <2>2. \A j \in 1 .. n : P(j) \in Nat
    BY <1>5
  <2>3. ASSUME NEW j \in 1 .. n, NEW k \in 1 .. n, P(j) = P(k) PROVE j = k
    <3> HIDE DEF P
    <3>1. ~(j < k) /\ ~(k < j)
      BY <2>1, <2>2, <2>3
    <3> QED
      BY <3>1, <1>3
  <2> QED
    BY <2>3
<1>7. InitSlab(i) \in Seq(Nat) /\ DOMAIN InitSlab(i) = 1 .. n
  <2>1. \A j \in 1 .. n : P(j) \in Nat
    BY <1>5
  <2> HIDE DEF P
  <2> QED
    BY <1>3, <1>4, <2>1
<1>8. NoRepeat(InitSlab(i))
  <2> HIDE DEF P
  <2>1. \A j \in 1 .. n : InitSlab(i)[j] = P(j)
    BY <1>4
  <2> QED
    BY <1>6, <1>7, <2>1, Zenon DEF NoRepeat
<1>9. ASSUME NEW p \in ToSet(InitSlab(i))
      PROVE  /\ \E m \in Nat : p = s + m * z
             /\ p \in Nat /\ p >= s /\ p + z <= slab_end[i]
  <2>1. PICK j \in 1 .. n : p = P(j)
    <3> HIDE DEF P
    <3> QED
      BY <1>4, <1>7, Zenon DEF ToSet
  <2>2. n - j \in Nat /\ p = s + (n - j) * z
    BY <1>5, <2>1
  <2>3. p \in Nat /\ p >= s /\ p + z <= slab_end[i]
    <3> HIDE DEF P
    <3> QED
      BY <1>3, <1>5, <2>1
  <2> QED
    BY <2>2, <2>3, Zenon
<1> QED
  BY <1>2, <1>7, <1>8, <1>9 DEF z, s

\* Blocks of two slabs, or two blocks of one, have no byte in common, and no
\* block reaches the buddy allocator's region.
LEMMA SlabsApart ==
  ASSUME NEW i \in Classes, NEW p \in ToSet(InitSlab(i))
  PROVE  /\ p \in Nat /\ p >= HeapStart /\ p < buddy_start
         /\ p + SIZE_CLASSES[i] <= buddy_start
         /\ p + SIZE_CLASSES[i] <= HeapStart + HeapSize
         /\ \A j \in Classes : \A r \in ToSet(InitSlab(j)) :
              \/ i = j /\ p = r
              \/ p + SIZE_CLASSES[i] <= r
              \/ r + SIZE_CLASSES[j] <= p
<1> DEFINE N == NUM_SIZE_CLASSES
<1>1. N \in Nat \ {0} /\ \A j \in Classes : /\ j \in 1 .. N /\ j \in 0 .. N /\ j - 1 \in 0 .. N
                                            /\ SIZE_CLASSES[j] \in Nat \ {0}
  BY ClassSizes DEF Classes
<1>2. /\ p \in Nat /\ p >= slab_end[i - 1] /\ p + SIZE_CLASSES[i] <= slab_end[i]
      /\ slab_end[i - 1] \in Nat /\ slab_end[i - 1] >= HeapStart
      /\ slab_end[i] \in Nat /\ slab_end[i] <= buddy_start /\ slab_end[i] <= HeapStart + HeapSize
  BY <1>1, SlabBlocks, SlabPlaces DEF slab_start
<1>3. /\ p \in Nat /\ p >= HeapStart /\ p < buddy_start
      /\ p + SIZE_CLASSES[i] <= buddy_start
      /\ p + SIZE_CLASSES[i] <= HeapStart + HeapSize
  <2> DEFINE z == SIZE_CLASSES[i]
             e == slab_end[i]
             b == slab_end[i - 1]
  <2>1. z \in Nat \ {0} /\ p \in Nat /\ p >= b /\ p + z <= e /\ b \in Nat /\ b >= HeapStart
        /\ e \in Nat /\ e <= buddy_start /\ e <= HeapStart + HeapSize
    BY <1>1, <1>2
  <2>2. HeapStart \in Nat /\ HeapSize \in Nat /\ buddy_start \in Nat
    BY SlabPlaces, HeapAssumption
  <2> HIDE DEF z, e, b
  <2>3. p >= HeapStart /\ p + z <= buddy_start /\ p < buddy_start /\ p + z <= HeapStart + HeapSize
    BY <2>1, <2>2
  <2> QED
    BY <2>1, <2>3 DEF z
<1>4. ASSUME NEW j \in Classes, NEW r \in ToSet(InitSlab(j))
      PROVE  \/ i = j /\ p = r
             \/ p + SIZE_CLASSES[i] <= r
             \/ r + SIZE_CLASSES[j] <= p
  <2>1. /\ r \in Nat /\ r >= slab_end[j - 1] /\ r + SIZE_CLASSES[j] <= slab_end[j]
        /\ slab_end[j - 1] \in Nat /\ slab_end[j] \in Nat
    BY <1>1, SlabBlocks, SlabPlaces DEF slab_start
  <2>2. CASE i < j
    <3>1. slab_end[i] <= slab_end[j - 1]
      BY <1>1, <2>2, SlabPlaces
    <3> QED
      BY <1>1, <1>2, <2>1, <3>1
  <2>3. CASE j < i
    <3>1. slab_end[j] <= slab_end[i - 1]
      BY <1>1, <2>3, SlabPlaces
    <3> QED
      BY <1>1, <1>2, <2>1, <3>1
  <2>4. CASE i = j
    <3> DEFINE z == SIZE_CLASSES[i]
               s == slab_start(i)
    <3>1. s \in Nat /\ z \in Nat \ {0}
      BY <1>1, SlabBlocks
    <3>2. PICK m \in Nat : p = s + m * z
      BY SlabBlocks
    <3>3. PICK n \in Nat : r = s + n * z
      BY <2>4, SlabBlocks
    <3> HIDE DEF s, z
    <3>4. CASE m = n
      BY <2>4, <3>2, <3>3, <3>4
    <3>5. CASE m < n
      <4> DEFINE d == (n - m) - 1
      <4>1. d \in Nat /\ n = m + d + 1
        BY <3>5
      <4>2. n * z = m * z + d * z + z /\ m * z \in Nat /\ d * z \in Nat
        <5> HIDE DEF d
        <5> QED
          BY <4>1, <3>1
      <4> DEFINE x == m * z
                 y == d * z
      <4>3. p = s + x /\ r = s + (x + y + z) /\ x \in Nat /\ y \in Nat
        BY <3>2, <3>3, <4>2
      <4> HIDE DEF x, y
      <4>4. p + z <= r
        BY <4>3, <3>1
      <4> QED
        BY <4>4 DEF z
    <3>6. CASE n < m
      <4> DEFINE d == (m - n) - 1
      <4>1. d \in Nat /\ m = n + d + 1
        BY <3>6
      <4>2. m * z = n * z + d * z + z /\ n * z \in Nat /\ d * z \in Nat
        <5> HIDE DEF d
        <5> QED
          BY <4>1, <3>1
      <4> DEFINE x == n * z
                 y == d * z
      <4>3. r = s + x /\ p = s + (x + y + z) /\ x \in Nat /\ y \in Nat
        BY <3>2, <3>3, <4>2
      <4> HIDE DEF x, y
      <4>4. r + z <= p
        BY <4>3, <3>1
      <4> QED
        BY <4>4, <2>4 DEF z
    <3> QED
      BY <3>4, <3>5, <3>6
  <2> QED
    BY <2>2, <2>3, <2>4, <1>1
<1> QED
  BY <1>3, <1>4

-----------------------------------------------------------------------------
(* Layouts *)

\* Exponents add up.
LEMMA PowSum ==
  ASSUME NEW k \in Nat, NEW m \in Nat
  PROVE  2 ^ k * 2 ^ m = 2 ^ (k + m)
<1> DEFINE S == {n \in Nat : 2 ^ k * 2 ^ n = 2 ^ (k + n)}
<1>1. 0 \in S
  BY PowPos
<1>2. ASSUME NEW n \in Nat, n \in S PROVE n + 1 \in S
  <2>1. 2 ^ k * 2 ^ n = 2 ^ (k + n)
    BY <1>2
  <2>2. 2 ^ (n + 1) = 2 * 2 ^ n /\ 2 ^ n \in Nat /\ 2 ^ k \in Nat
    BY Doubling
  <2>3. 2 ^ ((k + n) + 1) = 2 * 2 ^ (k + n) /\ k + (n + 1) = (k + n) + 1
    BY Doubling
  <2> DEFINE x == 2 ^ k
             y == 2 ^ n
  <2>4. x \in Nat /\ y \in Nat /\ 2 ^ (n + 1) = 2 * y /\ 2 ^ (k + (n + 1)) = 2 * (x * y)
    BY <2>1, <2>2, <2>3
  <2>5. x * (2 * y) = 2 * (x * y)
    <3> HIDE DEF x, y
    <3> QED
      BY <2>4
  <2> QED
    BY <2>4, <2>5
<1> HIDE DEF S
<1>3. \A n \in Nat : n \in S
  BY <1>1, <1>2, NatSet
<1> QED
  BY <1>3 DEF S

\* A multiple of a power of two is one of every lesser power.
LEMMA PowMultiple ==
  ASSUME NEW n \in Nat, NEW k \in Nat, 2 ^ n <= 2 ^ k, NEW m \in Nat
  PROVE  (m * 2 ^ k) % 2 ^ n = 0
<1>1. 2 ^ n \in Nat \ {0} /\ 2 ^ k \in Nat \ {0}
  BY PowPos
<1>2. n <= k
  <2>1. k < n => 2 ^ k + 2 ^ k <= 2 ^ n
    BY PowDivides
  <2> QED
    BY <1>1, <2>1
<1>3. PICK c \in Nat \ {0} : 2 ^ k = c * 2 ^ n
  BY <1>2, PowDivides
<1> DEFINE y == 2 ^ n
           q == m * c
<1>4. q \in Nat /\ m * 2 ^ k = q * y
  <2>1. m * (c * y) = (m * c) * y
    <3> HIDE DEF y
    <3> QED
      BY <1>1 DEF y
  <2> QED
    BY <1>3, <2>1
<1> HIDE DEF q
<1> QED
  BY <1>1, <1>4, MultipleDiv

\* A layout's bytes hold its size and its alignment; its pages hold its bytes.
LEMMA LayoutFacts ==
  ASSUME NEW l \in Layouts
  PROVE  /\ Bytes(l) \in Nat \ {0} /\ l.align <= Bytes(l) /\ l.align \in Nat
         /\ \E n \in Nat : l.align = 2 ^ n
         /\ PagesOf(l) \in Requests /\ PagesOf(l) \in Nat
         /\ Bytes(l) <= PagesOf(l) * MIN_BLOCK_SIZE
<1> DEFINE S == {l.size, l.align}
           M == MIN_BLOCK_SIZE
<1>1. l.size \in Nat \ {0} /\ l.align \in Nat \ {0}
  BY HeapAssumption
<1>2. Max(S) \in S /\ \A x \in S : x <= Max(S)
  <2>1. l.size + l.align \in Nat /\ \A x \in S : x <= l.size + l.align
    BY <1>1
  <2>2. S \in SUBSET Nat /\ S # {}
    BY <1>1
  <2> HIDE DEF S
  <2> QED
    BY <2>1, <2>2, MaxNat
<1>3. Bytes(l) \in Nat \ {0} /\ l.align <= Bytes(l)
  BY <1>1, <1>2 DEF Bytes
<1>4. \E n \in Nat : l.align = 2 ^ n
  BY <1>1, HeapAssumption DEF PowerOfTwo
<1>5. M \in Nat \ {0}
  BY ClassSizes DEF Classes
<1>6. PICK q \in Nat : align_up(Bytes(l), M) = q * M
  BY <1>3, <1>5, Rounding
<1>7. align_up(Bytes(l), M) >= Bytes(l)
  BY <1>3, <1>5, Rounding
<1>8. (q * M) \div M = q
  BY <1>5, MultipleDiv
<1>9. PagesOf(l) = q
  BY <1>6, <1>8 DEF PagesOf
<1>10. PagesOf(l) \in Requests
  BY BuddyHalf
<1> HIDE DEF M
<1>11. Bytes(l) <= q * M
  BY <1>6, <1>7, <1>3, <1>5
<1> QED
  BY <1>1, <1>3, <1>4, <1>9, <1>10, <1>11 DEF M

\* The class chosen for a number of bytes holds them.
LEMMA ClassChosen ==
  ASSUME NEW n \in Nat, ClassesFor(n) # {}
  PROVE  size_to_class(n) \in Classes /\ SIZE_CLASSES[size_to_class(n)] >= n
<1>1. ClassesFor(n) \in SUBSET Nat
  BY ClassSizes DEF ClassesFor, Classes
<1>2. Min(ClassesFor(n)) \in ClassesFor(n)
  BY <1>1, MinNat
<1> QED
  BY <1>2 DEF size_to_class, ClassesFor

\* Pages of the region and their addresses.
LEMMA PageAddresses ==
  ASSUME NEW p \in Nat
  PROVE  /\ PageAddr(p) \in Nat /\ PageAddr(p) >= buddy_start
         /\ PageAddr(p) = buddy_start + p * MIN_BLOCK_SIZE
         /\ PageOf(PageAddr(p)) = p
<1> DEFINE M == MIN_BLOCK_SIZE
           x == p * M
<1>1. M \in Nat \ {0}
  BY ClassSizes DEF Classes
<1>2. x \in Nat /\ x \div M = p
  BY <1>1, MultipleDiv
<1>3. buddy_start \in Nat
  BY SlabPlaces
<1>4. PageAddr(p) = buddy_start + x
  BY DEF PageAddr
<1> HIDE DEF x
<1>5. PageAddr(p) \in Nat /\ PageAddr(p) >= buddy_start /\ PageAddr(p) - buddy_start = x
  BY <1>2, <1>3, <1>4
<1>6. PageOf(PageAddr(p)) = x \div M
  BY <1>5 DEF PageOf
<1> QED
  BY <1>2, <1>4, <1>5, <1>6 DEF x

\* The buddy allocator's pages lie in the heap.
LEMMA RegionInHeap ==
  ASSUME NEW n \in Nat, 0 < n, n <= RegionPages
  PROVE  buddy_start + n * MIN_BLOCK_SIZE <= HeapStart + HeapSize
<1> DEFINE M == MIN_BLOCK_SIZE
           S == {buddy_end - buddy_start, 0}
           w == HeapStart + HeapSize
<1>1. M \in Nat \ {0} /\ buddy_start \in Nat /\ HeapStart \in Nat /\ HeapSize \in Nat
  BY ClassSizes, SlabPlaces, HeapAssumption DEF Classes
<1>2. buddy_end \in Nat /\ buddy_end <= w
  <2>1. w \in Nat /\ buddy_end = align_down(w, M)
    BY <1>1 DEF buddy_end
  <2> HIDE DEF w
  <2> QED
    BY <1>1, <2>1, Rounding
<1>3. Max(S) \in S /\ Max(S) >= 0
  <2>1. \E m \in S : \A x \in S : m >= x
    <3>1. CASE buddy_end - buddy_start >= 0
      BY <3>1, <1>1, <1>2
    <3>2. CASE ~(buddy_end - buddy_start >= 0)
      BY <3>2, <1>1, <1>2
    <3> QED
      BY <3>1, <3>2
  <2>2. Max(S) \in S /\ \A x \in S : Max(S) >= x
    <3> HIDE DEF S
    <3> QED
      BY <2>1, Zenon DEF Max
  <2> QED
    BY <2>2
<1> DEFINE d == Max(S)
<1>4. d \in Nat /\ RegionPages = d \div M
  <2>1. RegionPages = d \div M
    BY BuddyHalf
  <2> QED
    BY <1>1, <1>2, <1>3, <2>1
<1>5. RegionPages \in Nat /\ RegionPages * M <= d
  <2>1. d \div M \in Nat /\ d % M \in 0 .. M - 1 /\ d = (d \div M) * M + (d % M)
    <3> HIDE DEF d
    <3> QED
      BY <1>1, <1>4, DivMod
  <2> DEFINE t == RegionPages * M
             r == d % M
  <2>2. t \in Nat /\ r \in Nat /\ d = t + r
    <3> DEFINE g == d \div M
    <3>1. g \in Nat /\ r \in 0 .. M - 1 /\ d = g * M + r /\ RegionPages = g
      BY <1>4, <2>1
    <3> HIDE DEF g, r, d, M
    <3> QED
      BY <3>1, <1>1
  <2> HIDE DEF t, r, d
  <2>3. t <= d
    BY <2>2
  <2> QED
    BY <1>4, <2>1, <2>3 DEF t
<1>6. n * M <= RegionPages * M /\ n * M >= 1 /\ n * M \in Nat /\ RegionPages * M \in Nat
  <2> DEFINE e == RegionPages - n
  <2>1. e \in Nat /\ RegionPages = n + e
    BY <1>5
  <2>2. RegionPages * M = n * M + e * M /\ n * M \in Nat /\ e * M \in Nat
    <3> HIDE DEF e
    <3> QED
      BY <1>1, <2>1
  <2>3. n * M >= 1
    <3> HIDE DEF M
    <3> QED
      BY <1>1
  <2> DEFINE x == n * M
             y == e * M
  <2> HIDE DEF x, y, e, M
  <2> QED
    BY <2>2, <2>3 DEF x, y
<1> DEFINE x == n * M
           y == RegionPages * M
<1>7. x \in Nat /\ y \in Nat /\ 1 <= x /\ x <= y /\ y <= d
  BY <1>5, <1>6
<1>8. d = buddy_end - buddy_start
  BY <1>1, <1>2, <1>3, <1>7
<1> HIDE DEF x, y, d, w
<1>9. buddy_start + x <= w
  <2>1. w \in Nat
    BY <1>1 DEF w
  <2> QED
    BY <1>1, <1>2, <1>7, <1>8, <2>1
<1> QED
  BY <1>9 DEF x, w

-----------------------------------------------------------------------------
(* The invariant *)

HeapTypeOK ==
  /\ slab_caches \in [Classes -> Seq(Nat)]
  /\ allocated \subseteq [ptr : Nat, layout : Layouts]
  /\ call \in [Callers -> Layouts \cup {NoCall}]

InBuddy(u) == u.ptr >= buddy_start

ClassOf(u) == size_to_class(Bytes(u.layout))

\* What the buddy allocator knows of an allocation.
RecordOf(u) == [addr |-> PageOf(u.ptr), size |-> PagesOf(u.layout)]

\* The blocks of cache i that callers hold.
InUse(i) ==
  {u.ptr : u \in {v \in allocated :
     v.ptr < buddy_start /\ ClassesFor(Bytes(v.layout)) # {} /\ ClassOf(v) = i}}

\* No two allocations have the same address.
HeldOnce == \A u, v \in allocated : u.ptr = v.ptr => u = v

\* What is held above buddy_start is a page that the buddy allocator handed out.
HeldPages ==
  \A u \in allocated : InBuddy(u) =>
    RecordOf(u) \in live /\ PageOf(u.ptr) \in Nat /\ u.ptr = PageAddr(PageOf(u.ptr))

\* What is held below it has a class.
HeldBlocks == \A u \in allocated : ~InBuddy(u) => ClassesFor(Bytes(u.layout)) # {}

\* A cache's blocks are on its list or in use, each once.
CacheOK(i) ==
  /\ ToSet(slab_caches[i]) \cup InUse(i) = ToSet(InitSlab(i))
  /\ ToSet(slab_caches[i]) \cap InUse(i) = {}
  /\ NoRepeat(slab_caches[i])

HeapInv ==
  /\ BuddyInv
  /\ HeapTypeOK
  /\ HeldOnce
  /\ HeldPages
  /\ HeldBlocks
  /\ \A i \in Classes : CacheOK(i)

\* The caches are as SlabConserved says.
LEMMA InvSlabConserved == HeapInv => SlabConserved
<1> SUFFICES ASSUME HeapInv, NEW i \in Classes
             PROVE  /\ ToSet(slab_caches[i]) \cup InUse(i) = ToSet(InitSlab(i))
                    /\ ToSet(slab_caches[i]) \cap InUse(i) = {}
                    /\ IsInjective(slab_caches[i])
  BY DEF SlabConserved, InUse, ClassOf
<1> QED
  BY Zenon DEF HeapInv, CacheOK, NoRepeat, IsInjective

\* A block in use below buddy_start is one of the blocks of its class's slab.
LEMMA HeldBlock ==
  ASSUME HeapInv, NEW u \in allocated, ~InBuddy(u)
  PROVE  /\ ClassOf(u) \in Classes /\ u.ptr \in InUse(ClassOf(u))
         /\ u.ptr \in ToSet(InitSlab(ClassOf(u)))
         /\ Bytes(u.layout) \in Nat \ {0} /\ u.layout \in Layouts
         /\ SIZE_CLASSES[ClassOf(u)] >= Bytes(u.layout)
         /\ SIZE_CLASSES[ClassOf(u)] \in Nat \ {0}
<1>1. u.ptr \in Nat /\ u.layout \in Layouts
  BY DEF HeapInv, HeapTypeOK
<1>2. Bytes(u.layout) \in Nat \ {0}
  BY <1>1, LayoutFacts
<1>3. ClassesFor(Bytes(u.layout)) # {}
  BY DEF HeapInv, HeldBlocks
<1>4. ClassOf(u) \in Classes /\ SIZE_CLASSES[ClassOf(u)] >= Bytes(u.layout)
  BY <1>2, <1>3, ClassChosen DEF ClassOf
<1>5. u.ptr < buddy_start
  BY <1>1, SlabPlaces DEF InBuddy
<1>6. u.ptr \in InUse(ClassOf(u))
  BY <1>3, <1>5, Zenon DEF InUse
<1>7. u.ptr \in ToSet(InitSlab(ClassOf(u)))
  BY <1>4, <1>6, Zenon DEF HeapInv, CacheOK
<1>8. SIZE_CLASSES[ClassOf(u)] \in Nat \ {0}
  BY <1>4, ClassSizes
<1> QED
  BY <1>1, <1>2, <1>4, <1>6, <1>7, <1>8

\* A page in use is the start of an aligned block that holds the bytes asked for.
LEMMA HeldPage ==
  ASSUME HeapInv, NEW u \in allocated, InBuddy(u)
  PROVE  \E k \in Nat :
           /\ <<PageOf(u.ptr), k>> \in UsedBlocks /\ k = size_to_order(PagesOf(u.layout))
           /\ Aligned(PageOf(u.ptr), k) /\ PageOf(u.ptr) \in Nat
           /\ 2 ^ k \in Nat \ {0} /\ PageOf(u.ptr) + 2 ^ k <= RegionPages
           /\ u.ptr = buddy_start + PageOf(u.ptr) * MIN_BLOCK_SIZE
           /\ u.layout \in Layouts /\ Bytes(u.layout) \in Nat \ {0}
           /\ Bytes(u.layout) <= 2 ^ k * MIN_BLOCK_SIZE
<1> DEFINE p == PageOf(u.ptr)
           n == PagesOf(u.layout)
           k == size_to_order(n)
           M == MIN_BLOCK_SIZE
<1>1. u.layout \in Layouts /\ RecordOf(u) \in live /\ p \in Nat /\ u.ptr = PageAddr(p)
  BY DEF HeapInv, HeapTypeOK, HeldPages
<1>2. BuddyInv /\ BuddyTypeOK
  BY DEF HeapInv, BuddyInv
<1>3. RecordOf(u).addr = p /\ RecordOf(u).size = n
  BY DEF RecordOf
<1>4. <<p, k>> \in UsedBlocks
  BY <1>1, <1>2, <1>3, UsedBlocksAre, Zenon
<1> DEFINE b == <<p, k>>
<1>5. b \in Blocks /\ b[1] = p /\ b[2] = k
  BY <1>4 DEF Blocks
<1>6. k \in Nat /\ Aligned(p, k) /\ p + 2 ^ k <= RegionPages /\ 2 ^ k \in Nat /\ 2 ^ k > 0
  <2> HIDE DEF b, p, k
  <2> QED
    BY <1>2, <1>5, BlockFacts
<1>7. u.ptr = buddy_start + p * M
  BY <1>1, PageAddresses
<1>8. Bytes(u.layout) \in Nat \ {0} /\ n \in Nat /\ Bytes(u.layout) <= n * M
  BY <1>1, LayoutFacts
<1>9. 2 ^ k >= n
  BY <1>8, SizeToOrder
<1>10. M \in Nat \ {0}
  BY ClassSizes DEF Classes
<1>11. Bytes(u.layout) <= 2 ^ k * M
  <2> DEFINE z == 2 ^ k
             e == z - n
  <2>1. e \in Nat /\ z = n + e /\ z \in Nat
    BY <1>6, <1>8, <1>9
  <2>2. z * M = n * M + e * M /\ n * M \in Nat /\ e * M \in Nat
    <3> HIDE DEF z, e, n, M
    <3> QED
      BY <2>1, <1>8, <1>10
  <2> DEFINE x == n * M
             y == e * M
  <2>3. z * M = x + y /\ x \in Nat /\ y \in Nat /\ Bytes(u.layout) <= x
    BY <2>2, <1>8
  <2> HIDE DEF x, y, z
  <2>4. Bytes(u.layout) <= z * M
    BY <2>3, <1>8
  <2> QED
    BY <2>4 DEF z
<1> HIDE DEF p, n, k, M
<1>12. 2 ^ k \in Nat \ {0}
  BY <1>6
<1> QED
  BY <1>1, <1>4, <1>6, <1>7, <1>8, <1>11, <1>12 DEF p, n, k, M

\* The alignment of every address, from the alignment of blocks.
LEMMA InvAligned == HeapInv => AlignedInRegion
<1> SUFFICES ASSUME HeapInv, NEW u \in allocated
             PROVE  /\ InBuddy(u) => (u.ptr - buddy_start) % u.layout.align = 0
                    /\ ~InBuddy(u) => (u.ptr - slab_start(ClassOf(u))) % u.layout.align = 0
  <2>1. AlignedInRegion <=> \A u \in allocated :
          (u.ptr - (IF InBuddy(u) THEN buddy_start ELSE slab_start(ClassOf(u)))) % u.layout.align = 0
    BY Zenon DEF AlignedInRegion, InBuddy, ClassOf
  <2> QED
    BY <2>1
<1> DEFINE g == u.layout.align
<1>1. ASSUME InBuddy(u) PROVE (u.ptr - buddy_start) % g = 0
  <2> DEFINE p == PageOf(u.ptr)
             M == MIN_BLOCK_SIZE
  <2>1. PICK k \in Nat :
           /\ Aligned(p, k) /\ 2 ^ k \in Nat \ {0} /\ p \in Nat
           /\ u.ptr = buddy_start + p * M
           /\ u.layout \in Layouts /\ Bytes(u.layout) \in Nat \ {0}
           /\ Bytes(u.layout) <= 2 ^ k * M
    BY <1>1, HeldPage
  <2>2. PICK q \in Nat : p = q * 2 ^ k
    BY <2>1 DEF Aligned
  <2>3. PICK m \in Nat : M = 2 ^ m
    BY ClassSizes DEF Classes
  <2>4. PICK n \in Nat : g = 2 ^ n
    BY <2>1, LayoutFacts
  <2>5. g <= Bytes(u.layout) /\ g \in Nat
    BY <2>1, LayoutFacts
  <2>6. 2 ^ k * M = 2 ^ (k + m) /\ 2 ^ m \in Nat
    BY <2>3, PowSum, PowPos
  <2>7. p * M = q * 2 ^ (k + m)
    <3> DEFINE x == 2 ^ k
               y == 2 ^ m
    <3>1. (q * x) * y = q * (x * y)
      <4> HIDE DEF x, y
      <4>1. x \in Nat /\ y \in Nat
        BY <2>1, <2>6 DEF x, y
      <4> QED
        BY <4>1
    <3> QED
      BY <2>2, <2>3, <2>6, <3>1
  <2>8. 2 ^ n <= 2 ^ (k + m)
    <3> DEFINE a == 2 ^ n
               z == 2 ^ (k + m)
    <3>1. a <= Bytes(u.layout) /\ a \in Nat /\ Bytes(u.layout) \in Nat /\ Bytes(u.layout) <= z
      BY <2>1, <2>4, <2>5, <2>6
    <3>2. z \in Nat
      BY PowPos
    <3> HIDE DEF a, z
    <3>3. a <= z
      BY <3>1, <3>2
    <3> QED
      BY <3>3 DEF a, z
  <2>9. (q * 2 ^ (k + m)) % 2 ^ n = 0
    BY <2>8, PowMultiple
  <2>10. u.ptr - buddy_start = p * M
    <3> DEFINE x == p * M
    <3>1. x \in Nat /\ u.ptr = buddy_start + x /\ buddy_start \in Nat
      <4>1. M \in Nat
        BY <2>3, <2>6
      <4> QED
        BY <2>1, <4>1, SlabPlaces
    <3> HIDE DEF x
    <3>2. u.ptr - buddy_start = x
      BY <3>1
    <3> QED
      BY <3>2 DEF x
  <2> QED
    BY <2>4, <2>7, <2>9, <2>10
<1>2. ASSUME ~InBuddy(u) PROVE (u.ptr - slab_start(ClassOf(u))) % g = 0
  <2> DEFINE i == ClassOf(u)
             z == SIZE_CLASSES[i]
             s == slab_start(i)
  <2>1. /\ i \in Classes /\ u.ptr \in ToSet(InitSlab(i)) /\ u.layout \in Layouts
        /\ z >= Bytes(u.layout) /\ z \in Nat \ {0} /\ Bytes(u.layout) \in Nat
    BY <1>2, HeldBlock
  <2>2. PICK m \in Nat : u.ptr = s + m * z
    BY <2>1, SlabBlocks
  <2>3. PICK k \in Nat : z = 2 ^ k
    BY <2>1, ClassSizes
  <2>4. PICK n \in Nat : g = 2 ^ n
    BY <2>1, LayoutFacts
  <2>5. g <= Bytes(u.layout) /\ g \in Nat /\ s \in Nat
    BY <2>1, LayoutFacts, SlabBlocks
  <2>6. 2 ^ n <= 2 ^ k
    <3>1. g <= z
      <4> HIDE DEF g, z
      <4> QED
        BY <2>1, <2>5
    <3> QED
      BY <3>1, <2>3, <2>4
  <2>7. (m * 2 ^ k) % 2 ^ n = 0
    BY <2>6, PowMultiple
  <2>8. u.ptr - s = m * z
    <3> DEFINE x == m * z
    <3>1. x \in Nat /\ u.ptr = s + x
      BY <2>1, <2>2
    <3> HIDE DEF x, s
    <3>2. u.ptr - s = x
      BY <3>1, <2>5
    <3> QED
      BY <3>2 DEF x
  <2> QED
    BY <2>3, <2>4, <2>7, <2>8
<1> QED
  BY <1>1, <1>2

\* Of two pages in use the lower one's bytes end before the other's begin.
LEMMA PagesApart ==
  ASSUME HeapInv, NEW u \in allocated, NEW v \in allocated, InBuddy(u), InBuddy(v),
         PageOf(u.ptr) < PageOf(v.ptr)
  PROVE  u.ptr + Bytes(u.layout) <= v.ptr
<1> DEFINE p == PageOf(u.ptr)
           r == PageOf(v.ptr)
           M == MIN_BLOCK_SIZE
<1>1. PICK k \in Nat :
        /\ <<p, k>> \in UsedBlocks /\ p \in Nat /\ 2 ^ k \in Nat \ {0}
        /\ u.ptr = buddy_start + p * M
        /\ Bytes(u.layout) \in Nat \ {0} /\ Bytes(u.layout) <= 2 ^ k * M
  BY HeldPage
<1>2. PICK j \in Nat :
        /\ <<r, j>> \in UsedBlocks /\ r \in Nat /\ 2 ^ j \in Nat \ {0}
        /\ v.ptr = buddy_start + r * M
  BY HeldPage
<1>3. <<p, k>> # <<r, j>>
  BY <1>1, <1>2
<1>4. Span(p, k) \cap Span(r, j) = {}
  <2>1. Tiled
    BY InvTiled DEF HeapInv
  <2> DEFINE b == <<p, k>>
             c == <<r, j>>
  <2>2. b \in UsedBlocks /\ c \in UsedBlocks /\ b # c
    BY <1>1, <1>2, <1>3
  <2>3. b[1] = p /\ b[2] = k /\ c[1] = r /\ c[2] = j
    OBVIOUS
  <2> HIDE DEF b, c
  <2>4. Span(b[1], b[2]) \cap Span(c[1], c[2]) = {}
    BY <2>1, <2>2, Zenon DEF Tiled
  <2> QED
    BY <2>3, <2>4
<1>5. p + 2 ^ k <= r
  <2> SUFFICES ASSUME ~(p + 2 ^ k <= r) PROVE FALSE
    OBVIOUS
  <2> DEFINE z == 2 ^ k
             y == 2 ^ j
  <2>1. z \in Nat \ {0} /\ y \in Nat \ {0} /\ p \in Nat /\ r \in Nat /\ p < r /\ ~(p + z <= r)
    BY <1>1, <1>2
  <2>2. Span(p, k) = p .. p + z - 1 /\ Span(r, j) = r .. r + y - 1
    BY DEF Span, order_to_size
  <2> HIDE DEF z, y, p, r
  <2>3. r \in Span(p, k) /\ r \in Span(r, j)
    BY <2>1, <2>2
  <2> QED
    BY <1>4, <2>3
<1>6. M \in Nat \ {0} /\ buddy_start \in Nat
  BY ClassSizes, SlabPlaces DEF Classes
<1> DEFINE z == 2 ^ k
           e == r - (p + z)
<1>7. e \in Nat /\ r = p + z + e /\ z \in Nat
  BY <1>1, <1>2, <1>5
<1>8. r * M = p * M + z * M + e * M /\ p * M \in Nat /\ z * M \in Nat /\ e * M \in Nat
  <2> HIDE DEF p, r, M, z, e
  <2> QED
    BY <1>1, <1>6, <1>7
<1> DEFINE x == p * M
           y == z * M
           w == e * M
<1>9. /\ u.ptr = buddy_start + x /\ v.ptr = buddy_start + (x + y + w)
      /\ x \in Nat /\ y \in Nat /\ w \in Nat /\ Bytes(u.layout) <= y
      /\ Bytes(u.layout) \in Nat
  BY <1>1, <1>2, <1>8
<1> HIDE DEF x, y, w
<1> QED
  BY <1>6, <1>9

\* An allocation lies in the heap.
LEMMA HeldInHeap ==
  ASSUME HeapInv, NEW u \in allocated
  PROVE  /\ u.ptr \in Nat /\ Bytes(u.layout) \in Nat \ {0}
         /\ HeapStart <= u.ptr /\ u.ptr + Bytes(u.layout) <= HeapStart + HeapSize
<1>1. u.ptr \in Nat /\ HeapStart \in Nat /\ HeapSize \in Nat
  BY HeapAssumption DEF HeapInv, HeapTypeOK
<1>2. buddy_start \in Nat /\ HeapStart <= buddy_start
  BY SlabPlaces
<1>3. CASE InBuddy(u)
  <2> DEFINE p == PageOf(u.ptr)
             M == MIN_BLOCK_SIZE
  <2>1. PICK k \in Nat :
          /\ p \in Nat /\ 2 ^ k \in Nat \ {0} /\ p + 2 ^ k <= RegionPages
          /\ u.ptr = buddy_start + p * M
          /\ Bytes(u.layout) \in Nat \ {0} /\ Bytes(u.layout) <= 2 ^ k * M
    BY <1>3, HeldPage
  <2> DEFINE z == 2 ^ k
             n == p + z
  <2>2. n \in Nat /\ 0 < n /\ n <= RegionPages /\ z \in Nat
    BY <2>1
  <2>3. buddy_start + n * M <= HeapStart + HeapSize
    <3> HIDE DEF n
    <3> QED
      BY <2>2, RegionInHeap
  <2>4. M \in Nat
    BY ClassSizes DEF Classes
  <2>5. n * M = p * M + z * M /\ p * M \in Nat /\ z * M \in Nat
    <3> HIDE DEF p, M, z
    <3> QED
      BY <2>1, <2>2, <2>4
  <2> DEFINE x == p * M
             y == z * M
  <2>6. /\ x \in Nat /\ y \in Nat /\ buddy_start + (x + y) <= HeapStart + HeapSize
        /\ u.ptr = buddy_start + x /\ Bytes(u.layout) <= y
        /\ Bytes(u.layout) \in Nat \ {0}
    BY <2>1, <2>3, <2>5
  <2> HIDE DEF x, y
  <2> QED
    BY <1>1, <1>2, <2>6
<1>4. CASE ~InBuddy(u)
  <2> DEFINE i == ClassOf(u)
             z == SIZE_CLASSES[i]
  <2>1. /\ i \in Classes /\ u.ptr \in ToSet(InitSlab(i))
        /\ z >= Bytes(u.layout) /\ z \in Nat /\ Bytes(u.layout) \in Nat \ {0}
    BY <1>4, HeldBlock
  <2>2. u.ptr >= HeapStart /\ u.ptr + z <= HeapStart + HeapSize
    BY <2>1, SlabsApart
  <2> HIDE DEF z
  <2> QED
    BY <1>1, <2>1, <2>2
<1> QED
  BY <1>3, <1>4

\* Of two allocations one ends before the other begins.
LEMMA HeldApart ==
  ASSUME HeapInv, NEW u \in allocated, NEW v \in allocated, u # v
  PROVE  u.ptr + Bytes(u.layout) <= v.ptr \/ v.ptr + Bytes(v.layout) <= u.ptr
<1>1. u.ptr # v.ptr
  BY DEF HeapInv, HeldOnce
<1>2. ASSUME NEW x \in allocated, NEW y \in allocated, ~InBuddy(x), InBuddy(y)
      PROVE  x.ptr + Bytes(x.layout) <= y.ptr
  <2> DEFINE z == SIZE_CLASSES[ClassOf(x)]
  <2>1. /\ ClassOf(x) \in Classes /\ x.ptr \in ToSet(InitSlab(ClassOf(x)))
        /\ z >= Bytes(x.layout) /\ z \in Nat
    BY <1>2, HeldBlock
  <2>2. x.ptr + z <= buddy_start /\ buddy_start \in Nat
    BY <2>1, SlabsApart, SlabPlaces
  <2>3. x.ptr \in Nat /\ Bytes(x.layout) \in Nat /\ y.ptr \in Nat /\ y.ptr >= buddy_start
    BY <1>2, HeldInHeap DEF InBuddy
  <2> HIDE DEF z
  <2> QED
    BY <2>1, <2>2, <2>3
<1>3. CASE InBuddy(u) /\ InBuddy(v)
  <2>1. PageOf(u.ptr) \in Nat /\ PageOf(v.ptr) \in Nat
        /\ u.ptr = PageAddr(PageOf(u.ptr)) /\ v.ptr = PageAddr(PageOf(v.ptr))
    BY <1>3 DEF HeapInv, HeldPages
  <2>2. PageOf(u.ptr) # PageOf(v.ptr)
    BY <1>1, <2>1
  <2>3. PageOf(u.ptr) < PageOf(v.ptr) \/ PageOf(v.ptr) < PageOf(u.ptr)
    BY <2>1, <2>2
  <2> QED
    BY <1>3, <2>3, PagesApart
<1>4. CASE ~InBuddy(u) /\ ~InBuddy(v)
  <2> DEFINE y == SIZE_CLASSES[ClassOf(u)]
             z == SIZE_CLASSES[ClassOf(v)]
  <2>1. /\ ClassOf(u) \in Classes /\ u.ptr \in ToSet(InitSlab(ClassOf(u)))
        /\ y >= Bytes(u.layout) /\ y \in Nat
    BY <1>4, HeldBlock
  <2>2. /\ ClassOf(v) \in Classes /\ v.ptr \in ToSet(InitSlab(ClassOf(v)))
        /\ z >= Bytes(v.layout) /\ z \in Nat
    BY <1>4, HeldBlock
  <2>3. u.ptr + y <= v.ptr \/ v.ptr + z <= u.ptr
    BY <1>1, <2>1, <2>2, SlabsApart
  <2>4. /\ u.ptr \in Nat /\ Bytes(u.layout) \in Nat
        /\ v.ptr \in Nat /\ Bytes(v.layout) \in Nat
    BY HeldInHeap
  <2> HIDE DEF y, z
  <2> QED
    BY <2>1, <2>2, <2>3, <2>4
<1> QED
  BY <1>2, <1>3, <1>4

\* So no byte is allocated twice.
LEMMA InvNoOverlap == HeapInv => NoOverlap
<1> SUFFICES ASSUME HeapInv, NEW u \in allocated, NEW v \in allocated
             PROVE  /\ BytesOf(u) \subseteq HeapStart .. HeapStart + HeapSize - 1
                    /\ u # v => BytesOf(u) \cap BytesOf(v) = {}
  BY DEF NoOverlap
<1> DEFINE a == u.ptr
           m == Bytes(u.layout)
           b == v.ptr
           n == Bytes(v.layout)
<1>1. /\ a \in Nat /\ m \in Nat \ {0} /\ HeapStart <= a /\ a + m <= HeapStart + HeapSize
      /\ b \in Nat /\ n \in Nat \ {0} /\ HeapStart \in Nat /\ HeapSize \in Nat
  BY HeldInHeap, HeapAssumption
<1>2. BytesOf(u) = a .. a + m - 1 /\ BytesOf(v) = b .. b + n - 1
  BY DEF BytesOf
<1>3. u # v => a + m <= b \/ b + n <= a
  BY HeldApart
<1> HIDE DEF a, b, m, n
<1>4. BytesOf(u) \subseteq HeapStart .. HeapStart + HeapSize - 1
  BY <1>1, <1>2
<1>5. ASSUME u # v PROVE BytesOf(u) \cap BytesOf(v) = {}
  BY <1>1, <1>2, <1>3, <1>5
<1> QED
  BY <1>4, <1>5

-----------------------------------------------------------------------------
(* The steps *)

\* An address is in use in cache i when an allocation of that class has it.
LEMMA InUseIs ==
  ASSUME NEW i, NEW p
  PROVE  p \in InUse(i) <=>
           \E u \in allocated : /\ p = u.ptr /\ u.ptr < buddy_start
                                /\ ClassesFor(Bytes(u.layout)) # {} /\ ClassOf(u) = i
  BY Zenon DEF InUse

\* The same of the next state.
LEMMA InUseNext ==
  ASSUME NEW i, NEW p
  PROVE  p \in InUse(i)' <=>
           \E u \in allocated' : /\ p = u.ptr /\ u.ptr < buddy_start
                                 /\ ClassesFor(Bytes(u.layout)) # {} /\ ClassOf(u) = i
  BY Zenon DEF InUse

\* At the start every block is on its list.
LEMMA HeapInit == Init => HeapInv
<1> SUFFICES ASSUME Init PROVE HeapInv
  OBVIOUS
<1>1. BuddyInv
  BY BuddyInitInv DEF Init
<1>2. allocated = {} /\ slab_caches = [i \in Classes |-> InitSlab(i)]
      /\ call = [c \in Callers |-> NoCall]
  BY DEF Init
<1>3. HeapTypeOK
  <2>1. \A i \in Classes : InitSlab(i) \in Seq(Nat)
    BY SlabBlocks
  <2> QED
    BY <1>2, <2>1 DEF HeapTypeOK
<1>4. ASSUME NEW i \in Classes PROVE CacheOK(i)
  <2>1. slab_caches[i] = InitSlab(i)
    BY <1>2
  <2>2. InUse(i) = {}
    BY <1>2, InUseIs
  <2>3. NoRepeat(InitSlab(i))
    BY SlabBlocks
  <2> QED
    BY <2>1, <2>2, <2>3 DEF CacheOK
<1> QED
  BY <1>1, <1>2, <1>3, <1>4 DEF HeapInv, HeldOnce, HeldPages, HeldBlocks

\* alloc() takes the head of a slab's list.
LEMMA SlabTaken ==
  ASSUME HeapInv, NEW l \in Layouts, ClassesFor(Bytes(l)) # {},
         NEW i \in Classes, i = size_to_class(Bytes(l)), slab_caches[i] # <<>>,
         slab_caches' = [slab_caches EXCEPT ![i] = Tail(@)],
         allocated' = allocated \cup {[ptr |-> Head(slab_caches[i]), layout |-> l]},
         UNCHANGED call, UNCHANGED buddyVars
  PROVE  HeapInv'
<1> DEFINE s == slab_caches[i]
           h == Head(s)
           n == [ptr |-> h, layout |-> l]
<1>1. BuddyInv' /\ live' = live
  BY BuddyNextInv DEF HeapInv, buddyVars
<1>2. HeapTypeOK /\ HeldOnce /\ HeldPages /\ HeldBlocks /\ s \in Seq(Nat)
      /\ \A j \in Classes : CacheOK(j)
  BY DEF HeapInv, HeapTypeOK
<1>3. CacheOK(i) /\ NoRepeat(s)
  BY <1>2 DEF CacheOK
<1>4. /\ h \in ToSet(s) /\ h \in Nat
      /\ Tail(s) \in Seq(Nat) /\ NoRepeat(Tail(s))
      /\ ToSet(Tail(s)) = ToSet(s) \ {h}
  <2> HIDE DEF s
  <2>1. s # <<>>
    BY DEF s
  <2> QED
    BY <1>2, <1>3, <2>1, TailFacts
<1>5. h \in ToSet(InitSlab(i)) /\ h \notin InUse(i)
  BY <1>3, <1>4, Zenon DEF CacheOK
<1>6. h < buddy_start /\ buddy_start \in Nat
  BY <1>5, SlabsApart, SlabPlaces
<1>7. ASSUME NEW u \in allocated PROVE u.ptr # h
  <2> SUFFICES ASSUME u.ptr = h PROVE FALSE
    OBVIOUS
  <2>1. ~InBuddy(u)
    BY <1>4, <1>6 DEF InBuddy
  <2> DEFINE j == ClassOf(u)
  <2>2. j \in Classes /\ h \in InUse(j) /\ h \in ToSet(InitSlab(j))
    BY <2>1, HeldBlock
  <2>3. i = j
    <3>1. SIZE_CLASSES[i] \in Nat \ {0} /\ SIZE_CLASSES[j] \in Nat \ {0}
      BY <2>2, ClassSizes
    <3>2. i = j \/ h + SIZE_CLASSES[i] <= h \/ h + SIZE_CLASSES[j] <= h
      BY <1>5, <2>2, SlabsApart
    <3> HIDE DEF j, h
    <3> QED
      BY <1>4, <3>1, <3>2
  <2> QED
    BY <1>5, <2>2, <2>3
<1>8. /\ slab_caches'[i] = Tail(s)
      /\ \A j \in Classes : j # i => slab_caches'[j] = slab_caches[j]
      /\ slab_caches' \in [Classes -> Seq(Nat)]
  BY <1>2, <1>4 DEF HeapTypeOK
<1>9. n.ptr = h /\ n.layout = l /\ n \in [ptr : Nat, layout : Layouts] /\ allocated' = allocated \cup {n}
  BY <1>4
<1> HIDE DEF h, n, s
<1>10. HeapTypeOK'
  BY <1>2, <1>8, <1>9 DEF HeapTypeOK
<1>11. HeldOnce'
  BY <1>2, <1>7, <1>9 DEF HeldOnce
<1>12. ~InBuddy(n)
  BY <1>4, <1>6, <1>9 DEF InBuddy
<1>13. HeldPages'
  <2>1. ASSUME NEW u \in allocated', InBuddy(u)
        PROVE  RecordOf(u) \in live' /\ PageOf(u.ptr) \in Nat /\ u.ptr = PageAddr(PageOf(u.ptr))
    <3>1. u \in allocated
      BY <1>9, <1>12, <2>1, Zenon
    <3> QED
      BY <1>1, <1>2, <2>1, <3>1, Zenon DEF HeldPages
  <2> QED
    BY <2>1, Zenon DEF HeldPages
<1>14. HeldBlocks'
  BY <1>2, <1>9, Zenon DEF HeldBlocks
<1>15. ClassOf(n) = i
  BY <1>9 DEF ClassOf
<1>16. ASSUME NEW j, NEW p
       PROVE  p \in InUse(j)' <=> p \in InUse(j) \/ (j = i /\ p = h)
  <2>1. ASSUME p \in InUse(j)' PROVE p \in InUse(j) \/ (j = i /\ p = h)
    <3>1. PICK u \in allocated' : /\ p = u.ptr /\ u.ptr < buddy_start
                                  /\ ClassesFor(Bytes(u.layout)) # {} /\ ClassOf(u) = j
      BY <2>1, InUseNext
    <3>2. CASE u = n
      BY <1>9, <1>15, <3>1, <3>2
    <3>3. CASE u \in allocated
      BY <3>1, <3>3, InUseIs
    <3> QED
      BY <1>9, <3>1, <3>2, <3>3
  <2>2. ASSUME p \in InUse(j) PROVE p \in InUse(j)'
    <3>1. PICK u \in allocated : /\ p = u.ptr /\ u.ptr < buddy_start
                                 /\ ClassesFor(Bytes(u.layout)) # {} /\ ClassOf(u) = j
      BY <2>2, InUseIs
    <3>2. u \in allocated'
      BY <1>9, <3>1
    <3> QED
      BY <3>1, <3>2, InUseNext
  <2>3. h \in InUse(i)'
    <3>1. n \in allocated' /\ h = n.ptr /\ n.ptr < buddy_start /\ ClassesFor(Bytes(n.layout)) # {}
      BY <1>6, <1>9
    <3> QED
      BY <1>15, <3>1, InUseNext, Zenon
  <2> QED
    BY <2>1, <2>2, <2>3
<1>17. ASSUME NEW j \in Classes PROVE CacheOK(j)'
  <2>1. CASE j = i
    <3>1. /\ ToSet(s) \cup InUse(i) = ToSet(InitSlab(i))
          /\ ToSet(s) \cap InUse(i) = {}
      BY <1>3 DEF CacheOK, s
    <3>2. InUse(i)' = InUse(i) \cup {h}
      BY <1>16
    <3>3. /\ ToSet(Tail(s)) \cup InUse(i)' = ToSet(InitSlab(i))
          /\ ToSet(Tail(s)) \cap InUse(i)' = {}
      BY <1>4, <3>1, <3>2
    <3>4. /\ ToSet(slab_caches'[i]) \cup InUse(i)' = ToSet(InitSlab(i))
          /\ ToSet(slab_caches'[i]) \cap InUse(i)' = {} /\ NoRepeat(slab_caches'[i])
      BY <1>4, <1>8, <3>3
    <3> QED
      BY <2>1, <3>4, Zenon DEF CacheOK
  <2>2. CASE j # i
    <3>0. \A p : p \in InUse(j)' <=> p \in InUse(j)
      BY <1>16, <2>2
    <3>1. InUse(j)' = InUse(j) /\ slab_caches'[j] = slab_caches[j]
      BY <1>8, <2>2, <3>0
    <3> QED
      BY <1>2, <3>1 DEF CacheOK
  <2> QED
    BY <2>1, <2>2
<1> QED
  BY <1>1, <1>10, <1>11, <1>13, <1>14, <1>17 DEF HeapInv

\* The first half of alloc().
LEMMA SlabAllocInv ==
  ASSUME HeapInv, NEW c \in Callers, NEW l \in Layouts, SlabAlloc(c, l)
  PROVE  HeapInv'
<1> DEFINE i == size_to_class(Bytes(l))
<1>1. UNCHANGED buddyVars /\ Bytes(l) \in Nat
  BY LayoutFacts DEF SlabAlloc
<1>2. CASE ClassesFor(Bytes(l)) # {} /\ slab_caches[i] # <<>>
  <2>1. i \in Classes
    BY <1>1, <1>2, ClassChosen
  <2>2. /\ slab_caches' = [slab_caches EXCEPT ![i] = Tail(@)]
        /\ allocated' = allocated \cup {[ptr |-> Head(slab_caches[i]), layout |-> l]}
        /\ UNCHANGED call
    BY <1>2, Zenon DEF SlabAlloc
  <2>3. ClassesFor(Bytes(l)) # {} /\ slab_caches[i] # <<>> /\ i = size_to_class(Bytes(l))
    BY <1>2
  <2> HIDE DEF i
  <2> QED
    BY <1>1, <2>1, <2>2, <2>3, SlabTaken
<1>3. CASE ~(ClassesFor(Bytes(l)) # {} /\ slab_caches[i] # <<>>)
  <2>1. call' = [call EXCEPT ![c] = l] /\ UNCHANGED <<slab_caches, allocated>>
    BY <1>3, Zenon DEF SlabAlloc
  <2>2. BuddyInv' /\ live' = live
    BY <1>1, BuddyNextInv DEF HeapInv, buddyVars
  <2>3. HeapTypeOK'
    BY <2>1 DEF HeapInv, HeapTypeOK
  <2>4. HeldOnce' /\ HeldBlocks'
    BY <2>1 DEF HeapInv, HeldOnce, HeldBlocks
  <2>5. HeldPages'
    BY <2>1, <2>2 DEF HeapInv, HeldPages
  <2>6. ASSUME NEW j \in Classes PROVE CacheOK(j)'
    <3>1. InUse(j)' = InUse(j) /\ slab_caches' = slab_caches
      BY <2>1 DEF InUse
    <3> QED
      BY <3>1 DEF HeapInv, CacheOK
  <2> QED
    BY <2>2, <2>3, <2>4, <2>5, <2>6 DEF HeapInv
<1> QED
  BY <1>2, <1>3

\* Steps that leave the caches alone and add or remove no block below
\* buddy_start leave every cache as it is.
LEMMA CachesKept ==
  ASSUME HeapInv, UNCHANGED slab_caches,
         \A u : u.ptr < buddy_start => (u \in allocated' <=> u \in allocated),
         NEW j \in Classes
  PROVE  CacheOK(j)'
<1>1. ASSUME NEW p PROVE p \in InUse(j)' <=> p \in InUse(j)
  <2>1. ASSUME p \in InUse(j)' PROVE p \in InUse(j)
    <3>1. PICK u \in allocated' : /\ p = u.ptr /\ u.ptr < buddy_start
                                  /\ ClassesFor(Bytes(u.layout)) # {} /\ ClassOf(u) = j
      BY <2>1, InUseNext
    <3>2. u \in allocated
      BY <3>1
    <3> QED
      BY <3>1, <3>2, InUseIs
  <2>2. ASSUME p \in InUse(j) PROVE p \in InUse(j)'
    <3>1. PICK u \in allocated : /\ p = u.ptr /\ u.ptr < buddy_start
                                 /\ ClassesFor(Bytes(u.layout)) # {} /\ ClassOf(u) = j
      BY <2>2, InUseIs
    <3>2. u \in allocated'
      BY <3>1
    <3> QED
      BY <3>1, <3>2, InUseNext
  <2> QED
    BY <2>1, <2>2
<1>2. InUse(j)' = InUse(j)
  BY <1>1
<1> QED
  BY <1>2 DEF HeapInv, CacheOK

\* alloc() gets a page from the buddy allocator.
LEMMA PageTaken ==
  ASSUME HeapInv, NEW l \in Layouts, NEW p \in Pages, HandOut(PagesOf(l), p),
         allocated' = allocated \cup {[ptr |-> PageAddr(p), layout |-> l]},
         UNCHANGED slab_caches, call' \in [Callers -> Layouts \cup {NoCall}]
  PROVE  HeapInv'
<1> DEFINE n == [ptr |-> PageAddr(p), layout |-> l]
<1>1. HeapTypeOK /\ HeldOnce /\ HeldPages /\ HeldBlocks /\ BuddyInv
  BY DEF HeapInv
<1>2. PagesOf(l) \in Requests
  BY LayoutFacts
<1>3. BuddyInv' /\ \A u \in live : u.addr # p
  BY <1>1, <1>2, HandOutInv
<1>4. live' = live \cup {[addr |-> p, size |-> PagesOf(l)]}
  BY DEF HandOut
<1>5. p \in Nat
  BY OrdersNat DEF Pages
<1>6. /\ PageAddr(p) \in Nat /\ PageAddr(p) >= buddy_start /\ PageOf(PageAddr(p)) = p
  BY <1>5, PageAddresses
<1>7. n.ptr = PageAddr(p) /\ n.layout = l /\ n \in [ptr : Nat, layout : Layouts]
      /\ allocated' = allocated \cup {n}
  BY <1>6
<1> HIDE DEF n
<1>8. InBuddy(n) /\ PageOf(n.ptr) = p /\ RecordOf(n) = [addr |-> p, size |-> PagesOf(l)]
  BY <1>6, <1>7 DEF InBuddy, RecordOf
<1>9. ASSUME NEW u \in allocated PROVE u.ptr # n.ptr
  <2> SUFFICES ASSUME u.ptr = n.ptr PROVE FALSE
    OBVIOUS
  <2>1. InBuddy(u) /\ PageOf(u.ptr) = p
    BY <1>8 DEF InBuddy
  <2>2. RecordOf(u) \in live /\ RecordOf(u).addr = p
    BY <1>1, <2>1 DEF HeldPages, RecordOf
  <2> QED
    BY <1>3, <2>2
<1>10. HeapTypeOK'
  BY <1>1, <1>7 DEF HeapTypeOK
<1>11. HeldOnce'
  BY <1>1, <1>7, <1>9 DEF HeldOnce
<1>12. HeldPages'
  <2>1. ASSUME NEW u \in allocated', InBuddy(u)
        PROVE  RecordOf(u) \in live' /\ PageOf(u.ptr) \in Nat /\ u.ptr = PageAddr(PageOf(u.ptr))
    <3>1. CASE u = n
      BY <1>4, <1>5, <1>7, <1>8, <3>1
    <3>2. CASE u \in allocated
      BY <1>1, <1>4, <2>1, <3>2 DEF HeldPages
    <3> QED
      BY <1>7, <3>1, <3>2
  <2> QED
    BY <2>1, Zenon DEF HeldPages
<1>13. HeldBlocks'
  BY <1>1, <1>7, <1>8, Zenon DEF HeldBlocks
<1>14. ~(n.ptr < buddy_start)
  BY <1>6, <1>7, SlabPlaces
<1>15. \A u : u.ptr < buddy_start => (u \in allocated' <=> u \in allocated)
  BY <1>7, <1>14, Zenon
<1>16. \A j \in Classes : CacheOK(j)'
  BY <1>15, CachesKept
<1> QED
  BY <1>3, <1>10, <1>11, <1>12, <1>13, <1>16 DEF HeapInv

\* The second half of alloc().
LEMMA BuddyAllocInv ==
  ASSUME HeapInv, NEW c \in Callers, BuddyAlloc(c)
  PROVE  HeapInv'
<1> DEFINE l == call[c]
<1>1. HeapTypeOK /\ call[c] # NoCall /\ call' = [call EXCEPT ![c] = NoCall] /\ UNCHANGED slab_caches
  BY DEF HeapInv, BuddyAlloc
<1>2. l \in Layouts /\ call' \in [Callers -> Layouts \cup {NoCall}]
  BY <1>1 DEF HeapTypeOK
<1>3. ASSUME NEW p \in Pages, HandOut(PagesOf(l), p),
             allocated' = allocated \cup {[ptr |-> PageAddr(p), layout |-> l]}
      PROVE  HeapInv'
  <2> HIDE DEF l
  <2> QED
    BY <1>1, <1>2, <1>3, PageTaken
<1>4. ASSUME UNCHANGED <<buddyVars, allocated>>
      PROVE  HeapInv'
  <2>1. BuddyInv' /\ live' = live
    BY <1>4, BuddyNextInv DEF HeapInv, buddyVars
  <2>2. HeapTypeOK'
    BY <1>1, <1>2, <1>4 DEF HeapTypeOK
  <2>3. HeldOnce' /\ HeldBlocks'
    BY <1>4 DEF HeapInv, HeldOnce, HeldBlocks
  <2>4. HeldPages'
    BY <1>4, <2>1 DEF HeapInv, HeldPages
  <2>5. allocated' = allocated
    BY <1>4
  <2>6. \A j \in Classes : CacheOK(j)'
    BY <1>1, <2>5, CachesKept
  <2> QED
    BY <2>1, <2>2, <2>3, <2>4, <2>6 DEF HeapInv
<1> QED
  BY <1>3, <1>4 DEF BuddyAlloc

\* dealloc() gives a page back to the buddy allocator.
LEMMA PageFreed ==
  ASSUME HeapInv, NEW u \in allocated, InBuddy(u), TakeBack(RecordOf(u)),
         allocated' = allocated \ {u}, UNCHANGED <<slab_caches, call>>
  PROVE  HeapInv'
<1>1. HeapTypeOK /\ HeldOnce /\ HeldPages /\ HeldBlocks /\ BuddyInv
  BY DEF HeapInv
<1>2. RecordOf(u) \in live /\ u.ptr = PageAddr(PageOf(u.ptr)) /\ u.ptr \in Nat
  BY <1>1 DEF HeldPages, HeapTypeOK
<1>3. BuddyInv'
  BY <1>1, <1>2, TakeBackInv
<1>4. live' = live \ {RecordOf(u)}
  BY DEF TakeBack
<1>5. HeapTypeOK'
  BY <1>1 DEF HeapTypeOK
<1>6. HeldOnce' /\ HeldBlocks'
  BY <1>1, Zenon DEF HeldOnce, HeldBlocks
<1>7. ASSUME NEW v \in allocated', InBuddy(v)
      PROVE  RecordOf(v) \in live' /\ PageOf(v.ptr) \in Nat /\ v.ptr = PageAddr(PageOf(v.ptr))
  <2>1. v \in allocated /\ v # u
    OBVIOUS
  <2>2. RecordOf(v) \in live /\ PageOf(v.ptr) \in Nat /\ v.ptr = PageAddr(PageOf(v.ptr))
    BY <1>1, <1>7, <2>1 DEF HeldPages
  <2>3. v.ptr # u.ptr
    BY <1>1, <2>1 DEF HeldOnce
  <2>4. PageOf(v.ptr) # PageOf(u.ptr)
    BY <1>2, <2>2, <2>3, Zenon
  <2>5. RecordOf(v).addr = PageOf(v.ptr) /\ RecordOf(u).addr = PageOf(u.ptr)
    BY DEF RecordOf
  <2>6. RecordOf(v) # RecordOf(u)
    BY <2>4, <2>5, Zenon
  <2> QED
    BY <1>4, <2>2, <2>6
<1>8. HeldPages'
  BY <1>7, Zenon DEF HeldPages
<1>9. ~(u.ptr < buddy_start)
  BY <1>2, SlabPlaces DEF InBuddy
<1>10. \A v : v.ptr < buddy_start => (v \in allocated' <=> v \in allocated)
  BY <1>9, Zenon
<1>11. \A j \in Classes : CacheOK(j)'
  BY <1>10, CachesKept
<1> QED
  BY <1>3, <1>5, <1>6, <1>8, <1>11 DEF HeapInv

\* dealloc() pushes a block on the list of its class.
LEMMA BlockFreed ==
  ASSUME HeapInv, NEW u \in allocated, ~InBuddy(u),
         slab_caches' = [slab_caches EXCEPT ![ClassOf(u)] = <<u.ptr>> \o @],
         allocated' = allocated \ {u}, UNCHANGED call, UNCHANGED buddyVars
  PROVE  HeapInv'
<1> DEFINE i == ClassOf(u)
           s == slab_caches[i]
           h == u.ptr
<1>1. HeapTypeOK /\ HeldOnce /\ HeldPages /\ HeldBlocks /\ \A j \in Classes : CacheOK(j)
  BY DEF HeapInv
<1>2. BuddyInv' /\ live' = live
  BY BuddyNextInv DEF HeapInv, buddyVars
<1>3. i \in Classes /\ h \in InUse(i) /\ h \in Nat /\ s \in Seq(Nat)
  BY <1>1, HeldBlock DEF HeapTypeOK
<1>4. /\ ToSet(s) \cup InUse(i) = ToSet(InitSlab(i))
      /\ ToSet(s) \cap InUse(i) = {} /\ NoRepeat(s)
  BY <1>1, <1>3, Zenon DEF CacheOK
<1>5. /\ <<h>> \o s \in Seq(Nat) /\ NoRepeat(<<h>> \o s)
      /\ ToSet(<<h>> \o s) = ToSet(s) \cup {h}
  <2>1. h \notin ToSet(s)
    BY <1>3, <1>4
  <2> HIDE DEF h, s, i
  <2> QED
    BY <1>3, <1>4, <2>1, PushFacts
<1>6. /\ slab_caches'[i] = <<h>> \o s
      /\ \A j \in Classes : j # i => slab_caches'[j] = slab_caches[j]
      /\ slab_caches' \in [Classes -> Seq(Nat)]
  <2> HIDE DEF i, h
  <2>1. slab_caches' = [slab_caches EXCEPT ![i] = <<h>> \o @]
    BY DEF i, h
  <2> QED
    BY <1>1, <1>3, <1>5, <2>1 DEF HeapTypeOK
<1>7. HeapTypeOK'
  BY <1>1, <1>6 DEF HeapTypeOK
<1>8. HeldOnce' /\ HeldBlocks'
  BY <1>1, Zenon DEF HeldOnce, HeldBlocks
<1>9. HeldPages'
  BY <1>1, <1>2, Zenon DEF HeldPages
<1>10. ASSUME NEW j, NEW p
       PROVE  p \in InUse(j)' <=> p \in InUse(j) /\ p # h
  <2>1. ASSUME p \in InUse(j)' PROVE p \in InUse(j) /\ p # h
    <3>1. PICK v \in allocated' : /\ p = v.ptr /\ v.ptr < buddy_start
                                  /\ ClassesFor(Bytes(v.layout)) # {} /\ ClassOf(v) = j
      BY <2>1, InUseNext
    <3>2. v \in allocated /\ v # u
      BY <3>1
    <3>3. p # h
      BY <1>1, <3>1, <3>2 DEF HeldOnce
    <3> QED
      BY <3>1, <3>2, <3>3, InUseIs
  <2>2. ASSUME p \in InUse(j), p # h PROVE p \in InUse(j)'
    <3>1. PICK v \in allocated : /\ p = v.ptr /\ v.ptr < buddy_start
                                 /\ ClassesFor(Bytes(v.layout)) # {} /\ ClassOf(v) = j
      BY <2>2, InUseIs
    <3>2. v \in allocated'
      BY <2>2, <3>1
    <3> QED
      BY <3>1, <3>2, InUseNext
  <2> QED
    BY <2>1, <2>2
<1>11. ASSUME NEW j \in Classes PROVE CacheOK(j)'
  <2>1. CASE j = i
    <3>1. InUse(i)' = InUse(i) \ {h}
      <4>1. \A p : p \in InUse(i)' <=> p \in InUse(i) /\ p # h
        BY <1>10
      <4> HIDE DEF i, h
      <4> QED
        BY <4>1
    <3> HIDE DEF s, h, i
    <3>2. /\ ToSet(slab_caches'[i]) \cup InUse(i)' = ToSet(InitSlab(i))
          /\ ToSet(slab_caches'[i]) \cap InUse(i)' = {} /\ NoRepeat(slab_caches'[i])
      BY <1>3, <1>4, <1>5, <1>6, <3>1
    <3>3. CacheOK(j)' <=> /\ ToSet(slab_caches'[j]) \cup InUse(j)' = ToSet(InitSlab(j))
                          /\ ToSet(slab_caches'[j]) \cap InUse(j)' = {} /\ NoRepeat(slab_caches'[j])
      BY DEF CacheOK
    <3> QED
      BY <2>1, <3>2, <3>3, Zenon
  <2>2. CASE j # i
    <3>1. h \notin InUse(j)
      <4> SUFFICES ASSUME h \in InUse(j) PROVE FALSE
        OBVIOUS
      <4>1. PICK v \in allocated : h = v.ptr /\ ClassOf(v) = j
        BY InUseIs
      <4>2. v = u
        BY <1>1, <4>1 DEF HeldOnce
      <4> QED
        BY <2>2, <4>1, <4>2
    <3>2. \A p : p \in InUse(j)' <=> p \in InUse(j)
      BY <1>10, <3>1
    <3>3. InUse(j)' = InUse(j) /\ slab_caches'[j] = slab_caches[j]
      BY <1>6, <2>2, <3>2
    <3> QED
      BY <1>1, <3>3 DEF CacheOK
  <2> QED
    BY <2>1, <2>2
<1> QED
  BY <1>2, <1>7, <1>8, <1>9, <1>11 DEF HeapInv

\* dealloc().
LEMMA DeallocInv ==
  ASSUME HeapInv, NEW u \in allocated, Dealloc(u)
  PROVE  HeapInv'
<1>1. CASE InBuddy(u)
  <2>1. allocated' = allocated \ {u} /\ UNCHANGED <<slab_caches, call>> /\ TakeBack(RecordOf(u))
    BY <1>1, Zenon DEF Dealloc, InBuddy, RecordOf
  <2> QED
    BY <1>1, <2>1, PageFreed
<1>2. CASE ~InBuddy(u)
  <2>1. /\ slab_caches' = [slab_caches EXCEPT ![ClassOf(u)] = <<u.ptr>> \o @]
        /\ allocated' = allocated \ {u} /\ UNCHANGED call /\ UNCHANGED buddyVars
    BY <1>2, Zenon DEF Dealloc, InBuddy, ClassOf
  <2> QED
    BY <1>2, <2>1, BlockFreed
<1> QED
  BY <1>1, <1>2

\* Every step keeps the invariant.
LEMMA HeapNext == HeapInv /\ [Next]_vars => HeapInv'
<1> SUFFICES ASSUME HeapInv, [Next]_vars PROVE HeapInv'
  OBVIOUS
<1>1. ASSUME NEW c \in Callers, NEW l \in Layouts, SlabAlloc(c, l) PROVE HeapInv'
  BY <1>1, SlabAllocInv
<1>2. ASSUME NEW c \in Callers, BuddyAlloc(c) PROVE HeapInv'
  BY <1>2, BuddyAllocInv
<1>3. ASSUME NEW u \in allocated, Dealloc(u) PROVE HeapInv'
  BY <1>3, DeallocInv
<1>4. ASSUME UNCHANGED vars PROVE HeapInv'
  <2>1. UNCHANGED <<slab_caches, allocated, call>> /\ UNCHANGED buddyVars
    BY <1>4 DEF vars
  <2>2. BuddyInv' /\ live' = live
    BY <2>1, BuddyNextInv DEF HeapInv, buddyVars
  <2>3. HeapTypeOK'
    BY <2>1 DEF HeapInv, HeapTypeOK
  <2>4. HeldOnce' /\ HeldBlocks'
    BY <2>1 DEF HeapInv, HeldOnce, HeldBlocks
  <2>5. HeldPages'
    BY <2>1, <2>2 DEF HeapInv, HeldPages
  <2>6. \A j \in Classes : CacheOK(j)'
    BY <2>1, CachesKept
  <2> QED
    BY <2>2, <2>3, <2>4, <2>5, <2>6 DEF HeapInv
<1> QED
  BY <1>1, <1>2, <1>3, <1>4 DEF Next

\* The invariant holds in every reachable state.
LEMMA HeapInvariant == Spec => []HeapInv
  BY HeapInit, HeapNext, PTL DEF Spec

\* alloc() never hands out a byte twice nor one outside the heap, for every
\* heap, set of size classes, set of layouts and number of callers.
THEOREM HeapNoOverlap == Spec => []NoOverlap
  BY HeapInvariant, InvNoOverlap, PTL

\* dealloc() returns every block to the slab it came from.
THEOREM HeapSlabConserved == Spec => []SlabConserved
  BY HeapInvariant, InvSlabConserved, PTL

\* Taking the larger of size and alignment is enough to align every address
\* within its slab or region.
THEOREM HeapAlignedInRegion == Spec => []AlignedInRegion
  BY HeapInvariant, InvAligned, PTL

\* Seen from the buddy allocator the heap is one of its callers: every step of
\* the heap is a step of BuddySpec or leaves the buddy allocator alone.
THEOREM HeapUsesBuddy == Spec => BuddySpec
<1>1. Init => BuddyInit
  BY DEF Init
<1>2. HeapInv /\ [Next]_vars => [BuddyNext]_buddyVars
  <2> SUFFICES ASSUME HeapInv, [Next]_vars PROVE [BuddyNext]_buddyVars
    OBVIOUS
  <2>1. ASSUME NEW c \in Callers, NEW l \in Layouts, SlabAlloc(c, l)
        PROVE  UNCHANGED buddyVars
    BY <2>1 DEF SlabAlloc
  <2>2. ASSUME NEW c \in Callers, BuddyAlloc(c)
        PROVE  [BuddyNext]_buddyVars
    <3>1. call[c] \in Layouts
      BY <2>2 DEF BuddyAlloc, HeapInv, HeapTypeOK
    <3>2. PagesOf(call[c]) \in Requests
      BY <3>1, LayoutFacts
    <3>3. CASE \E p \in Pages : HandOut(PagesOf(call[c]), p)
      BY <3>2, <3>3, Zenon DEF BuddyNext
    <3>4. CASE UNCHANGED <<buddyVars, allocated>>
      <4>1. UNCHANGED buddyVars
        BY <3>4
      <4> QED
        BY <4>1
    <3> QED
      BY <2>2, <3>3, <3>4, Zenon DEF BuddyAlloc
  <2>3. ASSUME NEW u \in allocated, Dealloc(u)
        PROVE  [BuddyNext]_buddyVars
    <3>1. CASE InBuddy(u)
      <4>1. TakeBack(RecordOf(u)) /\ RecordOf(u) \in live
        BY <2>3, <3>1, Zenon DEF Dealloc, InBuddy, RecordOf, HeapInv, HeldPages
      <4>2. BuddyNext
        BY <4>1, Zenon DEF BuddyNext
      <4> QED
        BY <4>2
    <3>2. CASE ~InBuddy(u)
      BY <2>3, <3>2, Zenon DEF Dealloc, InBuddy
    <3> QED
      BY <3>1, <3>2
  <2>4. ASSUME UNCHANGED vars PROVE UNCHANGED buddyVars
    BY <2>4 DEF vars
  <2> QED
    BY <2>1, <2>2, <2>3, <2>4 DEF Next
<1> QED
  BY <1>1, <1>2, HeapInvariant, PTL DEF Spec, BuddySpec
=============================================================================
