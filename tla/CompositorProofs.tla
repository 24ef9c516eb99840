-------------------------- MODULE CompositorProofs --------------------------
(***************************************************************************)
(* For every screen, and any writers, regions and commands: no flushed     *)
(* command is lost, repeated or reordered on its way to the shadow buffer, *)
(* and the dirty rectangle lies on the screen and covers what the screen   *)
(* does not show yet. For every program of a writer: batching its text     *)
(* changes nothing that is drawn, and its text stays in its region.        *)
(***************************************************************************)
EXTENDS Compositor, SequenceTheorems, NaturalsInduction, WellFoundedInduction, TLAPS

AllCommands == UNION {CommandsOf[w] : w \in Writers}

\* Queues of commands by writer, each of its own.
Queues == {q \in [Writers -> Seq(AllCommands)] :
             \A w \in Writers : \A i \in 1 .. Len(q[w]) : q[w][i] \in CommandsOf[w]}

CompositorTypeOK ==
  /\ local_commands \in Queues /\ commands \in Queues
  /\ dirty \in [Writers -> BOOLEAN]
  /\ holder \in [Writers -> Writers \cup {Task, None}]
  /\ buffers \in Seq(Writers) /\ snapshot \in Seq(Writers)
  /\ writing \in [Writers -> {"new", "idle", "locked"}]
  /\ pc \in {"snapshot", "next", "render"}
  /\ rendered \in Nat

\* Who is inside a buffer's mutex: its writer while it flushes, or the
\* compositor, only in the buffer at the head of what is left of its frame.
Locking ==
  /\ \A w \in Writers : holder[w] = w <=> writing[w] = "locked"
  /\ \A w \in Writers : holder[w] = Task <=> pc = "render" /\ w = Head(snapshot)
  /\ pc = "render" => snapshot # <<>> /\ rendered <= Len(commands[Head(snapshot)])

LockInv == CompositorTypeOK /\ Locking

\* The dirty rectangle is a part of the screen.
OnScreen(r) == r \in Region /\ right(r) <= Width /\ bottom(r) <= Height

DirtyInv == dirty_rect = None \/ OnScreen(dirty_rect)

-----------------------------------------------------------------------------
(* What a sequence of commands paints *)

\* A nonempty set of naturals has a least element.
LEMMA LeastNat ==
  ASSUME NEW S \in SUBSET Nat, S # {}
  PROVE  \E m \in S : \A k \in S : m <= k
<1>1. PICK m \in S : \A k \in S : <<k, m>> \notin OpToRel(<, Nat)
  BY NatLessThanWellFounded, WFMin, Zenon
<1>2. \A k \in S : ~(k < m)
  BY <1>1 DEF OpToRel
<1> QED
  BY <1>2

\* And a greatest one, if it is bounded.
LEMMA GreatestNat ==
  ASSUME NEW S \in SUBSET Nat, S # {}, NEW n \in Nat, \A k \in S : k <= n
  PROVE  \E m \in S : \A k \in S : k <= m
<1> DEFINE T == {n - k : k \in S}
<1>1. T \in SUBSET Nat /\ T # {}
  <2>1. \A k \in S : n - k \in Nat
    OBVIOUS
  <2> QED
    BY <2>1, Zenon
<1>2. PICK t \in T : \A u \in T : t <= u
  BY <1>1, LeastNat
<1>3. PICK m \in S : t = n - m
  OBVIOUS
<1>4. ASSUME NEW k \in S PROVE k <= m
  <2>1. n - k \in T /\ n - m <= n - k
    BY <1>2, <1>3
  <2> QED
    BY <2>1
<1> QED
  BY <1>4

\* The least and the greatest of two.
LEMMA MinMaxOfTwo ==
  ASSUME NEW a \in Int, NEW b \in Int
  PROVE  /\ Min({a, b}) = IF a <= b THEN a ELSE b
         /\ Max({a, b}) = IF a >= b THEN a ELSE b
<1>1. ASSUME NEW x \in {a, b}, \A y \in {a, b} : x <= y
      PROVE  Min({a, b}) = x
  BY <1>1 DEF Min
<1>2. ASSUME NEW x \in {a, b}, \A y \in {a, b} : x >= y
      PROVE  Max({a, b}) = x
  BY <1>2 DEF Max
<1> QED
  BY <1>1, <1>2

Hits(w, cmds, p) == {i \in 1 .. Len(cmds) : p \in Ink(w, cmds[i])}

\* The command that decides a pixel's colour.
Decides(w, cmds, p, i) ==
  i \in Hits(w, cmds, p) /\ \A j \in Hits(w, cmds, p) : j <= i

\* A pixel that no command touches keeps its colour.
LEMMA PaintNone ==
  ASSUME NEW p \in Screen, NEW w, NEW cmds, NEW image, Hits(w, cmds, p) = {}
  PROVE  PaintAll(image, w, cmds)[p] = image[p]
BY DEF PaintAll, Hits

\* Otherwise the last one decides.
LEMMA PaintLast ==
  ASSUME NEW p \in Screen, NEW w, NEW cmds, NEW image, Len(cmds) \in Nat,
         NEW i, Decides(w, cmds, p, i)
  PROVE  PaintAll(image, w, cmds)[p] = cmds[i].color
<1> DEFINE H == Hits(w, cmds, p)
<1>1. H # {} /\ PaintAll(image, w, cmds)[p] = cmds[Max(H)].color
  BY DEF PaintAll, Hits, Decides
<1>2. H \in SUBSET Nat
  BY DEF Hits
<1>3. Max(H) = i
  BY <1>2 DEF Max, Decides
<1> QED
  BY <1>1, <1>3

\* There is a last one if there is any.
LEMMA PaintCases ==
  ASSUME NEW p, NEW w, NEW cmds, Len(cmds) \in Nat
  PROVE  Hits(w, cmds, p) = {} \/ \E i \in 1 .. Len(cmds) : Decides(w, cmds, p, i)
<1> DEFINE H == Hits(w, cmds, p)
<1>1. H \in SUBSET Nat /\ \A k \in H : k <= Len(cmds) /\ k \in 1 .. Len(cmds)
  BY DEF Hits
<1>2. ASSUME H # {} PROVE \E m \in H : \A k \in H : k <= m
  BY <1>1, <1>2, GreatestNat
<1> QED
  BY <1>1, <1>2 DEF Decides

\* A sequence of commands is painted by painting its parts one after the other.
LEMMA PaintConcat ==
  ASSUME NEW p \in Screen, NEW w, NEW S, NEW a \in Seq(S), NEW b \in Seq(S), NEW image, NEW other,
         other[p] = PaintAll(image, w, a)[p]
  PROVE  PaintAll(image, w, a \o b)[p] = PaintAll(other, w, b)[p]
<1> DEFINE c == a \o b  m == Len(a)  n == Len(b)
<1>1. /\ m \in Nat /\ n \in Nat /\ Len(c) = m + n
      /\ \A i \in 1 .. m : c[i] = a[i]
      /\ \A i \in 1 .. n : c[m + i] = b[i]
  OBVIOUS
<1> HIDE DEF c
<1>2. /\ \A i \in 1 .. m : i \in Hits(w, c, p) <=> i \in Hits(w, a, p)
      /\ \A i \in 1 .. n : m + i \in Hits(w, c, p) <=> i \in Hits(w, b, p)
  BY <1>1 DEF Hits
<1>3. \A i \in Hits(w, c, p) : i \in 1 .. m \/ (i - m \in 1 .. n /\ i = m + (i - m))
  BY <1>1 DEF Hits
<1>4. CASE \E i \in 1 .. n : Decides(w, b, p, i)
  <2>1. PICK i \in 1 .. n : Decides(w, b, p, i)
    BY <1>4
  <2>2. m + i \in Hits(w, c, p) /\ \A j \in Hits(w, b, p) : j <= i
    BY <1>2, <2>1 DEF Decides
  <2>3. ASSUME NEW j \in Hits(w, c, p) PROVE j <= m + i
    <3>1. CASE j \in 1 .. m
      BY <1>1, <2>1, <3>1
    <3>2. CASE j - m \in 1 .. n /\ j = m + (j - m)
      <4>1. j - m \in Hits(w, b, p)
        BY <1>2, <2>3, <3>2
      <4> QED
        BY <1>1, <2>2, <3>2, <4>1
    <3> QED
      BY <1>3, <2>3, <3>1, <3>2
  <2>4. Decides(w, c, p, m + i)
    BY <2>2, <2>3 DEF Decides
  <2>5. PaintAll(image, w, c)[p] = c[m + i].color /\ PaintAll(other, w, b)[p] = b[i].color
    BY <1>1, <2>1, <2>4, PaintLast
  <2> QED
    BY <1>1, <2>1, <2>5 DEF c
<1>5. CASE Hits(w, b, p) = {}
  <2>1. PaintAll(other, w, b)[p] = other[p]
    BY <1>5, PaintNone
  <2>2. CASE Hits(w, a, p) = {}
    <3>1. Hits(w, c, p) = {}
      BY <1>2, <1>3, <1>5, <2>2
    <3> QED
      BY <2>1, <2>2, <3>1, PaintNone DEF c
  <2>3. CASE \E i \in 1 .. m : Decides(w, a, p, i)
    <3>1. PICK i \in 1 .. m : Decides(w, a, p, i)
      BY <2>3
    <3>2. \A j \in Hits(w, c, p) : j \in Hits(w, a, p)
      BY <1>2, <1>3, <1>5
    <3>3. Decides(w, c, p, i)
      BY <1>2, <3>1, <3>2 DEF Decides
    <3>4. PaintAll(image, w, c)[p] = c[i].color /\ PaintAll(image, w, a)[p] = a[i].color
      BY <1>1, <3>1, <3>3, PaintLast, SMTT(60)
    <3> QED
      BY <1>1, <2>1, <3>1, <3>4 DEF c
  <2> QED
    BY <1>1, <2>2, <2>3, PaintCases
<1> QED
  BY <1>1, <1>4, <1>5, PaintCases

\* One command and the ones that follow it.
LEMMA PaintFirst ==
  ASSUME NEW p \in Screen, NEW w, NEW S, NEW a \in Seq(S), NEW k \in Nat, k < Len(a), NEW image
  PROVE  PaintAll(image, w, SubSeq(a, k + 1, Len(a)))[p]
           = PaintAll(Painted(image, w, a[k + 1]), w, SubSeq(a, k + 2, Len(a)))[p]
<1> DEFINE x == a[k + 1]  b == SubSeq(a, k + 2, Len(a))
<1>1. x \in S /\ b \in Seq(S) /\ <<x>> \in Seq(S)
  OBVIOUS
<1>2. SubSeq(a, k + 1, Len(a)) = <<x>> \o b
  OBVIOUS
<1>3. PaintAll(image, w, <<x>>)[p] = Painted(image, w, x)[p]
  <2>1. CASE p \in Ink(w, x)
    <3>1. Decides(w, <<x>>, p, 1)
      BY <2>1 DEF Decides, Hits
    <3>2. PaintAll(image, w, <<x>>)[p] = x.color
      BY <3>1, PaintLast
    <3> QED
      BY <2>1, <3>2 DEF Painted
  <2>2. CASE p \notin Ink(w, x)
    <3>1. Hits(w, <<x>>, p) = {}
      BY <2>2 DEF Hits
    <3> QED
      BY <2>2, <3>1, PaintNone DEF Painted
  <2> QED
    BY <2>1, <2>2
<1> DEFINE next == Painted(image, w, x)  h == <<x>>
<1>4. PaintAll(image, w, h \o b)[p] = PaintAll(next, w, b)[p]
  <2>1. next[p] = PaintAll(image, w, h)[p] /\ h \in Seq(S) /\ b \in Seq(S)
    BY <1>1, <1>3
  <2> HIDE DEF x, b, next, h
  <2> QED
    BY <2>1, PaintConcat
<1> QED
  BY <1>2, <1>4

-----------------------------------------------------------------------------
(* Rectangles *)

\* A pixel of the screen is in a rectangle if it is between its edges.
LEMMA InPixels ==
  ASSUME NEW r \in Region, NEW p \in Screen
  PROVE  /\ p[1] \in Nat /\ p[2] \in Nat /\ p[1] < Width /\ p[2] < Height
         /\ p \in Pixels(r) <=> /\ r.x <= p[1] /\ p[1] < right(r)
                                /\ r.y <= p[2] /\ p[2] < bottom(r)
<1>1. PICK a \in 0 .. Width - 1, b \in 0 .. Height - 1 : p = <<a, b>>
  BY DEF Screen
<1>2. r.x \in Nat /\ r.y \in Nat /\ r.width \in Nat /\ r.height \in Nat
  BY DEF Region
<1> QED
  BY <1>1, <1>2, CompositorAssumption DEF Pixels, right, bottom

\* Clipping keeps the pixels that are on the screen and no others.
LEMMA ClipKeeps ==
  ASSUME NEW r \in Region
  PROVE  LET c == Clip(r)
             empty == c.width <= 0 \/ c.height <= 0
         IN  /\ ~empty => OnScreen(c)
             /\ \A p \in Screen : p \in Pixels(r) => ~empty /\ p \in Pixels(c)
<1> DEFINE c == Clip(r)
           empty == c.width <= 0 \/ c.height <= 0
<1>1. r.x \in Nat /\ r.y \in Nat /\ r.width \in Nat /\ r.height \in Nat
  BY DEF Region
<1>2. Width \in Nat /\ Height \in Nat
  BY CompositorAssumption
<1>3. c = [x |-> IF r.x <= Width THEN r.x ELSE Width,
           y |-> IF r.y <= Height THEN r.y ELSE Height,
           width |-> (IF r.x + r.width <= Width THEN r.x + r.width ELSE Width)
                       - (IF r.x <= Width THEN r.x ELSE Width),
           height |-> (IF r.y + r.height <= Height THEN r.y + r.height ELSE Height)
                        - (IF r.y <= Height THEN r.y ELSE Height)]
  <2>1. /\ Min({r.x, Width}) = IF r.x <= Width THEN r.x ELSE Width
        /\ Min({r.y, Height}) = IF r.y <= Height THEN r.y ELSE Height
    BY <1>1, <1>2, MinMaxOfTwo
  <2>2. right(r) = r.x + r.width /\ right(r) \in Int
        /\ bottom(r) = r.y + r.height /\ bottom(r) \in Int
    BY <1>1 DEF right, bottom
  <2>3. /\ Min({right(r), Width}) = IF right(r) <= Width THEN right(r) ELSE Width
        /\ Min({bottom(r), Height}) = IF bottom(r) <= Height THEN bottom(r) ELSE Height
    BY <1>2, <2>2, MinMaxOfTwo
  <2> QED
    BY <2>1, <2>2, <2>3 DEF Clip
<1>4. ~empty => OnScreen(c)
  BY <1>1, <1>2, <1>3 DEF OnScreen, Region, right, bottom
<1>5. ASSUME NEW p \in Screen, p \in Pixels(r) PROVE ~empty /\ p \in Pixels(c)
  <2>1. /\ p[1] \in Nat /\ p[2] \in Nat /\ p[1] < Width /\ p[2] < Height
        /\ r.x <= p[1] /\ p[1] < r.x + r.width /\ r.y <= p[2] /\ p[2] < r.y + r.height
    BY <1>5, InPixels DEF right, bottom
  <2>2. ~empty
    BY <1>1, <1>2, <1>3, <2>1
  <2>3. /\ c.x <= p[1] /\ p[1] < c.x + c.width /\ c.y <= p[2] /\ p[2] < c.y + c.height
    BY <1>1, <1>2, <1>3, <2>1
  <2>4. c \in Region
    BY <1>4, <2>2 DEF OnScreen
  <2> HIDE DEF c
  <2>5. p \in Pixels(c)
    BY <2>3, <2>4, InPixels DEF right, bottom
  <2> QED
    BY <2>2, <2>5 DEF c
<1> QED
  BY <1>4, <1>5

\* mark_dirty keeps the rectangle on the screen, never uncovers what it covered,
\* and covers what is marked.
LEMMA MarkDirtyCovers ==
  ASSUME NEW old, old = None \/ OnScreen(old), NEW r \in Region
  PROVE  LET new == mark_dirty(old, r)
         IN  /\ new = None \/ OnScreen(new)
             /\ old # None => new # None
             /\ \A p \in Screen : old # None /\ p \in Pixels(old) => p \in Pixels(new)
             /\ \A p \in Screen : p \in Pixels(r) => new # None /\ p \in Pixels(new)
<1> DEFINE c == Clip(r)
           empty == c.width <= 0 \/ c.height <= 0
           new == mark_dirty(old, r)
<1>1. /\ ~empty => OnScreen(c)
      /\ \A p \in Screen : p \in Pixels(r) => ~empty /\ p \in Pixels(c)
  BY ClipKeeps
<1>2. \A q : OnScreen(q) => q # None
  BY CompositorAssumption DEF OnScreen
<1>3. CASE empty
  <2>1. new = old
    BY <1>3 DEF mark_dirty
  <2> QED
    BY <1>1, <1>3, <2>1
<1>4. CASE ~empty /\ old = None
  <2>1. new = c
    BY <1>4 DEF mark_dirty
  <2> QED
    BY <1>1, <1>2, <1>4, <2>1
<1>5. CASE ~empty /\ old # None
  <2>1. OnScreen(old) /\ OnScreen(c)
    BY <1>1, <1>5
  <2>2. new = [x |-> Min({old.x, c.x}), y |-> Min({old.y, c.y}),
               width |-> Max({right(old), right(c)}) - Min({old.x, c.x}),
               height |-> Max({bottom(old), bottom(c)}) - Min({old.y, c.y})]
    BY <1>5 DEF mark_dirty
  <2> HIDE DEF c, new
  <2>3. /\ old.x \in Nat /\ old.y \in Nat /\ old.width \in Nat /\ old.height \in Nat
        /\ c.x \in Nat /\ c.y \in Nat /\ c.width \in Nat /\ c.height \in Nat
        /\ right(old) <= Width /\ bottom(old) <= Height
        /\ right(c) <= Width /\ bottom(c) <= Height
        /\ Width \in Nat /\ Height \in Nat
    BY <2>1, CompositorAssumption DEF OnScreen, Region
  <2>4. /\ new.x = IF old.x <= c.x THEN old.x ELSE c.x
        /\ new.y = IF old.y <= c.y THEN old.y ELSE c.y
        /\ new.x + new.width = IF right(old) >= right(c) THEN right(old) ELSE right(c)
        /\ new.y + new.height = IF bottom(old) >= bottom(c) THEN bottom(old) ELSE bottom(c)
        /\ new.width \in Nat /\ new.height \in Nat
    <3>1. /\ Min({old.x, c.x}) = IF old.x <= c.x THEN old.x ELSE c.x
          /\ Min({old.y, c.y}) = IF old.y <= c.y THEN old.y ELSE c.y
      BY <2>3, MinMaxOfTwo
    <3>2. /\ right(old) = old.x + old.width /\ right(c) = c.x + c.width
          /\ bottom(old) = old.y + old.height /\ bottom(c) = c.y + c.height
          /\ right(old) \in Int /\ right(c) \in Int /\ bottom(old) \in Int /\ bottom(c) \in Int
      BY <2>3 DEF right, bottom
    <3>3. /\ Max({right(old), right(c)}) = IF right(old) >= right(c) THEN right(old) ELSE right(c)
          /\ Max({bottom(old), bottom(c)})
               = IF bottom(old) >= bottom(c) THEN bottom(old) ELSE bottom(c)
      BY <3>2, MinMaxOfTwo
    <3> QED
      BY <2>2, <2>3, <3>1, <3>2, <3>3
  <2>5. new \in Region
    <3>1. new = [x |-> new.x, y |-> new.y, width |-> new.width, height |-> new.height]
      BY <2>2
    <3> QED
      BY <2>3, <2>4, <3>1 DEF Region
  <2>6. OnScreen(new)
    BY <2>3, <2>4, <2>5 DEF OnScreen, right, bottom
  <2>7. ASSUME NEW p \in Screen, p \in Pixels(old) \/ p \in Pixels(c)
        PROVE  p \in Pixels(new)
    <3>1. /\ p[1] \in Nat /\ p[2] \in Nat
          /\ \/ old.x <= p[1] /\ p[1] < right(old) /\ old.y <= p[2] /\ p[2] < bottom(old)
             \/ c.x <= p[1] /\ p[1] < right(c) /\ c.y <= p[2] /\ p[2] < bottom(c)
      BY <2>1, <2>7, InPixels DEF OnScreen
    <3>2. new.x <= p[1] /\ p[1] < right(new) /\ new.y <= p[2] /\ p[2] < bottom(new)
      BY <2>3, <2>4, <3>1 DEF right, bottom
    <3> QED
      BY <2>5, <3>2, InPixels
  <2> QED
    BY <1>1, <1>2, <1>5, <2>6, <2>7 DEF c, new
<1> QED
  BY <1>3, <1>4, <1>5

\* A command's ink is inside the rectangle it marks.
LEMMA InkInArea ==
  ASSUME NEW w \in Writers, NEW cmd \in CommandsOf[w]
  PROVE  /\ Area(w, cmd) \in Region
         /\ \A p \in Screen : p \in Ink(w, cmd) => p \in Pixels(Area(w, cmd))
<1> DEFINE r == RegionOf[w]  a == Area(w, cmd)
<1>1. r \in Region /\ CommandOK(w, cmd)
  BY CompositorAssumption
<1>2. r.x \in Nat /\ r.y \in Nat /\ r.width \in Nat /\ r.height \in Nat
  BY <1>1 DEF Region
<1>3. cmd.kind # "Clear" => /\ cmd.x \in Nat /\ cmd.y \in Nat
                            /\ cmd.width \in Nat /\ cmd.height \in Nat
  BY <1>1 DEF CommandOK
<1>4. a \in Region
  BY <1>1, <1>2, <1>3 DEF Area, Region
<1>5. ASSUME NEW p \in Screen, p \in Ink(w, cmd) PROVE p \in Pixels(a)
  <2>1. CASE cmd.kind # "DrawString"
    BY <1>5, <2>1 DEF Ink
  <2>2. CASE cmd.kind = "DrawString"
    <3>1. PICK g \in cmd.glyphs : p = <<r.x + g[1], r.y + g[2]>>
      BY <1>5, <2>2 DEF Ink
    <3>2. g \in Pixels(cmd)
      BY <1>1, <2>2 DEF CommandOK
    <3>3. /\ g[1] \in cmd.x .. (cmd.x + cmd.width) - 1
          /\ g[2] \in cmd.y .. (cmd.y + cmd.height) - 1
      <4>1. g \in (cmd.x .. (cmd.x + cmd.width) - 1) \X (cmd.y .. (cmd.y + cmd.height) - 1)
        BY <3>2, Zenon DEF Pixels, right, bottom
      <4> QED
        BY <4>1
    <3>4. a = [x |-> r.x + cmd.x, y |-> r.y + cmd.y,
               width |-> cmd.width, height |-> cmd.height]
      BY <2>2 DEF Area
    <3>5. r.x + g[1] \in a.x .. (a.x + a.width) - 1 /\ r.y + g[2] \in a.y .. (a.y + a.height) - 1
      BY <1>2, <1>3, <2>2, <3>3, <3>4
    <3> HIDE DEF a, r
    <3>6. <<r.x + g[1], r.y + g[2]>> \in (a.x .. (a.x + a.width) - 1) \X (a.y .. (a.y + a.height) - 1)
      BY <3>5
    <3> QED
      BY <3>1, <3>6, Zenon DEF Pixels, right, bottom
  <2> QED
    BY <2>1, <2>2
<1> QED
  BY <1>4, <1>5

-----------------------------------------------------------------------------
(* Who holds a buffer *)

\* A writer's queue may be replaced by any of its own commands.
LEMMA QueueReplaced ==
  ASSUME NEW q \in Queues, NEW w \in Writers, NEW a \in Seq(AllCommands),
         \A i \in 1 .. Len(a) : a[i] \in CommandsOf[w]
  PROVE  [q EXCEPT ![w] = a] \in Queues
BY DEF Queues

\* Or emptied.
LEMMA QueueEmptied ==
  ASSUME NEW q \in Queues, NEW w \in Writers
  PROVE  [q EXCEPT ![w] = <<>>] \in Queues
BY DEF Queues

\* A queue of w holds commands of w.
LEMMA QueueTypes ==
  ASSUME NEW q \in Queues, NEW w \in Writers
  PROVE  /\ q[w] \in Seq(AllCommands) /\ Len(q[w]) \in Nat
         /\ \A i \in 1 .. Len(q[w]) : q[w][i] \in CommandsOf[w]
BY DEF Queues

\* The type correctness and locking discipline hold initially.
LEMMA LockInit == Init => LockInv
<1> SUFFICES ASSUME Init PROVE LockInv
  OBVIOUS
<1>1. [w \in Writers |-> <<>>] \in Queues
  BY DEF Queues
<1>2. CompositorTypeOK
  BY <1>1 DEF Init, CompositorTypeOK
<1>3. Locking
  BY CompositorAssumption DEF Init, Locking
<1> QED
  BY <1>2, <1>3 DEF LockInv

\* Drawing appends a command of the writer.
LEMMA DrawLock ==
  ASSUME LockInv, NEW w \in Writers, Draw(w)
  PROVE  LockInv'
<1>1. PICK cmd \in CommandsOf[w] :
        local_commands' = [local_commands EXCEPT ![w] = Append(local_commands[w], cmd)]
  BY DEF Draw
<1> DEFINE q == local_commands[w]  a == Append(q, cmd)
<1>2. /\ q \in Seq(AllCommands) /\ Len(q) \in Nat
      /\ \A i \in 1 .. Len(q) : q[i] \in CommandsOf[w]
  BY QueueTypes DEF LockInv, CompositorTypeOK
<1>3. cmd \in AllCommands
  BY DEF AllCommands
<1>4. a \in Seq(AllCommands) /\ \A i \in 1 .. Len(a) : a[i] \in CommandsOf[w]
  <2> HIDE DEF q
  <2> QED
    BY <1>2, <1>3
<1>5. local_commands' \in Queues
  BY <1>1, <1>4, QueueReplaced DEF LockInv, CompositorTypeOK
<1> QED
  BY <1>5 DEF LockInv, CompositorTypeOK, Locking, Draw, bufferVars, taskVars

\* Flushing moves the writer's commands and gives the buffer back.
LEMMA FlushExtendLock ==
  ASSUME LockInv, NEW w \in Writers, FlushExtend(w)
  PROVE  LockInv'
<1> DEFINE q == commands[w]  l == local_commands[w]  a == q \o l
<1>1. /\ q \in Seq(AllCommands) /\ Len(q) \in Nat
      /\ \A i \in 1 .. Len(q) : q[i] \in CommandsOf[w]
      /\ l \in Seq(AllCommands) /\ Len(l) \in Nat
      /\ \A i \in 1 .. Len(l) : l[i] \in CommandsOf[w]
  BY QueueTypes DEF LockInv, CompositorTypeOK
<1>2. a \in Seq(AllCommands) /\ \A i \in 1 .. Len(a) : a[i] \in CommandsOf[w]
  <2> HIDE DEF q, l
  <2>1. /\ a \in Seq(AllCommands) /\ Len(a) = Len(q) + Len(l)
        /\ \A i \in 1 .. Len(a) : a[i] = IF i <= Len(q) THEN q[i] ELSE l[i - Len(q)]
    BY <1>1, ConcatProperties
  <2>2. ASSUME NEW i \in 1 .. Len(a) PROVE a[i] \in CommandsOf[w]
    <3>1. CASE i <= Len(q)
      BY <1>1, <2>1, <3>1
    <3>2. CASE ~(i <= Len(q))
      <4>1. i - Len(q) \in 1 .. Len(l)
        BY <1>1, <2>1, <3>2
      <4> QED
        BY <1>1, <2>1, <3>2, <4>1
    <3> QED
      BY <3>1, <3>2
  <2> QED
    BY <2>1, <2>2
<1>3. commands' \in Queues
  BY <1>2, QueueReplaced DEF FlushExtend, LockInv, CompositorTypeOK
<1>4. local_commands' \in Queues
  BY QueueEmptied DEF FlushExtend, LockInv, CompositorTypeOK
<1>5. holder[w] = w /\ w # Task
  BY CompositorAssumption DEF LockInv, Locking, FlushExtend
<1>6. CompositorTypeOK'
  BY <1>3, <1>4 DEF FlushExtend, LockInv, CompositorTypeOK, taskVars
<1>7. pc = "render" => Head(snapshot) # w /\ commands'[Head(snapshot)] = commands[Head(snapshot)]
  <2> SUFFICES ASSUME pc = "render"
               PROVE  Head(snapshot) # w /\ commands'[Head(snapshot)] = commands[Head(snapshot)]
    OBVIOUS
  <2>1. Head(snapshot) # w
    BY <1>5 DEF LockInv, Locking
  <2>2. Head(snapshot) \in Writers
    BY DEF LockInv, Locking, CompositorTypeOK
  <2> QED
    BY <2>1, <2>2 DEF FlushExtend, LockInv, CompositorTypeOK, Queues
<1>8. \A u \in Writers : /\ holder'[u] = u <=> writing'[u] = "locked"
                         /\ holder'[u] = Task <=> holder[u] = Task
  BY <1>5, CompositorAssumption DEF FlushExtend, LockInv, Locking, CompositorTypeOK
<1>9. UNCHANGED <<pc, snapshot, rendered>>
  BY DEF FlushExtend, taskVars
<1>10. Locking'
  <2> USE DEF LockInv, Locking
  <2>1. \A u \in Writers : holder'[u] = u <=> writing'[u] = "locked"
    BY <1>8
  <2>2. \A u \in Writers : holder'[u] = Task <=> pc' = "render" /\ u = Head(snapshot')
    BY <1>8, <1>9
  <2>3. pc' = "render" => snapshot' # <<>> /\ rendered' <= Len(commands'[Head(snapshot')])
    BY <1>7, <1>9
  <2> QED
    BY <2>1, <2>2, <2>3
<1> QED
  BY <1>6, <1>10 DEF LockInv

\* The other steps of a writer.
LEMMA WriterLock ==
  ASSUME LockInv, NEW w \in Writers, RegisterWriter(w) \/ FlushLock(w)
  PROVE  LockInv'
<1>1. CASE RegisterWriter(w)
  <2>1. buffers' \in Seq(Writers)
    BY <1>1, AppendProperties DEF RegisterWriter, WithWriter, LockInv, CompositorTypeOK
  <2> QED
    BY <1>1, <2>1 DEF RegisterWriter, LockInv, CompositorTypeOK, Locking, bufferVars, taskVars
<1>2. CASE FlushLock(w)
  <2>1. \A u \in Writers : /\ holder'[u] = u <=> writing'[u] = "locked"
                           /\ holder'[u] = Task <=> holder[u] = Task
    BY <1>2, CompositorAssumption DEF FlushLock, LockInv, Locking, CompositorTypeOK
  <2> QED
    BY <1>2, <2>1 DEF FlushLock, LockInv, CompositorTypeOK, Locking, taskVars
<1> QED
  BY <1>1, <1>2

\* The steps of the compositor.
LEMMA CompositorLock ==
  ASSUME LockInv, CompositorStep
  PROVE  LockInv'
<1> USE DEF LockInv, CompositorTypeOK, Locking, writerVars, bufferVars
<1>1. CASE Snapshot
  BY <1>1 DEF Snapshot
<1>2. CASE NextBuffer
  <2> DEFINE w == Head(snapshot)
  <2>1. pc = "next" /\ snapshot # <<>> /\ w \in Writers /\ Tail(snapshot) \in Seq(Writers)
    BY <1>2 DEF NextBuffer
  <2>2. \A u \in Writers : holder[u] # Task
    BY <2>1
  <2>3. CASE holder[w] = None /\ dirty[w]
    <3>1. /\ holder' = [holder EXCEPT ![w] = Task] /\ pc' = "render" /\ rendered' = 0
          /\ UNCHANGED <<snapshot, writerVars, commands, dirty, buffers>>
      BY <1>2, <2>3 DEF NextBuffer
    <3>2. CompositorTypeOK'
      BY <2>1, <3>1
    <3>3. Len(commands[w]) \in Nat
      BY <2>1, QueueTypes
    <3>4. \A u \in Writers : /\ holder'[u] = u <=> writing'[u] = "locked"
                             /\ holder'[u] = Task <=> u = w
      BY <2>1, <2>2, <2>3, <3>1, CompositorAssumption
    <3>5. Locking'
      BY <2>1, <3>1, <3>3, <3>4
    <3> QED
      BY <3>2, <3>5
  <2>4. CASE ~(holder[w] = None /\ dirty[w])
    <3>1. snapshot' = Tail(snapshot) /\ UNCHANGED <<holder, pc, rendered>>
          /\ UNCHANGED <<writerVars, commands, dirty, buffers>>
      BY <1>2, <2>4 DEF NextBuffer
    <3> QED
      BY <2>1, <2>2, <3>1
  <2> QED
    BY <2>3, <2>4
<1>3. CASE Render
  <2>1. Head(snapshot) \in Writers /\ Len(commands[Head(snapshot)]) \in Nat
    BY <1>3, QueueTypes DEF Render
  <2> QED
    BY <1>3, <2>1 DEF Render
<1>4. CASE ClearCommands
  <2> DEFINE w == Head(snapshot)
  <2>1. w \in Writers /\ Tail(snapshot) \in Seq(Writers) /\ holder[w] = Task
    BY <1>4 DEF ClearCommands
  <2>2. commands' \in Queues
    BY <1>4, <2>1, QueueEmptied DEF ClearCommands
  <2>3. CompositorTypeOK'
    <3>1. /\ dirty' = [dirty EXCEPT ![w] = FALSE] /\ holder' = [holder EXCEPT ![w] = None]
          /\ snapshot' = Tail(snapshot) /\ pc' = "next" /\ rendered' = 0
          /\ UNCHANGED <<local_commands, buffers, writing>>
      BY <1>4 DEF ClearCommands
    <3> QED
      BY <2>1, <2>2, <3>1
  <2>4. \A u \in Writers : /\ holder'[u] = u <=> writing'[u] = "locked"
                           /\ holder'[u] # Task
    BY <1>4, <2>1, CompositorAssumption DEF ClearCommands
  <2>5. Locking'
    BY <1>4, <2>4 DEF ClearCommands
  <2> QED
    BY <2>3, <2>5
<1>5. CASE Blit
  BY <1>5 DEF Blit
<1> QED
  BY <1>1, <1>2, <1>3, <1>4, <1>5 DEF CompositorStep

\* Every step keeps the discipline.
LEMMA LockNext == LockInv /\ [Next]_vars => LockInv'
<1> SUFFICES ASSUME LockInv, [Next]_vars PROVE LockInv'
  OBVIOUS
<1>1. CASE UNCHANGED vars
  BY <1>1 DEF LockInv, CompositorTypeOK, Locking, vars, writerVars, bufferVars, taskVars
<1> QED
  BY <1>1, DrawLock, FlushExtendLock, WriterLock, CompositorLock DEF Next

-----------------------------------------------------------------------------
(* Nothing is lost *)

\* The commands of one writer do not touch the region of another.
LEMMA PaintElsewhere ==
  ASSUME NEW w \in Writers, NEW u \in Writers, u # w, NEW p \in Pixels(RegionOf[u]) \cap Screen
  PROVE  /\ \A cmd \in CommandsOf[w] : p \notin Ink(w, cmd)
         /\ \A q \in Queues : \A image : PaintAll(image, w, q[w])[p] = image[p]
<1>1. \A cmd \in CommandsOf[w] : p \notin Ink(w, cmd)
  BY CompositorAssumption DEF CommandOK
<1>2. ASSUME NEW q \in Queues, NEW image PROVE PaintAll(image, w, q[w])[p] = image[p]
  <2>1. Hits(w, q[w], p) = {}
    BY <1>1, QueueTypes DEF Hits
  <2> QED
    BY <2>1, PaintNone
<1> QED
  BY <1>1, <1>2

\* Drawing what is queued completes the picture, initially.
LEMMA NothingLostInit == Init => NothingLost
<1> SUFFICES ASSUME Init, NEW w \in Writers, NEW p \in Pixels(RegionOf[w]) \cap Screen
             PROVE  PaintAll(shadow, w, Unrendered(w))[p] = ideal[p]
  BY DEF NothingLost
<1>1. Unrendered(w) = <<>>
  BY CompositorAssumption DEF Init, Unrendered
<1>2. Hits(w, <<>>, p) = {}
  BY DEF Hits
<1>3. PaintAll(shadow, w, <<>>)[p] = shadow[p]
  BY <1>2, PaintNone
<1> QED
  BY <1>1, <1>3 DEF Init

\* A step that changes neither the pictures nor what is left to render.
LEMMA NothingLostSame ==
  ASSUME NothingLost, UNCHANGED <<shadow, ideal>>,
         \A w \in Writers : Unrendered(w)' = Unrendered(w)
  PROVE  NothingLost'
BY DEF NothingLost

\* A flush adds its commands at the end of both pictures.
LEMMA FlushLosesNothing ==
  ASSUME LockInv, NothingLost, NEW w \in Writers, FlushExtend(w)
  PROVE  NothingLost'
<1>1. holder[w] = w /\ holder'[w] = None /\ w # Task /\ None # Task
  BY CompositorAssumption DEF LockInv, Locking, CompositorTypeOK, FlushExtend
<1>2. /\ Unrendered(w) = commands[w]
      /\ Unrendered(w)' = commands[w] \o local_commands[w]
  BY <1>1 DEF Unrendered, FlushExtend, LockInv, CompositorTypeOK, Queues
<1>3. \A u \in Writers \ {w} : Unrendered(u)' = Unrendered(u)
  BY DEF Unrendered, FlushExtend, LockInv, CompositorTypeOK, Queues, taskVars
<1>4. shadow' = shadow /\ ideal' = PaintAll(ideal, w, local_commands[w])
  BY DEF FlushExtend, taskVars
<1>5. commands[w] \in Seq(AllCommands) /\ local_commands[w] \in Seq(AllCommands)
  BY QueueTypes DEF LockInv, CompositorTypeOK
<1>6. ASSUME NEW u \in Writers, NEW p \in Pixels(RegionOf[u]) \cap Screen
      PROVE  PaintAll(shadow', u, Unrendered(u)')[p] = ideal'[p]
  <2>1. PaintAll(shadow, u, Unrendered(u))[p] = ideal[p]
    BY <1>6 DEF NothingLost
  <2>2. CASE u = w
    <3> DEFINE a == commands[w]  b == local_commands[w]
    <3>1. ideal[p] = PaintAll(shadow, w, a)[p] /\ a \in Seq(AllCommands) /\ b \in Seq(AllCommands)
      BY <1>2, <1>5, <2>1, <2>2
    <3> HIDE DEF a, b
    <3>2. PaintAll(shadow, w, a \o b)[p] = PaintAll(ideal, w, b)[p]
      BY <3>1, PaintConcat
    <3> QED
      BY <1>2, <1>4, <2>2, <3>2 DEF a, b
  <2>3. CASE u # w
    <3>1. PaintAll(ideal, w, local_commands[w])[p] = ideal[p]
      BY <2>3, PaintElsewhere DEF LockInv, CompositorTypeOK
    <3> QED
      BY <1>3, <1>4, <2>1, <2>3, <3>1
  <2> QED
    BY <2>2, <2>3
<1> QED
  BY <1>6 DEF NothingLost

\* Rendering moves one command from the queue to the shadow.
LEMMA RenderLosesNothing ==
  ASSUME LockInv, NothingLost, Render
  PROVE  NothingLost'
<1> DEFINE w == Head(snapshot)
           k == rendered
           q == commands[w]
<1>1. /\ w \in Writers /\ holder[w] = Task /\ k \in Nat /\ k < Len(q)
      /\ shadow' = Painted(shadow, w, q[k + 1]) /\ rendered' = k + 1
      /\ UNCHANGED <<commands, holder, snapshot, ideal>>
  BY DEF Render, LockInv, Locking, CompositorTypeOK, bufferVars
<1>2. /\ Unrendered(w) = SubSeq(q, k + 1, Len(q))
      /\ Unrendered(w)' = SubSeq(q, k + 2, Len(q))
  BY <1>1 DEF Unrendered
<1>3. \A u \in Writers \ {w} : Unrendered(u)' = Unrendered(u)
  BY <1>1 DEF Unrendered, LockInv, Locking
<1>4. q \in Seq(AllCommands) /\ q[k + 1] \in CommandsOf[w]
  <2>1. /\ q \in Seq(AllCommands) /\ Len(q) \in Nat
        /\ \A i \in 1 .. Len(q) : q[i] \in CommandsOf[w]
    BY <1>1, QueueTypes DEF LockInv, CompositorTypeOK
  <2> HIDE DEF k, q, w
  <2> QED
    BY <1>1, <2>1
<1>5. ASSUME NEW u \in Writers, NEW p \in Pixels(RegionOf[u]) \cap Screen
      PROVE  PaintAll(shadow', u, Unrendered(u)')[p] = ideal'[p]
  <2>1. PaintAll(shadow, u, Unrendered(u))[p] = ideal[p]
    BY <1>5 DEF NothingLost
  <2>2. CASE u = w
    <3>1. PaintAll(shadow, w, SubSeq(q, k + 1, Len(q)))[p]
            = PaintAll(Painted(shadow, w, q[k + 1]), w, SubSeq(q, k + 2, Len(q)))[p]
      <4> HIDE DEF w, k, q
      <4> QED
        BY <1>1, <1>4, PaintFirst
    <3> QED
      BY <1>1, <1>2, <2>1, <2>2, <3>1
  <2>3. CASE u # w
    <3>1. p \notin Ink(w, q[k + 1])
      BY <1>1, <1>4, <2>3, PaintElsewhere
    <3>2. shadow'[p] = shadow[p]
      BY <1>1, <3>1 DEF Painted
    <3>3. PaintAll(shadow', u, Unrendered(u))[p] = PaintAll(shadow, u, Unrendered(u))[p]
      BY <3>2 DEF PaintAll
    <3> QED
      BY <1>1, <1>3, <2>1, <2>3, <3>3
  <2> QED
    BY <2>2, <2>3
<1> QED
  BY <1>5 DEF NothingLost

\* The other steps change nothing of it.
LEMMA OthersLoseNothing ==
  ASSUME LockInv, NothingLost,
         \/ \E w \in Writers : RegisterWriter(w) \/ Draw(w) \/ FlushLock(w)
         \/ Snapshot \/ NextBuffer \/ ClearCommands \/ Blit
  PROVE  NothingLost'
<1> USE DEF writerVars, bufferVars, taskVars
<1> SUFFICES UNCHANGED <<shadow, ideal>> /\ \A u \in Writers : Unrendered(u)' = Unrendered(u)
  BY NothingLostSame
<1>1. ASSUME NEW w \in Writers, RegisterWriter(w) \/ Draw(w)
      PROVE  UNCHANGED <<shadow, ideal>> /\ \A u \in Writers : Unrendered(u)' = Unrendered(u)
  BY <1>1 DEF RegisterWriter, Draw, Unrendered
<1>2. ASSUME NEW w \in Writers, FlushLock(w)
      PROVE  UNCHANGED <<shadow, ideal>> /\ \A u \in Writers : Unrendered(u)' = Unrendered(u)
  <2>1. None # Task /\ w # Task
    BY CompositorAssumption
  <2> QED
    BY <1>2, <2>1 DEF FlushLock, Unrendered, LockInv, CompositorTypeOK
<1>3. CASE Snapshot \/ Blit
  BY <1>3 DEF Snapshot, Blit, Unrendered
<1>4. CASE NextBuffer
  <2> DEFINE w == Head(snapshot)
  <2>1. w \in Writers /\ UNCHANGED <<shadow, ideal, commands>>
    BY <1>4 DEF NextBuffer, LockInv, CompositorTypeOK
  <2>2. \A u \in Writers : holder[u] # Task /\ Unrendered(u) = commands[u]
    BY <1>4 DEF NextBuffer, LockInv, Locking, Unrendered
  <2>3. \A u \in Writers : holder'[u] = Task => rendered' = 0
    BY <1>4, <2>2 DEF NextBuffer
  <2>4. ASSUME NEW u \in Writers PROVE SubSeq(commands[u], 1, Len(commands[u])) = commands[u]
    <3> DEFINE q == commands[u]
    <3>1. q \in Seq(AllCommands)
      BY QueueTypes DEF LockInv, CompositorTypeOK
    <3> HIDE DEF q
    <3>2. SubSeq(q, 1, Len(q)) = q
      BY <3>1
    <3> QED
      BY <3>2 DEF q
  <2>5. ASSUME NEW u \in Writers PROVE Unrendered(u)' = commands[u]
    <3>1. CASE holder'[u] = Task
      <4>1. Unrendered(u)' = SubSeq(commands[u], 1, Len(commands[u]))
        BY <2>1, <2>3, <3>1 DEF Unrendered
      <4> QED
        BY <2>4, <4>1
    <3>2. CASE holder'[u] # Task
      BY <2>1, <3>2 DEF Unrendered
    <3> QED
      BY <3>1, <3>2
  <2> QED
    BY <2>1, <2>2, <2>5
<1>5. CASE ClearCommands
  <2> DEFINE w == Head(snapshot)
             q == commands[w]
  <2>1. /\ w \in Writers /\ holder[w] = Task /\ rendered = Len(q)
        /\ commands' = [commands EXCEPT ![w] = <<>>] /\ holder' = [holder EXCEPT ![w] = None]
        /\ UNCHANGED <<shadow, ideal>>
    BY <1>5 DEF ClearCommands, LockInv, Locking, CompositorTypeOK
  <2>2. q \in Seq(AllCommands)
    BY <2>1, QueueTypes DEF LockInv, CompositorTypeOK
  <2>3. SubSeq(q, Len(q) + 1, Len(q)) = <<>>
    <3> HIDE DEF q
    <3> QED
      BY <2>2
  <2>4. ASSUME NEW u \in Writers, u = w PROVE Unrendered(u) = <<>> /\ Unrendered(u)' = <<>>
    <3>1. Unrendered(u) = <<>>
      BY <2>1, <2>3, <2>4 DEF Unrendered
    <3>2. holder'[u] # Task /\ commands'[u] = <<>>
      BY <2>1, <2>4, CompositorAssumption DEF LockInv, CompositorTypeOK, Queues
    <3> QED
      BY <3>1, <3>2 DEF Unrendered
  <2>5. \A u \in Writers \ {w} : holder[u] # Task
    BY <1>5 DEF ClearCommands, LockInv, Locking
  <2>6. \A u \in Writers \ {w} : Unrendered(u)' = Unrendered(u)
    BY <2>1, <2>5 DEF Unrendered, LockInv, CompositorTypeOK, Queues
  <2> QED
    BY <2>1, <2>4, <2>6
<1> QED
  BY <1>1, <1>2, <1>3, <1>4, <1>5

\* No flushed command is lost, repeated or reordered between flush() and the
\* shadow buffer, for any writers, regions and commands: drawing what is still
\* queued always completes the picture of all flushes.
THEOREM CompositorNothingLost == Spec => []NothingLost
<1> DEFINE Inv == LockInv /\ NothingLost
<1>1. Init => Inv
  BY LockInit, NothingLostInit
<1>2. Inv /\ [Next]_vars => Inv'
  <2> SUFFICES ASSUME LockInv, NothingLost, [Next]_vars PROVE NothingLost'
    BY LockNext
  <2>1. CASE UNCHANGED vars
    <3>1. UNCHANGED <<shadow, ideal>> /\ \A u \in Writers : Unrendered(u)' = Unrendered(u)
      BY <2>1 DEF vars, writerVars, bufferVars, taskVars, Unrendered
    <3> QED
      BY <3>1, NothingLostSame
  <2> QED
    BY <2>1, FlushLosesNothing, RenderLosesNothing, OthersLoseNothing DEF Next, CompositorStep
<1> QED
  BY <1>1, <1>2, PTL DEF Spec

-----------------------------------------------------------------------------
(* The dirty rectangle *)

\* What the screen does not show yet of a pixel is in the dirty rectangle.
Covered(p) ==
  shadow[p] # framebuffer[p] =>
    \/ dirty_rect # None /\ p \in Pixels(dirty_rect)
    \/ framebuffer[p] = BootScreen[p] /\ shadow[p] = 0

CoverInv == DirtyInv /\ \A p \in Drawable : Covered(p)

\* Nothing has been drawn at first.
LEMMA CoverInit == Init => CoverInv
<1> SUFFICES ASSUME Init PROVE CoverInv
  OBVIOUS
<1>1. \A p \in Drawable : shadow[p] = 0 /\ framebuffer[p] = BootScreen[p]
  BY DEF Init, Drawable
<1> QED
  BY <1>1 DEF Init, CoverInv, DirtyInv, Covered

\* Rendering a command extends the rectangle over its ink.
LEMMA RenderCovers ==
  ASSUME LockInv, CoverInv, Render
  PROVE  CoverInv'
<1> DEFINE w == Head(snapshot)
           cmd == commands[w][rendered + 1]
           area == Area(w, cmd)
<1>1. /\ w \in Writers /\ rendered \in Nat /\ rendered < Len(commands[w])
      /\ shadow' = Painted(shadow, w, cmd) /\ dirty_rect' = mark_dirty(dirty_rect, area)
      /\ framebuffer' = framebuffer
  BY DEF Render, LockInv, Locking, CompositorTypeOK
<1>2. cmd \in CommandsOf[w]
  <2> DEFINE q == commands[w]
  <2>1. Len(q) \in Nat /\ \A i \in 1 .. Len(q) : q[i] \in CommandsOf[w]
    BY <1>1, QueueTypes DEF LockInv, CompositorTypeOK
  <2> HIDE DEF q
  <2>2. q[rendered + 1] \in CommandsOf[w]
    BY <1>1, <2>1 DEF q
  <2> QED
    BY <2>2 DEF q
<1>3. /\ area \in Region
      /\ \A p \in Screen : p \in Ink(w, cmd) => p \in Pixels(area)
  BY <1>1, <1>2, InkInArea
<1> HIDE DEF w, cmd, area
<1>4. /\ dirty_rect' = None \/ OnScreen(dirty_rect')
      /\ dirty_rect # None => dirty_rect' # None
      /\ \A p \in Screen : dirty_rect # None /\ p \in Pixels(dirty_rect)
                             => p \in Pixels(dirty_rect')
      /\ \A p \in Screen : p \in Pixels(area) => dirty_rect' # None /\ p \in Pixels(dirty_rect')
  BY <1>1, <1>3, MarkDirtyCovers DEF CoverInv, DirtyInv
<1>5. ASSUME NEW p \in Drawable PROVE Covered(p)'
  <2>1. p \in Screen /\ Covered(p)
    BY DEF Drawable, CoverInv
  <2>2. CASE p \in Ink(w, cmd)
    BY <1>3, <1>4, <2>1, <2>2 DEF Covered
  <2>3. CASE p \notin Ink(w, cmd)
    <3>1. shadow'[p] = shadow[p]
      BY <1>1, <2>1, <2>3 DEF Painted
    <3> QED
      BY <1>1, <1>4, <2>1, <3>1 DEF Covered
  <2> QED
    BY <2>2, <2>3
<1>6. Drawable' = Drawable
  BY DEF Drawable
<1> QED
  BY <1>4, <1>5, <1>6 DEF CoverInv, DirtyInv

\* Blitting brings the pixels of the rectangle up to date.
LEMMA BlitCovers ==
  ASSUME CoverInv, Blit
  PROVE  CoverInv'
<1>1. dirty_rect' = None /\ shadow' = shadow
  BY DEF Blit
<1>2. ASSUME NEW p \in Drawable PROVE Covered(p)'
  <2>1. p \in Screen /\ Covered(p)
    BY DEF Drawable, CoverInv
  <2>2. framebuffer'[p] = IF dirty_rect # None /\ p \in Pixels(dirty_rect)
                          THEN shadow[p] ELSE framebuffer[p]
    BY <2>1 DEF Blit
  <2> QED
    BY <1>1, <2>1, <2>2 DEF Covered
<1> QED
  BY <1>1, <1>2 DEF CoverInv, DirtyInv

\* The other steps touch neither picture nor rectangle.
LEMMA CoverNext ==
  ASSUME LockInv, CoverInv, [Next]_vars
  PROVE  CoverInv'
<1>1. ASSUME UNCHANGED <<shadow, framebuffer, dirty_rect>> PROVE CoverInv'
  BY <1>1 DEF CoverInv, DirtyInv, Covered
<1>2. ASSUME NEW w \in Writers, RegisterWriter(w) \/ Draw(w) \/ FlushLock(w) \/ FlushExtend(w)
      PROVE  UNCHANGED <<shadow, framebuffer, dirty_rect>>
  BY <1>2 DEF RegisterWriter, Draw, FlushLock, FlushExtend, taskVars
<1>3. ASSUME Snapshot \/ NextBuffer \/ ClearCommands
      PROVE  UNCHANGED <<shadow, framebuffer, dirty_rect>>
  BY <1>3 DEF Snapshot, NextBuffer, ClearCommands
<1>4. ASSUME UNCHANGED vars PROVE UNCHANGED <<shadow, framebuffer, dirty_rect>>
  BY <1>4 DEF vars, taskVars
<1> QED
  BY <1>1, <1>2, <1>3, <1>4, RenderCovers, BlitCovers DEF Next, CompositorStep

\* A rectangle within the screen's edges has only pixels of the screen.
LEMMA OnScreenPixels ==
  ASSUME NEW r, OnScreen(r)
  PROVE  Pixels(r) \subseteq Screen
<1>1. /\ r.x \in Nat /\ r.y \in Nat /\ r.width \in Nat /\ r.height \in Nat
      /\ right(r) <= Width /\ bottom(r) <= Height /\ Width \in Nat /\ Height \in Nat
      /\ right(r) \in Nat /\ bottom(r) \in Nat
  BY CompositorAssumption DEF OnScreen, Region, right, bottom
<1>2. r.x .. right(r) - 1 \subseteq 0 .. Width - 1 /\ r.y .. bottom(r) - 1 \subseteq 0 .. Height - 1
  BY <1>1
<1> QED
  BY <1>2, Zenon DEF Pixels, Screen

\* The rectangle that blit_to copies without a check never leaves the screen, and
\* copying it alone shows everything that was drawn, for any screen, regions and
\* commands, also those that reach over its edges.
THEOREM CompositorDirtyCovers == Spec => []DirtyCovers
<1> DEFINE Inv == LockInv /\ CoverInv
<1>1. Init => Inv
  BY LockInit, CoverInit
<1>2. Inv /\ [Next]_vars => Inv'
  BY LockNext, CoverNext
<1>3. Inv => DirtyCovers
  <2> SUFFICES ASSUME CoverInv PROVE DirtyCovers
    OBVIOUS
  <2>1. dirty_rect # None => Pixels(dirty_rect) \subseteq Screen
    BY OnScreenPixels DEF CoverInv, DirtyInv
  <2> QED
    BY <2>1 DEF CoverInv, Covered, DirtyCovers
<1> QED
  BY <1>1, <1>2, <1>3, PTL DEF Spec

-----------------------------------------------------------------------------
\* A set that holds 0 and, with a natural, the next one, holds them all.
LEMMA NatSet ==
  ASSUME NEW S, 0 \in S, \A n \in Nat : n \in S => n + 1 \in S
  PROVE  \A n \in Nat : n \in S
<1> SUFFICES ASSUME NEW n \in Nat, n \notin S PROVE FALSE
  OBVIOUS
<1> DEFINE T == {k \in Nat : k \notin S}
<1>1. PICK m \in T : \A k \in T : m <= k
  BY LeastNat
<1>2. m # 0 /\ m - 1 \in Nat /\ m - 1 \notin T
  BY <1>1
<1>3. m - 1 \in S /\ (m - 1) + 1 = m
  BY <1>2
<1> QED
  BY <1>1, <1>2, <1>3

-----------------------------------------------------------------------------
(* Folds *)

\* A solution of a fold's equation on the sets of indices, what is needed of one,
\* and the values it passes through on the way to the whole sequence.
Solution(f, step, base, q) ==
  f = [s \in SUBSET (1 .. Len(q)) |->
        IF s = {} THEN base ELSE step[<<f[s \ {Max(s)}], q[Max(s)]>>]]

Solves(f, D, step, base, q) ==
  /\ f[{}] = base
  /\ \A s \in SUBSET (1 .. Len(q)) :
       s # {} /\ f[s \ {Max(s)}] \in D => f[s] = step[<<f[s \ {Max(s)}], q[Max(s)]>>]

Passes(a, D, step, base, q) ==
  /\ a \in [0 .. Len(q) -> D] /\ a[0] = base
  /\ \A i \in 1 .. Len(q) : a[i] = step[<<a[i - 1], q[i]>>]

EndsAt(a, f, q) == a[Len(q)] = f[1 .. Len(q)]

\* A fold with a function step from D and the elements of q to D has a
\* solution on the sets of indices, of which FoldLeft takes the largest first.
LEMMA FoldSolves ==
  ASSUME NEW D, NEW E, NEW step \in [D \X E -> D], NEW base \in D, NEW q \in Seq(E)
  PROVE  \E f \in [SUBSET (1 .. Len(q)) -> D] : Solution(f, step, base, q)
<1> DEFINE Body(f, n) == [s \in SUBSET (1 .. n) |->
                 IF s = {} THEN base ELSE step[<<f[s \ {Max(s)}], q[Max(s)]>>]]
           Solved(n) == \E f \in [SUBSET (1 .. n) -> D] : f = Body(f, n)
           N == {n \in Nat : n <= Len(q) => Solved(n)}
<1>1. 0 \in N
  <2> DEFINE f == [s \in SUBSET (1 .. 0) |-> base]
  <2>1. \A s \in SUBSET (1 .. 0) : s = {}
    OBVIOUS
  <2>2. f = Body(f, 0)
    BY <2>1
  <2>3. f \in [SUBSET (1 .. 0) -> D]
    OBVIOUS
  <2> QED
    BY <2>2, <2>3
<1>2. ASSUME NEW n \in Nat, n \in N PROVE n + 1 \in N
  <2> SUFFICES ASSUME n + 1 <= Len(q) PROVE Solved(n + 1)
    <3> HIDE DEF Solved
    <3> QED
      OBVIOUS
  <2>0. Solved(n)
    <3> HIDE DEF Solved
    <3> QED
      BY <1>2
  <2>1. PICK f \in [SUBSET (1 .. n) -> D] : f = Body(f, n)
    BY <2>0
  <2> DEFINE g == [s \in SUBSET (1 .. n + 1) |->
                     IF n + 1 \in s THEN step[<<f[s \ {n + 1}], q[n + 1]>>] ELSE f[s]]
  <2>2. q[n + 1] \in E
    BY ElementOfSeq
  <2>3. ASSUME NEW s \in SUBSET (1 .. n + 1)
        PROVE  /\ s \ {n + 1} \in SUBSET (1 .. n)
               /\ n + 1 \notin s => s \in SUBSET (1 .. n)
               /\ n + 1 \in s => Max(s) = n + 1
    <3>1. s \ {n + 1} \in SUBSET (1 .. n)
      OBVIOUS
    <3>2. n + 1 \notin s => s \in SUBSET (1 .. n)
      OBVIOUS
    <3>3. ASSUME n + 1 \in s PROVE Max(s) = n + 1
      <4>1. \A y \in s : n + 1 >= y
        OBVIOUS
      <4>2. \A x \in s : (\A y \in s : x >= y) => x = n + 1
        BY <3>3, <4>1
      <4> QED
        BY <3>3, <4>1, <4>2 DEF Max
    <3> QED
      BY <3>1, <3>2, <3>3
  <2>4. ASSUME NEW s \in SUBSET (1 .. n + 1) PROVE g[s] \in D
    <3>1. CASE n + 1 \in s
      <4>1. f[s \ {n + 1}] \in D
        BY <2>3
      <4> QED
        BY <2>2, <3>1, <4>1
    <3>2. CASE n + 1 \notin s
      BY <2>3, <3>2
    <3> QED
      BY <3>1, <3>2
  <2>5. g \in [SUBSET (1 .. n + 1) -> D]
    BY <2>4
  <2>6. ASSUME NEW s \in SUBSET (1 .. n + 1) PROVE g[s] = Body(g, n + 1)[s]
    <3>1. CASE n + 1 \in s
      <4>1. s # {} /\ Max(s) = n + 1 /\ s \ {n + 1} \in SUBSET (1 .. n + 1) /\ n + 1 \notin s \ {n + 1}
        BY <2>3, <3>1
      <4>2. g[s \ {n + 1}] = f[s \ {n + 1}]
        BY <4>1
      <4>3. g[s] = step[<<f[s \ {n + 1}], q[n + 1]>>]
        BY <3>1
      <4> QED
        BY <4>1, <4>2, <4>3
    <3>2. CASE n + 1 \notin s
      <4>1. s \in SUBSET (1 .. n) /\ g[s] = f[s]
        BY <2>3, <3>2
      <4>2. f[s] = IF s = {} THEN base ELSE step[<<f[s \ {Max(s)}], q[Max(s)]>>]
        BY <2>1, <4>1
      <4>3. s \ {Max(s)} \in SUBSET (1 .. n + 1) /\ n + 1 \notin s \ {Max(s)}
        BY <3>2
      <4>4. g[s \ {Max(s)}] = f[s \ {Max(s)}]
        BY <4>3
      <4> QED
        BY <4>1, <4>2, <4>4
    <3> QED
      BY <3>1, <3>2
  <2>7. g = Body(g, n + 1)
    BY <2>6, ZenonT(60)
  <2> QED
    BY <2>5, <2>7
<1>3. Len(q) \in N
  <2> HIDE DEF N
  <2>1. Len(q) \in Nat
    OBVIOUS
  <2> QED
    BY <1>1, <1>2, <2>1, NatSet
<1>4. Solved(Len(q))
  <2> HIDE DEF Solved
  <2> QED
    BY <1>3
<1> QED
  BY <1>4 DEF Solution

\* What a solution passes through on the way to the whole sequence.
LEMMA FoldSteps ==
  ASSUME NEW D, NEW E, NEW step \in [D \X E -> D], NEW base \in D, NEW q \in Seq(E),
         NEW iter, Solves(iter, D, step, base, q)
  PROVE  \E a : Passes(a, D, step, base, q) /\ EndsAt(a, iter, q)
<1> DEFINE Good(n) == n <= Len(q) => iter[1 .. n] \in D
           N == {n \in Nat : Good(n)}
<1>0. 1 .. 0 = {} /\ Len(q) \in Nat
  OBVIOUS
<1>1. ASSUME NEW i \in 1 .. Len(q)
      PROVE  /\ 1 .. i \in SUBSET (1 .. Len(q)) /\ 1 .. i # {}
             /\ Max(1 .. i) = i /\ (1 .. i) \ {Max(1 .. i)} = 1 .. i - 1
             /\ q[i] \in E
  <2>1. i \in 1 .. i /\ \A y \in 1 .. i : i >= y
    OBVIOUS
  <2>2. \A x \in 1 .. i : (\A y \in 1 .. i : x >= y) => x = i
    BY <2>1
  <2>3. Max(1 .. i) = i
    BY <2>1, <2>2 DEF Max
  <2>4. (1 .. i) \ {i} = 1 .. i - 1
    OBVIOUS
  <2> QED
    <3>1. 1 .. i \in SUBSET (1 .. Len(q)) /\ 1 .. i # {}
      <4>1. \A y \in 1 .. i : y \in 1 .. Len(q)
        BY <1>0
      <4> QED
        BY <2>1, <4>1, Zenon
    <3>2. q[i] \in E
      BY ElementOfSeq
    <3> QED
      BY <2>3, <2>4, <3>1, <3>2
<1>2. ASSUME NEW i \in 1 .. Len(q), iter[1 .. i - 1] \in D
      PROVE  iter[1 .. i] = step[<<iter[1 .. i - 1], q[i]>>] /\ iter[1 .. i] \in D
  <2> DEFINE s == 1 .. i
  <2>1. s \in SUBSET (1 .. Len(q)) /\ s # {} /\ Max(s) = i /\ s \ {Max(s)} = 1 .. i - 1
    BY <1>1
  <2>2. iter[s] = step[<<iter[s \ {Max(s)}], q[Max(s)]>>]
    <3> HIDE DEF s
    <3> QED
      BY <1>2, <2>1 DEF Solves
  <2> QED
    BY <1>1, <1>2, <2>1, <2>2
<1>3. 0 \in N
  BY <1>0 DEF Solves
<1>4. ASSUME NEW n \in Nat, n \in N PROVE n + 1 \in N
  <2> SUFFICES ASSUME n + 1 <= Len(q) PROVE iter[1 .. n + 1] \in D
    OBVIOUS
  <2>1. n + 1 \in 1 .. Len(q) /\ (n + 1) - 1 = n /\ iter[1 .. n] \in D
    BY <1>4, <1>0
  <2> QED
    BY <1>2, <2>1
<1>5. \A n \in Nat : n \in N
  <2> HIDE DEF N
  <2> QED
    BY <1>3, <1>4, NatSet
<1> DEFINE a == [i \in 0 .. Len(q) |-> iter[1 .. i]]
<1>6. ASSUME NEW i \in 0 .. Len(q) PROVE iter[1 .. i] \in D
  <2>1. i \in N
    <3> HIDE DEF N
    <3> QED
      BY <1>5, <1>0
  <2> QED
    BY <2>1
<1>7. a \in [0 .. Len(q) -> D]
  BY <1>6
<1>8. ASSUME NEW i \in 1 .. Len(q) PROVE a[i] = step[<<a[i - 1], q[i]>>]
  <2>1. i \in 0 .. Len(q) /\ i - 1 \in 0 .. Len(q)
    BY <1>0
  <2>2. a[i] = iter[1 .. i] /\ a[i - 1] = iter[1 .. i - 1]
    BY <2>1
  <2> QED
    BY <1>2, <1>6, <2>1, <2>2
<1>9. a[0] = base /\ a[Len(q)] = iter[1 .. Len(q)]
  BY <1>0 DEF Solves
<1> HIDE DEF a
<1> QED
  BY <1>7, <1>8, <1>9 DEF Passes, EndsAt

-----------------------------------------------------------------------------
(* The writer's methods *)

\* The bytes and the calls of programs whose text is ASCII.
Chars == 0 .. 127
AsciiCalls == {call \in WriterCalls : Ascii(call)}

WriterCommands ==
  [kind : {"Clear", "DrawString"}, x : Nat, y : Nat, text : Seq(Chars), color : Nat]

WriterRecords ==
  [region : [width : Nat, height : Nat],
   local_commands : Seq(WriterCommands), sent : Seq(WriterCommands),
   cursor_x : Nat, cursor_y : Nat, color : Nat,
   pending_text : Seq(Chars), pending_x : Nat, pending_y : Nat]

\* The commands that the methods make.
LEMMA CommandsTyped ==
  /\ \A c \in Nat : ClearCommand(c) \in WriterCommands
  /\ \A x, y, c \in Nat : \A t \in Seq(Chars) :
       DrawStringCommand(x, y, t, c) \in WriterCommands
BY DEF ClearCommand, DrawStringCommand, WriterCommands

\* The fields of a writer, and what may be put into them.
LEMMA FieldsTyped ==
  ASSUME NEW w \in WriterRecords
  PROVE  /\ w.region \in [width : Nat, height : Nat]
         /\ w.local_commands \in Seq(WriterCommands) /\ w.sent \in Seq(WriterCommands)
         /\ w.cursor_x \in Nat /\ w.cursor_y \in Nat /\ w.color \in Nat
         /\ w.pending_text \in Seq(Chars) /\ w.pending_x \in Nat /\ w.pending_y \in Nat
BY SMTT(60) DEF WriterRecords

\* Assigning a value of its type to a field leaves a writer a writer.
LEMMA UpdatesTyped ==
  ASSUME NEW w \in WriterRecords
  PROVE  /\ \A c \in Seq(WriterCommands) : [w EXCEPT !.local_commands = c] \in WriterRecords
         /\ \A c \in Seq(WriterCommands) : \A d \in Seq(WriterCommands) :
              [w EXCEPT !.sent = c, !.local_commands = d] \in WriterRecords
         /\ \A t \in Seq(Chars) : [w EXCEPT !.pending_text = t] \in WriterRecords
         /\ \A x \in Nat : \A y \in Nat : [w EXCEPT !.cursor_x = x, !.cursor_y = y] \in WriterRecords
         /\ \A y \in Nat : [w EXCEPT !.cursor_y = y] \in WriterRecords
         /\ \A c \in Nat : [w EXCEPT !.color = c] \in WriterRecords
         /\ \A x \in Nat : \A y \in Nat : \A t \in Seq(Chars) : \A z \in Nat :
              [w EXCEPT !.pending_x = x, !.pending_y = y, !.pending_text = t, !.cursor_x = z]
                \in WriterRecords
<1> DEFINE R == [width : Nat, height : Nat]
           C == Seq(WriterCommands)
           T == Seq(Chars)
<1>1. WriterRecords = [region : R, local_commands : C, sent : C, cursor_x : Nat, cursor_y : Nat,
                       color : Nat, pending_text : T, pending_x : Nat, pending_y : Nat]
  BY DEF WriterRecords
<1> HIDE DEF R, C, T
<1>2. \A c \in C : [w EXCEPT !.local_commands = c] \in WriterRecords
  BY <1>1
<1>3. \A c \in C : \A d \in C : [w EXCEPT !.sent = c, !.local_commands = d] \in WriterRecords
  BY <1>1
<1>4. \A t \in T : [w EXCEPT !.pending_text = t] \in WriterRecords
  BY <1>1
<1>5. \A x \in Nat : \A y \in Nat : [w EXCEPT !.cursor_x = x, !.cursor_y = y] \in WriterRecords
  BY <1>1
<1>6. \A y \in Nat : [w EXCEPT !.cursor_y = y] \in WriterRecords
  BY <1>1
<1>7. \A c \in Nat : [w EXCEPT !.color = c] \in WriterRecords
  BY <1>1
<1>8. \A x \in Nat : \A y \in Nat : \A t \in T : \A z \in Nat :
        [w EXCEPT !.pending_x = x, !.pending_y = y, !.pending_text = t, !.cursor_x = z]
          \in WriterRecords
  BY <1>1
<1> QED
  BY <1>2, <1>3, <1>4, <1>5, <1>6, <1>7, <1>8 DEF C, T

\* A writer has all its fields.
LEMMA FieldNames ==
  ASSUME NEW w \in WriterRecords
  PROVE  DOMAIN w = {"region", "local_commands", "sent", "cursor_x", "cursor_y", "color",
                     "pending_text", "pending_x", "pending_y"}
BY DEF WriterRecords

\* push adds a command, and nothing else.
LEMMA PushIs ==
  ASSUME NEW w \in WriterRecords, NEW cmd \in WriterCommands
  PROVE  /\ push(w, cmd) \in WriterRecords
         /\ push(w, cmd).local_commands = Append(w.local_commands, cmd)
         /\ push(w, cmd).sent = w.sent /\ push(w, cmd).region = w.region
         /\ push(w, cmd).cursor_x = w.cursor_x /\ push(w, cmd).cursor_y = w.cursor_y
         /\ push(w, cmd).color = w.color /\ push(w, cmd).pending_text = w.pending_text
<1> DEFINE c == Append(w.local_commands, cmd)
<1>1. c \in Seq(WriterCommands)
  BY FieldsTyped, AppendProperties
<1>2. push(w, cmd) = [w EXCEPT !.local_commands = c]
  BY DEF push
<1>3. push(w, cmd) \in WriterRecords
  BY <1>1, <1>2, UpdatesTyped, ZenonT(60)
<1> HIDE DEF c
<1>4. push(w, cmd).local_commands = c
  BY <1>2, FieldNames
<1> QED
  BY <1>2, <1>3, <1>4 DEF c

\* commit_pending_text leaves no text and the cursor where it is.
LEMMA CommitIs ==
  ASSUME NEW w \in WriterRecords
  PROVE  LET c == commit_pending_text(w)
         IN  /\ c \in WriterRecords /\ c.pending_text = <<>>
             /\ c.sent = w.sent /\ c.region = w.region
             /\ c.cursor_x = w.cursor_x /\ c.cursor_y = w.cursor_y /\ c.color = w.color
             /\ c.local_commands =
                  IF w.pending_text = <<>> THEN w.local_commands
                  ELSE Append(w.local_commands,
                              DrawStringCommand(w.pending_x, w.pending_y, w.pending_text, w.color))
<1> DEFINE cmd == DrawStringCommand(w.pending_x, w.pending_y, w.pending_text, w.color)
<1>1. cmd \in WriterCommands
  BY CommandsTyped, FieldsTyped
<1> HIDE DEF cmd
<1>2. CASE w.pending_text = <<>>
  BY <1>2 DEF commit_pending_text
<1>3. CASE w.pending_text # <<>>
  <2> DEFINE v == push(w, cmd)
  <2>1. commit_pending_text(w) = [v EXCEPT !.pending_text = <<>>]
    BY <1>3 DEF commit_pending_text, cmd
  <2>2. v \in WriterRecords /\ v.local_commands = Append(w.local_commands, cmd)
        /\ v.sent = w.sent /\ v.region = w.region
        /\ v.cursor_x = w.cursor_x /\ v.cursor_y = w.cursor_y /\ v.color = w.color
    BY <1>1, PushIs
  <2> HIDE DEF v
  <2>3. [v EXCEPT !.pending_text = <<>>] \in WriterRecords
    <3>1. <<>> \in Seq(Chars)
      OBVIOUS
    <3> QED
      BY <2>2, <3>1, UpdatesTyped, Zenon
  <2>4. [v EXCEPT !.pending_text = <<>>].pending_text = <<>>
    BY <2>2, FieldNames
  <2> QED
    BY <1>3, <2>1, <2>2, <2>3, <2>4 DEF cmd
<1> QED
  BY <1>2, <1>3

-----------------------------------------------------------------------------
(* What commands draw *)

\* FlattenSeq, from the first sequence to the last.
Flattens(a, s, S) ==
  /\ a \in [0 .. Len(s) -> Seq(S)] /\ a[0] = <<>>
  /\ \A i \in 1 .. Len(s) : a[i] = a[i - 1] \o s[i]

\* FlattenSeq joins the sequences one after the other, from the first.
LEMMA FlattenIs ==
  ASSUME NEW S, NEW s \in Seq(Seq(S))
  PROVE  \E a : Flattens(a, s, S) /\ FlattenSeq(s) = a[Len(s)]
<1> DEFINE D == Seq(S)
           cat == [x \in D \X D |-> x[1] \o x[2]]
           n == Len(s)
<1>1. cat \in [D \X D -> D]
  BY ConcatProperties
<1>2. <<>> \in D /\ s \in Seq(D) /\ n \in Nat
  OBVIOUS
<1>3. \E a : Flattens(a, s, S)
  <2> HIDE DEF D, cat
  <2>1. PICK f \in [SUBSET (1 .. Len(s)) -> D] : Solution(f, cat, <<>>, s)
    BY <1>1, <1>2, FoldSolves, Zenon
  <2>2. Solves(f, D, cat, <<>>, s)
    BY <2>1 DEF Solution, Solves
  <2>3. PICK a : Passes(a, D, cat, <<>>, s)
    BY <1>1, <1>2, <2>2, FoldSteps, Zenon
  <2>4. ASSUME NEW i \in 1 .. Len(s) PROVE a[i] = a[i - 1] \o s[i]
    <3>1. i - 1 \in 0 .. Len(s)
      BY <1>2
    <3>2. a[i - 1] \in D /\ s[i] \in D
      BY <1>2, <2>3, <3>1, ElementOfSeq DEF Passes
    <3> QED
      BY <2>3, <3>2 DEF cat, Passes
  <2> QED
    BY <2>3, <2>4 DEF Flattens, D, Passes
<1>4. PICK a : Flattens(a, s, S)
  BY <1>3
<1>5. CASE n = 0
  <2>1. s = <<>>
    BY <1>5
  <2> QED
    BY <1>4, <1>5, <2>1 DEF FlattenSeq, Flattens
<1>6. CASE n # 0
  <2> DEFINE Body(f) == [i \in 1 .. Len(s) |-> IF i = 1 THEN s[i] ELSE f[i - 1] \o s[i]]
             F == CHOOSE f : f = Body(f)
             f == [i \in 1 .. Len(s) |-> a[i]]
  <2>1. FlattenSeq(s) = F[Len(s)]
    BY <1>6 DEF FlattenSeq
  <2>0. a[1] = s[1]
    <3>1. 1 \in 1 .. Len(s) /\ 1 - 1 = 0
      BY <1>2, <1>6
    <3>2. s[1] \in D
      BY <1>2, <3>1, ElementOfSeq, Zenon
    <3>3. a[1] = <<>> \o s[1]
      BY <1>4, <3>1 DEF Flattens
    <3> QED
      BY <3>2, <3>3, ConcatEmptySeq
  <2>2. ASSUME NEW i \in 1 .. Len(s) PROVE f[i] = Body(f)[i]
    <3>1. CASE i = 1
      BY <2>0, <3>1
    <3>2. CASE i # 1
      <4>1. i - 1 \in 1 .. Len(s)
        BY <3>2, <1>2
      <4> QED
        BY <1>4, <3>2, <4>1 DEF Flattens
    <3> QED
      BY <3>1, <3>2
  <2>3. f = Body(f)
    BY <2>2
  <2>4. F = Body(F)
    <3> HIDE DEF f, Body
    <3>1. \E g : g = Body(g)
      BY <2>3
    <3> QED
      BY <3>1
  <2> HIDE DEF F, f
  <2> DEFINE N == {k \in Nat : k + 1 <= n => F[k + 1] = a[k + 1]}
  <2>5. 0 \in N
    <3>1. F[1] = s[1]
      BY <1>2, <1>6, <2>4
    <3> QED
      BY <2>0, <3>1
  <2>6. ASSUME NEW k \in Nat, k \in N PROVE k + 1 \in N
    <3> SUFFICES ASSUME (k + 1) + 1 <= n PROVE F[(k + 1) + 1] = a[(k + 1) + 1]
      OBVIOUS
    <3> DEFINE i == (k + 1) + 1
    <3>1. i \in 1 .. Len(s) /\ i # 1 /\ i - 1 = k + 1 /\ k + 1 <= n
      BY <1>2
    <3>2. F[i] = F[i - 1] \o s[i]
      <4> HIDE DEF i
      <4> QED
        BY <2>4, <3>1
    <3>3. a[i] = a[i - 1] \o s[i]
      <4> HIDE DEF i
      <4> QED
        BY <1>4, <3>1 DEF Flattens
    <3>4. F[k + 1] = a[k + 1]
      BY <2>6, <3>1
    <3> QED
      BY <3>1, <3>2, <3>3, <3>4
  <2>7. n - 1 \in N
    <3>1. n - 1 \in Nat
      BY <1>2, <1>6
    <3> HIDE DEF N
    <3> QED
      BY <2>5, <2>6, <3>1, NatSet
  <2>8. F[n] = a[n]
    BY <1>2, <1>6, <2>7
  <2> QED
    BY <1>4, <2>1, <2>8
<1> QED
  BY <1>5, <1>6

\* So one sequence more at the end is joined at the end.
LEMMA FlattenAppend ==
  ASSUME NEW S, NEW s \in Seq(Seq(S)), NEW x \in Seq(S)
  PROVE  /\ FlattenSeq(s) \in Seq(S)
         /\ FlattenSeq(Append(s, x)) = FlattenSeq(s) \o x
<1> DEFINE t == Append(s, x)
           n == Len(s)
<1>1. /\ t \in Seq(Seq(S)) /\ Len(t) = n + 1 /\ n \in Nat /\ t[n + 1] = x
      /\ \A i \in 1 .. n : t[i] = s[i]
  BY AppendProperties
<1> HIDE DEF t
<1>2. PICK a : Flattens(a, s, S) /\ FlattenSeq(s) = a[Len(s)]
  BY FlattenIs
<1>3. PICK b : Flattens(b, t, S) /\ FlattenSeq(t) = b[Len(t)]
  BY <1>1, FlattenIs
<1> DEFINE N == {k \in Nat : k <= n => a[k] = b[k]}
<1>4. 0 \in N
  BY <1>2, <1>3 DEF Flattens
<1>5. ASSUME NEW k \in Nat, k \in N PROVE k + 1 \in N
  <2> SUFFICES ASSUME k + 1 <= n PROVE a[k + 1] = b[k + 1]
    OBVIOUS
  <2>1. k + 1 \in 1 .. Len(s) /\ k + 1 \in 1 .. Len(t) /\ (k + 1) - 1 = k
    BY <1>1
  <2>2. a[k + 1] = a[k] \o s[k + 1] /\ b[k + 1] = b[k] \o t[k + 1]
    BY <1>2, <1>3, <2>1 DEF Flattens
  <2>3. a[k] = b[k]
    BY <1>1, <1>5
  <2>4. t[k + 1] = s[k + 1]
    BY <1>1, <2>1, Zenon
  <2> QED
    BY <2>2, <2>3, <2>4, Zenon
<1>6. n \in N
  <2> HIDE DEF N
  <2> QED
    BY <1>1, <1>4, <1>5, NatSet
<1>7. b[n + 1] = b[n] \o x
  <2>1. n + 1 \in 1 .. Len(t) /\ (n + 1) - 1 = n
    BY <1>1
  <2> QED
    BY <1>1, <1>3, <2>1 DEF Flattens
<1>8. a[n] \in Seq(S)
  <2>1. n \in 0 .. Len(s)
    BY <1>1
  <2> QED
    BY <1>2, <2>1 DEF Flattens
<1>9. a[n] = b[n]
  BY <1>1, <1>6
<1> QED
  BY <1>1, <1>2, <1>3, <1>7, <1>8, <1>9, Zenon DEF t

\* A text of one byte.
LEMMA OneByte ==
  ASSUME NEW ch \in Chars
  PROVE  <<ch>> \in Seq(Chars)
OBVIOUS

\* The glyphs of a command.
LEMMA GlyphsOfTyped ==
  ASSUME NEW cmd \in WriterCommands
  PROVE  GlyphsOf(cmd) \in Seq(WriterCommands)
<1>1. CASE cmd.kind = "Clear"
  BY <1>1 DEF GlyphsOf
<1>2. CASE cmd.kind # "Clear"
  <2> DEFINE n == Len(cmd.text)
             g == [k \in 1 .. n |-> DrawStringCommand(cmd.x + (k - 1) * CharSize, cmd.y,
                                                      <<cmd.text[k]>>, cmd.color)]
  <2>1. cmd.x \in Nat /\ cmd.y \in Nat /\ cmd.color \in Nat /\ cmd.text \in Seq(Chars) /\ n \in Nat
    BY DEF WriterCommands
  <2>2. ASSUME NEW k \in 1 .. n PROVE g[k] \in WriterCommands
    <3>1. cmd.text[k] \in Chars
      BY <2>1, ElementOfSeq
    <3>2. <<cmd.text[k]>> \in Seq(Chars)
      BY <3>1
    <3>3. cmd.x + (k - 1) * CharSize \in Nat
      BY <2>1 DEF CharSize
    <3>4. DrawStringCommand(cmd.x + (k - 1) * CharSize, cmd.y, <<cmd.text[k]>>, cmd.color)
            \in WriterCommands
      BY <2>1, <3>2, <3>3, CommandsTyped
    <3> QED
      BY <3>4
  <2>3. g \in [1 .. n -> WriterCommands]
    BY <2>2
  <2>4. g \in Seq(WriterCommands)
    <3> HIDE DEF g
    <3> QED
      BY <2>1, <2>3
  <2> QED
    BY <1>2, <2>4 DEF GlyphsOf
<1> QED
  BY <1>1, <1>2

\* The glyphs of a sequence of commands, one command at a time.
LEMMA GlyphsAppend ==
  ASSUME NEW c \in Seq(WriterCommands), NEW cmd \in WriterCommands
  PROVE  /\ Glyphs(c) \in Seq(WriterCommands)
         /\ Glyphs(Append(c, cmd)) = Glyphs(c) \o GlyphsOf(cmd)
<1> DEFINE S == WriterCommands
           n == Len(c)
           d == Append(c, cmd)
           s == [i \in 1 .. Len(c) |-> GlyphsOf(c[i])]
           t == [i \in 1 .. Len(d) |-> GlyphsOf(d[i])]
<1>1. /\ d \in Seq(S) /\ Len(d) = n + 1 /\ n \in Nat /\ d[n + 1] = cmd
      /\ \A i \in 1 .. n : d[i] = c[i]
  BY AppendProperties
<1>2. s \in [1 .. n -> Seq(S)]
  <2>1. \A i \in 1 .. n : GlyphsOf(c[i]) \in Seq(S)
    BY GlyphsOfTyped, ElementOfSeq
  <2> QED
    BY <2>1
<1>3. s \in Seq(Seq(S)) /\ Len(s) = n
  <2> HIDE DEF s
  <2> QED
    BY <1>1, <1>2
<1>4. t = Append(s, GlyphsOf(cmd))
  <2> DEFINE u == Append(s, GlyphsOf(cmd))
  <2>1. GlyphsOf(cmd) \in Seq(S)
    BY GlyphsOfTyped
  <2>2. u \in Seq(Seq(S)) /\ Len(u) = n + 1 /\ u[n + 1] = GlyphsOf(cmd)
        /\ \A i \in 1 .. n : u[i] = s[i]
    <3> HIDE DEF s
    <3> QED
      BY <1>3, <2>1, AppendProperties
  <2> HIDE DEF d
  <2>3. ASSUME NEW i \in 1 .. n + 1 PROVE t[i] = u[i]
    <3> HIDE DEF u
    <3>1. CASE i = n + 1
      BY <1>1, <2>2, <3>1
    <3>2. CASE i # n + 1
      <4>1. i \in 1 .. n
        BY <1>1, <3>2
      <4> QED
        BY <1>1, <2>2, <4>1
    <3> QED
      BY <3>1, <3>2
  <2>4. DOMAIN t = 1 .. n + 1 /\ DOMAIN u = 1 .. n + 1
    <3> HIDE DEF u
    <3> QED
      BY <1>1, <2>2
  <2>5. t = [i \in 1 .. n + 1 |-> t[i]] /\ u = [i \in 1 .. n + 1 |-> u[i]]
    <3>1. u = [i \in 1 .. n + 1 |-> u[i]]
      <4> HIDE DEF u
      <4> QED
        BY <1>1, <2>2
    <3> QED
      BY <1>1, <3>1
  <2> HIDE DEF t, u
  <2>6. t = u
    BY <2>3, <2>5
  <2> QED
    BY <2>6 DEF u
<1>5. GlyphsOf(cmd) \in Seq(S)
  BY GlyphsOfTyped
<1>6. FlattenSeq(s) \in Seq(S) /\ FlattenSeq(Append(s, GlyphsOf(cmd))) = FlattenSeq(s) \o GlyphsOf(cmd)
  <2> HIDE DEF s, S
  <2> QED
    BY <1>3, <1>5, FlattenAppend
<1>7. Glyphs(c) = FlattenSeq(s) /\ Glyphs(d) = FlattenSeq(t)
  BY DEF Glyphs
<1> HIDE DEF s, t, S
<1> QED
  BY <1>4, <1>6, <1>7 DEF S

-----------------------------------------------------------------------------
(* What each method adds to the picture *)

\* All commands of a writer, and what they and the waiting text draw.
Queued(w) == w.sent \o w.local_commands

Waiting(w) == DrawStringCommand(w.pending_x, w.pending_y, w.pending_text, w.color)

Shown(w) == Glyphs(Queued(commit_pending_text(w)))

\* The waiting text ends at the cursor.
AtCursor(w) ==
  w.pending_text # <<>> =>
    /\ w.cursor_x = w.pending_x + Len(w.pending_text) * CharSize
    /\ w.cursor_y = w.pending_y

SamePen(v, w) ==
  /\ v.region = w.region /\ v.cursor_x = w.cursor_x /\ v.cursor_y = w.cursor_y
  /\ v.color = w.color

\* What a writer has queued, sent or not, is commands.
LEMMA QueuedTyped ==
  ASSUME NEW w \in WriterRecords
  PROVE  Queued(w) \in Seq(WriterCommands)
BY FieldsTyped, ConcatProperties DEF Queued

\* A command pushed is the last one queued.
LEMMA QueuedAppend ==
  ASSUME NEW w \in WriterRecords, NEW v, NEW cmd \in WriterCommands,
         v.sent = w.sent, v.local_commands = Append(w.local_commands, cmd)
  PROVE  Queued(v) = Append(Queued(w), cmd)
<1> DEFINE s == w.sent
           l == w.local_commands
<1>1. s \in Seq(WriterCommands) /\ l \in Seq(WriterCommands)
  BY FieldsTyped
<1> HIDE DEF s, l
<1>2. s \o Append(l, cmd) = Append(s \o l, cmd)
  <2> DEFINE S == WriterCommands
  <2> HIDE DEF S
  <2>1. Append(l, cmd) = l \o <<cmd>> /\ <<cmd>> \in Seq(S)
    BY <1>1, AppendIsConcat DEF S
  <2>2. s \o (l \o <<cmd>>) = (s \o l) \o <<cmd>>
    BY <1>1, <2>1, ConcatAssociative DEF S
  <2>3. s \o l \in Seq(S)
    BY <1>1, ConcatProperties DEF S
  <2>4. Append(s \o l, cmd) = (s \o l) \o <<cmd>>
    BY <2>3, AppendIsConcat DEF S
  <2> QED
    BY <2>1, <2>2, <2>4
<1> QED
  BY <1>2 DEF Queued, s, l

\* What a writer shows: the glyphs of what is queued and then of the text that waits.
LEMMA ShownIs ==
  ASSUME NEW w \in WriterRecords
  PROVE  /\ Shown(w) \in Seq(WriterCommands)
         /\ Glyphs(Queued(w)) \in Seq(WriterCommands)
         /\ Waiting(w) \in WriterCommands
         /\ w.pending_text = <<>> => Shown(w) = Glyphs(Queued(w))
         /\ w.pending_text # <<>> => Shown(w) = Glyphs(Queued(w)) \o GlyphsOf(Waiting(w))
<1> DEFINE c == commit_pending_text(w)
<1>1. c \in WriterRecords /\ c.sent = w.sent
      /\ c.local_commands = IF w.pending_text = <<>> THEN w.local_commands
                            ELSE Append(w.local_commands, Waiting(w))
  BY CommitIs DEF Waiting
<1> HIDE DEF c
<1>2. Waiting(w) \in WriterCommands
  BY FieldsTyped, CommandsTyped DEF Waiting
<1>3. Queued(w) \in Seq(WriterCommands) /\ Queued(c) \in Seq(WriterCommands)
  BY <1>1, QueuedTyped
<1>4. Glyphs(Queued(w)) \in Seq(WriterCommands) /\ Glyphs(Queued(c)) \in Seq(WriterCommands)
  BY <1>2, <1>3, GlyphsAppend
<1>5. ASSUME w.pending_text = <<>> PROVE Queued(c) = Queued(w)
  BY <1>1, <1>5 DEF Queued
<1>6. ASSUME w.pending_text # <<>>
      PROVE  Glyphs(Queued(c)) = Glyphs(Queued(w)) \o GlyphsOf(Waiting(w))
  <2>1. Queued(c) = Append(Queued(w), Waiting(w))
    BY <1>1, <1>2, <1>6, QueuedAppend
  <2> QED
    BY <1>2, <1>3, <2>1, GlyphsAppend
<1>7. Shown(w) = Glyphs(Queued(c))
  BY DEF Shown, c
<1> QED
  BY <1>2, <1>4, <1>5, <1>6, <1>7

\* commit_pending_text moves neither the pen nor a glyph.
LEMMA CommitShows ==
  ASSUME NEW w \in WriterRecords
  PROVE  LET c == commit_pending_text(w)
         IN  /\ c \in WriterRecords /\ c.pending_text = <<>> /\ SamePen(c, w)
             /\ Shown(c) = Shown(w) /\ AtCursor(c)
<1> DEFINE c == commit_pending_text(w)
<1>1. c \in WriterRecords /\ c.pending_text = <<>> /\ SamePen(c, w)
  BY CommitIs DEF SamePen
<1>2. Shown(w) = Glyphs(Queued(c))
  BY DEF Shown
<1> HIDE DEF c
<1>3. Shown(c) = Shown(w)
  BY <1>1, <1>2, ShownIs
<1> QED
  BY <1>1, <1>3 DEF AtCursor, c

\* Neither does flush, which sends all that is shown.
LEMMA FlushShows ==
  ASSUME NEW w \in WriterRecords
  PROVE  /\ flush(w) \in WriterRecords /\ flush(w).pending_text = <<>>
         /\ SamePen(flush(w), w) /\ AtCursor(flush(w))
         /\ flush(w).local_commands = <<>> /\ Glyphs(flush(w).sent) = Shown(w)
         /\ Shown(flush(w)) = Shown(w)
<1> DEFINE c == commit_pending_text(w)
           s == c.sent \o c.local_commands
           f == [c EXCEPT !.sent = s, !.local_commands = <<>>]
<1>1. c \in WriterRecords /\ c.pending_text = <<>> /\ SamePen(c, w)
  BY CommitIs DEF SamePen
<1>2. flush(w) = f /\ Shown(w) = Glyphs(s)
  BY DEF flush, Shown, Queued
<1>3. s \in Seq(WriterCommands)
  BY <1>1, QueuedTyped DEF Queued
<1> HIDE DEF c
<1>4. f \in WriterRecords
  <2> HIDE DEF s
  <2>1. <<>> \in Seq(WriterCommands)
    OBVIOUS
  <2> QED
    BY <1>1, <1>3, <2>1, UpdatesTyped, Zenon
<1>5. /\ f.sent = s /\ f.local_commands = <<>> /\ f.pending_text = <<>>
      /\ SamePen(f, w)
  <2> HIDE DEF s
  <2>1. DOMAIN c = {"region", "local_commands", "sent", "cursor_x", "cursor_y", "color",
                     "pending_text", "pending_x", "pending_y"}
    BY <1>1, FieldNames
  <2> QED
    BY <1>1, <2>1 DEF SamePen
<1> HIDE DEF f, s
<1>6. Queued(f) = s
  BY <1>3, <1>5, ConcatEmptySeq DEF Queued
<1>7. Shown(f) = Glyphs(s)
  BY <1>4, <1>5, <1>6, ShownIs
<1> QED
  BY <1>2, <1>4, <1>5, <1>7 DEF AtCursor

\* A Clear is drawn after what is drawn already.
LEMMA PushClearShows ==
  ASSUME NEW w \in WriterRecords, w.pending_text = <<>>, NEW color \in Nat
  PROVE  LET v == push(w, ClearCommand(color))
         IN  /\ v \in WriterRecords /\ v.pending_text = <<>> /\ SamePen(v, w)
             /\ Shown(v) = Append(Shown(w), ClearCommand(color))
<1> DEFINE cmd == ClearCommand(color)
           v == push(w, cmd)
<1>1. cmd \in WriterCommands /\ GlyphsOf(cmd) = <<cmd>>
  BY CommandsTyped DEF GlyphsOf, ClearCommand
<1> HIDE DEF cmd
<1>2. /\ v \in WriterRecords /\ v.pending_text = <<>> /\ SamePen(v, w)
      /\ v.sent = w.sent /\ v.local_commands = Append(w.local_commands, cmd)
  BY <1>1, PushIs DEF SamePen
<1> HIDE DEF v
<1>3. Queued(v) = Append(Queued(w), cmd)
  BY <1>1, <1>2, QueuedAppend
<1>4. Queued(w) \in Seq(WriterCommands)
  BY QueuedTyped
<1>5. Glyphs(Queued(v)) = Glyphs(Queued(w)) \o <<cmd>>
  BY <1>1, <1>3, <1>4, GlyphsAppend
<1>6. Shown(v) = Glyphs(Queued(v)) /\ Shown(w) = Glyphs(Queued(w))
      /\ Shown(w) \in Seq(WriterCommands)
  BY <1>2, ShownIs
<1>7. Shown(w) \o <<cmd>> = Append(Shown(w), cmd)
  BY <1>1, <1>6, AppendIsConcat
<1> QED
  BY <1>2, <1>5, <1>6, <1>7 DEF v, cmd

Moved(v, w, x, y) ==
  /\ v \in WriterRecords /\ v.pending_text = <<>>
  /\ v.region = w.region /\ v.color = w.color /\ v.cursor_x = x /\ v.cursor_y = y
  /\ Shown(v) = Shown(w) /\ AtCursor(v)

\* Moving the cursor draws nothing if no text waits.
LEMMA MoveShows ==
  ASSUME NEW w \in WriterRecords, w.pending_text = <<>>, NEW x \in Nat, NEW y \in Nat
  PROVE  Moved(set_position(w, x, y), w, x, y)
<1> DEFINE v == set_position(w, x, y)
<1>1. v \in WriterRecords
  BY UpdatesTyped DEF set_position
<1>2. /\ v.pending_text = <<>> /\ v.region = w.region /\ v.color = w.color
      /\ v.cursor_x = x /\ v.cursor_y = y /\ v.sent = w.sent
      /\ v.local_commands = w.local_commands
  BY FieldNames DEF set_position
<1> HIDE DEF v
<1>3. Queued(v) = Queued(w)
  BY <1>2 DEF Queued
<1>4. Shown(v) = Shown(w)
  BY <1>1, <1>2, <1>3, ShownIs
<1> QED
  BY <1>1, <1>2, <1>4 DEF v, AtCursor, Moved

\* The start of the next line.
LEMMA NextLineShows ==
  ASSUME NEW w \in WriterRecords
  PROVE  LET v == NextLine(commit_pending_text(w))
         IN  /\ v \in WriterRecords /\ v.region = w.region /\ v.color = w.color
             /\ v.cursor_x = 0 /\ v.cursor_y = w.cursor_y + LinePitch
             /\ Shown(v) = Shown(w) /\ AtCursor(v)
<1> DEFINE c == commit_pending_text(w)
<1>1. /\ c \in WriterRecords /\ c.pending_text = <<>> /\ SamePen(c, w)
      /\ Shown(c) = Shown(w)
  BY CommitShows
<1>2. w.cursor_y \in Nat /\ w.cursor_y + LinePitch \in Nat /\ c.cursor_y = w.cursor_y
  BY <1>1, FieldsTyped DEF LinePitch, SamePen
<1> DEFINE y == w.cursor_y + LinePitch
           v == set_position(c, 0, y)
<1> HIDE DEF c
<1>3. NextLine(c) = v
  <2>1. DOMAIN c = {"region", "local_commands", "sent", "cursor_x", "cursor_y", "color",
                    "pending_text", "pending_x", "pending_y"}
    BY <1>1, FieldNames
  <2> QED
    BY <1>2, <2>1 DEF NextLine, set_position
<1>4. Moved(v, c, 0, y)
  <2>1. 0 \in Nat /\ y \in Nat
    BY <1>2
  <2> HIDE DEF y
  <2> QED
    BY <1>1, <2>1, MoveShows, Zenon
<1> HIDE DEF v
<1> QED
  BY <1>1, <1>3, <1>4 DEF c, SamePen, Moved

\* Wrapping a full line moves the cursor and draws nothing.
LEMMA WrapShows ==
  ASSUME NEW w \in WriterRecords
  PROVE  /\ Wrap(w) \in WriterRecords /\ Shown(Wrap(w)) = Shown(w)
         /\ AtCursor(w) => AtCursor(Wrap(w))
         /\ Wrap(w).region = w.region /\ Wrap(w).color = w.color
         /\ Wrap(w).cursor_x = IF LineFull(w) THEN 0 ELSE w.cursor_x
         /\ Wrap(w).cursor_y = IF LineFull(w) THEN w.cursor_y + LinePitch ELSE w.cursor_y
<1>1. CASE LineFull(w)
  <2> DEFINE v == NextLine(commit_pending_text(w))
  <2>1. Wrap(w) = v
    BY <1>1 DEF Wrap
  <2>2. /\ v \in WriterRecords /\ v.region = w.region /\ v.color = w.color
        /\ v.cursor_x = 0 /\ v.cursor_y = w.cursor_y + LinePitch
        /\ Shown(v) = Shown(w) /\ AtCursor(v)
    BY NextLineShows
  <2> HIDE DEF v
  <2> QED
    BY <1>1, <2>1, <2>2
<1>2. CASE ~LineFull(w)
  BY <1>2 DEF Wrap
<1> QED
  BY <1>1, <1>2

\* A full region is cleared and the cursor goes to its top; otherwise nothing happens.
LEMMA StartOverShows ==
  ASSUME NEW w \in WriterRecords
  PROVE  /\ StartOver(w) \in WriterRecords
         /\ AtCursor(w) => AtCursor(StartOver(w))
         /\ StartOver(w).region = w.region /\ StartOver(w).color = w.color
         /\ StartOver(w).cursor_x = w.cursor_x
         /\ StartOver(w).cursor_y = IF RegionFull(w) THEN 0 ELSE w.cursor_y
         /\ Shown(StartOver(w)) =
              IF RegionFull(w) THEN Append(Shown(w), ClearCommand(0)) ELSE Shown(w)
<1>1. CASE RegionFull(w)
  <2> DEFINE c == commit_pending_text(w)
             p == push(c, ClearCommand(0))
             v == [p EXCEPT !.cursor_y = 0]
             u == set_position(p, p.cursor_x, 0)
  <2>1. /\ c \in WriterRecords /\ c.pending_text = <<>> /\ SamePen(c, w)
        /\ Shown(c) = Shown(w)
    BY CommitShows
  <2>2. StartOver(w) = v
    BY <1>1 DEF StartOver
  <2> HIDE DEF c
  <2>3. /\ p \in WriterRecords /\ p.pending_text = <<>> /\ SamePen(p, c)
        /\ Shown(p) = Append(Shown(c), ClearCommand(0))
    BY <2>1, PushClearShows
  <2> HIDE DEF p
  <2>4. v = u
    <3>1. DOMAIN p = {"region", "local_commands", "sent", "cursor_x", "cursor_y", "color",
                      "pending_text", "pending_x", "pending_y"}
      BY <2>3, FieldNames
    <3> QED
      BY <3>1 DEF set_position
  <2>5. p.cursor_x \in Nat /\ 0 \in Nat
    BY <2>3, FieldsTyped
  <2>6. Moved(u, p, p.cursor_x, 0)
    BY <2>3, <2>5, MoveShows, Zenon
  <2> HIDE DEF u, v
  <2> QED
    BY <1>1, <2>1, <2>2, <2>3, <2>4, <2>6 DEF SamePen, Moved
<1>2. CASE ~RegionFull(w)
  BY <1>2 DEF StartOver
<1> QED
  BY <1>1, <1>2

Longer(x, y, t, c, ch) ==
  GlyphsOf(DrawStringCommand(x, y, Append(t, ch), c)) =
    Append(GlyphsOf(DrawStringCommand(x, y, t, c)),
           DrawStringCommand(x + Len(t) * CharSize, y, <<ch>>, c))

\* A longer text draws one more glyph, behind the others.
LEMMA GlyphsOfLonger ==
  ASSUME NEW x \in Nat, NEW y \in Nat, NEW c \in Nat, NEW t \in Seq(Chars), NEW ch \in Chars
  PROVE  Longer(x, y, t, c, ch)
<1> DEFINE n == Len(t)
           u == Append(t, ch)
           G(k, z) == DrawStringCommand(x + (k - 1) * CharSize, y, <<z>>, c)
           g == [k \in 1 .. n |-> G(k, t[k])]
           h == [k \in 1 .. n + 1 |-> G(k, u[k])]
<1>1. /\ u \in Seq(Chars) /\ Len(u) = n + 1 /\ n \in Nat /\ u[n + 1] = ch
      /\ \A k \in 1 .. n : u[k] = t[k]
  BY AppendProperties
<1>2. GlyphsOf(DrawStringCommand(x, y, t, c)) = g
  BY DEF GlyphsOf, DrawStringCommand
<1>3. GlyphsOf(DrawStringCommand(x, y, u, c)) = h
  <2> HIDE DEF u
  <2>1. GlyphsOf(DrawStringCommand(x, y, u, c)) = [k \in 1 .. Len(u) |-> G(k, u[k])]
    BY DEF GlyphsOf, DrawStringCommand
  <2> QED
    BY <1>1, <2>1
<1>4. DrawStringCommand(x + Len(t) * CharSize, y, <<ch>>, c) = G(n + 1, ch)
  <2>1. (n + 1) - 1 = n
    BY <1>1
  <2> QED
    BY <2>1
<1> HIDE DEF G, u
<1>5. h = Append(g, G(n + 1, ch))
  <2> DEFINE S == {G(k, z) : k \in 1 .. n + 1, z \in Chars}
             e == G(n + 1, ch)
             a == Append(g, e)
  <2>1. \A k \in 1 .. n : t[k] \in Chars /\ k \in 1 .. n + 1
    BY <1>1, ElementOfSeq
  <2>2. g \in [1 .. n -> S]
    BY <2>1
  <2>3. g \in Seq(S) /\ Len(g) = n
    <3> HIDE DEF g, S
    <3> QED
      BY <1>1, <2>2
  <2>4. e \in S
    BY <1>1
  <2>5. /\ a \in Seq(S) /\ Len(a) = n + 1 /\ a[n + 1] = e
        /\ \A k \in 1 .. n : a[k] = g[k]
    <3> HIDE DEF g, S, e
    <3> QED
      BY <2>3, <2>4, AppendProperties
  <2>6. a = [k \in 1 .. n + 1 |-> a[k]]
    <3> HIDE DEF a, S
    <3> QED
      BY <1>1, <2>5
  <2>7. ASSUME NEW k \in 1 .. n + 1 PROVE h[k] = a[k]
    <3> HIDE DEF a
    <3>1. CASE k \in 1 .. n
      BY <1>1, <2>5, <3>1
    <3>2. CASE k \notin 1 .. n
      <4>1. k = n + 1
        BY <1>1, <3>2
      <4> QED
        BY <1>1, <2>5, <4>1
    <3> QED
      BY <3>1, <3>2
  <2>8. h = [k \in 1 .. n + 1 |-> h[k]]
    OBVIOUS
  <2> HIDE DEF h, a
  <2>9. h = a
    BY <2>6, <2>7, <2>8
  <2> QED
    BY <2>9 DEF a, e
<1> QED
  BY <1>2, <1>3, <1>4, <1>5 DEF u, Longer

\* An ASCII byte is pushed as it is.
LEMMA AsciiPush ==
  ASSUME NEW t \in Seq(Chars), NEW ch \in Chars
  PROVE  t \o Utf8(ch) = Append(t, ch)
<1>1. Utf8(ch) = <<ch>>
  BY DEF Utf8, Chars
<1>2. t \o <<ch>> = Append(t, ch)
  BY AppendIsConcat
<1> QED
  BY <1>1, <1>2

\* A byte is drawn at the cursor.
LEMMA AccumulateShows ==
  ASSUME NEW w \in WriterRecords, NEW ch \in Chars
  PROVE  /\ Accumulate(w, ch) \in WriterRecords
         /\ Accumulate(w, ch).region = w.region /\ Accumulate(w, ch).color = w.color
         /\ Accumulate(w, ch).cursor_x = w.cursor_x + CharSize
         /\ Accumulate(w, ch).cursor_y = w.cursor_y
         /\ AtCursor(w) =>
              /\ AtCursor(Accumulate(w, ch))
              /\ Shown(Accumulate(w, ch)) =
                   Append(Shown(w), DrawStringCommand(w.cursor_x, w.cursor_y, <<ch>>, w.color))
<1> DEFINE first == w.pending_text = <<>>
           x == IF first THEN w.cursor_x ELSE w.pending_x
           y == IF first THEN w.cursor_y ELSE w.pending_y
           t == Append(w.pending_text, ch)
           z == w.cursor_x + CharSize
           v == [w EXCEPT !.pending_x = x, !.pending_y = y, !.pending_text = t, !.cursor_x = z]
           glyph == DrawStringCommand(w.cursor_x, w.cursor_y, <<ch>>, w.color)
<1>0. DOMAIN w = {"region", "local_commands", "sent", "cursor_x", "cursor_y", "color",
                  "pending_text", "pending_x", "pending_y"}
  BY FieldNames
<1>1. /\ w.cursor_x \in Nat /\ w.cursor_y \in Nat /\ w.color \in Nat
      /\ w.pending_text \in Seq(Chars) /\ w.pending_x \in Nat /\ w.pending_y \in Nat
  BY FieldsTyped
<1>2. Accumulate(w, ch) = v
  <2>1. w.pending_text \o Utf8(ch) = t
    BY <1>1, AsciiPush
  <2> QED
    BY <1>0, <2>1 DEF Accumulate
<1>3. x \in Nat /\ y \in Nat /\ t \in Seq(Chars) /\ z \in Nat
  BY <1>1, AppendProperties DEF CharSize
<1>4. t # <<>> /\ Len(t) = Len(w.pending_text) + 1 /\ Len(w.pending_text) \in Nat
  BY <1>1, AppendProperties, EmptySeq, SMTT(60)
<1> HIDE DEF t, z, x, y
<1>5. v \in WriterRecords
  BY <1>3, UpdatesTyped
<1>6. /\ v.pending_x = x /\ v.pending_y = y /\ v.pending_text = t /\ v.cursor_x = z
      /\ v.region = w.region /\ v.color = w.color /\ v.cursor_y = w.cursor_y
      /\ v.sent = w.sent /\ v.local_commands = w.local_commands
  BY <1>0
<1> HIDE DEF v
<1> SUFFICES ASSUME AtCursor(w)
             PROVE  AtCursor(v) /\ Shown(v) = Append(Shown(w), glyph)
  <2> HIDE DEF glyph
  <2> QED
    BY <1>2, <1>5, <1>6 DEF glyph, z
<1>7. AtCursor(v)
  <2>1. CASE first
    <3>1. x = w.cursor_x /\ y = w.cursor_y /\ Len(t) = 1
      BY <1>4, <2>1, EmptySeq DEF x, y
    <3> QED
      BY <1>1, <1>6, <3>1 DEF AtCursor, CharSize, z
  <2>2. CASE ~first
    <3>1. x = w.pending_x /\ y = w.pending_y
      BY <2>2 DEF x, y
    <3>2. w.cursor_x = w.pending_x + Len(w.pending_text) * CharSize /\ w.cursor_y = w.pending_y
      BY <2>2 DEF AtCursor
    <3>3. z = x + Len(t) * CharSize
      BY <1>1, <1>4, <3>1, <3>2, SMTT(60) DEF CharSize, z
    <3> QED
      BY <1>6, <3>1, <3>2, <3>3 DEF AtCursor
  <2> QED
    BY <2>1, <2>2
<1>8. Queued(v) = Queued(w)
  BY <1>6 DEF Queued
<1> DEFINE Q == Glyphs(Queued(w))
<1>9. /\ Q \in Seq(WriterCommands) /\ Shown(w) \in Seq(WriterCommands)
      /\ Shown(v) = Q \o GlyphsOf(DrawStringCommand(x, y, t, w.color))
  <2>1. Waiting(v) = DrawStringCommand(x, y, t, w.color)
    BY <1>6 DEF Waiting
  <2>2. Shown(v) = Glyphs(Queued(v)) \o GlyphsOf(Waiting(v))
    BY <1>4, <1>5, <1>6, ShownIs
  <2>3. Q \in Seq(WriterCommands) /\ Shown(w) \in Seq(WriterCommands)
    BY ShownIs
  <2> QED
    BY <1>8, <2>1, <2>2, <2>3
<1>10. GlyphsOf(DrawStringCommand(x, y, t, w.color)) =
         Append(GlyphsOf(DrawStringCommand(x, y, w.pending_text, w.color)),
                DrawStringCommand(x + Len(w.pending_text) * CharSize, y, <<ch>>, w.color))
  <2>1. Longer(x, y, w.pending_text, w.color, ch)
    BY <1>1, <1>3, GlyphsOfLonger, Zenon
  <2> QED
    BY <2>1, Zenon DEF Longer, t
<1>11. DrawStringCommand(x + Len(w.pending_text) * CharSize, y, <<ch>>, w.color) = glyph
       /\ glyph \in WriterCommands
  <2>1. glyph \in WriterCommands
    <3>1. <<ch>> \in Seq(Chars)
      BY OneByte
    <3> QED
      BY <1>1, <3>1, CommandsTyped
  <2>2. x + Len(w.pending_text) * CharSize = w.cursor_x /\ y = w.cursor_y
    <3>1. CASE first
      <4>1. x = w.cursor_x /\ y = w.cursor_y /\ Len(w.pending_text) = 0
        BY <1>4, <3>1, EmptySeq DEF x, y
      <4> QED
        BY <1>1, <4>1 DEF CharSize
    <3>2. CASE ~first
      BY <3>2 DEF AtCursor, x, y
    <3> QED
      BY <3>1, <3>2
  <2> QED
    BY <2>1, <2>2
<1> HIDE DEF glyph
<1> DEFINE g == GlyphsOf(DrawStringCommand(x, y, w.pending_text, w.color))
<1>12. Shown(w) = Q \o g /\ g \in Seq(WriterCommands)
  <2>1. DrawStringCommand(x, y, w.pending_text, w.color) \in WriterCommands
    BY <1>1, <1>3, CommandsTyped
  <2>2. g \in Seq(WriterCommands)
    BY <2>1, GlyphsOfTyped
  <2>3. CASE first
    <3>1. g = <<>>
      <4>1. Len(w.pending_text) = 0
        BY <2>3, EmptySeq
      <4>2. g = [k \in 1 .. Len(w.pending_text) |->
                  DrawStringCommand(x + (k - 1) * CharSize, y, <<w.pending_text[k]>>, w.color)]
        BY DEF GlyphsOf, DrawStringCommand
      <4>3. DOMAIN g = {}
        BY <4>1, <4>2
      <4> HIDE DEF g
      <4> QED
        BY <2>2, <4>3, EmptySeq
    <3> HIDE DEF g, Q
    <3>2. Shown(w) = Q
      BY <2>3, ShownIs DEF Q
    <3> QED
      BY <1>9, <2>2, <3>1, <3>2, ConcatEmptySeq
  <2>4. CASE ~first
    <3>1. Shown(w) = Q \o GlyphsOf(Waiting(w))
      BY <2>4, ShownIs
    <3>2. Waiting(w) = DrawStringCommand(x, y, w.pending_text, w.color)
      BY <2>4 DEF Waiting, x, y
    <3> QED
      BY <2>2, <3>1, <3>2
  <2> QED
    BY <2>3, <2>4
<1> HIDE DEF g, Q
<1>13. Shown(v) = Q \o Append(g, glyph)
  BY <1>9, <1>10, <1>11 DEF g
<1>14. Q \o Append(g, glyph) = Append(Q \o g, glyph)
  <2> DEFINE S == WriterCommands
  <2> HIDE DEF S
  <2>1. Append(g, glyph) = g \o <<glyph>> /\ <<glyph>> \in Seq(S)
    BY <1>11, <1>12, AppendIsConcat DEF S
  <2>2. Q \o (g \o <<glyph>>) = (Q \o g) \o <<glyph>>
    BY <1>9, <1>12, <2>1, ConcatAssociative DEF S
  <2>3. Q \o g \in Seq(S)
    BY <1>9, <1>12 DEF S
  <2>4. Append(Q \o g, glyph) = (Q \o g) \o <<glyph>>
    BY <1>11, <2>3, AppendIsConcat DEF S
  <2> QED
    BY <2>1, <2>2, <2>4
<1> QED
  BY <1>7, <1>12, <1>13, <1>14

\* The methods that write one byte and draw at once.
LEMMA WriteByteTyped ==
  ASSUME NEW w \in WriterRecords, NEW ch \in Chars
  PROVE  /\ write_byte(w, ch) \in WriterRecords
         /\ write_byte(w, ch).region = w.region /\ write_byte(w, ch).color = w.color
         /\ AtCursor(w) => AtCursor(write_byte(w, ch))
<1>1. CASE ch = Newline
  <2> DEFINE v == NextLine(commit_pending_text(w))
  <2>1. write_byte(w, ch) = v
    BY <1>1 DEF write_byte
  <2>2. v \in WriterRecords /\ v.region = w.region /\ v.color = w.color /\ AtCursor(v)
    BY NextLineShows
  <2> HIDE DEF v
  <2> QED
    BY <2>1, <2>2
<1>2. CASE ch # Newline
  <2>1. write_byte(w, ch) = Accumulate(StartOver(Wrap(w)), ch)
    BY <1>2 DEF write_byte
  <2> DEFINE a == Wrap(w)
             b == StartOver(a)
             c == Accumulate(b, ch)
  <2>2. a \in WriterRecords /\ a.region = w.region /\ a.color = w.color
        /\ (AtCursor(w) => AtCursor(a))
    BY WrapShows
  <2> HIDE DEF a
  <2>3. b \in WriterRecords /\ b.region = a.region /\ b.color = a.color
        /\ (AtCursor(a) => AtCursor(b))
    BY <2>2, StartOverShows
  <2> HIDE DEF b
  <2>4. c \in WriterRecords /\ c.region = b.region /\ c.color = b.color
        /\ (AtCursor(b) => AtCursor(c))
    BY <2>3, AccumulateShows
  <2>5. write_byte(w, ch) = c
    BY <2>1 DEF a, b
  <2> HIDE DEF c
  <2> QED
    BY <2>2, <2>3, <2>4, <2>5
<1> QED
  BY <1>1, <1>2

\* Writers that cannot be told apart by what they have drawn and will draw.
Alike(v, w) ==
  /\ v \in WriterRecords /\ w \in WriterRecords /\ SamePen(v, w)
  /\ AtCursor(v) /\ AtCursor(w) /\ Shown(v) = Shown(w)

\* Writers that are alike stay alike when both write the same byte.
LEMMA WriteByteAlike ==
  ASSUME NEW v, NEW w, Alike(v, w), NEW ch \in Chars
  PROVE  Alike(write_byte(v, ch), write_byte(w, ch))
<1>0. /\ v \in WriterRecords /\ w \in WriterRecords /\ SamePen(v, w)
      /\ AtCursor(v) /\ AtCursor(w) /\ Shown(v) = Shown(w)
  BY DEF Alike
<1>1. CASE ch = Newline
  <2> DEFINE a == NextLine(commit_pending_text(v))
             b == NextLine(commit_pending_text(w))
  <2>1. write_byte(v, ch) = a /\ write_byte(w, ch) = b
    BY <1>1 DEF write_byte
  <2>2. /\ a \in WriterRecords /\ a.region = v.region /\ a.color = v.color
        /\ a.cursor_x = 0 /\ a.cursor_y = v.cursor_y + LinePitch
        /\ Shown(a) = Shown(v) /\ AtCursor(a)
    BY <1>0, NextLineShows
  <2>3. /\ b \in WriterRecords /\ b.region = w.region /\ b.color = w.color
        /\ b.cursor_x = 0 /\ b.cursor_y = w.cursor_y + LinePitch
        /\ Shown(b) = Shown(w) /\ AtCursor(b)
    BY <1>0, NextLineShows
  <2> HIDE DEF a, b
  <2> QED
    BY <1>0, <2>1, <2>2, <2>3 DEF Alike, SamePen
<1>2. CASE ch # Newline
  <2>1. ASSUME NEW x, NEW y, Alike(x, y) PROVE Alike(Wrap(x), Wrap(y))
    <3>1. LineFull(x) <=> LineFull(y)
      BY <2>1 DEF Alike, SamePen, LineFull
    <3>2. x \in WriterRecords /\ y \in WriterRecords
      BY <2>1 DEF Alike
    <3>3. /\ Wrap(x) \in WriterRecords /\ Shown(Wrap(x)) = Shown(x) /\ AtCursor(Wrap(x))
          /\ Wrap(x).region = x.region /\ Wrap(x).color = x.color
          /\ Wrap(x).cursor_x = IF LineFull(x) THEN 0 ELSE x.cursor_x
          /\ Wrap(x).cursor_y = IF LineFull(x) THEN x.cursor_y + LinePitch ELSE x.cursor_y
      BY <2>1, <3>2, WrapShows DEF Alike
    <3>4. /\ Wrap(y) \in WriterRecords /\ Shown(Wrap(y)) = Shown(y) /\ AtCursor(Wrap(y))
          /\ Wrap(y).region = y.region /\ Wrap(y).color = y.color
          /\ Wrap(y).cursor_x = IF LineFull(y) THEN 0 ELSE y.cursor_x
          /\ Wrap(y).cursor_y = IF LineFull(y) THEN y.cursor_y + LinePitch ELSE y.cursor_y
      BY <2>1, <3>2, WrapShows DEF Alike
    <3> QED
      BY <2>1, <3>1, <3>3, <3>4 DEF Alike, SamePen
  <2>2. ASSUME NEW x, NEW y, Alike(x, y) PROVE Alike(StartOver(x), StartOver(y))
    <3>1. RegionFull(x) <=> RegionFull(y)
      BY <2>2 DEF Alike, SamePen, RegionFull
    <3>2. x \in WriterRecords /\ y \in WriterRecords
      BY <2>2 DEF Alike
    <3>3. /\ StartOver(x) \in WriterRecords /\ AtCursor(StartOver(x))
          /\ StartOver(x).region = x.region /\ StartOver(x).color = x.color
          /\ StartOver(x).cursor_x = x.cursor_x
          /\ StartOver(x).cursor_y = IF RegionFull(x) THEN 0 ELSE x.cursor_y
          /\ Shown(StartOver(x)) =
               IF RegionFull(x) THEN Append(Shown(x), ClearCommand(0)) ELSE Shown(x)
      BY <2>2, <3>2, StartOverShows DEF Alike
    <3>4. /\ StartOver(y) \in WriterRecords /\ AtCursor(StartOver(y))
          /\ StartOver(y).region = y.region /\ StartOver(y).color = y.color
          /\ StartOver(y).cursor_x = y.cursor_x
          /\ StartOver(y).cursor_y = IF RegionFull(y) THEN 0 ELSE y.cursor_y
          /\ Shown(StartOver(y)) =
               IF RegionFull(y) THEN Append(Shown(y), ClearCommand(0)) ELSE Shown(y)
      BY <2>2, <3>2, StartOverShows DEF Alike
    <3> QED
      BY <2>2, <3>1, <3>3, <3>4 DEF Alike, SamePen
  <2>3. ASSUME NEW x, NEW y, Alike(x, y) PROVE Alike(Accumulate(x, ch), Accumulate(y, ch))
    <3>1. x \in WriterRecords /\ y \in WriterRecords
      BY <2>3 DEF Alike
    <3>2. /\ Accumulate(x, ch) \in WriterRecords /\ AtCursor(Accumulate(x, ch))
          /\ Accumulate(x, ch).region = x.region /\ Accumulate(x, ch).color = x.color
          /\ Accumulate(x, ch).cursor_x = x.cursor_x + CharSize
          /\ Accumulate(x, ch).cursor_y = x.cursor_y
          /\ Shown(Accumulate(x, ch)) =
               Append(Shown(x), DrawStringCommand(x.cursor_x, x.cursor_y, <<ch>>, x.color))
      BY <2>3, <3>1, AccumulateShows DEF Alike
    <3>3. /\ Accumulate(y, ch) \in WriterRecords /\ AtCursor(Accumulate(y, ch))
          /\ Accumulate(y, ch).region = y.region /\ Accumulate(y, ch).color = y.color
          /\ Accumulate(y, ch).cursor_x = y.cursor_x + CharSize
          /\ Accumulate(y, ch).cursor_y = y.cursor_y
          /\ Shown(Accumulate(y, ch)) =
               Append(Shown(y), DrawStringCommand(y.cursor_x, y.cursor_y, <<ch>>, y.color))
      BY <2>3, <3>1, AccumulateShows DEF Alike
    <3> QED
      BY <2>3, <3>2, <3>3 DEF Alike, SamePen
  <2>4. Alike(Wrap(v), Wrap(w))
    BY <2>1
  <2>5. Alike(StartOver(Wrap(v)), StartOver(Wrap(w)))
    BY <2>2, <2>4
  <2>6. Alike(Accumulate(StartOver(Wrap(v)), ch), Accumulate(StartOver(Wrap(w)), ch))
    BY <2>3, <2>5
  <2> QED
    BY <1>2, <2>6 DEF write_byte
<1> QED
  BY <1>1, <1>2

\* Flushing one of them, or both, makes no difference.
LEMMA FlushAlike ==
  ASSUME NEW v, NEW w, Alike(v, w)
  PROVE  Alike(flush(v), w) /\ Alike(v, flush(w)) /\ Alike(flush(v), flush(w))
<1>1. v \in WriterRecords /\ w \in WriterRecords
  BY DEF Alike
<1>2. /\ flush(v) \in WriterRecords /\ SamePen(flush(v), v)
      /\ AtCursor(flush(v)) /\ Shown(flush(v)) = Shown(v)
  BY <1>1, FlushShows
<1>3. /\ flush(w) \in WriterRecords /\ SamePen(flush(w), w)
      /\ AtCursor(flush(w)) /\ Shown(flush(w)) = Shown(w)
  BY <1>1, FlushShows
<1> QED
  BY <1>2, <1>3 DEF Alike, SamePen

\* Also when one of them flushes around each byte.
LEMMA ByteAlike ==
  ASSUME NEW v, NEW w, Alike(v, w), NEW ch \in Chars
  PROVE  Alike(write_byte(v, ch), Byte(w, ch))
<1>1. Alike(v, flush(w))
  BY FlushAlike
<1>2. Alike(write_byte(v, ch), write_byte(flush(w), ch))
  BY <1>1, WriteByteAlike
<1> QED
  BY <1>2, FlushAlike DEF Byte

-----------------------------------------------------------------------------
(* The folds of the model *)

\* Max picks an index of a set of indices that is not empty.
LEMMA MaxInSet ==
  ASSUME NEW n \in Nat, NEW s \in SUBSET (1 .. n), s # {}
  PROVE  Max(s) \in s
<1>1. s \in SUBSET Nat /\ \A k \in s : k <= n
  OBVIOUS
<1>2. PICK m \in s : \A k \in s : k <= m
  BY <1>1, GreatestNat
<1>3. \A k \in s : m >= k
  BY <1>1, <1>2
<1> QED
  BY <1>3 DEF Max

WriteStep == [x \in WriterRecords \X Chars |-> write_byte(x[1], x[2])]
ByteStep == [x \in WriterRecords \X Chars |-> Byte(x[1], x[2])]

\* write_str writes byte after byte.
LEMMA WriteFold ==
  ASSUME NEW w \in WriterRecords, NEW q \in Seq(Chars)
  PROVE  \E a : Passes(a, WriterRecords, WriteStep, w, q) /\ write_str(w, q) = a[Len(q)]
<1> DEFINE D == WriterRecords
           Body(g) == [s \in SUBSET (DOMAIN q) |->
                        IF s = {} THEN w ELSE write_byte(g[s \ {Max(s)}], q[Max(s)])]
           F == CHOOSE g : g = Body(g)
<1>1. WriteStep \in [D \X Chars -> D]
  BY WriteByteTyped DEF WriteStep
<1>2. DOMAIN q = 1 .. Len(q) /\ Len(q) \in Nat
  OBVIOUS
<1>3. PICK f \in [SUBSET (1 .. Len(q)) -> D] : Solution(f, WriteStep, w, q)
  BY <1>1, FoldSolves, Zenon
<1>4. ASSUME NEW s \in SUBSET (1 .. Len(q)) PROVE f[s] = Body(f)[s]
  <2>1. CASE s = {}
    BY <1>2, <1>3, <2>1 DEF Solution
  <2>2. CASE s # {}
    <3> DEFINE m == Max(s)
               d == f[s \ {m}]
    <3>1. m \in 1 .. Len(q) /\ s \ {m} \in SUBSET (1 .. Len(q))
      <4>1. m \in s
        BY <1>2, <2>2, MaxInSet
      <4> QED
        BY <4>1
    <3>2. f[s] = WriteStep[<<d, q[m]>>]
      BY <1>3, <2>2 DEF Solution
    <3>3. d \in D /\ q[m] \in Chars
      BY <3>1, ElementOfSeq
    <3>4. WriteStep[<<d, q[m]>>] = write_byte(d, q[m])
      <4> HIDE DEF m, d
      <4> QED
        BY <3>3 DEF WriteStep
    <3>5. Body(f)[s] = write_byte(d, q[m])
      BY <1>2, <2>2
    <3> QED
      BY <3>2, <3>4, <3>5
  <2> QED
    BY <2>1, <2>2
<1>5. f = Body(f)
  BY <1>2, <1>4
<1>6. F = Body(F)
  <2> HIDE DEF Body
  <2>1. \E g : g = Body(g)
    BY <1>5
  <2> QED
    BY <2>1
<1>7. write_str(w, q) = F[DOMAIN q]
  BY DEF write_str, FoldLeft, MapThenFoldSet
<1> HIDE DEF F
<1>8. Solves(F, D, WriteStep, w, q)
  <2>1. F[{}] = w
    BY <1>6
  <2>2. ASSUME NEW s \in SUBSET (1 .. Len(q)), s # {}, F[s \ {Max(s)}] \in D
        PROVE  F[s] = WriteStep[<<F[s \ {Max(s)}], q[Max(s)]>>]
    <3>1. F[s] = write_byte(F[s \ {Max(s)}], q[Max(s)])
      BY <1>2, <1>6, <2>2
    <3>2. Max(s) \in s
      BY <1>2, <2>2, MaxInSet
    <3>3. q[Max(s)] \in Chars
      BY <3>2, ElementOfSeq
    <3> QED
      BY <2>2, <3>1, <3>3 DEF WriteStep
  <2> QED
    BY <2>1, <2>2 DEF Solves
<1>9. PICK a : Passes(a, D, WriteStep, w, q) /\ EndsAt(a, F, q)
  BY <1>1, <1>8, FoldSteps, Zenon
<1> QED
  BY <1>2, <1>7, <1>9 DEF EndsAt

\* One byte of the reference.
LEMMA ByteTyped ==
  ASSUME NEW w \in WriterRecords, NEW ch \in Chars
  PROVE  Byte(w, ch) \in WriterRecords
<1>1. flush(w) \in WriterRecords
  BY FlushShows
<1>2. write_byte(flush(w), ch) \in WriterRecords
  BY <1>1, WriteByteTyped
<1> QED
  BY <1>2, FlushShows DEF Byte

\* And so does the reference.
LEMMA ByteFold ==
  ASSUME NEW w \in WriterRecords, NEW q \in Seq(Chars)
  PROVE  \E a : Passes(a, WriterRecords, ByteStep, w, q) /\ FoldLeft(Byte, w, q) = a[Len(q)]
<1> DEFINE D == WriterRecords
           Body(g) == [s \in SUBSET (DOMAIN q) |->
                        IF s = {} THEN w ELSE Byte(g[s \ {Max(s)}], q[Max(s)])]
           F == CHOOSE g : g = Body(g)
<1>1. ByteStep \in [D \X Chars -> D]
  BY ByteTyped DEF ByteStep
<1>2. DOMAIN q = 1 .. Len(q) /\ Len(q) \in Nat
  OBVIOUS
<1>3. PICK f \in [SUBSET (1 .. Len(q)) -> D] : Solution(f, ByteStep, w, q)
  BY <1>1, FoldSolves, Zenon
<1>4. ASSUME NEW s \in SUBSET (1 .. Len(q)) PROVE f[s] = Body(f)[s]
  <2>1. CASE s = {}
    BY <1>2, <1>3, <2>1 DEF Solution
  <2>2. CASE s # {}
    <3> DEFINE m == Max(s)
               d == f[s \ {m}]
    <3>1. m \in 1 .. Len(q) /\ s \ {m} \in SUBSET (1 .. Len(q))
      <4>1. m \in s
        BY <1>2, <2>2, MaxInSet
      <4> QED
        BY <4>1
    <3>2. f[s] = ByteStep[<<d, q[m]>>]
      BY <1>3, <2>2 DEF Solution
    <3>3. d \in D /\ q[m] \in Chars
      BY <3>1, ElementOfSeq
    <3>4. ByteStep[<<d, q[m]>>] = Byte(d, q[m])
      <4> HIDE DEF m, d
      <4> QED
        BY <3>3 DEF ByteStep
    <3>5. Body(f)[s] = Byte(d, q[m])
      BY <1>2, <2>2
    <3> QED
      BY <3>2, <3>4, <3>5
  <2> QED
    BY <2>1, <2>2
<1>5. f = Body(f)
  BY <1>2, <1>4
<1>6. F = Body(F)
  <2> HIDE DEF Body
  <2>1. \E g : g = Body(g)
    BY <1>5
  <2> QED
    BY <2>1
<1>7. FoldLeft(Byte, w, q) = F[DOMAIN q]
  BY DEF FoldLeft, MapThenFoldSet
<1> HIDE DEF F
<1>8. Solves(F, D, ByteStep, w, q)
  <2>1. F[{}] = w
    BY <1>6
  <2>2. ASSUME NEW s \in SUBSET (1 .. Len(q)), s # {}, F[s \ {Max(s)}] \in D
        PROVE  F[s] = ByteStep[<<F[s \ {Max(s)}], q[Max(s)]>>]
    <3>1. F[s] = Byte(F[s \ {Max(s)}], q[Max(s)])
      BY <1>2, <1>6, <2>2
    <3>2. Max(s) \in s
      BY <1>2, <2>2, MaxInSet
    <3>3. q[Max(s)] \in Chars
      BY <3>2, ElementOfSeq
    <3> QED
      BY <2>2, <3>1, <3>3 DEF ByteStep
  <2> QED
    BY <2>1, <2>2 DEF Solves
<1>9. PICK a : Passes(a, D, ByteStep, w, q) /\ EndsAt(a, F, q)
  BY <1>1, <1>8, FoldSteps, Zenon
<1> QED
  BY <1>2, <1>7, <1>9 DEF EndsAt

\* A byte below 128 is a character.
LEMMA AsciiByte == \A b \in Bytes : b < 128 => b \in Chars
BY DEF Bytes, Chars

\* What the calls of a program may be.
LEMMA CallsOK ==
  ASSUME NEW call \in AsciiCalls
  PROVE  \/ call.op = "write" /\ call.text \in Seq(Chars)
         \/ call.op \in {"clear", "set_color"} /\ call.color \in Nat
         \/ call.op = "set_position" /\ call.x \in Nat /\ call.y \in Nat
         \/ call.op = "flush"
<1>1. call \in WriterCalls /\ Ascii(call)
  BY DEF AsciiCalls
<1>2. CASE call.op = "write"
  <2>1. call.text \in Seq(Bytes) /\ \A k \in DOMAIN call.text : call.text[k] < 128
    BY <1>1, <1>2, WriterAssumption DEF Ascii
  <2>2. call.text = [k \in 1 .. Len(call.text) |-> call.text[k]] /\ Len(call.text) \in Nat
        /\ DOMAIN call.text = 1 .. Len(call.text)
    BY <2>1
  <2>3. ASSUME NEW k \in 1 .. Len(call.text) PROVE call.text[k] \in Chars
    <3>1. call.text[k] \in Bytes
      BY <2>1, ElementOfSeq
    <3>2. call.text[k] < 128
      BY <2>1, <2>2
    <3> QED
      BY <3>1, <3>2, AsciiByte, Zenon
  <2>4. call.text \in Seq(Chars)
    BY <2>2, <2>3
  <2> QED
    BY <1>2, <2>4
<1>3. CASE call.op # "write"
  BY <1>1, <1>3, WriterAssumption
<1> QED
  BY <1>2, <1>3

\* clear draws, and the cursor goes home.
LEMMA ClearShows ==
  ASSUME NEW w \in WriterRecords, NEW color \in Nat
  PROVE  LET v == clear(w, color)
         IN  /\ v \in WriterRecords /\ v.region = w.region /\ v.color = w.color
             /\ v.cursor_x = 0 /\ v.cursor_y = 0 /\ AtCursor(v)
             /\ Shown(v) = Append(Shown(w), ClearCommand(color))
<1> DEFINE c == commit_pending_text(w)
           p == push(c, ClearCommand(color))
           u == set_position(p, 0, 0)
<1>1. /\ c \in WriterRecords /\ c.pending_text = <<>> /\ SamePen(c, w)
      /\ Shown(c) = Shown(w)
  BY CommitShows
<1>2. clear(w, color) = u
  BY DEF clear, set_position
<1> HIDE DEF c
<1>3. /\ p \in WriterRecords /\ p.pending_text = <<>> /\ SamePen(p, c)
      /\ Shown(p) = Append(Shown(c), ClearCommand(color))
  BY <1>1, PushClearShows
<1> HIDE DEF p
<1>4. 0 \in Nat
  OBVIOUS
<1>5. Moved(u, p, 0, 0)
  BY <1>3, <1>4, MoveShows, Zenon
<1> HIDE DEF u
<1> QED
  BY <1>1, <1>2, <1>3, <1>5 DEF SamePen, Moved

\* set_color.
LEMMA SetColorIs ==
  ASSUME NEW w \in WriterRecords, NEW color \in Nat
  PROVE  LET v == set_color(w, color)
         IN  /\ v \in WriterRecords /\ v.region = w.region /\ v.color = color
             /\ v.cursor_x = w.cursor_x /\ v.cursor_y = w.cursor_y
             /\ v.pending_text = w.pending_text /\ v.pending_x = w.pending_x
             /\ v.pending_y = w.pending_y /\ Queued(v) = Queued(w)
             /\ v.local_commands = w.local_commands
             /\ AtCursor(w) => AtCursor(v)
<1> DEFINE v == set_color(w, color)
<1>1. v \in WriterRecords
  BY UpdatesTyped DEF set_color
<1>2. /\ v.region = w.region /\ v.color = color
      /\ v.cursor_x = w.cursor_x /\ v.cursor_y = w.cursor_y
      /\ v.pending_text = w.pending_text /\ v.pending_x = w.pending_x
      /\ v.pending_y = w.pending_y /\ v.sent = w.sent
      /\ v.local_commands = w.local_commands
  BY FieldNames DEF set_color
<1> HIDE DEF v
<1> QED
  BY <1>1, <1>2 DEF Queued, AtCursor, v

\* set_position, also while text waits.
LEMMA SetPositionIs ==
  ASSUME NEW w \in WriterRecords, NEW x \in Nat, NEW y \in Nat
  PROVE  /\ set_position(w, x, y) \in WriterRecords
         /\ set_position(w, x, y).region = w.region
         /\ set_position(w, x, y).pending_text = w.pending_text
         /\ set_position(w, x, y).local_commands = w.local_commands
<1>1. set_position(w, x, y) \in WriterRecords
  BY UpdatesTyped DEF set_position
<1> QED
  BY <1>1, FieldNames DEF set_position

\* write_str, whatever the writer.
LEMMA WriteStrTyped ==
  ASSUME NEW w \in WriterRecords, NEW q \in Seq(Chars)
  PROVE  write_str(w, q) \in WriterRecords
<1>1. PICK a : Passes(a, WriterRecords, WriteStep, w, q) /\ write_str(w, q) = a[Len(q)]
  BY WriteFold
<1>2. Len(q) \in 0 .. Len(q)
  OBVIOUS
<1> QED
  BY <1>1, <1>2 DEF Passes

\* All bytes of the reference.
LEMMA ByteFoldTyped ==
  ASSUME NEW w \in WriterRecords, NEW q \in Seq(Chars)
  PROVE  FoldLeft(Byte, w, q) \in WriterRecords
<1>1. PICK a : Passes(a, WriterRecords, ByteStep, w, q) /\ FoldLeft(Byte, w, q) = a[Len(q)]
  BY ByteFold
<1>2. Len(q) \in 0 .. Len(q)
  OBVIOUS
<1> QED
  BY <1>1, <1>2 DEF Passes

\* A call leaves a writer a writer.
LEMMA CallTyped ==
  ASSUME NEW w \in WriterRecords, NEW call \in AsciiCalls
  PROVE  Call(w, call) \in WriterRecords
<1>1. CASE call.op = "write"
  <2>1. Call(w, call) = write_str(w, call.text) /\ call.text \in Seq(Chars)
    BY <1>1, CallsOK DEF Call
  <2> QED
    BY <2>1, WriteStrTyped
<1>2. CASE call.op = "clear"
  <2>1. Call(w, call) = clear(w, call.color) /\ call.color \in Nat
    BY <1>2, CallsOK DEF Call
  <2> QED
    BY <2>1, ClearShows
<1>3. CASE call.op = "set_color"
  <2>1. Call(w, call) = set_color(w, call.color) /\ call.color \in Nat
    BY <1>3, CallsOK DEF Call
  <2> QED
    BY <2>1, SetColorIs
<1>4. CASE call.op = "set_position"
  <2>1. Call(w, call) = set_position(w, call.x, call.y) /\ call.x \in Nat /\ call.y \in Nat
    BY <1>4, CallsOK DEF Call
  <2> QED
    BY <2>1, SetPositionIs
<1>5. CASE call.op = "flush"
  <2>1. Call(w, call) = flush(w)
    BY <1>5 DEF Call
  <2> QED
    BY <2>1, FlushShows
<1> QED
  BY <1>1, <1>2, <1>3, <1>4, <1>5, CallsOK

\* And so does a call of the reference.
LEMMA UnbatchedCallTyped ==
  ASSUME NEW w \in WriterRecords, NEW call \in AsciiCalls
  PROVE  UnbatchedCall(w, call) \in WriterRecords
<1>1. CASE call.op = "write"
  <2>1. UnbatchedCall(w, call) = FoldLeft(Byte, w, call.text) /\ call.text \in Seq(Chars)
    BY <1>1, CallsOK DEF UnbatchedCall
  <2> QED
    BY <2>1, ByteFoldTyped
<1>2. CASE call.op # "write"
  <2>1. UnbatchedCall(w, call) = flush(Call(w, call))
    BY <1>2 DEF UnbatchedCall
  <2> QED
    BY <2>1, CallTyped, FlushShows
<1> QED
  BY <1>1, <1>2

CallStep == [x \in WriterRecords \X AsciiCalls |-> Call(x[1], x[2])]
UnbatchedStep == [x \in WriterRecords \X AsciiCalls |-> UnbatchedCall(x[1], x[2])]

\* A program makes call after call.
LEMMA RunFold ==
  ASSUME NEW w \in WriterRecords, NEW q \in Seq(AsciiCalls)
  PROVE  \E a : Passes(a, WriterRecords, CallStep, w, q) /\ Run(w, q) = a[Len(q)]
<1> DEFINE D == WriterRecords
           Body(g) == [s \in SUBSET (DOMAIN q) |->
                        IF s = {} THEN w ELSE Call(g[s \ {Max(s)}], q[Max(s)])]
           F == CHOOSE g : g = Body(g)
<1>1. CallStep \in [D \X AsciiCalls -> D]
  BY CallTyped DEF CallStep
<1>2. DOMAIN q = 1 .. Len(q) /\ Len(q) \in Nat
  OBVIOUS
<1>3. PICK f \in [SUBSET (1 .. Len(q)) -> D] : Solution(f, CallStep, w, q)
  BY <1>1, FoldSolves, Zenon
<1>4. ASSUME NEW s \in SUBSET (1 .. Len(q)) PROVE f[s] = Body(f)[s]
  <2>1. CASE s = {}
    BY <1>2, <1>3, <2>1 DEF Solution
  <2>2. CASE s # {}
    <3> DEFINE m == Max(s)
               d == f[s \ {m}]
    <3>1. m \in 1 .. Len(q) /\ s \ {m} \in SUBSET (1 .. Len(q))
      <4>1. m \in s
        BY <1>2, <2>2, MaxInSet
      <4> QED
        BY <4>1
    <3>2. f[s] = CallStep[<<d, q[m]>>]
      BY <1>3, <2>2 DEF Solution
    <3>3. d \in D /\ q[m] \in AsciiCalls
      BY <3>1, ElementOfSeq
    <3>4. CallStep[<<d, q[m]>>] = Call(d, q[m])
      <4> HIDE DEF m, d
      <4> QED
        BY <3>3 DEF CallStep
    <3>5. Body(f)[s] = Call(d, q[m])
      BY <1>2, <2>2
    <3> QED
      BY <3>2, <3>4, <3>5
  <2> QED
    BY <2>1, <2>2
<1>5. f = Body(f)
  BY <1>2, <1>4
<1>6. F = Body(F)
  <2> HIDE DEF Body
  <2>1. \E g : g = Body(g)
    BY <1>5
  <2> QED
    BY <2>1
<1>7. Run(w, q) = F[DOMAIN q]
  BY DEF Run, FoldLeft, MapThenFoldSet
<1> HIDE DEF F
<1>8. Solves(F, D, CallStep, w, q)
  <2>1. F[{}] = w
    BY <1>6
  <2>2. ASSUME NEW s \in SUBSET (1 .. Len(q)), s # {}, F[s \ {Max(s)}] \in D
        PROVE  F[s] = CallStep[<<F[s \ {Max(s)}], q[Max(s)]>>]
    <3>1. F[s] = Call(F[s \ {Max(s)}], q[Max(s)])
      BY <1>2, <1>6, <2>2
    <3>2. Max(s) \in s
      BY <1>2, <2>2, MaxInSet
    <3>3. q[Max(s)] \in AsciiCalls
      BY <3>2, ElementOfSeq
    <3> QED
      BY <2>2, <3>1, <3>3 DEF CallStep
  <2> QED
    BY <2>1, <2>2 DEF Solves
<1>9. PICK a : Passes(a, D, CallStep, w, q) /\ EndsAt(a, F, q)
  BY <1>1, <1>8, FoldSteps, Zenon
<1> QED
  BY <1>2, <1>7, <1>9 DEF EndsAt

\* And so does the reference.
LEMMA UnbatchedFold ==
  ASSUME NEW w \in WriterRecords, NEW q \in Seq(AsciiCalls)
  PROVE  \E a : Passes(a, WriterRecords, UnbatchedStep, w, q) /\ FoldLeft(UnbatchedCall, w, q) = a[Len(q)]
<1> DEFINE D == WriterRecords
           Body(g) == [s \in SUBSET (DOMAIN q) |->
                        IF s = {} THEN w ELSE UnbatchedCall(g[s \ {Max(s)}], q[Max(s)])]
           F == CHOOSE g : g = Body(g)
<1>1. UnbatchedStep \in [D \X AsciiCalls -> D]
  BY UnbatchedCallTyped DEF UnbatchedStep
<1>2. DOMAIN q = 1 .. Len(q) /\ Len(q) \in Nat
  OBVIOUS
<1>3. PICK f \in [SUBSET (1 .. Len(q)) -> D] : Solution(f, UnbatchedStep, w, q)
  BY <1>1, FoldSolves, Zenon
<1>4. ASSUME NEW s \in SUBSET (1 .. Len(q)) PROVE f[s] = Body(f)[s]
  <2>1. CASE s = {}
    BY <1>2, <1>3, <2>1 DEF Solution
  <2>2. CASE s # {}
    <3> DEFINE m == Max(s)
               d == f[s \ {m}]
    <3>1. m \in 1 .. Len(q) /\ s \ {m} \in SUBSET (1 .. Len(q))
      <4>1. m \in s
        BY <1>2, <2>2, MaxInSet
      <4> QED
        BY <4>1
    <3>2. f[s] = UnbatchedStep[<<d, q[m]>>]
      BY <1>3, <2>2 DEF Solution
    <3>3. d \in D /\ q[m] \in AsciiCalls
      BY <3>1, ElementOfSeq
    <3>4. UnbatchedStep[<<d, q[m]>>] = UnbatchedCall(d, q[m])
      <4> HIDE DEF m, d
      <4> QED
        BY <3>3 DEF UnbatchedStep
    <3>5. Body(f)[s] = UnbatchedCall(d, q[m])
      BY <1>2, <2>2
    <3> QED
      BY <3>2, <3>4, <3>5
  <2> QED
    BY <2>1, <2>2
<1>5. f = Body(f)
  BY <1>2, <1>4
<1>6. F = Body(F)
  <2> HIDE DEF Body
  <2>1. \E g : g = Body(g)
    BY <1>5
  <2> QED
    BY <2>1
<1>7. FoldLeft(UnbatchedCall, w, q) = F[DOMAIN q]
  BY DEF FoldLeft, MapThenFoldSet
<1> HIDE DEF F
<1>8. Solves(F, D, UnbatchedStep, w, q)
  <2>1. F[{}] = w
    BY <1>6
  <2>2. ASSUME NEW s \in SUBSET (1 .. Len(q)), s # {}, F[s \ {Max(s)}] \in D
        PROVE  F[s] = UnbatchedStep[<<F[s \ {Max(s)}], q[Max(s)]>>]
    <3>1. F[s] = UnbatchedCall(F[s \ {Max(s)}], q[Max(s)])
      BY <1>2, <1>6, <2>2
    <3>2. Max(s) \in s
      BY <1>2, <2>2, MaxInSet
    <3>3. q[Max(s)] \in AsciiCalls
      BY <3>2, ElementOfSeq
    <3> QED
      BY <2>2, <3>1, <3>3 DEF UnbatchedStep
  <2> QED
    BY <2>1, <2>2 DEF Solves
<1>9. PICK a : Passes(a, D, UnbatchedStep, w, q) /\ EndsAt(a, F, q)
  BY <1>1, <1>8, FoldSteps, Zenon
<1> QED
  BY <1>2, <1>7, <1>9 DEF EndsAt

-----------------------------------------------------------------------------
(* Batching changes nothing that is drawn *)

Flushed(w) == w.pending_text = <<>> /\ w.local_commands = <<>>

\* write_str and the reference, which flushes around each byte, stay alike.
LEMMA WriteAlike ==
  ASSUME NEW v, NEW w, Alike(v, w), Flushed(w), NEW q \in Seq(Chars)
  PROVE  Alike(write_str(v, q), FoldLeft(Byte, w, q)) /\ Flushed(FoldLeft(Byte, w, q))
<1>1. v \in WriterRecords /\ w \in WriterRecords
  BY DEF Alike
<1>2. PICK a : Passes(a, WriterRecords, WriteStep, v, q) /\ write_str(v, q) = a[Len(q)]
  BY <1>1, WriteFold
<1>3. PICK b : Passes(b, WriterRecords, ByteStep, w, q) /\ FoldLeft(Byte, w, q) = b[Len(q)]
  BY <1>1, ByteFold
<1> DEFINE Same(k) == Alike(a[k], b[k]) /\ Flushed(b[k])
           N == {k \in Nat : k <= Len(q) => Same(k)}
<1>4. 0 \in N
  BY <1>2, <1>3 DEF Passes
<1>5. ASSUME NEW k \in Nat, k \in N PROVE k + 1 \in N
  <2> SUFFICES ASSUME k + 1 <= Len(q) PROVE Same(k + 1)
    <3> HIDE DEF Same
    <3> QED
      OBVIOUS
  <2>1. Len(q) \in Nat /\ k + 1 \in 1 .. Len(q) /\ (k + 1) - 1 = k /\ k <= Len(q)
    OBVIOUS
  <2>2. Same(k)
    <3> HIDE DEF Same
    <3> QED
      BY <1>5, <2>1
  <2> DEFINE ch == q[k + 1]
  <2>3. ch \in Chars
    BY <2>1, ElementOfSeq
  <2>4. a[k] \in WriterRecords /\ b[k] \in WriterRecords
    BY <2>2 DEF Alike
  <2>5. a[k + 1] = WriteStep[<<a[k], ch>>] /\ b[k + 1] = ByteStep[<<b[k], ch>>]
    BY <1>2, <1>3, <2>1 DEF Passes
  <2> HIDE DEF ch
  <2>6. a[k + 1] = write_byte(a[k], ch) /\ b[k + 1] = Byte(b[k], ch)
    BY <2>3, <2>4, <2>5 DEF WriteStep, ByteStep
  <2>7. Alike(a[k + 1], b[k + 1])
    BY <2>2, <2>3, <2>6, ByteAlike
  <2>8. Flushed(Byte(b[k], ch))
    <3>1. flush(b[k]) \in WriterRecords
      BY <2>4, FlushShows
    <3>2. write_byte(flush(b[k]), ch) \in WriterRecords
      BY <2>3, <3>1, WriteByteTyped
    <3> QED
      BY <3>2, FlushShows DEF Byte, Flushed
  <2> QED
    BY <2>6, <2>7, <2>8
<1>6. Len(q) \in N
  <2>1. Len(q) \in Nat
    OBVIOUS
  <2> HIDE DEF N
  <2> QED
    BY <1>4, <1>5, <2>1, NatSet
<1>7. Same(Len(q))
  <2> HIDE DEF Same
  <2> QED
    BY <1>6
<1> QED
  BY <1>2, <1>3, <1>7

\* Each call keeps the two writers alike, colour and position changing only while
\* no text waits.
LEMMA CallAlike ==
  ASSUME NEW v, NEW w, Alike(v, w), Flushed(w), NEW call \in AsciiCalls,
         call.op \in {"set_color", "set_position"} => v.pending_text = <<>>
  PROVE  Alike(Call(v, call), UnbatchedCall(w, call)) /\ Flushed(UnbatchedCall(w, call))
<1>0. /\ v \in WriterRecords /\ w \in WriterRecords /\ SamePen(v, w)
      /\ AtCursor(v) /\ AtCursor(w) /\ Shown(v) = Shown(w)
  BY DEF Alike
<1>1. CASE call.op = "write"
  <2>1. /\ Call(v, call) = write_str(v, call.text) /\ call.text \in Seq(Chars)
        /\ UnbatchedCall(w, call) = FoldLeft(Byte, w, call.text)
    BY <1>1, CallsOK DEF Call, UnbatchedCall
  <2> QED
    BY <2>1, WriteAlike
<1>2. ASSUME call.op # "write", Alike(Call(v, call), Call(w, call))
      PROVE  Alike(Call(v, call), UnbatchedCall(w, call)) /\ Flushed(UnbatchedCall(w, call))
  <2>1. UnbatchedCall(w, call) = flush(Call(w, call)) /\ Call(w, call) \in WriterRecords
    BY <1>2 DEF UnbatchedCall, Alike
  <2> QED
    BY <1>2, <2>1, FlushAlike, FlushShows DEF Flushed
<1>3. CASE call.op = "clear"
  <2> DEFINE a == clear(v, call.color)
             b == clear(w, call.color)
  <2>1. Call(v, call) = a /\ Call(w, call) = b /\ call.color \in Nat
    BY <1>3, CallsOK DEF Call
  <2>2. /\ a \in WriterRecords /\ a.region = v.region /\ a.color = v.color
        /\ a.cursor_x = 0 /\ a.cursor_y = 0 /\ AtCursor(a)
        /\ Shown(a) = Append(Shown(v), ClearCommand(call.color))
    BY <1>0, <2>1, ClearShows
  <2>3. /\ b \in WriterRecords /\ b.region = w.region /\ b.color = w.color
        /\ b.cursor_x = 0 /\ b.cursor_y = 0 /\ AtCursor(b)
        /\ Shown(b) = Append(Shown(w), ClearCommand(call.color))
    BY <1>0, <2>1, ClearShows
  <2> HIDE DEF a, b
  <2>4. Alike(a, b)
    BY <1>0, <2>2, <2>3 DEF Alike, SamePen
  <2> QED
    BY <1>2, <1>3, <2>1, <2>4
<1>4. CASE call.op = "set_color"
  <2> DEFINE a == set_color(v, call.color)
             b == set_color(w, call.color)
  <2>1. /\ Call(v, call) = a /\ Call(w, call) = b /\ call.color \in Nat
        /\ v.pending_text = <<>> /\ w.pending_text = <<>>
    BY <1>4, CallsOK DEF Call, Flushed
  <2>2. /\ a \in WriterRecords /\ a.region = v.region /\ a.color = call.color
        /\ a.cursor_x = v.cursor_x /\ a.cursor_y = v.cursor_y
        /\ a.pending_text = v.pending_text /\ Queued(a) = Queued(v) /\ AtCursor(a)
    BY <1>0, <2>1, SetColorIs
  <2>3. /\ b \in WriterRecords /\ b.region = w.region /\ b.color = call.color
        /\ b.cursor_x = w.cursor_x /\ b.cursor_y = w.cursor_y
        /\ b.pending_text = w.pending_text /\ Queued(b) = Queued(w) /\ AtCursor(b)
    BY <1>0, <2>1, SetColorIs
  <2> HIDE DEF a, b
  <2>4. Shown(a) = Shown(v)
    BY <1>0, <2>1, <2>2, ShownIs
  <2>5. Shown(b) = Shown(w)
    BY <1>0, <2>1, <2>3, ShownIs
  <2>6. Alike(a, b)
    BY <1>0, <2>2, <2>3, <2>4, <2>5 DEF Alike, SamePen
  <2> QED
    BY <1>2, <1>4, <2>1, <2>6
<1>5. CASE call.op = "set_position"
  <2> DEFINE a == set_position(v, call.x, call.y)
             b == set_position(w, call.x, call.y)
  <2>1. /\ Call(v, call) = a /\ Call(w, call) = b /\ call.x \in Nat /\ call.y \in Nat
        /\ v.pending_text = <<>> /\ w.pending_text = <<>>
    BY <1>5, CallsOK DEF Call, Flushed
  <2>2. Moved(a, v, call.x, call.y) /\ Moved(b, w, call.x, call.y)
    BY <1>0, <2>1, MoveShows, Zenon
  <2> HIDE DEF a, b
  <2>3. Alike(a, b)
    BY <1>0, <2>2 DEF Alike, SamePen, Moved
  <2> QED
    BY <1>2, <1>5, <2>1, <2>3
<1>6. CASE call.op = "flush"
  <2>1. Call(v, call) = flush(v) /\ Call(w, call) = flush(w)
    BY <1>6 DEF Call
  <2>2. Alike(flush(v), flush(w))
    BY FlushAlike
  <2> QED
    BY <1>2, <1>6, <2>1, <2>2
<1> QED
  BY <1>1, <1>3, <1>4, <1>5, <1>6, CallsOK

\* What a run has reached after its first calls.
LEMMA RunPrefix ==
  ASSUME NEW w \in WriterRecords, NEW q \in Seq(AsciiCalls),
         NEW a, Passes(a, WriterRecords, CallStep, w, q), NEW n \in 0 .. Len(q)
  PROVE  Run(w, SubSeq(q, 1, n)) = a[n]
<1> DEFINE p == SubSeq(q, 1, n)
<1>1. /\ p \in Seq(AsciiCalls) /\ Len(p) = n /\ n \in Nat /\ Len(q) \in Nat /\ n <= Len(q)
      /\ \A i \in 1 .. n : p[i] = q[i]
  <2>1. Len(q) \in Nat /\ n \in Nat /\ n <= Len(q)
    OBVIOUS
  <2> QED
    BY <2>1, SubSeqProperties
<1> HIDE DEF p
<1>2. PICK b : Passes(b, WriterRecords, CallStep, w, p) /\ Run(w, p) = b[Len(p)]
  BY <1>1, RunFold
<1> DEFINE N == {k \in Nat : k <= n => b[k] = a[k]}
<1>3. 0 \in N
  BY <1>2 DEF Passes
<1>4. ASSUME NEW k \in Nat, k \in N PROVE k + 1 \in N
  <2> SUFFICES ASSUME k + 1 <= n PROVE b[k + 1] = a[k + 1]
    OBVIOUS
  <2>1. k + 1 \in 1 .. n /\ k + 1 \in 1 .. Len(q) /\ k + 1 \in 1 .. Len(p) /\ (k + 1) - 1 = k
    BY <1>1
  <2>2. b[k] = a[k]
    BY <1>1, <1>4
  <2>3. a[k + 1] = CallStep[<<a[k], q[k + 1]>>] /\ b[k + 1] = CallStep[<<b[k], p[k + 1]>>]
    BY <1>2, <2>1 DEF Passes
  <2>4. p[k + 1] = q[k + 1]
    BY <1>1, <2>1, Zenon
  <2> QED
    BY <2>2, <2>3, <2>4, Zenon
<1>5. n \in N
  <2> HIDE DEF N
  <2> QED
    BY <1>1, <1>3, <1>4, NatSet
<1>6. b[n] = a[n]
  BY <1>1, <1>5
<1> QED
  BY <1>1, <1>2, <1>6 DEF p

\* A new writer, and the programs.
LEMMA NewWriterIs ==
  ASSUME NEW r \in WriterRegions
  PROVE  LET w == NewWriter(r, 3)
         IN  /\ w \in WriterRecords /\ w.region = r /\ Flushed(w) /\ Alike(w, w)
             /\ Shown(w) = <<>>
<1> DEFINE w == NewWriter(r, 3)
<1>1. w \in WriterRecords
  <2>1. r \in [width : Nat, height : Nat]
    BY WriterAssumption
  <2>2. <<>> \in Seq(WriterCommands) /\ <<>> \in Seq(Chars)
    OBVIOUS
  <2> DEFINE R == [width : Nat, height : Nat]
             C == Seq(WriterCommands)
             T == Seq(Chars)
  <2>3. r \in R /\ <<>> \in C /\ <<>> \in T
    BY <2>1, <2>2
  <2> HIDE DEF R, C, T
  <2>4. w \in [region : R, local_commands : C, sent : C, cursor_x : Nat, cursor_y : Nat,
               color : Nat, pending_text : T, pending_x : Nat, pending_y : Nat]
    BY <2>3 DEF NewWriter
  <2> QED
    BY <2>4 DEF WriterRecords, R, C, T
<1>2. w.region = r /\ Flushed(w) /\ w.sent = <<>>
  BY DEF NewWriter, Flushed
<1> HIDE DEF w
<1>3. Alike(w, w)
  BY <1>1, <1>2 DEF Alike, SamePen, AtCursor, Flushed
<1>4. Queued(w) = <<>>
  BY <1>2, ConcatEmptySeq DEF Queued, Flushed
<1>5. Glyphs(<<>>) = <<>>
  BY DEF Glyphs, FlattenSeq
<1>6. Shown(w) = <<>>
  BY <1>1, <1>2, <1>4, <1>5, ShownIs DEF Flushed
<1> QED
  BY <1>1, <1>2, <1>3, <1>6 DEF w

\* Programs whose text is ASCII are sequences of such calls.
LEMMA ProgramsAreSeqs ==
  ASSUME NEW p \in Programs, AsciiOnly(p)
  PROVE  p \in Seq(AsciiCalls)
<1>1. PICK n \in 0 .. MaxCalls : p \in [1 .. n -> WriterCalls]
  BY DEF Programs
<1>2. n \in Nat
  BY WriterAssumption
<1>3. p \in [1 .. n -> AsciiCalls]
  BY <1>1 DEF AsciiOnly, AsciiCalls
<1> QED
  BY <1>2, <1>3

\* For every region and every program of any length whose text is ASCII, as
\* writer.rs:205 takes it to be, a TaskWriter that batches its text draws what it would draw byte by byte, unless set_color or set_position is
\* called while text waits (commit_pending_text).
THEOREM WriterBatches == Batches
<1> SUFFICES ASSUME NEW r \in WriterRegions, NEW p \in Programs,
                    AsciiOnly(p), NoneWaits({"set_color", "set_position"}, NewWriter(r, 3), p)
             PROVE  Drawn(NewWriter(r, 3), p) = Unbatched(NewWriter(r, 3), p)
  BY Zenon DEF Batches
<1> DEFINE w == NewWriter(r, 3)
           n == Len(p)
<1>1. w \in WriterRecords /\ Flushed(w) /\ Alike(w, w)
  BY NewWriterIs
<1>2. p \in Seq(AsciiCalls) /\ n \in Nat
  BY ProgramsAreSeqs
<1>3. NoneWaits({"set_color", "set_position"}, w, p)
  OBVIOUS
<1>4. Drawn(w, p) = Glyphs(flush(Run(w, p)).sent)
      /\ Unbatched(w, p) = Glyphs(FoldLeft(UnbatchedCall, w, p).sent)
  BY DEF Drawn, Unbatched
<1> HIDE DEF w
<1>5. PICK a : Passes(a, WriterRecords, CallStep, w, p) /\ Run(w, p) = a[Len(p)]
  BY <1>1, <1>2, RunFold
<1>6. PICK b : Passes(b, WriterRecords, UnbatchedStep, w, p)
               /\ FoldLeft(UnbatchedCall, w, p) = b[Len(p)]
  BY <1>1, <1>2, UnbatchedFold
<1> DEFINE Same(k) == Alike(a[k], b[k]) /\ Flushed(b[k])
           N == {k \in Nat : k <= n => Same(k)}
<1>7. 0 \in N
  BY <1>1, <1>5, <1>6 DEF Passes
<1>8. ASSUME NEW k \in Nat, k \in N PROVE k + 1 \in N
  <2> SUFFICES ASSUME k + 1 <= n PROVE Same(k + 1)
    <3> HIDE DEF Same
    <3> QED
      OBVIOUS
  <2>1. k + 1 \in 1 .. Len(p) /\ (k + 1) - 1 = k /\ k <= n /\ k \in 0 .. Len(p)
    BY <1>2
  <2>2. Same(k)
    <3> HIDE DEF Same
    <3> QED
      BY <1>8, <2>1
  <2> DEFINE call == p[k + 1]
  <2>3. call \in AsciiCalls
    BY <1>2, <2>1, ElementOfSeq
  <2>4. a[k] \in WriterRecords /\ b[k] \in WriterRecords
    BY <2>2 DEF Alike
  <2>5. a[k + 1] = CallStep[<<a[k], call>>] /\ b[k + 1] = UnbatchedStep[<<b[k], call>>]
    BY <1>5, <1>6, <2>1 DEF Passes
  <2>6. Run(w, SubSeq(p, 1, k)) = a[k]
    BY <1>1, <1>2, <1>5, <2>1, RunPrefix
  <2>7. call.op \in {"set_color", "set_position"} => a[k].pending_text = <<>>
    BY <1>3, <2>1, <2>6 DEF NoneWaits
  <2> HIDE DEF call
  <2>8. a[k + 1] = Call(a[k], call) /\ b[k + 1] = UnbatchedCall(b[k], call)
    BY <2>3, <2>4, <2>5 DEF CallStep, UnbatchedStep
  <2> QED
    BY <2>2, <2>3, <2>7, <2>8, CallAlike
<1>9. n \in N
  <2> HIDE DEF N
  <2> QED
    BY <1>2, <1>7, <1>8, NatSet
<1>10. Same(n)
  <2> HIDE DEF Same
  <2> QED
    BY <1>2, <1>9
<1>11. a[n] \in WriterRecords /\ b[n] \in WriterRecords /\ Shown(a[n]) = Shown(b[n]) /\ Flushed(b[n])
  BY <1>10 DEF Alike
<1>12. Drawn(w, p) = Shown(a[n])
  BY <1>4, <1>5, <1>11, FlushShows
<1>13. Shown(b[n]) = Glyphs(b[n].sent)
  <2>1. Queued(b[n]) = b[n].sent
    BY <1>11, FieldsTyped, ConcatEmptySeq DEF Queued, Flushed
  <2> QED
    BY <1>11, <2>1, ShownIs DEF Flushed
<1> QED
  BY <1>4, <1>6, <1>11, <1>12, <1>13 DEF w

-----------------------------------------------------------------------------
(* No glyph leaves the region *)

InsideAll(s, r) == \A i \in 1 .. Len(s) : s[i].kind = "DrawString" => Inside(s[i], r)

\* A glyph inside the region, behind glyphs inside it.
LEMMA InsideAppend ==
  ASSUME NEW s \in Seq(WriterCommands), NEW cmd \in WriterCommands, NEW r,
         InsideAll(s, r), cmd.kind = "DrawString" => Inside(cmd, r)
  PROVE  InsideAll(Append(s, cmd), r)
<1> DEFINE t == Append(s, cmd)
<1>1. /\ Len(t) = Len(s) + 1 /\ Len(s) \in Nat /\ t[Len(s) + 1] = cmd
      /\ \A i \in 1 .. Len(s) : t[i] = s[i]
  BY AppendProperties
<1> HIDE DEF t
<1>2. ASSUME NEW i \in 1 .. Len(t), t[i].kind = "DrawString" PROVE Inside(t[i], r)
  <2>1. CASE i \in 1 .. Len(s)
    BY <1>1, <1>2, <2>1 DEF InsideAll
  <2>2. CASE i \notin 1 .. Len(s)
    <3>1. i = Len(s) + 1
      BY <1>1, <2>2
    <3> QED
      BY <1>1, <1>2, <3>1
  <2> QED
    BY <2>1, <2>2
<1> QED
  BY <1>2 DEF InsideAll, t

\* Glyphs inside the region, behind one another.
LEMMA InsideConcat ==
  ASSUME NEW s \in Seq(WriterCommands), NEW t \in Seq(WriterCommands), NEW r
  PROVE  InsideAll(s \o t, r) <=> InsideAll(s, r) /\ InsideAll(t, r)
<1> DEFINE u == s \o t
<1>1. /\ Len(s) \in Nat /\ Len(t) \in Nat /\ Len(u) = Len(s) + Len(t)
      /\ \A i \in 1 .. Len(u) : u[i] = IF i <= Len(s) THEN s[i] ELSE t[i - Len(s)]
  BY ConcatProperties
<1> HIDE DEF u
<1>2. ASSUME InsideAll(u, r) PROVE InsideAll(s, r) /\ InsideAll(t, r)
  <2>1. ASSUME NEW i \in 1 .. Len(s), s[i].kind = "DrawString" PROVE Inside(s[i], r)
    <3>1. i \in 1 .. Len(u) /\ u[i] = s[i]
      BY <1>1
    <3> QED
      BY <1>2, <2>1, <3>1 DEF InsideAll
  <2>2. ASSUME NEW i \in 1 .. Len(t), t[i].kind = "DrawString" PROVE Inside(t[i], r)
    <3> DEFINE j == i + Len(s)
    <3>1. j \in 1 .. Len(u) /\ ~(j <= Len(s)) /\ j - Len(s) = i
      BY <1>1
    <3>2. u[j] = t[i]
      <4> HIDE DEF j
      <4> QED
        BY <1>1, <3>1
    <3> QED
      BY <1>2, <2>2, <3>1, <3>2 DEF InsideAll
  <2> QED
    BY <2>1, <2>2 DEF InsideAll
<1>3. ASSUME InsideAll(s, r), InsideAll(t, r) PROVE InsideAll(u, r)
  <2>1. ASSUME NEW i \in 1 .. Len(u), u[i].kind = "DrawString" PROVE Inside(u[i], r)
    <3>1. CASE i <= Len(s)
      <4>1. i \in 1 .. Len(s) /\ u[i] = s[i]
        BY <1>1, <3>1
      <4> QED
        BY <1>3, <2>1, <4>1 DEF InsideAll
    <3>2. CASE ~(i <= Len(s))
      <4>1. i - Len(s) \in 1 .. Len(t) /\ u[i] = t[i - Len(s)]
        BY <1>1, <3>2
      <4> QED
        BY <1>3, <2>1, <4>1 DEF InsideAll
    <3> QED
      BY <3>1, <3>2
  <2> QED
    BY <2>1 DEF InsideAll
<1> QED
  BY <1>2, <1>3 DEF u

\* A writer all of whose glyphs are inside its region.
Tidy(w, r) ==
  /\ w \in WriterRecords /\ w.region = r /\ AtCursor(w)
  /\ InsideAll(Shown(w), r)

HasRoom(r) ==
  /\ r \in [width : Nat, height : Nat]
  /\ r.width >= CharSize /\ r.height >= CharSize

\* Writing a byte keeps all glyphs inside: wrap and clear come before the byte is added.
LEMMA WriteByteTidy ==
  ASSUME NEW r, HasRoom(r), NEW w, Tidy(w, r), NEW ch \in Chars
  PROVE  Tidy(write_byte(w, ch), r)
<1>0. w \in WriterRecords /\ w.region = r /\ AtCursor(w) /\ InsideAll(Shown(w), r)
  BY DEF Tidy
<1>1. CASE ch = Newline
  <2> DEFINE v == NextLine(commit_pending_text(w))
  <2>1. write_byte(w, ch) = v
    BY <1>1 DEF write_byte
  <2>2. v \in WriterRecords /\ v.region = w.region /\ Shown(v) = Shown(w) /\ AtCursor(v)
    BY <1>0, NextLineShows
  <2> HIDE DEF v
  <2> QED
    BY <1>0, <2>1, <2>2 DEF Tidy
<1>2. CASE ch # Newline
  <2> DEFINE a == Wrap(w)
             b == StartOver(a)
             c == Accumulate(b, ch)
  <2>1. write_byte(w, ch) = c
    BY <1>2 DEF write_byte
  <2>2. /\ a \in WriterRecords /\ Shown(a) = Shown(w) /\ AtCursor(a) /\ a.region = r
        /\ a.cursor_x = IF LineFull(w) THEN 0 ELSE w.cursor_x
    BY <1>0, WrapShows
  <2>3. a.cursor_x \in Nat /\ a.cursor_x + CharSize <= r.width
    BY <1>0, <2>2, FieldsTyped DEF LineFull, HasRoom, CharSize
  <2> HIDE DEF a
  <2>4. /\ b \in WriterRecords /\ AtCursor(b) /\ b.region = r /\ b.cursor_x = a.cursor_x
        /\ b.cursor_y = IF RegionFull(a) THEN 0 ELSE a.cursor_y
        /\ Shown(b) = IF RegionFull(a) THEN Append(Shown(a), ClearCommand(0)) ELSE Shown(a)
    BY <2>2, StartOverShows
  <2>5. b.cursor_y \in Nat /\ b.cursor_y + CharSize <= r.height
    BY <2>2, <2>4, FieldsTyped DEF RegionFull, HasRoom, CharSize
  <2>6. InsideAll(Shown(b), r)
    <3>1. ClearCommand(0) \in WriterCommands /\ ClearCommand(0).kind # "DrawString"
      BY CommandsTyped DEF ClearCommand
    <3>2. Shown(a) \in Seq(WriterCommands) /\ InsideAll(Shown(a), r)
      BY <1>0, <2>2, ShownIs
    <3>3. InsideAll(Append(Shown(a), ClearCommand(0)), r)
      BY <3>1, <3>2, InsideAppend
    <3> QED
      BY <2>4, <3>2, <3>3
  <2> HIDE DEF b
  <2> DEFINE glyph == DrawStringCommand(b.cursor_x, b.cursor_y, <<ch>>, b.color)
  <2>7. /\ c \in WriterRecords /\ c.region = r /\ AtCursor(c)
        /\ Shown(c) = Append(Shown(b), glyph)
    BY <2>4, AccumulateShows
  <2>8. glyph \in WriterCommands /\ Inside(glyph, r)
    <3>1. <<ch>> \in Seq(Chars)
      BY OneByte
    <3>2. glyph \in WriterCommands
      BY <2>4, <3>1, FieldsTyped, CommandsTyped
    <3>3. glyph.x = b.cursor_x /\ glyph.y = b.cursor_y
      BY DEF DrawStringCommand
    <3> QED
      BY <2>3, <2>4, <2>5, <3>2, <3>3 DEF Inside
  <2>9. Shown(b) \in Seq(WriterCommands)
    BY <2>4, ShownIs
  <2> HIDE DEF c, glyph
  <2>10. InsideAll(Shown(c), r)
    BY <2>6, <2>7, <2>8, <2>9, InsideAppend
  <2> QED
    BY <2>1, <2>7, <2>10 DEF Tidy
<1> QED
  BY <1>1, <1>2

\* So does write_str.
LEMMA WriteStrTidy ==
  ASSUME NEW r, HasRoom(r), NEW w, Tidy(w, r), NEW q \in Seq(Chars)
  PROVE  Tidy(write_str(w, q), r)
<1>1. w \in WriterRecords
  BY DEF Tidy
<1>2. PICK a : Passes(a, WriterRecords, WriteStep, w, q) /\ write_str(w, q) = a[Len(q)]
  BY <1>1, WriteFold
<1> DEFINE N == {k \in Nat : k <= Len(q) => Tidy(a[k], r)}
<1>3. 0 \in N
  BY <1>2 DEF Passes
<1>4. ASSUME NEW k \in Nat, k \in N PROVE k + 1 \in N
  <2> SUFFICES ASSUME k + 1 <= Len(q) PROVE Tidy(a[k + 1], r)
    OBVIOUS
  <2>1. Len(q) \in Nat /\ k + 1 \in 1 .. Len(q) /\ (k + 1) - 1 = k /\ k <= Len(q)
    OBVIOUS
  <2>2. Tidy(a[k], r) /\ a[k] \in WriterRecords
    BY <1>4, <2>1 DEF Tidy
  <2> DEFINE ch == q[k + 1]
  <2>3. ch \in Chars
    BY <2>1, ElementOfSeq
  <2>4. a[k + 1] = WriteStep[<<a[k], ch>>]
    BY <1>2, <2>1 DEF Passes
  <2> HIDE DEF ch
  <2>5. a[k + 1] = write_byte(a[k], ch)
    BY <2>2, <2>3, <2>4 DEF WriteStep
  <2> QED
    BY <2>2, <2>3, <2>5, WriteByteTidy
<1>5. Len(q) \in N
  <2>1. Len(q) \in Nat
    OBVIOUS
  <2> HIDE DEF N
  <2> QED
    BY <1>3, <1>4, <2>1, NatSet
<1> QED
  BY <1>2, <1>5

\* Recolouring the text that waits moves no glyph.
LEMMA SetColorTidy ==
  ASSUME NEW r, NEW w, Tidy(w, r), NEW color \in Nat
  PROVE  Tidy(set_color(w, color), r)
<1> DEFINE v == set_color(w, color)
           Q == Glyphs(Queued(w))
<1>0. w \in WriterRecords /\ w.region = r /\ AtCursor(w) /\ InsideAll(Shown(w), r)
  BY DEF Tidy
<1>1. /\ v \in WriterRecords /\ v.region = w.region /\ v.color = color
      /\ v.pending_text = w.pending_text /\ v.pending_x = w.pending_x
      /\ v.pending_y = w.pending_y /\ Queued(v) = Queued(w) /\ AtCursor(v)
  BY <1>0, SetColorIs
<1> HIDE DEF v
<1>2. CASE w.pending_text = <<>>
  <2>1. Shown(v) = Shown(w)
    <3>1. Shown(w) = Glyphs(Queued(w))
      BY <1>0, <1>2, ShownIs
    <3>2. Shown(v) = Glyphs(Queued(v))
      BY <1>1, <1>2, ShownIs
    <3> QED
      BY <1>1, <3>1, <3>2
  <2> QED
    BY <1>0, <1>1, <2>1 DEF Tidy, v
<1>3. CASE w.pending_text # <<>>
  <2> DEFINE g == GlyphsOf(Waiting(w))
             h == GlyphsOf(Waiting(v))
  <2>1. /\ Shown(w) = Q \o g /\ Q \in Seq(WriterCommands) /\ Waiting(w) \in WriterCommands
    BY <1>0, <1>3, ShownIs
  <2>2. Shown(v) = Q \o h /\ Waiting(v) \in WriterCommands
    BY <1>1, <1>3, ShownIs
  <2>3. g \in Seq(WriterCommands) /\ h \in Seq(WriterCommands)
    BY <2>1, <2>2, GlyphsOfTyped
  <2> DEFINE m == Len(w.pending_text)
  <2>4. g = [k \in 1 .. m |-> DrawStringCommand(w.pending_x + (k - 1) * CharSize, w.pending_y,
                                                <<w.pending_text[k]>>, w.color)]
    BY DEF GlyphsOf, Waiting, DrawStringCommand
  <2>5. h = [k \in 1 .. m |-> DrawStringCommand(w.pending_x + (k - 1) * CharSize, w.pending_y,
                                                <<w.pending_text[k]>>, color)]
    BY <1>1 DEF GlyphsOf, Waiting, DrawStringCommand
  <2>6. m \in Nat /\ Len(g) = m /\ Len(h) = m
    <3>1. m \in Nat /\ DOMAIN g = 1 .. m /\ DOMAIN h = 1 .. m
      BY <1>0, <2>4, <2>5, FieldsTyped
    <3> HIDE DEF g, h, m
    <3> QED
      BY <2>3, <3>1
  <2>7. ASSUME NEW k \in 1 .. m
        PROVE  h[k].x = g[k].x /\ h[k].y = g[k].y /\ g[k].kind = "DrawString"
    <3> HIDE DEF g, h
    <3> QED
      BY <2>4, <2>5 DEF DrawStringCommand
  <2> HIDE DEF g, h, m, Q
  <2>8. InsideAll(Q, r) /\ InsideAll(g, r)
    BY <1>0, <2>1, <2>3, InsideConcat
  <2>9. InsideAll(h, r)
    BY <2>6, <2>7, <2>8 DEF InsideAll, Inside
  <2>10. InsideAll(Shown(v), r)
    BY <2>1, <2>2, <2>3, <2>8, <2>9, InsideConcat
  <2> QED
    BY <1>0, <1>1, <2>10 DEF Tidy, v
<1> QED
  BY <1>2, <1>3

\* So does every call, set_position while text waits apart.
LEMMA CallTidy ==
  ASSUME NEW r, HasRoom(r), NEW w, Tidy(w, r), NEW call \in AsciiCalls,
         call.op = "set_position" => w.pending_text = <<>>
  PROVE  Tidy(Call(w, call), r)
<1>0. /\ w \in WriterRecords /\ w.region = r /\ AtCursor(w) /\ InsideAll(Shown(w), r)
      /\ Shown(w) \in Seq(WriterCommands)
  BY ShownIs DEF Tidy
<1>1. CASE call.op = "write"
  <2>1. Call(w, call) = write_str(w, call.text) /\ call.text \in Seq(Chars)
    BY <1>1, CallsOK DEF Call
  <2> QED
    BY <2>1, WriteStrTidy
<1>2. CASE call.op = "clear"
  <2> DEFINE v == clear(w, call.color)
             cmd == ClearCommand(call.color)
  <2>1. Call(w, call) = v /\ call.color \in Nat
    BY <1>2, CallsOK DEF Call
  <2>2. v \in WriterRecords /\ v.region = w.region /\ AtCursor(v) /\ Shown(v) = Append(Shown(w), cmd)
    BY <1>0, <2>1, ClearShows
  <2>3. cmd \in WriterCommands /\ cmd.kind # "DrawString"
    BY <2>1, CommandsTyped DEF ClearCommand
  <2> HIDE DEF v, cmd
  <2>4. InsideAll(Shown(v), r)
    BY <1>0, <2>2, <2>3, InsideAppend
  <2> QED
    BY <1>0, <2>1, <2>2, <2>4 DEF Tidy
<1>3. CASE call.op = "set_color"
  <2>1. Call(w, call) = set_color(w, call.color) /\ call.color \in Nat
    BY <1>3, CallsOK DEF Call
  <2> QED
    BY <2>1, SetColorTidy
<1>4. CASE call.op = "set_position"
  <2> DEFINE v == set_position(w, call.x, call.y)
  <2>1. Call(w, call) = v /\ call.x \in Nat /\ call.y \in Nat /\ w.pending_text = <<>>
    BY <1>4, CallsOK DEF Call
  <2>2. Moved(v, w, call.x, call.y)
    BY <1>0, <2>1, MoveShows, Zenon
  <2> HIDE DEF v
  <2> QED
    BY <1>0, <2>1, <2>2 DEF Tidy, Moved
<1>5. CASE call.op = "flush"
  <2>1. Call(w, call) = flush(w)
    BY <1>5 DEF Call
  <2>2. flush(w) \in WriterRecords /\ flush(w).region = w.region /\ AtCursor(flush(w))
        /\ Shown(flush(w)) = Shown(w)
    BY <1>0, FlushShows DEF SamePen
  <2> QED
    BY <1>0, <2>1, <2>2 DEF Tidy
<1> QED
  BY <1>1, <1>2, <1>3, <1>4, <1>5, CallsOK

\* For every region with room for a glyph and every program of any length whose text
\* is ASCII, no glyph that a TaskWriter draws leaves the region, unless set_position
\* is called while text waits (write_str's wrapping and clearing).
THEOREM WriterStaysInside == StaysInside
<1> SUFFICES ASSUME NEW r \in WriterRegions, NEW p \in Programs,
                    r.width >= CharSize, r.height >= CharSize,
                    AsciiOnly(p), NoneWaits({"set_position"}, NewWriter(r, 3), p)
             PROVE  InsideAll(Drawn(NewWriter(r, 3), p), r)
  BY DEF StaysInside, InsideAll
<1> DEFINE w == NewWriter(r, 3)
           n == Len(p)
<1>1. w \in WriterRecords /\ w.region = r /\ Flushed(w) /\ Alike(w, w) /\ Shown(w) = <<>>
  BY NewWriterIs
<1>2. p \in Seq(AsciiCalls) /\ n \in Nat
  BY ProgramsAreSeqs
<1>3. NoneWaits({"set_position"}, w, p)
  OBVIOUS
<1>4. Drawn(w, p) = Glyphs(flush(Run(w, p)).sent)
  BY DEF Drawn
<1> HIDE DEF w
<1>5. Tidy(w, r)
  <2>1. InsideAll(<<>>, r)
    BY DEF InsideAll
  <2> QED
    BY <1>1, <2>1 DEF Tidy, Alike
<1>6. HasRoom(r)
  BY WriterAssumption DEF HasRoom
<1>7. PICK a : Passes(a, WriterRecords, CallStep, w, p) /\ Run(w, p) = a[Len(p)]
  BY <1>1, <1>2, RunFold
<1> DEFINE N == {k \in Nat : k <= n => Tidy(a[k], r)}
<1>8. 0 \in N
  BY <1>5, <1>7 DEF Passes
<1>9. ASSUME NEW k \in Nat, k \in N PROVE k + 1 \in N
  <2> SUFFICES ASSUME k + 1 <= n PROVE Tidy(a[k + 1], r)
    OBVIOUS
  <2>1. k + 1 \in 1 .. Len(p) /\ (k + 1) - 1 = k /\ k <= n /\ k \in 0 .. Len(p)
    BY <1>2
  <2>2. Tidy(a[k], r) /\ a[k] \in WriterRecords
    BY <1>9, <2>1 DEF Tidy
  <2> DEFINE call == p[k + 1]
  <2>3. call \in AsciiCalls
    BY <1>2, <2>1, ElementOfSeq
  <2>4. a[k + 1] = CallStep[<<a[k], call>>]
    BY <1>7, <2>1 DEF Passes
  <2>5. Run(w, SubSeq(p, 1, k)) = a[k]
    BY <1>1, <1>2, <1>7, <2>1, RunPrefix
  <2>6. call.op = "set_position" => a[k].pending_text = <<>>
    BY <1>3, <2>1, <2>5 DEF NoneWaits
  <2> HIDE DEF call
  <2>7. a[k + 1] = Call(a[k], call)
    BY <2>2, <2>3, <2>4 DEF CallStep
  <2> QED
    BY <1>6, <2>2, <2>3, <2>6, <2>7, CallTidy
<1>10. n \in N
  <2> HIDE DEF N
  <2> QED
    BY <1>2, <1>8, <1>9, NatSet
<1>11. Tidy(a[n], r)
  BY <1>2, <1>10
<1>12. Drawn(w, p) = Shown(a[n])
  BY <1>4, <1>7, <1>11, FlushShows DEF Tidy
<1> QED
  BY <1>11, <1>12 DEF Tidy, w

-----------------------------------------------------------------------------
(* In the compositor's behaviours *)

\* In every state of the compositor, batching a writer's ASCII text (write_str,
\* commit_pending_text) is invisible in what its task draws, unless it changes colour
\* or position while text waits.
THEOREM CompositorBatchingInvisible == Spec => []BatchingInvisible
BY WriterBatches, PTL DEF BatchingInvisible

\* In every state of the compositor, the ASCII text that a task writes stays in the
\* region that its writer registered (write_str's wrapping and clearing), unless the
\* task moves the cursor while text waits.
THEOREM CompositorTextInRegion == Spec => []TextInRegion
BY WriterStaysInside, PTL DEF TextInRegion
=============================================================================
