------------------------ MODULE VisualizationProofs ------------------------
(***************************************************************************)
(* For any number of demo tasks, buffers, ticks and commands: the          *)
(* miniature screen shows whole flushes, and a demo task continues only    *)
(* after the compositor has rendered what it flushed.                      *)
(***************************************************************************)
EXTENDS Visualization, SequenceTheorems, TLAPS

Before == {"new", "registered", "reading", "drawing", "flushing"}
After == {"flushed", "notifying", "waiting", "blocked"}
Working == {"start", "animate", "copying", "render", "clearing"}
Pcs == Working \cup {"snapshot", "next", "locked", "wake", "blitting"}

Command == Nat \X (1 .. FlushSize)

VisTypeOK ==
  /\ place \in [Demos -> Before \cup After]
  /\ flushes \in [Demos -> Nat]
  /\ lock \in [Demos -> {"none", "failed", "queued", "parked"}]
  /\ waiters \in [Demos -> Nat]
  /\ commands \in [Demos -> Seq(Command)]
  /\ dirty \in [Demos -> BOOLEAN]
  /\ WAKEUP_PENDING \subseteq Demos
  /\ buffers \in Seq(Demos)
  /\ pc \in Pcs
  /\ snapshot \in Seq(Demos)
  /\ index \in Nat \ {0}
  /\ copy \in Seq(Command)
  /\ BUFFER_COPY_ANIM_IN_PROGRESS \in BOOLEAN
  /\ BLIT_ANIM_IN_PROGRESS \in BOOLEAN
  /\ buffer_copy_animation \in (0 .. AnimTicks - 1) \cup {NoAnim}
  /\ blit_animation \in (0 .. AnimTicks - 1) \cup {NoAnim}
  /\ mini_shadow \in [Demos -> Command]
  /\ mini_fb \in [Demos -> Command]
  /\ cumulative_dirty \in BOOLEAN
  /\ contended \in BOOLEAN
  /\ pc \in Working \cup {"locked", "wake"} => index <= Len(snapshot)

\* A buffer's commands are whole flushes, so is what is left of the copy.
EndsWhole(q) == q # <<>> => q[Len(q)][2] = FlushSize

\* Off the renderer's hands every region is whole; the UI copies only then, since
\* the compositor waits while the blit runs; and only an animation or a render
\* stands between the shadow and the screen.
FrameInv ==
  /\ \A d \in Demos : EndsWhole(commands[d])
  /\ EndsWhole(copy)
  /\ \A d \in Demos : mini_shadow[d][2] = FlushSize
                        \/ (pc = "render" /\ copy # <<>> /\ d = Buffer)
  /\ \A d \in Demos : mini_fb[d][2] = FlushSize
  /\ blit_animation # NoAnim => pc = "blitting" /\ BLIT_ANIM_IN_PROGRESS
  /\ pc \in {"snapshot", "blitting"} => ~cumulative_dirty
  /\ blit_animation = NoAnim /\ ~cumulative_dirty => mini_fb = mini_shadow

Works(d) == pc \in Working /\ Buffer = d
Wakes(d) == pc = "wake" /\ Buffer = d
Shown(d) == mini_shadow[d] = <<flushes[d], FlushSize>>

\* The round trip of demo task d's flush, as long as nobody found its buffer
\* locked: drawn on an empty buffer, taken by the compositor, rendered to the
\* last command, cleared, and only then answered by one wakeup.
RoundTrip(d) ==
  ~contended =>
    /\ lock[d] = "none" /\ waiters[d] = 0
    /\ place[d] \in Before =>
         ~dirty[d] /\ d \notin WAKEUP_PENDING /\ ~Wakes(d)
    /\ dirty[d] => /\ commands[d] = Flush(flushes[d])
                   /\ d \notin WAKEUP_PENDING /\ ~Wakes(d)
    /\ ~dirty[d] => commands[d] = <<>> /\ Shown(d) /\ ~Works(d)
    /\ Wakes(d) => d \notin WAKEUP_PENDING
    /\ Works(d) /\ pc \in {"start", "animate", "copying"} => copy = Flush(flushes[d])
    /\ Works(d) /\ pc = "render" =>
         \/ copy \in {Flush(flushes[d]), Tail(Flush(flushes[d]))}
         \/ copy = <<>> /\ Shown(d)
    /\ Works(d) /\ pc = "clearing" => Shown(d)

RoundTrips == \A d \in Demos : RoundTrip(d)

-----------------------------------------------------------------------------
(* Lemmas *)

\* What the compositor pops from a flush: two commands, the second the last.
LEMMA FlushFacts ==
  ASSUME NEW n \in Nat
  PROVE  /\ Flush(n) \in Seq(Command) /\ Flush(n) # <<>>
         /\ Head(Flush(n)) = <<n, 1>>
         /\ Tail(Flush(n)) # <<>> /\ Head(Tail(Flush(n))) = <<n, FlushSize>>
         /\ Tail(Tail(Flush(n))) = <<>>
         /\ EndsWhole(Flush(n))
<1>1. Flush(n) \in Seq(Command) /\ Len(Flush(n)) = 2
  BY DEF Flush, FlushSize, Command
<1>2. Flush(n)[1] = <<n, 1>> /\ Flush(n)[2] = <<n, 2>>
  BY DEF Flush, FlushSize
<1>3. Tail(Flush(n)) \in Seq(Command) /\ Len(Tail(Flush(n))) = 1
      /\ Tail(Flush(n))[1] = <<n, 2>>
  BY <1>1, <1>2
<1>4. Tail(Tail(Flush(n))) = <<>>
  BY <1>3
<1>5. EndsWhole(Flush(n))
  BY <1>1, <1>2 DEF EndsWhole, FlushSize
<1>6. Flush(n) # <<>> /\ Head(Flush(n)) = <<n, 1>>
  BY <1>1, <1>2
<1>7. Tail(Flush(n)) # <<>> /\ Head(Tail(Flush(n))) = <<n, FlushSize>>
  <2>1. \A t \in Seq(Command) : Len(t) = 1 => t # <<>> /\ Head(t) = t[1]
    OBVIOUS
  <2> QED
    BY <1>3, <2>1, Zenon DEF FlushSize
<1> QED
  BY <1>1, <1>4, <1>5, <1>6, <1>7

\* extend_commands appends a whole flush.
LEMMA ExtendWhole ==
  ASSUME NEW q \in Seq(Command), NEW n \in Nat
  PROVE  q \o Flush(n) \in Seq(Command) /\ EndsWhole(q \o Flush(n))
<1>1. Flush(n) \in Seq(Command) /\ Len(Flush(n)) = 2 /\ Flush(n)[2] = <<n, 2>>
  BY DEF Flush, FlushSize, Command
<1> DEFINE r == q \o Flush(n)
<1>2. r \in Seq(Command) /\ Len(r) = Len(q) + 2 /\ Len(q) \in Nat
  <2>1. r \in Seq(Command) /\ Len(r) = Len(q) + Len(Flush(n))
    BY <1>1, ConcatProperties, Zenon
  <2> QED
    BY <1>1, <2>1, LenProperties
<1>3. \A i \in 1 .. Len(q) + 2 : r[i] = IF i <= Len(q) THEN q[i] ELSE Flush(n)[i - Len(q)]
  BY <1>1, ConcatProperties, SMTT(60)
<1> HIDE DEF r
<1>4. r[Len(q) + 2] = <<n, 2>>
  BY <1>1, <1>2, <1>3, SMTT(60)
<1> QED
  BY <1>2, <1>4 DEF EndsWhole, FlushSize, r

\* Rendering pops a command; the last one pops a whole region.
LEMMA TailWhole ==
  ASSUME NEW q \in Seq(Command), q # <<>>, EndsWhole(q)
  PROVE  /\ Head(q) \in Command /\ Tail(q) \in Seq(Command) /\ EndsWhole(Tail(q))
         /\ Tail(q) = <<>> => Head(q)[2] = FlushSize
<1>1. Len(q) \in Nat \ {0} /\ Head(q) = q[1] /\ Head(q) \in Command
  OBVIOUS
<1>2. Tail(q) \in Seq(Command) /\ Len(Tail(q)) = Len(q) - 1
  OBVIOUS
<1>3. ASSUME Tail(q) # <<>> PROVE Tail(q)[Len(Tail(q))] = q[Len(q)]
  <2>1. Len(Tail(q)) # 0
    BY <1>2, <1>3
  <2> QED
    BY <1>1, <1>2, <2>1
<1>4. ASSUME Tail(q) = <<>> PROVE Len(q) = 1
  BY <1>1, <1>2, <1>4
<1> QED
  BY <1>1, <1>2, <1>3, <1>4 DEF EndsWhole

\* While the compositor has a buffer, it is a demo task's.
LEMMA BufferIsDemos ==
  ASSUME VisTypeOK, pc \in Working \cup {"locked", "wake"} \/ index <= Len(snapshot)
  PROVE  Buffer \in Demos
BY DEF VisTypeOK, Buffer

-----------------------------------------------------------------------------
(* Type correctness *)

\* The initial state is well typed.
LEMMA InitTypes == Init => VisTypeOK
<1> SUFFICES ASSUME Init PROVE VisTypeOK
  OBVIOUS
<1>1. <<0, FlushSize>> \in Command
  BY DEF Command, FlushSize
<1>2. mini_shadow \in [Demos -> Command] /\ mini_fb \in [Demos -> Command]
  BY <1>1 DEF Init
<1>3. <<>> \in Seq(Command) /\ <<>> \in Seq(Demos)
  OBVIOUS
<1>4. commands \in [Demos -> Seq(Command)] /\ copy \in Seq(Command)
  BY <1>3 DEF Init
<1>5. buffers \in Seq(Demos) /\ snapshot \in Seq(Demos)
  BY <1>3 DEF Init
<1>6. /\ place \in [Demos -> Before \cup After] /\ flushes \in [Demos -> Nat]
      /\ lock \in [Demos -> {"none", "failed", "queued", "parked"}]
      /\ waiters \in [Demos -> Nat] /\ dirty \in [Demos -> BOOLEAN]
      /\ pc \in Pcs /\ pc \notin Working \cup {"locked", "wake"}
  BY DEF Init, Before, After, Working, Pcs
<1>7. WAKEUP_PENDING \subseteq Demos /\ index \in Nat \ {0}
  BY DEF Init
<1>8. BUFFER_COPY_ANIM_IN_PROGRESS \in BOOLEAN /\ BLIT_ANIM_IN_PROGRESS \in BOOLEAN
      /\ cumulative_dirty \in BOOLEAN /\ contended \in BOOLEAN
      /\ buffer_copy_animation = NoAnim /\ blit_animation = NoAnim
  BY DEF Init
<1> QED
  BY <1>2, <1>4, <1>5, <1>6, <1>7, <1>8 DEF VisTypeOK

\* A demo task's own step keeps the types.
LEMMA DemoTypes ==
  ASSUME VisTypeOK, NEW d \in Demos, DemoStep(d)
  PROVE  VisTypeOK'
<1> USE DEF VisTypeOK, Goes, DropGuard, demoVars, lockVars, bufferVars, pipelineVars,
            frameVars, animVars, miniVars, Before, After
<1>1. CASE Register(d)
  BY <1>1, AppendProperties, SMTT(60) DEF Register
<1>2. CASE NewLock(d)
  BY <1>2, SMTT(60) DEF NewLock
<1>3. CASE NewUnlock(d)
  BY <1>3, SMTT(60) DEF NewUnlock
<1>4. CASE FlushLock(d)
  BY <1>4, SMTT(60) DEF FlushLock
<1>5. CASE FlushExtend(d)
  <2> DEFINE n == (flushes[d] + 1) % Rounds
  <2>1. n \in Nat
    BY VisualizationAssumption, SMTT(60)
  <2> HIDE DEF n
  <2>2. commands[d] \o Flush(n) \in Seq(Command)
    BY <2>1, ExtendWhole
  <2>3. commands' \in [Demos -> Seq(Command)] /\ flushes' \in [Demos -> Nat]
    BY <1>5, <2>1, <2>2 DEF FlushExtend, n
  <2> QED
    BY <1>5, <2>3, SMTT(60) DEF FlushExtend
<1>6. CASE NotifyLock(d)
  BY <1>6 DEF NotifyLock
<1>7. CASE NotifyUnlock(d)
  BY <1>7 DEF NotifyUnlock
<1>8. CASE Block(d)
  BY <1>8 DEF Block
<1>9. CASE LockFails(d)
  BY <1>9 DEF LockFails
<1>10. CASE WaitPush(d)
  BY <1>10, SMTT(60) DEF WaitPush
<1>11. CASE WaitBlock(d)
  BY <1>11 DEF WaitBlock
<1> QED
  BY <1>1, <1>2, <1>3, <1>4, <1>5, <1>6, <1>7, <1>8, <1>9, <1>10, <1>11 DEF DemoStep

\* unblock_task moves the task, frees it from its wait, or leaves it a wakeup.
LEMMA UnblockTypes ==
  ASSUME VisTypeOK, NEW d \in Demos, Unblock(d)
  PROVE  /\ place' \in [Demos -> Before \cup After] /\ WAKEUP_PENDING' \subseteq Demos
         /\ lock' \in [Demos -> {"none", "failed", "queued", "parked"}]
BY DEF Unblock, VisTypeOK, Before, After

\* So does the drop of the compositor's guard, which wakes at most one task.
LEMMA ReleaseTypes ==
  ASSUME VisTypeOK, Buffer \in Demos, Release
  PROVE  /\ place' \in [Demos -> Before \cup After] /\ WAKEUP_PENDING' \subseteq Demos
         /\ lock' \in [Demos -> {"none", "failed", "queued", "parked"}]
         /\ waiters' \in [Demos -> Nat]
<1>1. CASE waiters[Buffer] > 0
  <2>1. waiters' \in [Demos -> Nat]
    <3>1. waiters' = [waiters EXCEPT ![Buffer] = @ - 1]
      BY <1>1 DEF Release
    <3>2. waiters[Buffer] - 1 \in Nat /\ waiters \in [Demos -> Nat]
      BY <1>1 DEF VisTypeOK
    <3> QED
      BY <3>1, <3>2
  <2>2. Unblock(Buffer)
    BY <1>1 DEF Release
  <2> QED
    BY <2>1, <2>2, UnblockTypes
<1>2. CASE ~(waiters[Buffer] > 0)
  BY <1>2 DEF Release, lockVars, VisTypeOK
<1> QED
  BY <1>1, <1>2

\* So does a step of the compositor: it wakes demo tasks, and its index stays
\* within the snapshot while it works on a buffer.
LEMMA CompositorTypes ==
  ASSUME VisTypeOK, EndsWhole(copy), CompositorStep
  PROVE  VisTypeOK'
<1> USE DEF VisTypeOK, demoVars, lockVars, bufferVars, pipelineVars,
            frameVars, animVars, miniVars, Before, After, Working, Pcs
<1>1. CASE Snapshot
  BY <1>1 DEF Snapshot
<1>2. CASE NextBuffer
  <2>1. /\ pc' \in {"next", "locked"} /\ index' \in {index, index + 1}
        /\ pc' = "locked" => index' = index
        /\ index <= Len(snapshot) /\ UNCHANGED snapshot
    BY <1>2, Zenon DEF NextBuffer
  <2>2. index' \in Nat \ {0}
    BY <2>1, SMTT(60)
  <2>3. pc' \in Pcs /\ (pc' \in Working \cup {"locked", "wake"} => index' <= Len(snapshot'))
    BY <2>1
  <2> QED
    BY <1>2, <2>2, <2>3 DEF NextBuffer
<1>3. CASE CopyCommands
  <2>1. Buffer \in Demos
    BY <1>3, BufferIsDemos DEF CopyCommands
  <2>2. Release
    BY <1>3 DEF CopyCommands
  <2>3. place' \in [Demos -> Before \cup After] /\ WAKEUP_PENDING' \subseteq Demos
        /\ lock' \in [Demos -> {"none", "failed", "queued", "parked"}]
        /\ waiters' \in [Demos -> Nat]
    BY <2>1, <2>2, ReleaseTypes
  <2>4. pc' \in {"next", "start"} /\ index' \in Nat \ {0} /\ copy' \in Seq(Command)
        /\ (pc' = "start" => index' = index)
    <3>1. /\ pc' \in {"next", "start"} /\ (pc' = "start" => index' = index)
          /\ index' \in {index, index + 1} /\ copy' \in {copy, commands[Buffer]}
      BY <1>3, Zenon DEF CopyCommands
    <3>2. commands[Buffer] \in Seq(Command)
      BY <2>1
    <3> QED
      BY <3>1, <3>2
  <2>5. pc' \in Pcs /\ (pc' \in Working \cup {"locked", "wake"} => index' <= Len(snapshot'))
    BY <1>3, <2>4 DEF CopyCommands
  <2> QED
    BY <1>3, <2>3, <2>4, <2>5 DEF CopyCommands
<1>4. CASE RaiseCopyFlag
  BY <1>4 DEF RaiseCopyFlag
<1>5. CASE StartCopyAnimation
  <2>1. buffer_copy_animation' \in (0 .. AnimTicks - 1) \cup {NoAnim}
    BY <1>5, VisualizationAssumption DEF StartCopyAnimation
  <2> QED
    BY <1>5, <2>1 DEF StartCopyAnimation
<1>6. CASE WaitCopy
  BY <1>6 DEF WaitCopy
<1>7. CASE Render
  <2>1. Buffer \in Demos
    BY <1>7, BufferIsDemos DEF Render
  <2>2. Head(copy) \in Command /\ Tail(copy) \in Seq(Command)
    BY <1>7, TailWhole DEF Render
  <2> QED
    BY <1>7, <2>1, <2>2 DEF Render
<1>8. CASE ClearLock
  BY <1>8 DEF ClearLock
<1>9. CASE ClearCommands
  <2>1. Buffer \in Demos
    BY <1>9, BufferIsDemos DEF ClearCommands
  <2>2. commands' \in [Demos -> Seq(Command)] /\ dirty' \in [Demos -> BOOLEAN]
    BY <1>9, <2>1, SMTT(60) DEF ClearCommands
  <2>3. Release
    BY <1>9 DEF ClearCommands
  <2>4. place' \in [Demos -> Before \cup After] /\ WAKEUP_PENDING' \subseteq Demos
        /\ lock' \in [Demos -> {"none", "failed", "queued", "parked"}]
        /\ waiters' \in [Demos -> Nat]
    BY <2>1, <2>3, ReleaseTypes
  <2>5. pc' \in Pcs /\ index' <= Len(snapshot')
    BY <1>9 DEF ClearCommands
  <2> QED
    BY <1>9, <2>2, <2>4, <2>5 DEF ClearCommands
<1>10. CASE WakeOwner
  <2>1. Buffer \in Demos
    BY <1>10, BufferIsDemos DEF WakeOwner
  <2>2. place' \in [Demos -> Before \cup After] /\ WAKEUP_PENDING' \subseteq Demos
        /\ lock' \in [Demos -> {"none", "failed", "queued", "parked"}]
    BY <1>10, <2>1, UnblockTypes DEF WakeOwner
  <2>3. pc' = "next" /\ index' \in Nat \ {0}
    BY <1>10 DEF WakeOwner
  <2> QED
    BY <1>10, <2>2, <2>3 DEF WakeOwner
<1>11. CASE StartBlit
  <2>1. blit_animation' \in (0 .. AnimTicks - 1) \cup {NoAnim}
    BY <1>11, VisualizationAssumption DEF StartBlit
  <2>2. BLIT_ANIM_IN_PROGRESS' \in BOOLEAN
    BY <1>11 DEF StartBlit
  <2> QED
    BY <1>11, <2>1, <2>2 DEF StartBlit
<1>12. CASE WaitBlit
  BY <1>12 DEF WaitBlit
<1> QED
  BY <1>1, <1>2, <1>3, <1>4, <1>5, <1>6, <1>7, <1>8, <1>9, <1>10, <1>11, <1>12
     DEF CompositorStep

\* So does a tick of the UI.
LEMMA UiTypes ==
  ASSUME VisTypeOK, UiTick
  PROVE  VisTypeOK'
<1> USE DEF VisTypeOK, UiTick, demoVars, lockVars, bufferVars, frameVars
<1>1. blit_animation' \in (0 .. AnimTicks - 1) \cup {NoAnim}
  BY VisualizationAssumption DEF Advance
<1>2. buffer_copy_animation' \in (0 .. AnimTicks - 1) \cup {NoAnim}
  BY VisualizationAssumption DEF Advance
<1> QED
  BY <1>1, <1>2

-----------------------------------------------------------------------------
(* Whole frames *)

\* The screen starts whole.
LEMMA InitFrames == Init => FrameInv
BY VisualizationAssumption DEF Init, FrameInv, EndsWhole, FlushSize

\* A demo task's step extends a buffer by a whole flush, and touches nothing of
\* the compositor's.
LEMMA DemoFrames ==
  ASSUME VisTypeOK, FrameInv, NEW d \in Demos, DemoStep(d)
  PROVE  FrameInv'
<1>1. UNCHANGED pipelineVars
  BY DEF DemoStep, Register, NewLock, NewUnlock, FlushLock, FlushExtend, NotifyLock,
         NotifyUnlock, Block, LockFails, WaitPush, WaitBlock
<1>2. \A e \in Demos : EndsWhole(commands'[e])
  <2>1. CASE FlushExtend(d)
    <3> DEFINE n == (flushes[d] + 1) % Rounds
    <3>1. n \in Nat
      BY VisualizationAssumption, SMTT(60) DEF VisTypeOK
    <3> HIDE DEF n
    <3>2. EndsWhole(commands[d] \o Flush(n))
      BY <3>1, ExtendWhole DEF VisTypeOK
    <3>3. commands' = [commands EXCEPT ![d] = commands[d] \o Flush(n)]
      BY <2>1 DEF FlushExtend, n
    <3> QED
      BY <3>2, <3>3 DEF FrameInv, VisTypeOK
  <2>2. CASE ~FlushExtend(d)
    <3>1. UNCHANGED commands
      BY <2>2 DEF DemoStep, Register, NewLock, NewUnlock, FlushLock, NotifyLock,
         NotifyUnlock, Block, LockFails, WaitPush, WaitBlock, bufferVars
    <3> QED
      BY <3>1 DEF FrameInv
  <2> QED
    BY <2>1, <2>2
<1> QED
  BY <1>1, <1>2 DEF FrameInv, EndsWhole, Buffer, pipelineVars, frameVars, animVars, miniVars

\* A frame renders a copy to its end before it leaves the buffer, and blits
\* after the last buffer: at each of the compositor's steps.
LEMMA CompositorFrames ==
  ASSUME VisTypeOK, FrameInv, CompositorStep
  PROVE  FrameInv'
<1> USE DEF FrameInv
<1>1. CASE Snapshot
  BY <1>1 DEF Snapshot, bufferVars, animVars, miniVars, Buffer
<1>2. CASE NextBuffer
  <2>1. pc = "next" /\ pc' \in {"next", "locked"}
    BY <1>2, Zenon DEF NextBuffer
  <2>2. UNCHANGED <<commands, copy, animVars, miniVars>>
    BY <1>2 DEF NextBuffer, bufferVars
  <2> QED
    BY <2>1, <2>2 DEF animVars, miniVars
<1>3. CASE CopyCommands
  <2>1. pc = "locked" /\ pc' \in {"next", "start"} /\ copy' \in {copy, commands[Buffer]}
    BY <1>3, Zenon DEF CopyCommands
  <2>2. UNCHANGED <<commands, animVars, miniVars>>
    BY <1>3 DEF CopyCommands, bufferVars
  <2>3. Buffer \in Demos
    BY <1>3, BufferIsDemos DEF CopyCommands
  <2>4. EndsWhole(copy')
    BY <2>1, <2>3
  <2> QED
    BY <2>1, <2>2, <2>4 DEF animVars, miniVars
<1>4. CASE RaiseCopyFlag
  BY <1>4 DEF RaiseCopyFlag, bufferVars, miniVars, Buffer
<1>5. CASE StartCopyAnimation
  BY <1>5 DEF StartCopyAnimation, bufferVars, miniVars, Buffer
<1>6. CASE WaitCopy
  BY <1>6 DEF WaitCopy, bufferVars, animVars, miniVars, Buffer
<1>7. CASE Render
  <2>1. Buffer \in Demos /\ Buffer' = Buffer
    BY <1>7, BufferIsDemos DEF Render, Buffer, Working
  <2>2. /\ EndsWhole(Tail(copy)) /\ copy' = Tail(copy)
        /\ Tail(copy) = <<>> => Head(copy)[2] = FlushSize
    BY <1>7, TailWhole DEF Render, VisTypeOK
  <2>3. \A d \in Demos :
          mini_shadow'[d] = IF d = Buffer THEN Head(copy) ELSE mini_shadow[d]
    BY <1>7, <2>1 DEF Render, VisTypeOK
  <2>4. pc = "render" /\ pc' = "render" /\ cumulative_dirty'
        /\ UNCHANGED <<commands, animVars, mini_fb>>
    BY <1>7 DEF Render, bufferVars
  <2>5. \A d \in Demos : mini_shadow'[d][2] = FlushSize
                            \/ (pc' = "render" /\ copy' # <<>> /\ d = Buffer')
    BY <2>1, <2>2, <2>3, <2>4
  <2> QED
    BY <2>2, <2>4, <2>5 DEF animVars
<1>8. CASE ClearLock
  <2>1. pc = "render" /\ copy = <<>> /\ pc' \in {"wake", "clearing"}
    BY <1>8, Zenon DEF ClearLock
  <2>2. UNCHANGED <<commands, copy, animVars, miniVars>>
    BY <1>8 DEF ClearLock, bufferVars
  <2> QED
    BY <2>1, <2>2 DEF animVars, miniVars
<1>9. CASE ClearCommands
  <2>1. Buffer \in Demos
    BY <1>9, BufferIsDemos DEF ClearCommands, Working
  <2>2. \A d \in Demos : commands'[d] \in {commands[d], <<>>}
    BY <1>9, <2>1 DEF ClearCommands, VisTypeOK
  <2>3. pc = "clearing" /\ pc' = "wake" /\ UNCHANGED <<copy, animVars, miniVars>>
    BY <1>9 DEF ClearCommands
  <2>4. \A d \in Demos : EndsWhole(commands'[d])
    BY <2>2 DEF EndsWhole
  <2> QED
    BY <2>3, <2>4 DEF animVars, miniVars
<1>10. CASE WakeOwner
  <2>1. pc = "wake" /\ pc' = "next" /\ UNCHANGED <<commands, copy, animVars, miniVars>>
    BY <1>10 DEF WakeOwner, bufferVars
  <2> QED
    BY <2>1 DEF animVars, miniVars
<1>11. CASE StartBlit
  <2>1. pc = "next" /\ pc' = "blitting"
        /\ UNCHANGED <<commands, copy, mini_shadow, mini_fb>>
    BY <1>11 DEF StartBlit, bufferVars
  <2>2. blit_animation = NoAnim /\ 0 # NoAnim
    BY <2>1, VisualizationAssumption
  <2>3. blit_animation' = (IF cumulative_dirty THEN 0 ELSE blit_animation)
        /\ cumulative_dirty' = FALSE
        /\ (blit_animation' # NoAnim => BLIT_ANIM_IN_PROGRESS')
    BY <1>11 DEF StartBlit
  <2>4. blit_animation' = NoAnim => ~cumulative_dirty
    BY <2>2, <2>3
  <2> QED
    BY <2>1, <2>2, <2>3, <2>4
<1>12. CASE WaitBlit
  BY <1>12 DEF WaitBlit, bufferVars, animVars, miniVars, Buffer
<1> QED
  BY <1>1, <1>2, <1>3, <1>4, <1>5, <1>6, <1>7, <1>8, <1>9, <1>10, <1>11, <1>12
     DEF CompositorStep

\* The UI copies the shadow while the compositor waits in "blitting", so whole.
LEMMA UiFrames ==
  ASSUME VisTypeOK, FrameInv, UiTick
  PROVE  FrameInv'
<1>1. UNCHANGED <<commands, frameVars, mini_shadow, cumulative_dirty>>
  BY DEF UiTick, bufferVars
<1>2. CASE blit_animation = NoAnim
  <2>1. blit_animation' = NoAnim /\ mini_fb' = mini_fb
    BY <1>2 DEF UiTick, Advance, Ends
  <2> QED
    BY <1>1, <1>2, <2>1 DEF FrameInv, frameVars, Buffer
<1>3. CASE blit_animation # NoAnim /\ ~Ends(blit_animation)
  <2>1. mini_fb' = mini_fb /\ BLIT_ANIM_IN_PROGRESS' = BLIT_ANIM_IN_PROGRESS
        /\ blit_animation' # NoAnim
    BY <1>3 DEF UiTick, Ends, VisTypeOK
  <2> QED
    BY <1>1, <1>3, <2>1 DEF FrameInv, frameVars, Buffer
<1>4. CASE Ends(blit_animation)
  <2>1. blit_animation # NoAnim /\ blit_animation' = NoAnim /\ mini_fb' = mini_shadow
    BY <1>4 DEF UiTick, Ends
  <2>2. pc = "blitting"
    BY <2>1 DEF FrameInv
  <2> QED
    BY <1>1, <2>1, <2>2 DEF FrameInv, frameVars, Buffer
<1> QED
  BY <1>2, <1>3, <1>4

\* The invariants' steps together; a stuttering step changes nothing.
LEMMA FrameStep == VisTypeOK /\ FrameInv /\ [Next]_vars => (VisTypeOK /\ FrameInv)'
<1> SUFFICES ASSUME VisTypeOK, FrameInv, [Next]_vars PROVE VisTypeOK' /\ FrameInv'
  OBVIOUS
<1>1. EndsWhole(copy)
  BY DEF FrameInv
<1>2. CASE \E d \in Demos : DemoStep(d)
  BY <1>2, DemoTypes, DemoFrames
<1>3. CASE CompositorStep
  BY <1>1, <1>3, CompositorTypes, CompositorFrames
<1>4. CASE UiTick
  BY <1>4, UiTypes, UiFrames
<1>5. CASE UNCHANGED vars
  BY <1>5 DEF vars, demoVars, lockVars, bufferVars, pipelineVars, frameVars, animVars,
     miniVars, VisTypeOK, FrameInv, EndsWhole, Buffer
<1> QED
  BY <1>2, <1>3, <1>4, <1>5 DEF Next

(***************************************************************************)
(* The miniature screen never shows a region that is cleared and not yet   *)
(* written, and at the end of a frame it shows all that was rendered, with *)
(* any number of demo tasks and any pace of the UI (start_blit_animation,  *)
(* tick_animation, wait_for_blit_animation).                               *)
(***************************************************************************)
THEOREM VisualizationWholeFrames == Spec => []WholeFrames
<1>1. Init => VisTypeOK /\ FrameInv
  BY InitTypes, InitFrames
<1>2. VisTypeOK /\ FrameInv => WholeFrames
  BY DEF FrameInv, WholeFrames
<1> QED
  BY <1>1, <1>2, FrameStep, PTL DEF Spec

-----------------------------------------------------------------------------
(* The round trip of a flush *)

\* At boot nobody has flushed, and flush 0 counts as shown.
LEMMA InitTrips == Init => RoundTrips
BY DEF Init, RoundTrips, RoundTrip, Works, Wakes, Shown, Working, Before

\* The demo task's part of the state.
Same(d) ==
  /\ lock'[d] = lock[d] /\ waiters'[d] = waiters[d] /\ flushes'[d] = flushes[d]
  /\ commands'[d] = commands[d] /\ dirty'[d] = dirty[d]
  /\ d \in WAKEUP_PENDING' <=> d \in WAKEUP_PENDING

\* A step elsewhere, or one within the task's own half of the loop.
LEMMA TripKept ==
  ASSUME NEW d \in Demos, RoundTrip(d), Same(d),
         place'[d] \in Before => place[d] \in Before,
         UNCHANGED <<frameVars, mini_shadow, contended>>
  PROVE  RoundTrip(d)'
BY DEF RoundTrip, Same, Works, Wakes, Shown, Buffer, frameVars

\* A step of the compositor to a place where it works on no buffer.
LEMMA TripIdle ==
  ASSUME NEW d \in Demos, RoundTrip(d), Same(d), place'[d] = place[d],
         pc' \in {"snapshot", "next", "locked", "blitting"},
         UNCHANGED <<mini_shadow, contended>>, pc \notin Working \cup {"wake"}
  PROVE  RoundTrip(d)'
<1>1. ~Works(d)' /\ ~Wakes(d)'
  BY DEF Works, Wakes, Working
<1> QED
  BY <1>1 DEF RoundTrip, Same, Shown

\* A demo task's step: its own flush starts the trip, its Block may end it.
LEMMA DemoTrips ==
  ASSUME VisTypeOK, RoundTrips, NEW e \in Demos, DemoStep(e)
  PROVE  RoundTrips'
<1> SUFFICES ASSUME NEW d \in Demos, ~contended' PROVE RoundTrip(d)'
  BY DEF RoundTrips, RoundTrip
<1>1. ~contended
  BY DEF DemoStep, Register, NewLock, NewUnlock, FlushLock, FlushExtend, NotifyLock,
         NotifyUnlock, Block, LockFails, WaitPush, WaitBlock
<1>2. RoundTrip(d) /\ lock[e] = "none" /\ waiters[e] = 0
  BY <1>1 DEF RoundTrips, RoundTrip
<1>3. UNCHANGED <<frameVars, mini_shadow, contended>>
  <2>1. ~LockFails(e)
    BY DEF LockFails
  <2>2. UNCHANGED <<pipelineVars, contended>>
    BY <2>1 DEF DemoStep, Register, NewLock, NewUnlock, FlushLock, FlushExtend, NotifyLock,
         NotifyUnlock, Block, WaitPush, WaitBlock
  <2> QED
    BY <2>2 DEF pipelineVars, miniVars
<1> USE DEF Goes, demoVars, lockVars, bufferVars, VisTypeOK
<1>4. ASSUME DropGuard(e) PROVE UNCHANGED <<lock, WAKEUP_PENDING>> /\ waiters'[d] = waiters[d]
  BY <1>2, <1>4 DEF DropGuard
<1>5. CASE FlushExtend(e)
  <2> DEFINE n == (flushes[e] + 1) % Rounds
  <2>1. n \in Nat
    BY VisualizationAssumption, SMTT(60)
  <2> HIDE DEF n
  <2>2. /\ flushes' = [flushes EXCEPT ![e] = n]
        /\ commands' = [commands EXCEPT ![e] = commands[e] \o Flush(n)]
        /\ dirty' = [dirty EXCEPT ![e] = TRUE]
        /\ place[e] = "flushing" /\ place' = [place EXCEPT ![e] = "flushed"]
        /\ UNCHANGED <<lock, WAKEUP_PENDING>> /\ waiters'[d] = waiters[d]
    BY <1>4, <1>5 DEF FlushExtend, n
  <2>3. CASE d # e
    BY <1>2, <1>3, <2>2, <2>3, TripKept DEF Same
  <2>4. CASE d = e
    <3>1. place[d] \in Before /\ place'[d] \notin Before
      BY <2>2, <2>4 DEF Before
    <3>2. ~dirty[d] /\ commands[d] = <<>> /\ d \notin WAKEUP_PENDING /\ ~Wakes(d) /\ ~Works(d)
          /\ lock[d] = "none" /\ waiters[d] = 0
      BY <1>1, <1>2, <3>1 DEF RoundTrip
    <3>3. ~Wakes(d)' /\ ~Works(d)'
      BY <1>3, <3>2 DEF Wakes, Works, Buffer, frameVars
    <3>4. <<>> \o Flush(n) = Flush(n)
      BY <2>1, FlushFacts, ConcatEmptySeq
    <3>5. commands'[d] = Flush(flushes'[d]) /\ dirty'[d]
      BY <2>2, <2>4, <3>2, <3>4
    <3> QED
      BY <2>2, <3>1, <3>2, <3>3, <3>5 DEF RoundTrip
  <2> QED
    BY <2>3, <2>4
<1>6. CASE Block(e)
  <2>1. /\ place[e] = "waiting"
        /\ place' = [place EXCEPT ![e] = IF e \in WAKEUP_PENDING THEN "drawing" ELSE "blocked"]
        /\ WAKEUP_PENDING' = WAKEUP_PENDING \ {e}
        /\ UNCHANGED <<lock, waiters, flushes, commands, dirty>>
    BY <1>6 DEF Block
  <2>2. CASE d # e \/ e \notin WAKEUP_PENDING
    <3>1. Same(d)
      BY <2>1, <2>2 DEF Same
    <3>2. place'[d] \in Before => place[d] \in Before
      BY <2>1, <2>2 DEF Before
    <3> QED
      BY <1>2, <1>3, <3>1, <3>2, TripKept
  <2>3. CASE d = e /\ e \in WAKEUP_PENDING
    <3>1. ~dirty[d] /\ ~Wakes(d) /\ ~Works(d) /\ commands[d] = <<>> /\ Shown(d)
      BY <1>1, <1>2, <2>3 DEF RoundTrip
    <3>2. ~Wakes(d)' /\ ~Works(d)' /\ Shown(d)'
      BY <1>3, <2>1, <3>1 DEF Wakes, Works, Shown, Buffer, frameVars
    <3>3. d \notin WAKEUP_PENDING' /\ ~dirty'[d] /\ commands'[d] = <<>>
          /\ lock'[d] = "none" /\ waiters'[d] = 0
      BY <1>2, <2>1, <2>3, <3>1
    <3> QED
      BY <3>2, <3>3 DEF RoundTrip
  <2> QED
    BY <2>2, <2>3
<1>7. CASE Register(e) \/ NewLock(e) \/ NewUnlock(e) \/ FlushLock(e) \/ NotifyLock(e)
            \/ NotifyUnlock(e)
  <2>1. UNCHANGED <<flushes, commands, dirty, lock, WAKEUP_PENDING>> /\ waiters'[d] = waiters[d]
    BY <1>4, <1>7 DEF Register, NewLock, NewUnlock, FlushLock, NotifyLock, NotifyUnlock
  <2>2. place'[d] \in Before => place[d] \in Before
    BY <1>7, ZenonT(60) DEF Register, NewLock, NewUnlock, FlushLock, NotifyLock, NotifyUnlock, Before
  <2> QED
    BY <1>2, <1>3, <2>1, <2>2, TripKept DEF Same
<1>8. CASE LockFails(e) \/ WaitPush(e) \/ WaitBlock(e)
  BY <1>2, <1>8 DEF LockFails, WaitPush, WaitBlock
<1> QED
  BY <1>5, <1>6, <1>7, <1>8 DEF DemoStep

\* A step of the compositor: it takes what was flushed, renders all of it, clears
\* the buffer, and only then wakes the owner.
LEMMA CompositorTrips ==
  ASSUME VisTypeOK, FrameInv, RoundTrips, CompositorStep
  PROVE  RoundTrips'
<1> SUFFICES ASSUME NEW d \in Demos, ~contended' PROVE RoundTrip(d)'
  BY DEF RoundTrips, RoundTrip
<1>1. ~contended
  BY DEF CompositorStep, Snapshot, NextBuffer, CopyCommands, RaiseCopyFlag,
         StartCopyAnimation, WaitCopy, Render, ClearLock, ClearCommands, WakeOwner,
         StartBlit, WaitBlit
<1>2. RoundTrip(d)
  BY DEF RoundTrips
<1>3. ASSUME Buffer \in Demos, Release
      PROVE  UNCHANGED <<place, lock, waiters, WAKEUP_PENDING>>
  <2>1. waiters[Buffer] = 0
    BY <1>1, <1>3 DEF RoundTrips, RoundTrip
  <2> QED
    BY <1>3, <2>1 DEF Release, lockVars
<1>4. Flush(flushes[d]) # <<>> /\ Tail(Flush(flushes[d])) # <<>>
      /\ Head(Tail(Flush(flushes[d]))) = <<flushes[d], FlushSize>>
      /\ Tail(Tail(Flush(flushes[d]))) = <<>>
  BY FlushFacts DEF VisTypeOK
<1> USE DEF demoVars, lockVars, bufferVars, miniVars
<1>5. CASE Snapshot \/ NextBuffer \/ StartBlit \/ WaitBlit
  <2>1. UNCHANGED <<place, flushes, lock, waiters, commands, dirty, WAKEUP_PENDING,
                    mini_shadow, contended>>
    BY <1>5 DEF Snapshot, NextBuffer, StartBlit, WaitBlit
  <2>2. pc' \in {"snapshot", "next", "locked", "blitting"} /\ pc \notin Working \cup {"wake"}
    BY <1>5, Zenon DEF Snapshot, NextBuffer, StartBlit, WaitBlit, Working
  <2> QED
    BY <1>2, <2>1, <2>2, TripIdle DEF Same
<1>6. CASE CopyCommands
  <2>1. Buffer \in Demos /\ pc = "locked"
    BY <1>6, BufferIsDemos DEF CopyCommands
  <2>2. UNCHANGED <<place, flushes, lock, waiters, commands, dirty, WAKEUP_PENDING,
                    mini_shadow, contended, snapshot>>
    BY <1>3, <1>6, <2>1 DEF CopyCommands
  <2>3. CASE dirty[Buffer]
    <3>1. copy' = commands[Buffer] /\ pc' = "start" /\ Buffer' = Buffer
      BY <1>6, <2>2, <2>3 DEF CopyCommands, Buffer
    <3>2. CASE d = Buffer
      BY <1>1, <1>2, <2>1, <2>2, <2>3, <3>1, <3>2 DEF RoundTrip, Works, Wakes
    <3>3. CASE d # Buffer
      BY <1>1, <1>2, <2>1, <2>2, <3>1, <3>3 DEF RoundTrip, Works, Wakes, Shown
    <3> QED
      BY <3>2, <3>3
  <2>4. CASE ~dirty[Buffer]
    <3>1. pc' = "next"
      BY <1>6, <2>4 DEF CopyCommands
    <3> QED
      BY <1>2, <2>1, <2>2, <3>1, TripIdle DEF Same, Working
  <2> QED
    BY <2>3, <2>4
<1>7. CASE RaiseCopyFlag \/ StartCopyAnimation \/ WaitCopy
  <2>1. UNCHANGED <<place, flushes, lock, waiters, commands, dirty, WAKEUP_PENDING,
                    mini_shadow, contended, copy>> /\ Buffer' = Buffer
    BY <1>7 DEF RaiseCopyFlag, StartCopyAnimation, WaitCopy, Buffer
  <2>2. pc \in {"start", "animate", "copying"} /\ pc' \in {"animate", "copying", "render"}
    BY <1>7 DEF RaiseCopyFlag, StartCopyAnimation, WaitCopy
  <2>3. ~Wakes(d)' /\ (Works(d)' <=> Works(d)) /\ (Shown(d)' <=> Shown(d))
    BY <2>1, <2>2 DEF Works, Wakes, Shown, Working
  <2>4. Works(d)' => copy' = Flush(flushes'[d])
    BY <1>1, <1>2, <2>1, <2>2, <2>3 DEF RoundTrip
  <2> QED
    BY <1>1, <1>2, <2>1, <2>2, <2>3, <2>4 DEF RoundTrip
<1>8. CASE Render
  <2>1. UNCHANGED <<place, flushes, lock, waiters, commands, dirty, WAKEUP_PENDING,
                    contended, pc>> /\ Buffer' = Buffer /\ pc = "render" /\ copy # <<>>
        /\ copy' = Tail(copy)
    BY <1>8 DEF Render, Buffer
  <2>2. Buffer \in Demos
    BY <2>1, BufferIsDemos DEF Working
  <2>3. mini_shadow'[d] = IF d = Buffer THEN Head(copy) ELSE mini_shadow[d]
    BY <1>8, <2>2 DEF Render, VisTypeOK
  <2>4. ~Wakes(d)' /\ (Works(d)' <=> d = Buffer) /\ (Works(d) <=> d = Buffer)
    BY <2>1 DEF Works, Wakes, Working
  <2>5. CASE d # Buffer
    BY <1>1, <1>2, <2>1, <2>3, <2>4, <2>5 DEF RoundTrip, Shown
  <2>6. CASE d = Buffer
    <3>1. dirty[d] /\ copy \in {Flush(flushes[d]), Tail(Flush(flushes[d]))}
      BY <1>1, <1>2, <2>1, <2>4, <2>6 DEF RoundTrip
    <3>2. copy' = Tail(Flush(flushes[d])) \/ (copy' = <<>> /\ Shown(d)')
      BY <1>4, <2>1, <2>3, <2>6, <3>1 DEF Shown
    <3> QED
      BY <1>1, <1>2, <2>1, <2>4, <3>1, <3>2 DEF RoundTrip
  <2> QED
    BY <2>5, <2>6
<1>9. CASE ClearLock
  <2>1. UNCHANGED <<place, flushes, lock, waiters, commands, dirty, WAKEUP_PENDING,
                    mini_shadow, contended, copy>> /\ Buffer' = Buffer
        /\ pc = "render" /\ copy = <<>> /\ pc' = "clearing"
    <3>1. ~DemoHolds(Buffer)
      BY <1>9 DEF ClearLock
    <3>2. contended = FALSE /\ contended' = FALSE
      BY <1>1, <1>9, <3>1 DEF ClearLock, VisTypeOK
    <3>3. pc' = "clearing"
      BY <1>9, <3>1 DEF ClearLock
    <3>4. UNCHANGED <<place, flushes, lock, waiters, commands, dirty, WAKEUP_PENDING,
                      mini_shadow, copy>> /\ Buffer' = Buffer /\ pc = "render" /\ copy = <<>>
      BY <1>9 DEF ClearLock, Buffer
    <3> QED
      BY <3>2, <3>3, <3>4
  <2>2. ~Wakes(d)' /\ (Works(d)' <=> Works(d)) /\ (Shown(d)' <=> Shown(d))
    BY <2>1 DEF Works, Wakes, Shown, Working
  <2>3. Works(d) => Shown(d)
    BY <1>1, <1>2, <1>4, <2>1 DEF RoundTrip
  <2> QED
    BY <1>1, <1>2, <2>1, <2>2, <2>3 DEF RoundTrip
<1>10. CASE ClearCommands
  <2>1. Buffer \in Demos /\ pc = "clearing" /\ pc' = "wake"
    BY <1>10, BufferIsDemos DEF ClearCommands, Working
  <2>2. UNCHANGED <<place, flushes, lock, waiters, WAKEUP_PENDING, mini_shadow, contended>>
        /\ Buffer' = Buffer
    BY <1>3, <1>10, <2>1 DEF ClearCommands, Buffer
  <2>3. /\ commands'[d] = IF d = Buffer THEN <<>> ELSE commands[d]
        /\ dirty'[d] = IF d = Buffer THEN FALSE ELSE dirty[d]
    BY <1>10, <2>1 DEF ClearCommands, VisTypeOK
  <2>4. ~Works(d)' /\ (Wakes(d)' <=> d = Buffer) /\ (Works(d) <=> d = Buffer)
        /\ ~Wakes(d) /\ (Shown(d)' <=> Shown(d))
    BY <2>1, <2>2 DEF Works, Wakes, Working, Shown
  <2>5. CASE d # Buffer
    BY <1>1, <1>2, <2>2, <2>3, <2>4, <2>5 DEF RoundTrip
  <2>6. CASE d = Buffer
    <3>1. dirty[d] /\ Shown(d) /\ place[d] \notin Before /\ d \notin WAKEUP_PENDING
      BY <1>1, <1>2, <2>1, <2>4, <2>6 DEF RoundTrip
    <3> QED
      BY <1>1, <1>2, <2>2, <2>3, <2>4, <2>6, <3>1 DEF RoundTrip
  <2> QED
    BY <2>5, <2>6
<1>11. CASE WakeOwner
  <2>1. Buffer \in Demos /\ pc = "wake" /\ pc' = "next"
    BY <1>11, BufferIsDemos DEF WakeOwner
  <2>2. UNCHANGED <<flushes, waiters, commands, dirty, mini_shadow, contended>>
    BY <1>11 DEF WakeOwner
  <2>3. lock[Buffer] = "none"
    BY <1>1, <2>1 DEF RoundTrips, RoundTrip
  <2>4. /\ UNCHANGED lock
        /\ \/ UNCHANGED <<place, WAKEUP_PENDING>>
           \/ place' = [place EXCEPT ![Buffer] = "drawing"] /\ UNCHANGED WAKEUP_PENDING
           \/ WAKEUP_PENDING' = WAKEUP_PENDING \cup {Buffer} /\ UNCHANGED place
    BY <1>11, <2>3 DEF WakeOwner, Unblock
  <2>5. ~Works(d)' /\ ~Wakes(d)' /\ ~Works(d) /\ (Wakes(d) <=> d = Buffer)
        /\ (Shown(d)' <=> Shown(d))
    BY <2>1, <2>2 DEF Works, Wakes, Working, Shown
  <2>6. CASE d # Buffer
    <3>1. place'[d] = place[d] /\ (d \in WAKEUP_PENDING' <=> d \in WAKEUP_PENDING)
      BY <2>1, <2>4, <2>6 DEF VisTypeOK
    <3> QED
      BY <1>1, <1>2, <2>2, <2>4, <2>5, <3>1 DEF RoundTrip
  <2>7. CASE d = Buffer
    <3>1. ~dirty[d] /\ place[d] \notin Before /\ d \notin WAKEUP_PENDING
      BY <1>1, <1>2, <2>5, <2>7 DEF RoundTrip
    <3>2. place'[d] \in Before => d \notin WAKEUP_PENDING'
      BY <2>4, <2>7, <3>1
    <3> QED
      BY <1>1, <1>2, <2>2, <2>4, <2>5, <3>1, <3>2 DEF RoundTrip
  <2> QED
    BY <2>6, <2>7
<1> QED
  BY <1>5, <1>6, <1>7, <1>8, <1>9, <1>10, <1>11 DEF CompositorStep

\* The round trips survive every step; the UI's ticks take no part in them.
LEMMA TripStep ==
  VisTypeOK /\ FrameInv /\ RoundTrips /\ [Next]_vars => RoundTrips'
<1> SUFFICES ASSUME VisTypeOK, FrameInv, RoundTrips, [Next]_vars PROVE RoundTrips'
  OBVIOUS
<1>1. CASE \E d \in Demos : DemoStep(d)
  BY <1>1, DemoTrips
<1>2. CASE CompositorStep
  BY <1>2, CompositorTrips
<1>3. CASE UiTick \/ UNCHANGED vars
  <2>1. UNCHANGED <<place, flushes, lock, waiters, commands, dirty, WAKEUP_PENDING,
                    frameVars, mini_shadow, contended>>
    BY <1>3 DEF UiTick, vars, demoVars, lockVars, bufferVars, pipelineVars, miniVars
  <2>2. ASSUME NEW d \in Demos PROVE RoundTrip(d)'
    <3>1. RoundTrip(d) /\ Same(d)
      BY <2>1 DEF RoundTrips, Same
    <3> QED
      BY <2>1, <3>1, TripKept
  <2> QED
    BY <2>2 DEF RoundTrips
<1> QED
  BY <1>1, <1>2, <1>3 DEF Next

(***************************************************************************)
(* As long as nobody found its buffer locked, a demo task that has come    *)
(* back from block_current_task finds its whole flush rendered, whichever  *)
(* of the compositor's wakeup and its own block came first.                *)
(***************************************************************************)
THEOREM VisualizationWaitedForRendering == Spec => []WaitedForRendering
<1>1. Init => VisTypeOK /\ FrameInv /\ RoundTrips
  BY InitTypes, InitFrames, InitTrips
<1>2. RoundTrips => WaitedForRendering
  BY DEF RoundTrips, RoundTrip, WaitedForRendering, Shown, Before
<1> QED
  BY <1>1, <1>2, FrameStep, TripStep, PTL DEF Spec

=============================================================================
