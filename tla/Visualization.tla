--------------------------- MODULE Visualization ---------------------------
(***************************************************************************)
(* The visualize-pipeline mode (kernel/src/pipeline_visualization.rs): the *)
(* compositor renders the demo tasks' commands into mini_shadow at a       *)
(* visible pace, the UI task runs the animations and copies mini_shadow to *)
(* mini_fb, and each demo task blocks after a flush until the compositor   *)
(* wakes it.                                                               *)
(*                                                                         *)
(* A section under MINI_VIS_STATE's spin lock is one action: who finds the *)
(* lock taken spins until a tick runs its holder (Register, which spins    *)
(* with interrupts off, would spin for ever: README).  A section under a   *)
(* buffer's BlockingMutex begins with one action and ends with another, so *)
(* that lock and try_lock may find it taken; the release and its wake_one  *)
(* are one action (module Kernel takes them apart).  A demo task has one   *)
(* WAKEUP_PENDING bit for both of its waits, the mutex and the flush.      *)
(* What the UI only displays (names, counts, phase) is left out.           *)
(*                                                                         *)
(* A command is its flush's number, counted modulo Rounds, and its place   *)
(* in the flush.                                                           *)
(***************************************************************************)
EXTENDS Integers, Sequences, FiniteSets

CONSTANTS Demos,       \* demo_task1, demo_task2, ...
          MAX_TRACKED, \* length of BUFFER_TRACKING and buffer_queues, 4
          AnimTicks,   \* UI ticks that an animation takes
          Rounds,
          MaxCommands, \* bound on the commands in each WriterBuffer
          MaxWaiters,  \* bound on the ids in each buffer's WaitQueue
          NoAnim

FlushSize == 2         \* commands of a flush: Clear and DrawString
Flush(n) == [k \in 1 .. FlushSize |-> <<n, k>>]

ASSUME VisualizationAssumption ==
  /\ MAX_TRACKED \in Nat /\ AnimTicks \in Nat \ {0} /\ Rounds \in Nat \ {0}
  /\ MaxCommands \in [Demos -> Nat]
  /\ MaxWaiters \in [Demos -> Nat]
  /\ NoAnim \notin 0 .. AnimTicks
  \* The buffer of a task without a slot would stop the compositor (StartCopyAnimation).
  /\ Cardinality(Demos) <= MAX_TRACKED

VARIABLES
  place,          \* where each demo task is in its loop
  lock,           \* where it is in BlockingMutex::lock, after a failed attempt
  waiters,        \* how often its id is in its buffer's WaitQueue
  flushes,        \* number of its latest flush
  commands,       \* WriterBuffer::commands, by demo task
  dirty,          \* WriterBuffer::dirty
  WAKEUP_PENDING, \* module Sched's, for the demo tasks
  buffers,        \* Compositor::buffers, in the order of registration
  pc,             \* where the compositor is
  snapshot,       \* buffers_snapshot
  index,          \* buffer_idx, from 1
  copy,           \* commands_copy, what is left to render
  BUFFER_COPY_ANIM_IN_PROGRESS, BLIT_ANIM_IN_PROGRESS,
  buffer_copy_animation,  \* its progress in UI ticks, or NoAnim
  blit_animation,
  mini_shadow,    \* last command rendered in each demo task's region
  mini_fb,        \* what of it is on the miniature screen
  cumulative_dirty,       \* cumulative_dirty.is_some()
  contended       \* history: a lock or a clear_commands found the buffer locked

demoVars == <<place, flushes>>
lockVars == <<lock, waiters>>
bufferVars == <<commands, dirty, buffers>>
frameVars == <<pc, snapshot, index, copy>>
animVars == <<BUFFER_COPY_ANIM_IN_PROGRESS, BLIT_ANIM_IN_PROGRESS,
              buffer_copy_animation, blit_animation>>
miniVars == <<mini_shadow, mini_fb, cumulative_dirty>>
pipelineVars == <<frameVars, animVars, miniVars>>
vars == <<demoVars, lockVars, bufferVars, WAKEUP_PENDING, pipelineVars, contended>>

\* MiniVisualizationState::new, and the statics.
Init ==
  /\ place = [d \in Demos |-> "new"]
  /\ flushes = [d \in Demos |-> 0]
  /\ lock = [d \in Demos |-> "none"]
  /\ waiters = [d \in Demos |-> 0]
  /\ commands = [d \in Demos |-> <<>>]
  /\ dirty = [d \in Demos |-> FALSE]
  /\ WAKEUP_PENDING = {}
  /\ buffers = <<>>
  /\ pc = "snapshot" /\ snapshot = <<>> /\ index = 1 /\ copy = <<>>
  /\ BUFFER_COPY_ANIM_IN_PROGRESS = FALSE /\ BLIT_ANIM_IN_PROGRESS = FALSE
  /\ buffer_copy_animation = NoAnim /\ blit_animation = NoAnim
  /\ mini_shadow = [d \in Demos |-> <<0, FlushSize>>]
  /\ mini_fb = mini_shadow
  /\ cumulative_dirty = FALSE
  /\ contended = FALSE

-----------------------------------------------------------------------------
(* demo_task *)

Buffer == snapshot[index]

CompositorHolds(d) == pc \in {"locked", "clearing"} /\ Buffer = d
DemoHolds(d) == place[d] \in {"reading", "flushing", "notifying"}

\* unblock_task (module Sched): a task that is not blocked keeps the wakeup.
Unblock(d) ==
  \/ /\ place[d] = "blocked"
     /\ place' = [place EXCEPT ![d] = "drawing"]
     /\ UNCHANGED <<lock, WAKEUP_PENDING>>
  \/ /\ place[d] # "blocked" /\ lock[d] = "parked"
     /\ lock' = [lock EXCEPT ![d] = "none"]
     /\ UNCHANGED <<place, WAKEUP_PENDING>>
  \/ /\ place[d] # "blocked" /\ lock[d] # "parked"
     /\ WAKEUP_PENDING' = WAKEUP_PENDING \cup {d}
     /\ UNCHANGED <<place, lock>>

Goes(d, from, to) ==
  /\ place[d] = from /\ lock[d] = "none"
  /\ place' = [place EXCEPT ![d] = to]

\* The demo task drops its guard: wake_one pops an id, if there is one.  It can
\* only be the task's own, left by a wait that a pending wakeup cut short.
DropGuard(d) ==
  /\ waiters' = [waiters EXCEPT ![d] = IF @ = 0 THEN 0 ELSE @ - 1]
  /\ WAKEUP_PENDING' = IF waiters[d] = 0 THEN WAKEUP_PENDING ELSE WAKEUP_PENDING \cup {d}
  /\ UNCHANGED lock

\* register_writer and on_buffer_registered.
Register(d) ==
  /\ Goes(d, "new", "registered")
  /\ buffers' = Append(buffers, d)
  /\ UNCHANGED <<flushes, lockVars, commands, dirty, WAKEUP_PENDING, pipelineVars, contended>>

\* TaskWriter::new locks the buffer to read its region ...
NewLock(d) ==
  /\ ~CompositorHolds(d)
  /\ Goes(d, "registered", "reading")
  /\ UNCHANGED <<flushes, lockVars, bufferVars, WAKEUP_PENDING, pipelineVars, contended>>

\* ... and drops the guard.
NewUnlock(d) ==
  /\ Goes(d, "reading", "drawing")
  /\ DropGuard(d)
  /\ UNCHANGED <<flushes, bufferVars, pipelineVars, contended>>

\* set_color, clear and write_fmt fill local_commands; flush takes the lock.
FlushLock(d) ==
  /\ Len(commands[d]) + FlushSize <= MaxCommands[d]
  /\ ~CompositorHolds(d)
  /\ Goes(d, "drawing", "flushing")
  /\ UNCHANGED <<flushes, lockVars, bufferVars, WAKEUP_PENDING, pipelineVars, contended>>

\* extend_commands, and the guard is dropped.
FlushExtend(d) ==
  LET n == (flushes[d] + 1) % Rounds
  IN  /\ Goes(d, "flushing", "flushed")
      /\ flushes' = [flushes EXCEPT ![d] = n]
      /\ commands' = [commands EXCEPT ![d] = @ \o Flush(n)]
      /\ dirty' = [dirty EXCEPT ![d] = TRUE]
      /\ DropGuard(d)
      /\ UNCHANGED <<buffers, pipelineVars, contended>>

\* notify_flush locks the buffer a second time ...
NotifyLock(d) ==
  /\ ~CompositorHolds(d)
  /\ Goes(d, "flushed", "notifying")
  /\ UNCHANGED <<flushes, lockVars, bufferVars, WAKEUP_PENDING, pipelineVars, contended>>

\* ... reads it for the display (on_flush_hook), and drops the guard.
NotifyUnlock(d) ==
  /\ Goes(d, "notifying", "waiting")
  /\ DropGuard(d)
  /\ UNCHANGED <<flushes, bufferVars, pipelineVars, contended>>

\* block_current_task: a wakeup that came early is consumed (module Sched).
Block(d) ==
  /\ Goes(d, "waiting", IF d \in WAKEUP_PENDING THEN "drawing" ELSE "blocked")
  /\ WAKEUP_PENDING' = WAKEUP_PENDING \ {d}
  /\ UNCHANGED <<flushes, lockVars, bufferVars, pipelineVars, contended>>

\* BlockingMutex::lock finds the mutex taken ...
LockFails(d) ==
  /\ place[d] \in {"registered", "drawing", "flushed"} /\ lock[d] = "none"
  /\ CompositorHolds(d) /\ waiters[d] < MaxWaiters[d]
  /\ lock' = [lock EXCEPT ![d] = "failed"]
  /\ contended' = TRUE
  /\ UNCHANGED <<demoVars, waiters, bufferVars, WAKEUP_PENDING, pipelineVars>>

\* ... WaitQueue::wait queues the task's id ...
WaitPush(d) ==
  /\ lock[d] = "failed"
  /\ waiters' = [waiters EXCEPT ![d] = @ + 1]
  /\ lock' = [lock EXCEPT ![d] = "queued"]
  /\ UNCHANGED <<demoVars, bufferVars, WAKEUP_PENDING, pipelineVars, contended>>

\* ... and blocks, unless a wakeup is pending, be it the flush's; then lock retries.
WaitBlock(d) ==
  /\ lock[d] = "queued"
  /\ lock' = [lock EXCEPT ![d] = IF d \in WAKEUP_PENDING THEN "none" ELSE "parked"]
  /\ WAKEUP_PENDING' = WAKEUP_PENDING \ {d}
  /\ UNCHANGED <<demoVars, waiters, bufferVars, pipelineVars, contended>>

DemoStep(d) ==
  \/ Register(d) \/ NewLock(d) \/ NewUnlock(d)
  \/ FlushLock(d) \/ FlushExtend(d) \/ NotifyLock(d) \/ NotifyUnlock(d) \/ Block(d)
  \/ LockFails(d) \/ WaitPush(d) \/ WaitBlock(d)

-----------------------------------------------------------------------------
(* compositor_task: process_frame_visualization_internal *)

\* The compositor drops its guard: wake_one.
Release ==
  \/ /\ waiters[Buffer] > 0
     /\ waiters' = [waiters EXCEPT ![Buffer] = @ - 1]
     /\ Unblock(Buffer)
  \/ waiters[Buffer] = 0 /\ UNCHANGED <<place, lockVars, WAKEUP_PENDING>>

Snapshot ==
  /\ pc = "snapshot"
  /\ snapshot' = buffers
  /\ index' = 1 /\ pc' = "next"
  /\ UNCHANGED <<demoVars, lockVars, bufferVars, WAKEUP_PENDING, copy, animVars,
                 miniVars, contended>>

\* try_lock; a buffer that is locked is left for the next frame.
NextBuffer ==
  /\ pc = "next" /\ index <= Len(snapshot)
  /\ IF DemoHolds(Buffer)
     THEN index' = index + 1 /\ UNCHANGED pc
     ELSE pc' = "locked" /\ UNCHANGED index
  /\ UNCHANGED <<demoVars, lockVars, bufferVars, WAKEUP_PENDING, snapshot, copy, animVars,
                 miniVars, contended>>

\* Mutant: the owner is woken as soon as its commands are copied.
CopyCommands_WakesEarly ==
  /\ pc = "locked"
  /\ IF dirty[Buffer]
     THEN copy' = commands[Buffer] /\ pc' = "start" /\ UNCHANGED index
     ELSE index' = index + 1 /\ pc' = "next" /\ UNCHANGED copy
  /\ IF dirty[Buffer] THEN Unblock(Buffer) /\ UNCHANGED waiters ELSE Release
  /\ UNCHANGED <<flushes, bufferVars, snapshot, animVars, miniVars, contended>>

\* is_dirty; the commands of a dirty buffer are copied; the guard is dropped.
CopyCommands ==
  /\ pc = "locked"
  /\ IF dirty[Buffer]
     THEN copy' = commands[Buffer] /\ pc' = "start" /\ UNCHANGED index
     ELSE index' = index + 1 /\ pc' = "next" /\ UNCHANGED copy
  /\ Release
  /\ UNCHANGED <<flushes, bufferVars, snapshot, animVars, miniVars, contended>>

\* start_buffer_processing: the flag is set before the lock is taken ...
RaiseCopyFlag ==
  /\ pc = "start"
  /\ BUFFER_COPY_ANIM_IN_PROGRESS' = TRUE
  /\ pc' = "animate"
  /\ UNCHANGED <<demoVars, lockVars, bufferVars, WAKEUP_PENDING, snapshot, index, copy,
                 BLIT_ANIM_IN_PROGRESS, buffer_copy_animation, blit_animation, miniVars, contended>>

\* ... and the animation is started if the buffer is tracked.
StartCopyAnimation ==
  /\ pc = "animate"
  /\ buffer_copy_animation' = IF index <= MAX_TRACKED THEN 0 ELSE buffer_copy_animation
  /\ pc' = "copying"
  /\ UNCHANGED <<demoVars, lockVars, bufferVars, WAKEUP_PENDING, snapshot, index, copy,
                 BUFFER_COPY_ANIM_IN_PROGRESS, BLIT_ANIM_IN_PROGRESS, blit_animation,
                 miniVars, contended>>

\* wait_for_buffer_copy_animation, complete_buffer_copy and the sleep.
WaitCopy ==
  /\ pc = "copying" /\ ~BUFFER_COPY_ANIM_IN_PROGRESS
  /\ pc' = "render"
  /\ UNCHANGED <<demoVars, lockVars, bufferVars, WAKEUP_PENDING, snapshot, index, copy, animVars,
                 miniVars, contended>>

\* process_command_visualization, and the sleep after it.
Render ==
  /\ pc = "render" /\ copy # <<>>
  /\ mini_shadow' = [mini_shadow EXCEPT ![Buffer] = Head(copy)]
  /\ cumulative_dirty' = TRUE
  /\ copy' = Tail(copy)
  /\ UNCHANGED <<demoVars, lockVars, bufferVars, WAKEUP_PENDING, pc, snapshot, index, animVars,
                 mini_fb, contended>>

\* complete_buffer_processing; try_lock again, and no clear_commands if it fails.
ClearLock ==
  /\ pc = "render" /\ copy = <<>>
  /\ pc' = IF DemoHolds(Buffer) THEN "wake" ELSE "clearing"
  /\ contended' = (contended \/ DemoHolds(Buffer))
  /\ UNCHANGED <<demoVars, lockVars, bufferVars, WAKEUP_PENDING, snapshot, index, copy,
                 animVars, miniVars>>

\* clear_commands, and the guard is dropped.
ClearCommands ==
  /\ pc = "clearing"
  /\ commands' = [commands EXCEPT ![Buffer] = <<>>]
  /\ dirty' = [dirty EXCEPT ![Buffer] = FALSE]
  /\ Release
  /\ pc' = "wake"
  /\ UNCHANGED <<flushes, buffers, snapshot, index, copy, animVars, miniVars, contended>>

\* Mutant: a wakeup for a task that has not blocked yet is not remembered.
WakeOwner_Forgets ==
  /\ pc = "wake"
  /\ IF index <= MAX_TRACKED /\ place[Buffer] = "blocked"
     THEN Unblock(Buffer)
     ELSE UNCHANGED <<place, lock, WAKEUP_PENDING>>
  /\ index' = index + 1 /\ pc' = "next"
  /\ UNCHANGED <<flushes, waiters, bufferVars, snapshot, copy, animVars, miniVars, contended>>

\* unblock_task for the owner, if the buffer is tracked.
WakeOwner ==
  /\ pc = "wake"
  /\ IF index <= MAX_TRACKED THEN Unblock(Buffer) ELSE UNCHANGED <<place, lock, WAKEUP_PENDING>>
  /\ index' = index + 1 /\ pc' = "next"
  /\ UNCHANGED <<flushes, waiters, bufferVars, snapshot, copy, animVars, miniVars, contended>>

\* Mutant: the flag is not raised.
StartBlit_NoFlag ==
  /\ pc = "next" /\ index > Len(snapshot)
  /\ blit_animation' = IF cumulative_dirty THEN 0 ELSE blit_animation
  /\ cumulative_dirty' = FALSE
  /\ pc' = "blitting"
  /\ UNCHANGED <<demoVars, lockVars, bufferVars, WAKEUP_PENDING, snapshot, index, copy,
                 BUFFER_COPY_ANIM_IN_PROGRESS, BLIT_ANIM_IN_PROGRESS,
                 buffer_copy_animation, mini_shadow, mini_fb, contended>>

\* start_blit_animation: if anything was rendered, and the flag with it.
StartBlit ==
  /\ pc = "next" /\ index > Len(snapshot)
  /\ blit_animation' = IF cumulative_dirty THEN 0 ELSE blit_animation
  /\ BLIT_ANIM_IN_PROGRESS' = (BLIT_ANIM_IN_PROGRESS \/ blit_animation' # NoAnim)
  /\ cumulative_dirty' = FALSE
  /\ pc' = "blitting"
  /\ UNCHANGED <<demoVars, lockVars, bufferVars, WAKEUP_PENDING, snapshot, index, copy,
                 BUFFER_COPY_ANIM_IN_PROGRESS, buffer_copy_animation,
                 mini_shadow, mini_fb, contended>>

\* wait_for_blit_animation, set_phase_idle; the frame ends.
WaitBlit ==
  /\ pc = "blitting" /\ ~BLIT_ANIM_IN_PROGRESS
  /\ pc' = "snapshot"
  /\ UNCHANGED <<demoVars, lockVars, bufferVars, WAKEUP_PENDING, snapshot, index, copy, animVars,
                 miniVars, contended>>

CompositorStep ==
  \/ Snapshot \/ NextBuffer \/ CopyCommands \/ RaiseCopyFlag \/ StartCopyAnimation
  \/ WaitCopy \/ Render \/ ClearLock \/ ClearCommands \/ WakeOwner \/ StartBlit \/ WaitBlit

-----------------------------------------------------------------------------
(* visualization_ui_task *)

Advance(anim) == IF anim = NoAnim \/ anim + 1 = AnimTicks THEN NoAnim ELSE anim + 1
Ends(anim) == anim # NoAnim /\ Advance(anim) = NoAnim

\* tick_animation, once per turn of the UI's loop.
UiTick ==
  /\ blit_animation' = Advance(blit_animation)
  /\ mini_fb' = IF Ends(blit_animation) THEN mini_shadow ELSE mini_fb
  /\ BLIT_ANIM_IN_PROGRESS' = (BLIT_ANIM_IN_PROGRESS /\ ~Ends(blit_animation))
  /\ buffer_copy_animation' = Advance(buffer_copy_animation)
  /\ BUFFER_COPY_ANIM_IN_PROGRESS' =
       (BUFFER_COPY_ANIM_IN_PROGRESS /\ ~Ends(buffer_copy_animation))
  /\ UNCHANGED <<demoVars, lockVars, bufferVars, WAKEUP_PENDING, frameVars, mini_shadow,
                 cumulative_dirty, contended>>

Next ==
  \/ \E d \in Demos : DemoStep(d)
  \/ CompositorStep
  \/ UiTick

\* Every task runs again and again: the compositor's and the UI's sleeps end (run
\* "sleep" of Kernel) and the demo tasks share what is left.
Spec ==
  /\ Init /\ [][Next]_vars
  /\ WF_vars(CompositorStep) /\ WF_vars(UiTick)
  /\ \A d \in Demos : WF_vars(DemoStep(d))

-----------------------------------------------------------------------------
(* Properties *)

\* The miniature screen shows whole flushes only (never a region that is cleared
\* and not yet written), and at the end of a frame all that was rendered.
WholeFrames ==
  /\ \A d \in Demos : mini_fb[d][2] = FlushSize
  /\ pc = "snapshot" => mini_fb = mini_shadow

\* A demo task continues only after its commands were processed ("wait until the
\* compositor has processed the commands", pipeline_visualization.rs:1182), as
\* long as nobody found the buffer locked: after a skipped clear_commands, or an id
\* left in the WaitQueue, the task has an extra wakeup, and a later clear may drop
\* commands unseen.
WaitedForRendering ==
  \A d \in Demos :
    place[d] = "drawing" /\ ~contended => mini_shadow[d] = <<flushes[d], FlushSize>>

\* A demo task that blocks is woken, although a wakeup may precede its block, a
\* clear may be skipped, a flush may be dropped, and the compositor waits in turn
\* for animations that only the UI task advances.  It holds as long as notify_flush
\* never finds the buffer locked: the mutex's wakeup and the flush's may then
\* become one, and the task sleeps for ever.
DemosWake ==
  \A d \in Demos :
    [](place[d] = "flushed" => lock[d] = "none")
      => (place[d] = "blocked" ~> place[d] # "blocked")

=============================================================================
