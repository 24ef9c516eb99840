----------------------------- MODULE Compositor -----------------------------
(***************************************************************************)
(* The drawing pipeline of kernel/src/graphics: tasks flush drawing        *)
(* commands into shared buffers, the compositor task renders them into its *)
(* shadow buffer and copies the dirty rectangle to the hardware            *)
(* framebuffer.                                                            *)
(*                                                                         *)
(* A buffer's BlockingMutex is its holder (MutexSpec; Kernel implements    *)
(* it).  Every step is taken with interrupts on except Snapshot and        *)
(* RegisterWriter, so writers and compositor interleave everywhere else.   *)
(* What a TaskWriter turns into commands is module Writer's business.      *)
(***************************************************************************)
EXTENDS Integers, Sequences, FiniteSetsExt, Writer

CONSTANTS Writers,      \* tasks with a TaskWriter
          RegionOf,     \* the Region each one registers
          CommandsOf,   \* the DrawCommands each one may issue
          Width, Height,
          BootScreen,   \* what is on the framebuffer before the first blit
          MaxLocal,     \* bound on the commands in a TaskWriter
          MaxCommands,  \* bound on the commands in a WriterBuffer
          None

Screen == (0 .. Width - 1) \X (0 .. Height - 1)
Task == "compositor"

VARIABLES
  local_commands,  \* TaskWriter::local_commands, by writer
  commands,        \* WriterBuffer::commands, by writer
  dirty,           \* WriterBuffer::dirty, by writer
  holder,          \* of the buffer's mutex: a writer, the compositor, or None
  buffers,         \* Compositor::buffers, the writers registered so far
  writing,         \* place of each writer: "new", "idle" or "locked"
  pc,              \* place of the compositor task
  snapshot,        \* buffers_snapshot, what is left of it in this frame
  rendered,        \* commands of the locked buffer that are rendered
  shadow,          \* ShadowBuffer::buffer
  dirty_rect,      \* ShadowBuffer::dirty_rect
  framebuffer,     \* the hardware framebuffer
  ideal            \* history: the shadow if every flush were drawn at once

writerVars == <<local_commands, writing>>
bufferVars == <<commands, dirty, holder>>
taskVars == <<pc, snapshot, rendered, shadow, dirty_rect, framebuffer>>
vars == <<writerVars, bufferVars, buffers, taskVars, ideal>>

-----------------------------------------------------------------------------
(* Drawing *)

\* Region::right and Region::bottom are exclusive.
right(r) == r.x + r.width
bottom(r) == r.y + r.height
Pixels(r) == (r.x .. right(r) - 1) \X (r.y .. bottom(r) - 1)

\* The rectangle that render_commands_to marks dirty for a command, in screen
\* coordinates.
Area(w, cmd) ==
  LET r == RegionOf[w]
  IN  IF cmd.kind = "Clear" THEN r
      ELSE [x |-> r.x + cmd.x, y |-> r.y + cmd.y,
            width |-> cmd.width, height |-> cmd.height]

\* The pixels it colours: all of the area, or the glyphs' part of it, clipped at
\* the right edge of the screen.
Ink(w, cmd) ==
  LET r == RegionOf[w]
      wanted == IF cmd.kind = "DrawString"
                THEN {<<r.x + p[1], r.y + p[2]>> : p \in cmd.glyphs}
                ELSE Pixels(Area(w, cmd))
  IN  {p \in wanted : p[1] < Width}

Painted(image, w, cmd) ==
  [p \in Screen |-> IF p \in Ink(w, cmd) THEN cmd.color ELSE image[p]]

\* What a sequence of commands makes of an image: a pixel has the colour of the
\* last command that touches it.
PaintAll(image, w, cmds) ==
  [p \in Screen |->
     LET hits == {i \in 1 .. Len(cmds) : p \in Ink(w, cmds[i])}
     IN  IF hits = {} THEN image[p] ELSE cmds[Max(hits)].color]

\* draw_string puts its glyphs into the cells of the text, and nobody draws on
\* the region of another (main.rs, debug_overlay.rs: the regions are disjoint).
CommandOK(w, cmd) ==
  /\ cmd.kind # "Clear" => {cmd.x, cmd.y, cmd.width, cmd.height} \subseteq Nat
  /\ cmd.kind = "DrawString" => cmd.glyphs \subseteq Pixels(cmd)
  /\ \A u \in Writers \ {w} : Ink(w, cmd) \cap Pixels(RegionOf[u]) = {}

Region == [x : Nat, y : Nat, width : Nat, height : Nat]

ASSUME CompositorAssumption ==
  /\ Width \in Nat /\ Height \in Nat /\ MaxLocal \in Nat /\ MaxCommands \in Nat
  /\ Task \notin Writers /\ None \notin Writers \cup {Task} \cup Region
  /\ BootScreen \in [Screen -> Nat]
  /\ \A w \in Writers : RegionOf[w] \in Region
  \* draw_rect and draw_char do not clip at the bottom: their callers must.
  /\ \A w \in Writers : bottom(RegionOf[w]) <= Height
  /\ \A w \in Writers : \A cmd \in CommandsOf[w] : CommandOK(w, cmd)

\* ShadowBuffer::mark_dirty: clip to the screen, then the bounding box with what
\* is dirty already.
Clip(r) ==
  LET x == Min({r.x, Width})  y == Min({r.y, Height})
  IN  [x |-> x, y |-> y, width |-> Min({right(r), Width}) - x,
       height |-> Min({bottom(r), Height}) - y]

\* Mutant: the new rectangle replaces the old one.
mark_dirty_Replaces(old, r) ==
  LET c == Clip(r)
  IN  IF c.width <= 0 \/ c.height <= 0 THEN old ELSE c

mark_dirty(old, r) ==
  LET c == Clip(r)
      x == Min({old.x, c.x})  y == Min({old.y, c.y})
  IN  IF c.width <= 0 \/ c.height <= 0 THEN old
      ELSE IF old = None THEN c
      ELSE [x |-> x, y |-> y, width |-> Max({right(old), right(c)}) - x,
            height |-> Max({bottom(old), bottom(c)}) - y]

-----------------------------------------------------------------------------
Init ==
  /\ local_commands = [w \in Writers |-> <<>>]
  /\ commands = [w \in Writers |-> <<>>]
  /\ dirty = [w \in Writers |-> FALSE]
  /\ holder = [w \in Writers |-> None]
  /\ buffers = <<>>
  /\ writing = [w \in Writers |-> "new"]
  /\ pc = "snapshot" /\ snapshot = <<>> /\ rendered = 0
  /\ shadow = [p \in Screen |-> 0]
  /\ dirty_rect = None
  /\ framebuffer = BootScreen
  /\ ideal = [p \in Screen |-> 0]

-----------------------------------------------------------------------------
(* Writers *)

\* Compositor::register_writer: a new list, so a snapshot already taken keeps the
\* old one.
WithWriter(w) == Append(buffers, w)

\* register_writer, with interrupts disabled.
RegisterWriter(w) ==
  /\ writing[w] = "new"
  /\ buffers' = WithWriter(w)
  /\ writing' = [writing EXCEPT ![w] = "idle"]
  /\ UNCHANGED <<local_commands, bufferVars, taskVars, ideal>>

\* A TaskWriter method appends to local_commands, without the lock.
Draw(w) ==
  /\ writing[w] = "idle"
  /\ Len(local_commands[w]) < MaxLocal
  /\ \E cmd \in CommandsOf[w] :
       local_commands' = [local_commands EXCEPT ![w] = Append(@, cmd)]
  /\ UNCHANGED <<writing, bufferVars, buffers, taskVars, ideal>>

\* flush(), with something to flush: lock the buffer, waiting if it is held.
FlushLock(w) ==
  /\ writing[w] = "idle"
  /\ local_commands[w] # <<>>
  /\ Len(commands[w]) + Len(local_commands[w]) <= MaxCommands
  /\ holder[w] = None
  /\ holder' = [holder EXCEPT ![w] = w]
  /\ writing' = [writing EXCEPT ![w] = "locked"]
  /\ UNCHANGED <<local_commands, commands, dirty, buffers, taskVars, ideal>>

\* Mutant: the flushed commands replace the ones that are not rendered yet.
FlushExtend_Replaces(w) ==
  /\ writing[w] = "locked"
  /\ commands' = [commands EXCEPT ![w] = local_commands[w]]
  /\ local_commands' = [local_commands EXCEPT ![w] = <<>>]
  /\ dirty' = [dirty EXCEPT ![w] = TRUE]
  /\ holder' = [holder EXCEPT ![w] = None]
  /\ writing' = [writing EXCEPT ![w] = "idle"]
  /\ ideal' = PaintAll(ideal, w, local_commands[w])
  /\ UNCHANGED <<buffers, taskVars>>

\* Mutant: dirty is left as it is.
FlushExtend_NotDirty(w) ==
  /\ writing[w] = "locked"
  /\ commands' = [commands EXCEPT ![w] = @ \o local_commands[w]]
  /\ local_commands' = [local_commands EXCEPT ![w] = <<>>]
  /\ holder' = [holder EXCEPT ![w] = None]
  /\ writing' = [writing EXCEPT ![w] = "idle"]
  /\ ideal' = PaintAll(ideal, w, local_commands[w])
  /\ UNCHANGED <<dirty, buffers, taskVars>>

\* extend_commands with drain(..), and the guard is dropped.
FlushExtend(w) ==
  /\ writing[w] = "locked"
  /\ commands' = [commands EXCEPT ![w] = @ \o local_commands[w]]
  /\ local_commands' = [local_commands EXCEPT ![w] = <<>>]
  /\ dirty' = [dirty EXCEPT ![w] = TRUE]
  /\ holder' = [holder EXCEPT ![w] = None]
  /\ writing' = [writing EXCEPT ![w] = "idle"]
  /\ ideal' = PaintAll(ideal, w, local_commands[w])
  /\ UNCHANGED <<buffers, taskVars>>

-----------------------------------------------------------------------------
(* compositor_task *)

\* Phase 1: the list of buffers.
Snapshot ==
  /\ pc = "snapshot"
  /\ snapshot' = buffers
  /\ pc' = "next"
  /\ UNCHANGED <<writerVars, bufferVars, buffers, rendered, shadow, dirty_rect,
                 framebuffer, ideal>>

\* Phase 2: try_lock the next buffer.  A buffer that is held is skipped in this
\* frame, and so is one that is not dirty.
NextBuffer ==
  /\ pc = "next" /\ snapshot # <<>>
  /\ LET w == Head(snapshot)
     IN  IF holder[w] = None /\ dirty[w]
         THEN /\ holder' = [holder EXCEPT ![w] = Task]
              /\ pc' = "render" /\ rendered' = 0
              /\ UNCHANGED snapshot
         ELSE /\ snapshot' = Tail(snapshot)
              /\ UNCHANGED <<holder, pc, rendered>>
  /\ UNCHANGED <<writerVars, commands, dirty, buffers, shadow, dirty_rect,
                 framebuffer, ideal>>

\* render_commands_to, one command.
Render ==
  LET w == Head(snapshot)
      cmd == commands[w][rendered + 1]
  IN  /\ pc = "render" /\ rendered < Len(commands[w])
      /\ shadow' = Painted(shadow, w, cmd)
      /\ dirty_rect' = mark_dirty(dirty_rect, Area(w, cmd))
      /\ rendered' = rendered + 1
      /\ UNCHANGED <<writerVars, bufferVars, buffers, pc, snapshot, framebuffer, ideal>>

\* clear_commands, and the guard is dropped.
ClearCommands ==
  LET w == Head(snapshot)
  IN  /\ pc = "render" /\ rendered = Len(commands[w])
      /\ commands' = [commands EXCEPT ![w] = <<>>]
      /\ dirty' = [dirty EXCEPT ![w] = FALSE]
      /\ holder' = [holder EXCEPT ![w] = None]
      /\ snapshot' = Tail(snapshot)
      /\ pc' = "next" /\ rendered' = 0
      /\ UNCHANGED <<writerVars, buffers, shadow, dirty_rect, framebuffer, ideal>>

\* Phase 4, blit_to: the dirty rectangle goes to the framebuffer; then sleep_ms.
Blit ==
  /\ pc = "next" /\ snapshot = <<>>
  /\ framebuffer' = IF dirty_rect = None THEN framebuffer
                    ELSE [p \in Screen |-> IF p \in Pixels(dirty_rect)
                                           THEN shadow[p] ELSE framebuffer[p]]
  /\ dirty_rect' = None
  /\ pc' = "snapshot"
  /\ UNCHANGED <<writerVars, bufferVars, buffers, snapshot, rendered, shadow, ideal>>

CompositorStep == Snapshot \/ NextBuffer \/ Render \/ ClearCommands \/ Blit

Next ==
  \/ \E w \in Writers : RegisterWriter(w) \/ Draw(w) \/ FlushLock(w) \/ FlushExtend(w)
  \/ CompositorStep

Spec == Init /\ [][Next]_vars

\* The compositor wakes up again after each sleep (SleepersWake of Kernel), and a
\* writer that holds a lock is eventually scheduled to release it.  Nothing is
\* assumed of the order in which they run.
FairSpec ==
  /\ Spec
  /\ WF_vars(CompositorStep)
  /\ \A w \in Writers : WF_vars(FlushExtend(w))

-----------------------------------------------------------------------------
(* Properties *)

\* The commands of w that are flushed and not rendered yet.
Unrendered(w) ==
  IF holder[w] = Task THEN SubSeq(commands[w], rendered + 1, Len(commands[w]))
  ELSE commands[w]

\* No flushed command is lost, repeated or reordered, however flushes fall
\* between the compositor's snapshot, try_lock, rendering and clearing: drawing
\* what is still queued would complete the picture.
NothingLost ==
  \A w \in Writers : \A p \in Pixels(RegionOf[w]) \cap Screen :
    PaintAll(shadow, w, Unrendered(w))[p] = ideal[p]

\* The pixels that commands may have coloured.
Drawable == (UNION {Pixels(RegionOf[w]) : w \in Writers}) \cap Screen

\* The dirty rectangle lies on the screen, which blit_to's unsafe copy relies on,
\* and covers every pixel on which shadow and framebuffer differ, so copying it
\* alone brings the screen up to date.  (Of what was on the framebuffer at boot
\* the shadow knows nothing.)
DirtyCovers ==
  /\ dirty_rect # None => Pixels(dirty_rect) \subseteq Screen
  /\ \A p \in Drawable :
       shadow[p] # framebuffer[p] =>
         \/ dirty_rect # None /\ p \in Pixels(dirty_rect)
         \/ framebuffer[p] = BootScreen[p] /\ shadow[p] = 0

\* When a writer falls silent, what it has flushed reaches the screen, although
\* the compositor skips buffers that are locked when it looks.
EventuallyShown ==
  \A w \in Writers :
    <>[](writing[w] = "idle") =>
      []<>(\A p \in Pixels(RegionOf[w]) \cap Screen :
             framebuffer[p] = ideal[p] \/ (framebuffer[p] = BootScreen[p] /\ ideal[p] = 0))

\* Once a task has a writer, batching changes nothing on the screen: whatever it
\* calls, it draws what it would draw if every byte were drawn at once, as long as
\* its text is ASCII (writer.rs:205; any other byte draws two glyphs and moves the
\* cursor by one) and colour and position are not changed while text waits (the
\* text would take the new colour, and what follows it the old position:
\* commit_pending_text).
BatchingInvisible == buffers # <<>> => Batches

\* Once a task has a writer, no glyph of its ASCII text leaves its region, although
\* wrapping and clearing are the writer's alone and nobody clips the text later,
\* unless the position is changed while text waits.  (In a region smaller than a
\* glyph text leaves it, and so does the second glyph of a byte beyond ASCII.)
TextInRegion == buffers # <<>> => StaysInside

=============================================================================
