# A TLA+ model of the VitrOS kernel

VitrOS is a single-core x86_64 UEFI kernel in Rust. This directory holds TLA+
modules translated from its source, TLC configurations that check them on small
instances, and TLAPS proofs of the results that hold for every instance.
Paths below are relative to `src/kernel/src/`.

## 1. The system

| Component | State | Operations | Interacts with |
|---|---|---|---|
| Scheduler (`sched/scheduler.rs`, `sched/task.rs`) | `RT_QUEUE`, `CFS_QUEUE`, `IDLE_QUEUE`, `CURRENT_TASK`, `NEED_RESCHED`, `ACCUMULATED_RUNTIME`, a state, class and vruntime per task | `add_task`, `set_current_task`, `schedule`, `yield_now`, `check_resched_on_interrupt_exit` | called by tasks and by the timer interrupt's exit path |
| Blocking (`sched/blocking.rs`) | `BLOCKED_TASKS`, `WAKEUP_PENDING` | `block_current_task`, `unblock_task`, `sleep_ms` | scheduler, timers |
| Mutex (`sync/`) | `locked`, the wait queue | `lock`, `try_lock`, guard drop, `wait`, `wake_one` | blocking |
| Timers and softirq (`timer.rs`) | `TICK_COUNT`, `TIMER_QUEUE`, `PENDING_QUEUE`, `SOFTIRQ_PENDING`, `IN_SOFTIRQ` | `register_timer`, `check_timers`, `do_softirq`, `process_pending_timers` | interrupt handler, `unblock_task` through callbacks |
| Timer interrupt (`idt.rs`) | interrupt frames on the interrupted task's stack | `timer_interrupt_handler` | all of the above |
| Heap (`allocator.rs`) | buddy free lists and bitmap, slab caches | `allocate`, `deallocate`, `init` | every `Box` |
| Paging (`paging.rs`) | page tables, guard page, MMIO regions | `init`, `map_mmio`, `map_framebuffer_huge` | boot |
| Graphics (`graphics/`) | writer buffers, shadow buffer, dirty rectangle; per task a cursor and pending text | `register_writer`, `write_str`, `flush`, `compositor_task` | mutex, sleep |
| Pipeline visualization (`pipeline_visualization.rs`, feature-gated) | `MINI_VIS_STATE`, two completion flags, `BUFFER_TRACKING` | demo tasks, the compositor's slowed-down frame, `tick_animation` of the UI task | compositor, mutex, blocking |
| PCI and MSI (`pci.rs`, `msi.rs`) | configuration space, MSI-X tables | capability walk, `read_bar`, `configure_msi(x)`, entry masks | boot; no driver calls MSI yet |
| ACPI, clocks | tables, counters | table walk, calibration | boot |
| Bootloader (`bootloader/`) | memory map, initial page tables | `efi_main`, `load_kernel_elf` | hands `BootInfo` to the kernel |

What is hard in it: a tick can strike between any two instructions executed with
interrupts on, including inside the softirq and inside the frame of an earlier
interrupt; the block/wakeup protocol spans several critical sections; the softirq
must not be re-entered and must not be switched away from; the mutex is released
in three preemptible steps. `PROJECT.json` lists every such hazard with its line.

What makes the components correct: a task is never lost, duplicated or parked
with a wakeup pending; each wait gets exactly one wakeup; the mutex excludes;
sleepers wake, and not early; ticks are charged to the task they struck; for the
heap, blocks in use never overlap and a merged block is free in both halves; for
paging, no two mappings of the kernel disagree and the guard page stays unmapped;
for the compositor, a flushed command is drawn exactly once; for MSI, a device never
sends a message nobody asked for, and can be heard; for the visualization, whoever
waits is woken.

## 2. Modules

| Module | Models |
|---|---|
| `Sched` | run queues, `schedule`, `block_current_task`, `unblock_task`, each one atomic action (they run with interrupts disabled); callers are left open |
| `Cfs` | `Sched` plus vruntime, weights, `ACCUMULATED_RUNTIME` and the tick; its actions are those of `Sched` with the accounting added |
| `Kernel` | `Sched` composed with tasks (`Ops` gives the calls each one makes), `sleep_ms`, the timers, the softirq, `BlockingMutex` and nested timer interrupts; refines `Sched` and `MutexSpec` |
| `MutexSpec` | what a mutex promises: the running task takes the guard for itself, only when it is free, and only the task that holds it gives it back |
| `Buddy` | `BuddyAllocator`: free lists as sequences, bitmaps, split and merge |
| `FreeList` | the intrusive doubly linked list of one order, pointer by pointer, with owners overwriting the links of allocated blocks |
| `Heap` | `KernelAllocator`: slab caches in front of the buddy allocator; extends `Buddy`, whose operations its own call |
| `Compositor` | writers' buffers, `flush`, the compositor's frame, the shadow buffer's dirty rectangle and `blit_to`; a buffer's mutex is the abstract one of `MutexSpec`; extends `Writer` and states what its writers draw |
| `Writer` | `TaskWriter`: how calls become commands, text batching, the conversion to UTF-8, wrapping and clearing; operators on a record, one per method |
| `Visualization` | demo tasks, the compositor and the UI task of the visualize-pipeline mode, with the buffers' mutexes and the completion flags |
| `Msi` | one PCI device with its capability list, BAR and MSI-X table, and every function of `msi.rs`, one register write per step |
| `Paging` | the page tables CR3 points at, `init`, `map_mmio`, `map_framebuffer_huge`, the MMU's walk and the TLB |
| `Boot` | `Paging` composed with `efi_main` and `kernel_main_inner` up to the first task: memory map, ACPI tables, PCI scan, Local APIC, HPET, framebuffer, heap |
| `SchedProofs`, `CfsProofs`, `KernelProofs`, `HeapProofs` (with `Buddy` and `FreeList`), `CompositorProofs` (with `Writer`), `VisualizationProofs`, `MsiProofs`, `BootProofs` | the theorems about them and their proofs (section 4) |
| `MCCfs`, `MCKernel`, `MCFreeList`, `MCHeap`, `MCCompositor`, `MCVisualization`, `MCMsi`, `MCBoot` | the instances TLC checks |

In `Kernel`, `pc[t]` is the place of task `t` in its own code and `irq[t]` the
stack of interrupt frames on top of it. Code between `cli` and `sti` is one
action; every other boundary is a control point at which `TimerInterrupt` may
strike. `switch_context` forces IF to 1, so a task preempted on the interrupt
exit path resumes in its frame (`"ret"`) with interrupts on, where it can be
interrupted again; the model keeps this. Deadlines are kept relative to
`TICK_COUNT`, which therefore needs no bound. A timer's callback is the task it
unblocks. The heap does not order timers of equal deadline, so `check_timers`
may pop them in any order (`Orders`).

In `Cfs`, one timer interrupt is `Tick` (the handler) followed by `IrqExit`; more
ticks may come in between, as they do while a softirq runs. Time is scaled: a
tick lasts `TickRuntime` units, so the minimum charge of 1 weighs more than the
1 ns of the code. `ran` and `overrun` are history variables: the time each task was
struck by ticks, and whether a tick has struck before the `schedule()` of another.

In `Buddy`, addresses are page numbers relative to `region_start`, as
`buddy_address` takes them, and the bitmap covers the region: `MAX_BITMAP_WORDS`, beyond
which `mark_free` and `is_free` do nothing, is left out. `allocate` and `deallocate` run with interrupts
disabled and are one action each; the loops that split and merge are given by
what they do to each order's list. `alloc` of `Heap` has two critical sections
(slab, then buddy), between which its caller can be preempted. Callers free what
they were given, once, with the same layout: the contract of `GlobalAlloc`.

In `Compositor`, a command is the rectangle it marks dirty and the pixels it
colours; `ideal` is a history variable, the picture with every flush drawn at
once. `PaintAll` gives it without a loop: the last command that touches a pixel
decides, which the order of `Render`'s steps has to bring about. The compositor's steps
between two locks touch its own state only, except that a writer may flush, or hold a lock, between any two of them.

In `Writer`, `sent` is what `flush` has handed over; `Compositor` models what becomes
of it. Text is bytes; `ch as char` makes a character of each, which `pending_text` holds
in UTF-8 (`Utf8`), and `draw_string` draws a glyph for each byte of that. `Unbatched` is the reference: the same program with a flush before every byte
and every call. `MCCompositor` checks the two against each other for every program of
up to five calls, in regions of one or two columns and lines that are no multiple of
a glyph. The comparison leaves out programs that change colour or position while text
waits (`NoneWaits`): `commit_pending_text` then draws the waiting text in the new colour,
and text that follows a `set_position` is appended to the old place, out of the region
too. And it is for ASCII text (`AsciiOnly`), which `writer.rs:205` takes for granted and
all callers write: a byte of 128 or more is drawn as two glyphs while the cursor moves by
one, so text that follows overlaps it, and at the end of a line it leaves the region. TLC
finds both properties violated without that premise. Coordinates are naturals: the `u32` of the code is far above any screen.

In `Visualization`, a section under `MINI_VIS_STATE`'s spin lock is one action and a
section under a buffer's mutex two, so `lock` and `try_lock` may find it taken. A demo
task has one `WAKEUP_PENDING` bit for its two waits: for the mutex (`lock`, with the
wait queue's ids counted in `waiters`) and for its flush. A command is the number of
its flush, modulo `Rounds`, and its place in the flush. The flags
`BUFFER_COPY_ANIM_IN_PROGRESS` and `BLIT_ANIM_IN_PROGRESS` are separate from the
animations they stand for, as in the code.

In `Msi`, a call computes the writes it will make from registers only the driver
changes, and `WriteRegister` makes them one by one; `Messages` is what the device may
send in between. Nothing calls `msi.rs` yet, so the driver is assumed: it uses one
mechanism at a time, unmasks entries it has configured, and makes one call at a time
(`pci.rs:459-461` ask for that). `asked`, `mode` and `hushed` are history variables:
what each source may send, the mechanism of the last successful call, and the entries
the driver has silenced. Two things are assumed of the device that the code does not
check: capabilities lie at 0x40 or above, as PCI requires (`pci.rs:117-135` follow any
pointer), which is why 48 steps are enough; and Multiple Message Enable is 0
(`msi.rs:185-191`, `219-225` keep these bits), else a device may alter the low bits of
the data it sends.

In `Paging`, an address is a number of units, `PAGE_SIZE` to a page, and a chunk
is what one page table covers (2 MiB in the code). `tlb` is every translation the
CPU may hold: a flush leaves what the tables say, and between flushes the CPU may
add to it at any time. In `Boot`, `machine` is chosen once: memory map,
framebuffer and ACPI tables, subject to `MachineOK` (regions are disjoint and
ordered; the kernel lies in memory; framebuffer, MMCONFIG and device registers do not
lie on it, nor does a huge page of the framebuffer). Stages that talk to
the firmware may fail, as the code provides for. An access to memory is `Touch`:
it faults on the pages it finds unmapped or read-only. Calibration is a step that may
fail; the measured frequency (with its `u32` arithmetic, which may overflow) and the
timer's initial count are left out, as is the heap's size limit of the
`visualize-allocator` feature. `InitHeap` writes the slabs' half of the region and any
set of pages in the buddy's half, since which of them get a node is `Buddy`'s matter. The ACPI tables themselves
are taken to be readable; what varies is what they say. The stack and ordinary
memory are mapped writable and executable, so W^X is claimed for `.text`,
`.rodata`, `.data` and `.bss` only.

Operators whose name has the form `X_Y` with the comment "Mutant:" are plausible
bugs of `X`; no specification uses them. They show that each property can fail.

## 3. Runs

| Run | Instance | Result |
|---|---|---|
| `cfs` | 7 tasks, weights 1024 and 3121, quanta of 1 or 2 ticks, 6 ticks per task | accounting, equal shares within a tick |
| `sleep` | idle, Realtime sleeper, Normal sleeper that yields; delays of 1 and 2 ticks; 2 nested frames; fair | no task lost, duplicated or parked with a wakeup pending; dispatch by class; softirq stays on its CPU, no timer stranded; sleepers wake, never early |
| `mutex` | 3 Normal tasks with `lock` and `try_lock`, one of which may block for good, idle; 2 nested frames | mutual exclusion, one wakeup per wait; `Kernel` implements `Sched` and `MutexSpec` |
| `freelist` | 3 blocks | the links represent the list |
| `heap` | five slabs and 9 pages for the buddy, orders 0 to 2, requests of 1 to 3 pages, 3 layouts, 2 callers | allocations are disjoint and aligned within their slab or the buddy's region; blocks return to their slab; the buddy's blocks tile its region, bitmap and lists agree, merging is complete |
| `compositor` | 2 writers, 2 by 2 pixels, one region over the edge | no command lost or reordered; dirty rectangle complete and on the screen; flushed commands reach the screen; batching of ASCII text draws what drawing each byte would, inside the region |
| `visualization` | 2 demo tasks and 2 tracking slots, one flush per buffer, the first with up to 2 ids in its wait queue; fair | whole flushes on the miniature screen; a demo task continues after its flush was rendered; it is woken |
| `msi` | 26 devices: 10 capability lists, 10 BARs, 32- and 64-bit, tables of 1 and 2 entries, three firmware states; vectors on both sides of both limits | the walk finds what is there; messages are as asked for at every moment; a failed call writes nothing; the device can be heard |
| `boot` | some 500 machines: 6 memory maps, 8 framebuffers, 9 sets of ACPI tables | sections and guard page protected, device pages uncached, no stale TLB entry, reported memory stays usable |

Bounds. Two nested frames (`MaxIrqDepth`) are enough for a tick inside a softirq
inside a tick, and for a tick in the frame of a resumed task; a third level
repeats the second. Two tasks besides idle give every pair of positions, three
give a barging task between a release and the woken waiter. Delays of one and
two ticks make timers expire together, apart, and before they are queued.
In `heap`, nine pages with three orders give a region whose size is no power of two, two
blocks of the highest order that must not be merged, and merges over two orders. One
layout is of the last slab's class because of its alignment only, and falls back to the
buddy; the others take two pages and, rounded up, four, which the first pages may leave no
room for. In
`compositor`, `MaxCommands` = 2 lets a second flush arrive before the first is
rendered, and two writers make the dirty rectangle span two buffers.
In `visualization`, a second flush per buffer (`MaxCommands` = 4) has been checked as
well and adds no new kind of state; one tick per animation is enough for a flag to be
seen set and cleared, and two flush numbers tell a flush from the one before. In `msi`,
lists of three capabilities have every shape that matters to the walk: the longest,
cyclic at the head and at the end, out of order, empty. A table of two entries lets
`configure_msix` leave one out.
In `boot`, 16 pages, 2 to a chunk and 4 to a directory, give a table and a
directory that `init` does not link; the memory maps reach past what can be
mapped, hold more ranges than `MAX_MMIO` (64 in the code, 2 here) and more
entries than `MAX_MEMORY_REGIONS` (256 in the code, 5 here), contain the kernel
in free memory, or have none; framebuffers are unaligned, end inside a device's
huge page, lie at address 0 or beyond the limit.
`MaxQuantum` and `MaxRan` bound `Cfs`; at the horizon `MaxRan` the exploration
stops (`Horizon`).

Fairness (`sleep`). The timer keeps ticking (WF). Ticks are 4 ms apart, much longer
than a step, so a frame or a task that is on the CPU again and again makes
progress; since ticks disable its step (they push a frame), that is strong
fairness, for each depth of frame and each task. Nothing is assumed about *which*
task `schedule()` picks. In `compositor`, the compositor's steps and the release
of a held buffer are weakly fair: the one follows from `SleepersWake` and its
Realtime priority, the other from the holder being runnable. In `visualization` the
compositor, the UI task and each demo task are weakly fair: the first two sleep and are
woken (`SleepersWake`), and while they sleep the demo tasks have the CPU.

Each property has a mutant in `PROJECT.json` that breaks it. Type invariants are not
checked by runs of their own; they are part of the inductive invariants that are proved.

### Where code and comments differ

Three runs are expected to fail; each states what a comment promises.

* `doc_mutex`: a task preempted between its failed compare-and-swap and its push
  on the wait queue misses the unlock and parks behind a free mutex
  (`sched/blocking.rs:55-57`).
* `doc_nice`: `schedule()` pops its successor before it requeues the current
  task, so two runnable Normal tasks alternate, whatever their nice values
  (`sched/task.rs:74`). For the same reason a tick that preempts the only
  runnable Normal task hands the CPU to the idle task until the next tick.
* `doc_heap`: the heap is the largest free region of the firmware's map. The bootloader
  copies the kernel to its linked address without allocating that memory, so the map may
  still call it free, and the heap may contain the running kernel
  (`main.rs:323-326` say the region is not used by the kernel).

Other comments are contradicted in the same way. `Boot` states two of them as
definitions; TLC finds them violated with `MCBoot.cfg`'s constants, and to repeat it, one
puts them in place of `HeapUnused` in `DocHeap.cfg`.

* `MmioAccessible` (`paging.rs:646-648`: after `map_mmio` accesses to the registers are
  guaranteed to work). `map_mmio` accepts any address below 8 GiB, but `init` linked
  tables only up to the highest address of the memory map; an APIC or HPET above it gets
  an entry that no walk reaches, and the first access faults.
* `FramebufferPremapped` (`paging.rs:1156` and `1184`: an unaligned framebuffer uses the
  4 KiB pages `init` has mapped). `init` leaves out the ranges that the map reports as
  MMIO, and what lies above its highest address.
* `WaitedForRendering` without its condition (`pipeline_visualization.rs:1182`: the demo
  task blocks until the compositor has processed its commands), see below.

### What else the models brought to light

Where a property carries a condition, it fails without it; what the conditions leave out:

* `DispatchByClass` compares the dispatched task with the queued ones only. `schedule()`
  never compares it with the task it replaces, so a lower class may follow a preempted
  task of a higher one (see `doc_nice`).
* `BatchingInvisible`, `TextInRegion`: text that is not ASCII, and colour or position
  changed while text waits (see `Writer` above).
* `KernelProtected`: registers, MMCONFIG or a framebuffer's huge page that lie on the
  kernel (`MachineOK`). `NoStaleTlb`: all callers of `map_mmio` map one page, so its error
  return, which does not flush, is never taken after a write.
* `Visualization`: `notify_flush` locks the buffer again after the flush is visible. If
  it finds the buffer locked and its task is delayed until the compositor is done, the
  mutex's wakeup and the flush's wakeup become one bit of `WAKEUP_PENDING`; the mutex
  takes it and the task blocks for ever (`DemosWake`). A task delayed in this way also
  gets an extra wakeup when an id stays in the wait queue, runs ahead of the rendering,
  and may have commands cleared unseen (`WaitedForRendering`).
* `start_buffer_processing` raises the flag for every buffer but animates only the
  first four: a fifth buffer would stop the compositor for ever
  (`VisualizationAssumption`).
* `register_writer` calls `on_buffer_registered` with interrupts disabled, which spins
  on `MINI_VIS_STATE`; if the compositor or the UI task was preempted while holding it,
  the CPU spins for ever. Not modelled: every run would end there.
* `Msi`: `configure_msix` keeps a `FUNCTION_MASK` the firmware has set, so the device
  stays mute; a 64-bit or prefetchable BAR without an address is accepted with base 0,
  and the table's entries are then written to low memory (`NeverMute` excepts both).
  `configure_msix` uses the table through the direct mapping without `map_mmio`.
  `write_u16` reads and writes the whole double word, so a write to the command
  register also writes back the status register's write-1-to-clear bits.
* `Cfs`: equal weights share the CPU equally only while every tick is followed by its
  `schedule()` before the next one. If two ticks are charged at once again and again to
  the same one of two tasks, it gets twice the time of the other and its vruntime runs
  away: `schedule()` pops the successor before it puts the outgoing task back, so the
  two alternate whatever their vruntimes say. `EqualShare` therefore assumes `~overrun`;
  the proof attempt showed that no bound holds without it.
* `Boot`: a first `GetMemoryMap` that fails is not reported, and the jump into the kernel
  faults on page tables made from an empty map. MMCONFIG is read through the mappings of
  `init`, which leave out what the map reports as MMIO (`pci.rs:341`). A heap that reaches
  above the mapped 8 GiB faults when a page there is first used.
* `Heap`: addresses are aligned relative to their slab or to the buddy's region only
  (`AlignedInRegion`); slabs follow each other unaligned, so the absolute alignment that
  `GlobalAlloc` asks for is not met in general.
* From the arithmetic alone, without a property: the charge to a task of weight above
  1024 rounds down to 0 (`sched/task.rs:394`); a sleeper's vruntime is never advanced
  (`sched/scheduler.rs:318`); interrupt frames of resumed tasks are bounded only by
  timing (`idt.rs:245`); `MAX_BITMAP_WORDS` covers 1 GiB while the heap's size has no
  cap (`allocator.rs:171`); a calibrated frequency below 250 Hz gives an initial count
  of 0 (`apic.rs:308`), and one above 4.29 GHz overflows `u32` (`apic.rs:215`, `246`); a MADT entry of length 0 stops the walk (`acpi.rs:560`).

## 4. Proofs

Every theorem is about the specification the runs check, for all values of its constants
that satisfy the module's `ASSUME`; TLC evaluates the same assumptions on its instances.
The bounds (`MaxIrqDepth`, `MaxCommands`, `MaxRan` and so on) are among the constants, so
the results hold whatever they are. Safety is proved with an inductive invariant each:

**`SchedProofs`**, from `SchedAssumption`: `SchedSpec` implies every invariant and action
property of `Sched`, and its type correctness. `SchedInv` is the conjunction of the
invariants: `OneHome` is needed to know that the task popped from a queue is not parked
as well, `StateMatchesHome` that a queued task is `Ready`, and `NoWakeupOverlooked`
follows action by action. One lemma per operation (`AddTaskInv`, `BlockInv`, ...).

**`KernelProofs`**, from `KernelAssumption`: `Kernel` implements `Sched`, so the theorems
of `SchedProofs` carry over, and `MutexSpec`, whose `running` is `CURRENT_TASK`; mutual exclusion; a softirq keeps its CPU;
no timer is stranded; and the block and wakeup protocol.
- `KernelInv` is the types and `SchedInv`: every action of `Kernel` that calls the
  scheduler is a step of `Sched`, the others leave its variables alone.
- `MutualExclusion` is inductive with the types: only the compare-and-swap sets the flag.
- `SoftirqStaysOnCpu` needs `BootQuiet`: before the first `schedule()` nobody has a frame.
  A frame in the softirq is always the current task's, because the exit path of a nested
  tick returns while `IN_SOFTIRQ` is set.
- `NoStrandedTimer` needs `SoftirqStaysOnCpu`, so that the one frame that drains the queue
  is the one that finds it empty.

- `NeverRunsBlocked` needs `BlockInvariant`: the idle task never leaves its loop, so
  `schedule()` always finds a successor for a task that blocks.
- `OneWakePerWait` is proved as `WakeInv`. `Token` names the places a wakeup can be
  (timer, pending queue, callback frame, wait queue, waker, `WAKEUP_PENDING`); each
  action moves, creates or consumes one, and the lemmas show that a task has at most one,
  and one while it waits.
- `SleepNeverEarly`, an action property, needs `TimerKeepsTime`: while a sleep has time
  left its timer is queued with just that time, so by `Unique` no wakeup can reach it.

**`CfsProofs`**, from `CfsAssumption`: ticks are charged exactly once; equal weights share the CPU within a tick. `CfsInv` adds to the types and `SchedInv`
that nothing is charged before there is a current task and that tasks outside
`Cooperative` never block. `ShareInv` says of two such tasks of equal weight that they are
level or one tick apart, in vruntime as in time, and that the one on the CPU is not the
one ahead.

**`HeapProofs`**, the heap from the bottom up.
- `FreeList`: `Linked` for any set of blocks. That no block is on the list twice is needed
  to know that unlinking by a block's own links leaves the others' in place, and that
  links of blocks off the list are never read is why `Scribble` is harmless.
- `Buddy`, from `BuddyAssumption` (any region, any number of orders, any requests):
  `Tiled`, `BitmapMatchesLists` and `NoFalseOutOfMemory`. `BuddyInv` adds to them that
  blocks are aligned to their size, that no block is handed out twice and that no two free
  buddies are left below the highest order (`Merged`). The arithmetic is what the provers
  lack: that `2 ^ k` doubles from one order to the next is taken from the cardinality of
  power sets, the one place in the library where the exponent is characterised; from that
  follows that aligned blocks of two orders are nested or disjoint. One lemma says that
  replacing a block by blocks with the same pages keeps a tiling, so that a split and a
  merge are the same argument in the two directions. Without `Merged`, memory that is free
  and aligned might lie in two halves that no list offers (`NoFalseOutOfMemory`).
- `Heap`, from `HeapAssumption` and `BuddyHalf`: `NoOverlap`, `SlabConserved`,
  `AlignedInRegion`, and `HeapUsesBuddy`: every behaviour of the heap is one of `Buddy`, so
  the theorems on `Buddy` carry over. `HeapInv` says of each pointer held where it came
  from, slab or page, and that `deallocate` computes the same class or page from pointer and
  layout. Size classes that double, from a power of two, and alignments that are powers of
  two are those of `SIZE_CLASSES` (`allocator.rs`) and of Rust's `Layout`; `BuddyHalf` says
  which region `init` gives the buddy allocator and which sizes `alloc` asks it for.

**`CompositorProofs`**, from `CompositorAssumption` (glyphs are inside the cells of their
text; no command touches another writer's region, as the regions in `main.rs` and
`debug_overlay.rs` are disjoint): `NothingLost` and `DirtyCovers`, for any screen. `LockInv`
says who is inside a buffer's mutex, and that the compositor is only in the buffer at the
head of its frame; so a flush never lands between rendering and clearing. `NothingLost` then
rests on `PaintConcat` and `PaintFirst`: painting a queue is painting its first command, or a
first part of it, and then the rest. `DirtyCovers` rests on `MarkDirtyCovers` and
`InkInArea`: `mark_dirty` never uncovers a pixel, and clipping drops none of the screen.
From `WriterAssumption` (sizes, colours and positions are unsigned, text is bytes), for any
regions and ASCII programs of any length: `BatchingInvisible` and `TextInRegion`. The loops over
text and calls are folds, and the library's induction cannot be used for them; `FoldSolves`
gives the fold's equation a solution on the sets of indices with the lemma `LeastNat`, and
`FoldSteps` the values the fold passes through, along which a property is carried with
`NatSet`. `Shown(w)` is what `w` has drawn once its waiting text is committed; each method
adds to it what it draws, whether text waits or not. Two writers are `Alike` when they show
the same and their pens agree: a batching and a flushing writer stay alike, byte by byte and
call by call. `Tidy` says that all that is shown is inside the region and that waiting text
ends at the cursor; wrapping and clearing happen before a byte is added, which keeps it.

**`VisualizationProofs`**, from `VisualizationAssumption`: `WholeFrames` with `FrameInv`
(buffers and the copy end in whole flushes; the UI task copies only while the compositor
waits) and `WaitedForRendering` with `RoundTrips`, the stages of one flush from an empty
buffer to the wakeup that answers it.

**`MsiProofs`**, from `MsiAssumption`: `CapabilityFound`, `SentAsAsked`,
`FailureChangesNothing` and `NeverMute`, for any devices, table sizes and vectors. A call is
a list of register writes, between any two of which the device may signal. `MsiInv` looks
ahead: the registers after each of the writes still to come are a function of the registers
and the writes (the last write to a register decides), and making a write does not change
what that function says of the rest. What a call needs is therefore shown once, when it
begins, from the order of its writes (disabled first, enabled after everything else).
`CapabilityFound` is a pigeonhole argument: a list without a cycle has no more entries than
there are slots, so the walk's bound never cuts it short, and a cyclic one ends there.
`MsiAssumption` takes the number of slots from the configuration space's size, as
`pci.rs` computes it, and has the firmware leave MSI-X enabled only where its BAR has an
address, without which the device could not have been used.

**`BootProofs`**, from `PagingAssumption` and `BootAssumption`: `KernelProtected`,
`DeviceUncached`, `NoStaleTlb` and `MemoryUsable`, for every machine that `MachineOK`
admits and any sizes of pages and tables. `BootInv` describes the tables from the switch of
CR3 on: as `init` wrote them from `BootInfo`, except that chunks of the framebuffer may have
become huge pages and pages outside the kernel registers. `Walk` computes what the MMU finds
in such tables; `MmioSearch` shows that the binary search over the merged ranges decides
whether an address is MMIO; `KernelInMemory` that the kernel is neither MMIO nor above the
limit. The lemma `LeastNat` (a set of naturals has a least element) stands in for induction.

Every safety invariant and action property that a run checks is stated by a theorem. Only
model-checked remain the liveness properties (`SleepersWake`, `DemosWake`, `EventuallyShown`),
since neither fairness nor `ENABLED` is within the prover's reach, and the three runs that
are expected to fail, which show a counterexample.

## 5. Not modelled

Left out for good: exception handlers that report and halt, GDT/TSS set-up, serial
output, pixel drawing and fonts, the drawing of the visualizations' panels (all of
`allocator_visualization.rs`), and what the UI task merely displays. The delay loops of
HPET and PIT spin on hardware counters and change no state of the kernel; a model would
say nothing but the arithmetic. `wake_all`, the spin fallback of `lock()`,
`unmap_huge_2mb`, `map_huge_1gb`, `unmap_huge_1gb` and the pipe of `flowing_commands`
have no callers.
