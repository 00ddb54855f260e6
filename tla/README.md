# TLA+ models of the NoobWerks engine

NoobWerks is a C++ game engine. Its own code is under `Source/`; everything
under `External/` is third-party and is left aside. These modules model the
parts of the engine where behaviour depends on several threads, on the order of
calls, or on a bounded resource. Paths below are relative to `Source/Engine/Runtime/` unless they
begin with `Source/`.

## 1. Inventory

| Component | State it keeps | Operations | What is hard |
|---|---|---|---|
| **Job queue** `Core/Tasking/JobSystem_Jq.cpp` | `Jq2State`: 2047 job slots recycled through 64-bit handles, a tree of parents and children over them, five priority lists, a free counter, a semaphore and a condition variable; a thread-local stack of running jobs | `Jq2Start`, `Jq2Add`, `Jq2GroupBegin/End`, `Jq2Wait`, `Jq2ExecuteChildren`, `Jq2WaitAll`, `Jq2Stop`, the worker loop | threads that run jobs inside waits inside jobs; slots recycled under handles that are still in use; signals after unlock; a full pool |
| **Scheduler interface** `Core/Tasking/TaskSchedulerInterface.*` | none (a serial and a parallel implementation) | `AddJob`, `waitFor`, `waitForAll`, `beginGroup/endGroup`, the wrapper that runs and destroys the job's data | the split of a range, who destroys shared data, both implementations meaning the same |
| **Slow tasks** `Core/Tasking/SlowTasks.cpp` | one FIFO per priority, a counter, a flag, a list of executed tasks, two locks and a condition variable | `add` (any thread), the background thread, `Tick` and `Shutdown` (main thread) | missed wake-ups, shutdown against a sleeping thread, the list handed from one thread to another |
| **Coroutines** `Core/Tasking/TinyCoroutines.*` | a fixed array of tasks allocated in a ring | `QueueTask`, `UpdateOncePerFrame` | deletion order against the ring allocator |
| **Scratch allocator** `Base/Memory/ScratchAllocator.cpp` | a ring of blocks with headers, a tail (first used byte) and a head | `Allocate`, `Deallocate` in any order | wrap-around with a filler, blocks freed out of order, full against empty |
| **Other allocators** `Base/Memory/*`, `Core/Memory*` | stacks, pools, free lists, a table of heaps | allocate, free | pointer arithmetic, single-threaded |
| **GPU frontend** `GPU/Private/Frontend/Frontend.cpp` | a frame of commands with their sort keys, pools of handles, blocks of the temporary heap | `Create*`, `updateBuffer`, `Delete*`, draw calls, `NextFrame`, `Shutdown` | commands are executed in another order than they were recorded in; full buffers and pools; who releases a block |
| **Assets** `Core/Assets/*`, the loaders in `GPU/Private/Frontend/GraphicsResourceLoaders.cpp` | a map of loaded instances, a list of mounted packages | `Load`, `Unload`, `Reload`, `MountPackage` | a failed load in the middle, loads inside loads |
| **Engine main loop** `Engine/Engine.cpp`, `Engine/WindowsDriver.cpp` | the order of start, frame and stop | `SlowTasks::Initialize` (361), `Jq2Start` (417), `Jq2Stop` (520), `SlowTasks::Shutdown` (525), `SlowTasks::Tick` (660) | shutdown order |
| **Object model, entities, events, client, console** `Core/ObjectModel`, `Core/*.cpp` | typed object lists, dispatch tables | create, destroy, post | single-threaded |
| **Hot reload** `Source/Engine/Developer/EditorSupport` | a queue of changed files filled by a watcher thread | notify, process | reload during use |
| **Rest** (rendering, physics, sound, scripting, voxels, text, tools, games) | | | numerical code, input and output, adapters of libraries |

How they interact: the main thread starts the slow-task thread and the job
workers, calls `AddJob` and `waitFor` in a frame (`AnimatedModel.cpp:215`,
`physics_mgr.cpp:838`), often inside a group, waits for everything at the end
of a frame (`game_app.cpp:373`), lets `SlowTasks::Tick` call the executed tasks
back, and at the end calls `Jq2Stop` and then `SlowTasks::Shutdown`. The job
queue's workers have no other connection to the slow-task thread. The temporary
heap of the engine, and the scratch heap of each worker, is a scratch
allocator. The asset loaders read files into blocks of the temporary heap and
create GPU resources with them: the frontend keeps each block until the
frame's commands have been executed.

What makes each of the modelled components correct:

* *Job queue*: a handle is done only when every sub-job and every job added
  under it has ended, and stays done; no sub-job is lost, or run or counted
  twice; a slot is not recycled while a thread still works for it; a sleeping
  worker never misses work; every wait and `Jq2Stop` return.
* *Ranges*: every item is processed once, evenly spread; the shared data is
  destroyed once, after its last use.
* *Slow tasks*: order per priority; each task is executed once, then finalized
  once on the main thread; no missed wake-up; `Shutdown` returns.
* *Scratch allocator*: clients' blocks do not overlap, are aligned and inside
  the buffer; the ring looks empty exactly when it is; a free finds its header.
* *GPU frontend and assets*: a command finds what it uses on the backend; what
  the table of assets says exists, exists; no block of the temporary heap is
  released twice or by nobody.

## 2. Modules

| Module | Models | Role |
|---|---|---|
| `JobPool` | the slots, handles and the tree of the job queue, one step per critical section | the abstract specification: what the pool promises |
| `JobPoolProofs` | | theorems about `JobPool` for every size |
| `JobSlots` | the data behind `Jq2State.Mutex` and the functions that change it under the lock | operators from pools to pools, used by `JobQueue` |
| `JobQueue` | all threads and all entry points of the job queue | the detailed specification; implements `JobPool` |
| `JobSlotsProofs` | | lemmas: what each operator of `JobSlots` returns and preserves |
| `JobQueueProofs` | | lemmas: what a step does to the invariant of the queue, kind of step by kind of step |
| `JobQueueSafety` | | the inductive invariant of `JobQueue`, action by action, and its theorems |
| `MCJobQueue` | | constants of the runs of `JobQueue` |
| `JobRange` | the split of a job in both schedulers and the destructor call | one job's life |
| `JobRangeProofs` | | theorems about `JobRange` |
| `SlowTasks` | `add`, the background thread, `Tick`, `Shutdown` | the second scheduler |
| `SlowTasksProofs` | | theorems about `SlowTasks` |
| `Heap` | what an allocator promises its clients | the abstract specification |
| `ScratchRing` | the scratch allocator, byte offset by byte offset | the detailed specification; implements `Heap` |
| `ScratchRingProofs` | | theorems about `ScratchRing`, the refinement among them |
| `GpuFrontend` | the operations of the frame commands | composed by `GpuAssets` |
| `GpuAssets` | the table of assets, the loaders and a client over `GpuFrontend` | the composition |
| `GpuAssetsProofs` | | theorems about `GpuAssets` |
| `MCGpuAssets` | | constants of the run of `GpuAssets` |

### JobSlots and JobQueue

`q` is a record with a function over the slots for each field of `Jq2Job` that
matters (`nStartedHandle`, `nFinishedHandle`, `nNumJobs`, `nNumStarted`,
`num_finished_jobs`, `nParent`, `nPrio`, `nWaiters`) and `nFreeJobs`,
`nNextHandle`. The two linked structures (`nLinkNext/Prev` with the heads and
tails, `nFirstChild/nSibling`) are sequences of slots; `TreeExact` and
`QueueExact` say that they agree with the fields. `Jq2CheckFinished`, recursive
in the code, is the set of slots it completes on its way up the tree
(`CheckFinished`: the least set that holds the finished slot and climbs to a
parent that has nothing left, written as an intersection so that no recursion is
needed), and `Jq2TreeIterate` with `Jq2TakeChildJob` is the first
slot of the post-order that has a sub-job left (`ChildSlot`).

`stack[t]` is the call stack of thread `t`: user code at the bottom (main
thread) or in a job function, and in between the queue functions it has called.
A `work` field is the local variable `nWork`/`nIndex`: the slot whose sub-job
was run and is still to be counted. `Jq2Self()` and `Jq2SelfPos` are computed
from the stack. A critical section of `Jq2State.Mutex` is one action. The one
that may not end is the loop of `Jq2FindHandle` on a full pool: `mutex` names
the thread that is in it, every other locked action is disabled meanwhile.
What happens outside the lock is separate: the signal of `Jq2Add` after
unlocking (`AddSignal`), the unlocked tests of `Jq2IsDone` and `nFreeJobs`
(`Wait`, `WaitDone`, `WaitAllDone`), the test of `nStop`.

| Code | Actions |
|---|---|
| `Jq2Add`, `Jq2GroupBegin` | `Add`, `GroupBegin`, `AddSignal`; on a full pool also `FindFinish`, `FindAgain` |
| `Jq2GroupEnd` | `GroupEnd` |
| return of a job function | `UserReturn` |
| `Jq2Worker` | `WorkerTest`, `WorkerScan`, `WorkerWake` |
| `Jq2Wait`, `Jq2ExecuteChildren` | `Wait`, `WaitTake`, `WaitDone`, `WaitBlock`, `SpuriousWake`, `WaitWoken` |
| `Jq2WaitAll`, `Jq2Stop` | `WaitAll`, `WaitAllTake`, `WaitAllDone`, `StopSet`, `StopSignal`, `StopJoin` |

The client is nondeterministic: any thread in user code may add jobs, open and
close groups, and wait for handles it was given in the same function; the main
thread may wait for all and stop, outside jobs and groups. A program may not
wait inside a group for the group itself. This is how the clients in the
repository behave.

`JobQueue!PoolSpec` is `JobPool!Spec` with the fields of `q` for its variables
and the domain of the history variable `jobs` for `issued`: every step of the
queue is a step of the pool or leaves it alone. `JobQueueSafety` proves it
(`ImplementsPool`), and a run checks it.

### JobRange

The behaviour of one job of `num` sub-jobs over `range` items: `Call` hands out
the next sub-job, `Return(i)` is `Run` on its items and the destructor if it
was told `is_last_job`. `serial` chooses the scheduler. `Request` has the
defaults of `Jq2Add` and the single call of the serial scheduler.

### SlowTasks

`background` and `main` are program counters. `pendingTasksCS` is held for a
step at a time and is not a variable; `completedCS` is, because `Tick` keeps it
through its callbacks. The notification of `add` comes after its unlock
(`notifying`). A callback of `Tick` may add tasks: the action `Add` is enabled
for the main thread during a tick. `ShutdownBegin` is the section of `Shutdown`
with the recursive lock, including the notification of the inner `add`.

### ScratchRing

All pointers are offsets from `_buffer_start`; `Base` is the address of the
buffer, because alignment looks at addresses. `hdr` maps the offset of each
header between `tail` and `head` to its size, its free bit and the pointer that
was returned for it; `blocks` and `aligns` are what the clients asked for.
`Allocate` lays the block out at the head, or behind a filler at offset 0, and
tests the end of the block alone with `IsAddressInUse`, as the code does.
`Deallocate` marks the block and moves the tail: `_MoveFreePointerPastFreeBlocks`
is a loop in the code and here the first busy block after the tail
(`NewTail`). A request that the ring refuses goes to the backing allocator. The
engine takes a lock (`ThreadSafeProxyHeap`) around each call or gives every
thread its own ring, so that a call is one step.

### GpuFrontend and GpuAssets

`queue` is the set of the frame's commands; the order they were recorded in
does not matter, because `NextFrame` sorts them. `Before` is the order of the
sort keys (command type, then handle), and `Execute` takes any command that has
none before it: `std::sort` may leave equal keys in any order. `nPut` counts
the commands in the command buffer (deletions are kept as bare sort items).
A command that finds no room is lost, as in a release build, where the callers
of `addFrameCommand` ignore its error; `dropped` and `leaked` are histories of
what is lost then. With `LLGL_MULTITHREADED = 0` and
`LLGL_CREATE_RENDER_THREAD = 0` (`graphics_config.h`) recording and execution
alternate on one thread (`phase`).

| Code | Actions |
|---|---|
| `Resources::Load`, `TbTextureLoader` | `LoadTexture`, `LoadTextureFails` |
| `Resources::Unload` | `UnloadTexture` |
| `Resources::Reload` | `ReloadTexture`, `ReloadTextureFails` |
| `TbShaderProgramLoader::create`, `TbShaderLoader::create` | `BeginProgram`, `BeginProgramFails`, `ShaderPresent`, `LoadShader`, `LoadShaderFails`, `FinishProgram` |
| `CreateBuffer`, `UpdateBuffer`, `DeleteBuffer`, draw calls | `CreateBuffer`, `UpdateBuffer`, `DeleteBuffer`, `DrawWith` |
| `NGpu::NextFrame`, `NGpu::Shutdown` | `NextFrame`, `Shutdown`, `Execute`, `EndFrame` |

A program's load is several steps, one per shader, since each of them is a call
of `Resources::Load` that may succeed, find the shader in the table or fail.
A failed one leaves the table with the shaders loaded so far and leaks the
program's block (`LoadShaderFails`): `TempExact` and `ResourcesExact` say
exactly what is left behind.

## 3. Runs

| Run | Question | Result |
|---|---|---|
| `pool` | do slots, handles, doneness and tree stay consistent over recycling? | holds, about 78 000 states |
| `jobs` | with threads, groups, nested waits and a full pool: is work neither lost nor counted twice, does done mean ended, does the queue implement the pool? | holds, about 346 000 states |
| `wakeup` | do late, clamped and refused signals keep enough workers awake? does `Jq2Stop` find nothing left? | holds, about 457 000 states under symmetry |
| `progress` | under fairness, do jobs, waits and `Jq2Stop` complete? | holds |
| `hang` | does an add to a full pool return? | **no**: see below |
| `lostwakeup` | is a blocked waiter always still to be notified? | **no**: see below |
| `range` | is every split complete, disjoint and even? | holds; the serial scheduler drops the remainder |
| `destructor` | is the shared data destroyed after its last use? | **no**: see below |
| `slowtasks` | order, no lost task, no missed wake-up, shutdown returns | holds, about 91 000 states |
| `scratch` | do the blocks tile the used part of the ring? is empty told from full? does the ring implement `Heap`? | holds, about 47 000 states |
| `overlap` | are clients' blocks apart for all requests? | **no**: see below |
| `graphics` | do re-sorted commands find what they use? do table and backend agree? is each temporary block released once? | holds, about 1 490 000 states |

### Disagreements with what the code says of itself

* **`hang`** (`JobSystem_Jq.cpp:1021`): with every slot pending and no queued
  sub-job, `Jq2FindHandle` loops without ever unlocking, and a slot can only be
  freed under the lock. The interface promises "If the job queue is full, the
  job is run". It takes 2047 jobs that are running, waiting for children or
  groups, none of them queued.
* **`lostwakeup`** (`JobSystem_Jq.cpp:1216`): a thread woken late decrements
  `nWaiters` of the slot's next job, 0 becomes 255, the next waiter makes it 0
  again, and the end of that job does not "kick waiting threads". The run has
  two slots, so a slot is reused quickly. With 2047 slots the slot must be
  reached again by `nNextHandle` before the woken thread gets the lock.
* **`destructor`** (`TaskSchedulerInterface.h:93`): `is_last_job` marks the
  sub-job with the last range, not the last one to finish. With fewer items
  than sub-jobs it is true for several of them (this is why
  `DeletedOnceIfEnoughItems` has its condition).
* **`overlap`** (`ScratchAllocator.cpp:207`): only the end of a new block is
  tested for being in use. A request that wraps is moved to the start of the
  buffer, and if it is long enough to end behind the old head, in the bytes the
  wrap has just skipped, its end looks free although its start lies on blocks
  in use. `ScratchAllocator.h:28` promises that an exhausted ring uses the
  backing allocator instead. `ShortRequests` is the condition under which this
  cannot happen; the run breaks it with a request of half the buffer. The
  engine's requests are short compared to its rings, but nothing enforces it.
* Not a run: `SlowTasks.h:86` says of `Shutdown` "Waits for all tasks to
  complete", but the thread takes at most one more task, the others are
  forgotten, and executed tasks are never finalized (`ShutdownJoin`).
  `SlowTasks.h:89` calls LIFO what line 53 and the code make FIFO.
* Not a run: the serial scheduler leaves out the last `range % num` items
  (`SerialMissesRemainder` states exactly which), the parallel one does not.
  No sub-job ends at the end of the range then, so none is told `is_last_job`
  and the data is not destroyed.

### Bounds

* `pool`: 3 slots and handles up to 7 (six of them, as multiples of 4 are
  skipped), so that every slot is used twice and a parent, a child and a
  grandchild exist at once; up to 2 sub-jobs. The theorems drop the bounds.
* `jobs`: `MaxAdds = 4` over 3 slots, so the pool fills and a slot is recycled;
  one worker and the main thread run at once; jobs of one sub-job.
* `wakeup`: 2 workers and jobs of 3 sub-jobs, so that every signal is clamped
  (to 2); `MaxAdds = 3`, so that the third signal can find the semaphore above 2
  of its maximum of 4 and be refused, also while a worker sleeps; two slots, so
  that the third job is added to a recycled one. Threads wait as
  `Jq2ExecuteChildren` does, which takes sub-jobs from the tree while the workers
  take them from the lists. The workers are symmetric. All jobs have one priority
  here, and the list of the other stays empty: `QueueIsExact` and `EnoughAreAwake`
  hold for any number of priorities.
* `progress`: 2 workers, without symmetry, two jobs of one sub-job or groups;
  waits that block, that poll and take any work, and that only take children. No
  signal is clamped or refused here and no slot is recycled: that the clamp and
  the refusal lose no wake-up is what `wakeup` and the theorem `EnoughAreAwake`
  show.
* `hang`, `lostwakeup`: the smallest pools that show the behaviour.
* `range`: up to 4 sub-jobs over -1 to 9 items on 3 threads: fewer items than
  sub-jobs, exact and inexact division, no items.
* `slowtasks`: 3 tasks, 2 priorities, 2 adding threads: two tasks in one queue
  and one in the other.
* `scratch`: 56 bytes at an address that is not a multiple of 16, requests of
  1, 8 and 12 bytes at alignments of 4 and 16, so that padding, fillers of
  several sizes, blocks that end exactly at the end and up to six blocks at
  once occur; one block of the backing allocator at a time. `ShortRequests`
  holds for these constants.
* `overlap`: 48 bytes and requests of 4, 12 and 24.
* `graphics`: one texture (three handles: loaded, reloaded, exhausted), one
  program of two shaders, one buffer, three commands to a frame and three
  blocks, so that the handles, the command buffer and the heap all run out.
  It has `CHECK_DEADLOCK FALSE`, because the program stops after `Shutdown`.
* `PoolMayFill = FALSE` (wakeup, progress, lostwakeup) keeps the client from
  adding to a full pool, because `hang` would then be the only liveness
  result. `MaxStack` is 8 as in the code and is not reached. `MaxAdds` bounds
  the history; it is a bound on the client and not in the code.

### Fairness

`JobQueue!Fairness`: weak fairness of the steps of each thread inside queue
functions (the operating system runs every thread and hands out the critical
section in the end), of the return of a job function and of the end of a group
(jobs are finite, groups are closed). Nothing makes a program add, wait or
stop, and nothing makes spurious wake-ups happen. `SlowTasks!Fairness`: weak
fairness of the background thread, of the callbacks and of a thread that is
about to notify; strong fairness of the background thread's attempt to lock
`completedTasksCS` (`Tick` holds it again and again) and of `Tick` itself,
which the main loop calls every frame. `ScratchRing` and `GpuAssets` are
sequential: nothing makes a client call them, and no liveness is claimed.

## 4. Proofs

`JobPoolProofs` proves for every number of slots, handles and sub-jobs that
`JobPool!Spec` implies `TypeOK`, `PendingExact`, `ParentOlder`,
`NotDoneOwnsSlot`, `DoneStable` and `RunningKeepsHandle`. The inductive
invariant `IInv` adds `Counted` (finished <= started <= number of sub-jobs) and
`OwnHandles` (a slot holds handles of its own residue, below `nNextHandle`):
without them a new handle could be one already given out, and a slot could be
completed with a sub-job still running. `Completed(s)` is a least fixed point,
written as an intersection of closed sets, so that no recursion is needed: the
lemmas show that it is closed, and that each of its members was pending with
nothing left and with all its children in the set.

`JobSlotsProofs`, `JobQueueProofs` and `JobQueueSafety` prove the safety of the
job queue with all its threads, for every number of workers, slots, priorities,
sub-jobs and adds, every depth of the self stack and every choice of waits,
groups and full pools: `TypeOK`, `DoneMeansEnded`, `SlotPinned`,
`WorkAccounted`, `FreeExact`, `TreeExact`, `QueueExact`, `StopFindsNothing` and
`EnoughAwake`, and that the queue implements `JobPool` (`PoolSpec`).
None of them is inductive alone. The invariant has three layers:

* `PoolInv`, about the data behind the mutex: handles of a slot's own residue
  below `nNextHandle`; finished <= started <= asked for; a slot is pending
  exactly while something of it is unfinished or a child is left; the sibling
  lists, the priority lists and the free counter agree with the fields.
  `JobSlotsProofs` shows that each function that runs under the lock keeps it.
  For `Jq2CheckFinished` this needs that the slots it completes are a chain,
  each the only child left of the next (`OnlyChildren`), so that removing them
  from the sibling lists of their parents removes nobody else.
* `Inv`, which ties the stacks of the threads to the pool. `Shape`: which frame
  may lie on which (a job function lies on the call that will count it).
  `Accounted`: the started sub-jobs of a slot that are not finished are the
  frames that hold it as `work` and the groups open on it. `AllPinned`: a
  running job, an open group and a job that is waited for still own their slot, or
  have at least been issued. `Apart`: no two frames run the same sub-job.
  `Table`, `EndedOf`, `UnderOf`: the history agrees: a job has ended as many
  sub-jobs as the pool has counted and those that returned to a caller that has
  not counted them yet; a job's parent is the job it was added under, while both
  are pending.
* `IInv` adds the thread that keeps the mutex (`Held`), that the main thread is
  past `Jq2WaitAll` when it stops (`Stopping`) and the range of the semaphore.

Each is needed: that a finish is not counted twice (`Counts` after the step)
needs `Accounted`; `Accounted` needs that two frames are not one and the same
sub-job (`Apart`) and that the caller of a job function is still there
(`Shape`); that a slot is not recycled under a running job needs that it is
pending, which it is because `Accounted` finds it unfinished; and that a done job has
ended its sub-jobs needs all of it. The proof has a lemma for each kind of
step (`Jq2IncrementFinished`, `Jq2IncrementStarted`, a call, a return, a wake-up,
a group, an issued handle), one for each action, and the theorem `Invariance`.

The refinement (`ImplementsPool`) has a lemma for each action too. It says what
the critical section does to the pool: it finishes a sub-job, starts one, or
both (`Moved`, `Keeps`); it is a pass of `Jq2FindHandle` on a full pool
(`Filled`); or it issues a handle (`Found`, `Issuing`). Two facts are not plain
from the code. The climb of `Jq2CheckFinished`, which is a recursive function,
completes exactly the least fixed point `Completed(s)` of `JobPool`. And the
handles stay in the range of `JobPool`: `Bounded` says that the handles issued
and the calls of `Jq2FindHandle` under way are at most `MaxAdds` and that
`nNextHandle` is at most `1 + MaxJobs * |issued|`, because a search for a free
slot advances by fewer than `MaxJobs`. The constants of `JobPool` then meet its
assumptions, so its theorems hold of the queue with all its threads:
`DoneForGood`, `NotRecycledWhileRunning` and `TreeHasNoCycle` are the theorems
of `JobPoolProofs` through the refinement mapping.

`EnoughAwake` follows from `Served`, inductive under `IInv`: with the sub-jobs
that nobody has taken, the workers that look for work, those that sleep and the
signals still to be sent taken as finite sets, either the semaphore, the
workers that look and those signals are enough for the sub-jobs, or the
semaphore and those signals are enough for all who sleep. The second case is
what the clamp of the signal to the number of workers needs (`SufficeAdd`), and
also why a semaphore that refuses a signal loses nothing: it already holds more
than the number of workers (`SufficeSend`). A worker that finds nothing leaves
the workers that look, and then nothing is left (`SufficeNone`), which is
`QueueExact`.

`JobRangeProofs` proves for every number of items, sub-jobs and threads that a
job's split is even (`EvenSplit`), that no item is processed twice
(`EachItemAtMostOnce`) and that the job queue misses none
(`QueueMissesNothing`). The arithmetic is in lemmas about division and
`GetRangeStart` (the starts grow, the first is 0, the last is the range); the
invariant says that `done` counts exactly the items of the returned sub-jobs.

It also says which items the serial scheduler leaves out
(`SerialLeavesRemainder`), and that the destructor runs exactly once when there
are at least as many items as sub-jobs (`DestroyedOnce`): only then are the
ends of the sub-jobs all different, so that the last alone ends at the range.

`SlowTasksProofs` proves the safety properties of the slow tasks for any number
of tasks, priorities and threads. `SleepIsNoticed` is inductive by itself. The
order needs to know where things are: `Enqueued` is all that was ever enqueued
at a priority, the dummy task of `Shutdown` included; each queue is `Enqueued`
less its first `NumTaken` tasks (`QueuesExact`), which are those that have been
executed or are being executed (`TakenExact`). The list of executed tasks is
the end of the history `executed`, from `ListStart` on, less the one task that
the thread has not appended yet (`ListExact`); `Tick` moves through it while
`completedCS` keeps the thread out. `FifoPerPriority`, `FinalizedInOrder` and
`NothingDropped` follow.

`ScratchRingProofs` proves for every buffer, address, set of sizes and set of
alignments that under `ShortRequests` the ring keeps its types, `RingTiled`,
`EmptyExact` and `BlocksApart`, and implements `Heap` (`Implements`). The first
three are inductive together: that the free walk ends at the right header needs
the tiling, and that the tiling survives a wrap needs that a full ring is never
taken for an empty one. Without `ShortRequests` the theorem is false, which is
what the run `overlap` shows. The oldest busy block, a loop in the code, exists
as a least natural number (`WFMin` of the library). That `m_used` is the sum of
the sizes of all the blocks that are not freed (`UsedExact`) is proved on top of
them: the sum is a fold over a finite set, and the lemmas say what one element
more or less adds to it.

`GpuAssetsProofs` proves the three properties of `graphics` for any numbers of
assets, shaders, handles, commands and blocks. `TempExact` follows from the
same account kept block by block (`TempInv`). `ResourcesExact` and
`UseFindsResource` need `ResInv`: no two entries of the table share a handle
(`TableInv`), each command is one the frontend records (`QueueInv`), nobody
mentions a handle that was not given out (`KnownInv`, so that a new one is
new), and what is to be updated, deleted or drawn is there or will be
(`OwnInv`). With it goes `LoadingInv`: a program that is being loaded has no
entry yet, so the new program replaces none. `UseFindsResource` is then the order of the command types: when a
command that is no creation comes next, no creation is left, and when a
deletion does, no update and no draw call is.

Assumptions are the named `ASSUME`s of the modules, all on constants, and
`ShortRequests` where a theorem of `ScratchRingProofs` says so.

Only model-checked: all liveness (out of the prover's reach under fairness),
and that `Jq2TreeIterate` finds a sub-job whenever the tree has one (an
induction over the depth of the tree: the proofs use only that what it finds
can be started). Every invariant and action property of a passing run, and each
refinement, is a theorem.

## 5. Not modelled, and abstractions

* A critical section is one step: readers without the lock (`Jq2IsDone`,
  `Jq2WaitAll`) see its result at once. In the code a parent's
  `nFinishedHandle` is written before the child's, and a 32-bit build writes
  the 64-bit handles in halves.
* The 64-bit handles do not wrap; `LE_WRAP` is `<=`.
* Memory model: flags that are read without a lock (`nStop`, `isRunningFlag`)
  are read as last written.
* The semaphore and condition variable are those of Windows (the branch the
  project builds); the pthread branch at the end of the file is not modelled.
* `Jq2Start` and `Jq2Stop` once per behaviour; statistics and per-thread heaps
  are left out; `g_callbacks` of the slow tasks is fixed before the thread
  starts.
* A negative `nNumJobs` and a self stack deeper than 8 are outside the inputs.
* In `ScratchRing` sizes are mathematical integers (the code keeps a size in 31
  bits of the header, and a ring is far smaller than that).
  `AllocateMaybeReleasingOldBlocks` has no caller and ends in an assertion
  "UNDONE"; the memory tracing is left out.
* In `GpuAssets`: a debug build asserts on an exhausted pool of handles and on
  a full command buffer, the model follows the release build. The lost creations
  and the leaked blocks of that build, and of failed loads, are recorded in
  `dropped` and `leaked`, and the three properties except them: they say that
  nothing else is lost. The heap that is exhausted when
  `TbTextureLoader::load` allocates is left out (the code writes through a null
  pointer and does not continue). The commands are a set: two updates of one
  buffer without a block are one command, which changes neither what exists nor
  what is released; the command buffer counts both. Render targets,
  states and input layouts take the same path of code as buffers; transient
  buffers, packages, and the render thread (switched off by the configuration)
  are left out. Shaders and programs are never deleted, because the loaders'
  `destroy` is empty or "UNDONE".
* Coroutines: only the test program uses the queue; the allocator under it is
  `ScratchRing`.
* Most of the repository is third-party code under `External/` and numerical or
  graphics code (rendering, voxels, physics adapters), where no protocol is at
  work and where TLC would only repeat arithmetic. This is why the modules cover
  a small share of its lines. The remaining components without a module are
  left out for the reasons in `PROJECT.json`.

## 6. Plan

What is left, in this order:

1. The order of shutdown of the two schedulers together (a slow task that adds
   jobs to a stopped queue), and a run with a small self stack.
2. The file watcher and the queue of changed assets of the hot reload over
   `GpuAssets!ReloadTexture`; mounted packages.
