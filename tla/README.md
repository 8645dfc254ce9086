# A TLA+ model of libctru

libctru is the user-mode library of 3DS homebrew: threads and locks over the
kernel's address arbiter, GPU command submission, sound, applet life cycle,
allocators, file systems, and wrappers for some sixty system services. This
directory models the parts of it where several threads, or a thread and another
process, work on the same state, and the rules that its hundreds of similar routines
follow by hand; it checks the models with TLC and proves the
main results with TLAPS. Paths below are relative to `src/libctru/`.

Contents: [inventory](#inventory) · [modules](#modules) · [runs](#runs) ·
[divergences](#what-the-code-does-not-do) · [proofs](#proofs) ·
[not modelled](#not-modelled)

## Inventory

| Component | State it keeps | Operations | Hard behaviour | What makes it correct |
|---|---|---|---|---|
| **LightLock** `source/synchronization.c` | one word: sign = held, size = 1 + waiters | Lock, TryLock, Unlock | exclusive stores of several threads, the store that frees and the wakeup are two steps | exclusion; the count; no lost wakeup; a free lock is taken |
| **CondVar** same file | one word: minus the registrations | Wait, WaitTimeout, WakeUp (Signal, Broadcast) | register, release, sleep are three steps; timeouts race wakeups; wakers may not hold the lock | nobody is stranded; the count; a timeout is reported truthfully; wakeups reach waiters |
| **LightSemaphore** same file | count, number of registered waiters, maximum | Acquire, TryAcquire, Release | the two fields change separately; release reads the waiters late | never overdrawn; no lost wakeup |
| **LightEvent** same file | state word, LightLock | Wait, WaitTimeout, TryWait, Signal, Clear, Pulse | the word is read many times without the lock | a wait ends for a reason; one one-shot signal, one waiter |
| **RecursiveLock** same file, `source/system/syscalls.c` | LightLock, tag, counter | Lock, TryLock, Unlock, wait with a condition variable | the tag is read without the lock | exclusion; the holder's level survives |
| **Threads** `source/thread.c`, `source/svc.s` | per thread: heap block with descriptor and stack, flags, handle, exit code | create, exit, join, exit code, free, detach | flags read and written without a lock; who frees the block | freed once, not too early, in the end |
| **GX command queues** `source/gpu/gxqueue.c` | per queue three counters; current queue, three flags, a lock | Add, Run, Stop, Wait, Clear, interrupt | client and event thread; flags used outside the lock | GSP not overfed; nothing left behind; Wait is right |
| **GX command buffer** `source/services/gspgpu.c` | shared ring of 15 slots and its header | submit | the GSP process updates the same header | executed once, in order |
| **GSP events** `source/services/gspgpu.c` | interrupt ring, events, last event, callbacks | event thread, WaitForEvent, WaitForAnyEvent, callbacks, init/exit, framebuffers | overwritten events, one-shot callbacks | an event after the call wakes the caller |
| **GX routing, GPU, shaders** `source/gpu/` | bound queue, command buffer, shader state | GX_*, GPUCMD_*, shader parse and use | bounds of the command buffer | order of commands |
| **gfx** `source/gfx.c` | framebuffer pointers, current buffer, formats | init, swap, set format | swap against VBlank | the buffer drawn to is not the one shown |
| **APT** `source/services/apt.c` | flag word, lock, parameters, hooks, event thread | init/exit, main loop, sleep, home menu, applet launch, chainload | event thread and main thread on one flag word; sleep in the middle of anything | every sleep query is answered; hooks in order |
| **Requests** `include/3ds/ipc.h`, `services/*.c` | the thread's command buffer and static-buffer slots | one IPC request per wrapper | every wrapper counts words by hand and writes over the last request | what is sent is what was stored; the slots are put back |
| **Service manager and sessions** `source/srv.c`, `services/*.c` | handle and reference count per service | init, exit, get handle, notifications | counter changes before the session exists; init that fails half way | a session is open while it is used |
| **Sound** `source/ndsp/`, `services/dsp.c`, `services/csnd.c` | wave buffer queues, master and channel flags, sleep state | sound thread, add buffer, clear, sleep, wake up, cancel | sound thread, application, APT hook, DSP | buffers play once, in order; no update to a sleeping DSP |
| **Allocators** `source/allocator/`, `source/util/rbtree/` | block list, address map, regions | allocate, free, size, merge | a bookkeeping allocation fails half way | no overlap, no loss, full merge |
| **Process start and end** `source/system/`, `os.c`, `env.c` | heap sizes, time reference | heap split, init order, exit, clock | limits and rounding | heaps fit; init and exit mirror each other |
| **File systems** `services/fs.c`, `archive_dev.c`, `romfs_dev.c` | mounts, sessions, exempt archives, open files | mount, unmount, open, seek, session override | fixed tables, per-thread override | an entry is used by its mount only |
| **Input services** hid, ir, irrst, mic, qtm | shared memory, sessions | scan, init/exit | ring written by another process | no torn sample |
| **Network and other services** soc, uds, http, am, act, cam, y2r … | a session each, little else | one IPC request per function | the state is in the other process | sessions as above |
| **Console, font, errf, applets, gdbhio, 3dslink** | cursor, windows, parameter blocks | text, escape sequences, launch, proxy I/O | arithmetic at window edges | the cursor stays in the window |
| **Decompression, UTF, rbtree** `source/util/` | none / a tree | pure algorithms | overlapping copies, invalid input, rebalancing | agree with a reference definition |

How they interact: every lock, event and semaphore sleeps in the kernel's address
arbiter. The C library's locks are LightLocks, RecursiveLocks and CondVars
(`system/syscalls.c`). GSP's event thread calls `gxCmdQueueInterrupt` and the
user's callbacks, then signals a LightEvent; command queues submit through
`gspSubmitGxCommand` both from the client and from that event thread. The event
threads of GSP and APT and ndsp's sound thread are `threadCreate`d detached and
joined on exit. APT's hooks put ndsp and GSP to sleep. Services are opened
through `srv`.

## Modules

The external part of the system is small: the kernel's **address arbiter**
(`AddressArbiter`: a thread may sleep if the word is below a value *at that moment*;
a SIGNAL wakes up to n of the threads asleep, whichever they are), its threads
and handles, and the GSP process.

Exclusive load/store loops are single steps: a store that fails changes nothing,
and the last attempt is atomic. Where an exclusive load and its store have
something in between that matters (`gspSubmitGxCommand`, which copies the
command there), they are two steps and the reservation is modelled.

| Module | Models | State and actions |
|---|---|---|
| `LockThreads` | the threads that use a lock | a finite set, shared by the two lock modules. |
| `LightLock` | `LightLock_*` | `word` is the lock word, `pc` says where a thread is. `LockFree`/`LockHeld` are the first loop of Lock, `Arbitrate` the kernel call, `RetryFree`/`RetryHeld` the second loop, `Unlock` the store, `Signal` the wakeup. |
| `Mutex` | what a lock promises | A request, a grant, a release. `LightLock` implements it; the modules that *use* a LightLock have an owner variable with this behaviour. |
| `CondVar` | `CondVar_*` | `cv` is the word. `BeginWait`, `ReleaseLock`, `Arbitrate`, `Expire`/`ExpiredWait`, `Relock` are the waiter; `WakeUp`, `Signal` the waker. `toOne`, `toAll` remember whom a wakeup was meant for. |
| `LightSemaphore`, `Semaphore` | `LightSemaphore_*`, and what it promises | `current_count`, `num_threads_acq`; each exclusive loop and each kernel call is an action. |
| `LightEvent` | `LightEvent_*` | `state`, and one action per *read* of it, for no lock covers the reads. `seen` and `credit` remember why a wait may end. |
| `RecursiveLock` | `RecursiveLock_*`, `__syscall_cond_wait_recursive` | `owner` of the LightLock, `thread_tag`, `counter`; each read and write of tag and counter is an action. |
| `RecursiveMutex` | what a recursive lock promises | A level entered, left, given up for a wait, taken back. `RecursiveLock` implements it: `level` is the counter for the owner, 0 for the others. |
| `ThreadLifecycle` | `thread.c` | per thread its block, handle, flags, exit code; one action per read or write of a flag by the thread or by its creator. `Uses` selects how creators use threads, `FreedMemoryKept` whether a freed descriptor can still be read. |
| `GxQueue` | `gxqueue.c` | the three counters, `curQueue`, the three flags, `queueLock`; each function is split where it reads a flag outside the lock, and submits one command per step. `RunAfterStop` says whether the client runs a queue again that it stopped early. |
| `GspCommandBuffer` | `gspSubmitGxCommand` | the header, the slots, each producer's loaded header and reservation. |
| `GspEvents` | interrupts in `gspgpu.c` | `ring` with its header, `reserved` for the exclusive load, `signalled` for gspEvent; the event thread's loop, `PopLoad` and `PopStore` apart; `gspEvents`, `gspLastEvent`; a thread in `gspWaitForEvent` or `gspExit`, one in `gspWaitForAnyEvent`. |
| `IpcWire` | `ipc.h`, and what a request is | A request is a row: the header made by `MakeHeader`, the words the wrapper stores, the descriptors among them, what it does to the slots. |
| `IpcFiles`, `IpcTitles`, `IpcAccounts`, `IpcNetwork`, `IpcMedia`, `IpcDevices` | the wrappers of `services/`, `srv.c`, `errf.c` | 1094 rows, one per request composed, grouped by stretches of the source. |
| `IpcCall` | a thread that makes requests | `fresh` are the words of the buffer that this request stored, `slots` the static-buffer slots. `Compose`, `Send` and `Return` are the wrapper; `Translate` is the kernel, which walks the words knowing only the header. |
| `ServiceSession`, `Services` | `*Init` and `*Exit` of 48 services | `Services` has one row per service: the steps of its init, what each acquires, what its failure does to the count and what it gives back. `ServiceSession` runs one: `count`, `users`, `open`, `step`. |
| `Heap` | `mem_pool.cpp`, `linear.cpp`, `vram.cpp` | `pools` are the lists of free blocks, `map` the address map; `MemAlign` and `Free` are one step each, with every malloc failing or not. `lost` counts what a failure leaves nowhere, `aligned` remembers what each buffer was asked to be. |
| `Allocator` | what a heap promises | A stretch of free cells handed out, given back, or mislaid for want of a node. `Heap` implements it: `free` are the cells of the free blocks, `taken` the chunk at the address of each buffer. |
| `RBTree` | `util/rbtree/` | the nodes' links and colours; linking and unlinking are one step, each turn of a rebalancing loop another. |
| `AptParameters` | the relay of parameters in `apt.c` | APT's one `parameter` and its `event`, `relay` (aptReceiveEvent), the places of the event handler and of the main thread. |
| `NdspChannel` | wave buffers in `ndsp-channel.c` | `waveBuf` is the list, `status`, `sequence_id` and the three counters its bookkeeping, `slot` what the DSP sees; `ReadReport` is the sound thread's look without the lock, `TakePassed` what it does with it under the lock, `UpdateChn` the hand-over. |
| `LightLockProofs`, `LightEventProofs`, `SyncProofs`, `ThreadLifecycleProofs`, `GpuProofs`, `IpcCallProofs`, `TreeProofs`, `LibraryProofs` | — | theorems about the modules they extend; `SyncProofs`, `GpuProofs` and `LibraryProofs` extend `MCSync`, `MCGpu` and `MCLibrary`, and so speak of the parts as those compose them. `LibraryProofs` instantiates `TreeProofs`, which is about `RBTree` alone. |

`MCSync`, `MCGpu`, `MCLightEvent`, `MCThreadLifecycle`, `MCCondVar`, `MCIpc` and
`MCLibrary` instantiate these for TLC. `MCSync` has four objects side by side, `MCGpu`
a queue, the ring below it and the interrupts that come back, `MCLibrary` five parts
of the library; they share no state, so one of them moves in each behaviour (`object`,
`level`, `part`) and the runs explore the sum of their state spaces, not the product.
The modules hold *slips*, marked as such or as mutants: variants of single
definitions with a mistake a maintainer could make (a dropped check, an off-by-one,
a missing wakeup). They are not part of the specification; each property is known
to fail for one of them.

## Runs

| Run (`.cfg`) | Bounds | Shows |
|---|---|---|
| `sync` (`MCSync`) | LightLock: 3 threads. RecursiveLock: 3 threads, 2 levels. CondVar: 1 waiter, with and without timeouts, 2 wakers with the lock, any wake count. LightSemaphore: 2 acquirers of 2 units, 2 releasers of 1 or 3, maximum 3. | LightLock: types, no lost wakeup, refinement of `Mutex` (with it, exclusion). RecursiveLock: exclusion, the holder's level and tag, refinement of `RecursiveMutex`, the LightLock is given back. CondVar: nobody is stranded, only waiters are counted, `TimeoutIsTruthful`, and a Signal or a Broadcast reaches the waiter. LightSemaphore: types, the waiter count, refinement of `Semaphore` with its progress. |
| `event` (`MCLightEvent`) | 2 waiters, 2 drivers, both reset types | Waits end for a reason, a one-shot signal releases one waiter, sleepers of a set event wake up. |
| `thread` (`MCThreadLifecycle`) | 2 threads, all five uses, `FreedMemoryKept` | Freed once, not before `finished`, and in the end; no handle closed twice. |
| `gpu` (`MCGpu`) | Queue: 4 commands, batches of 2 (3 in the code), stopped at any time, cleared and reused. Buffer: 2 producers, 3 slots (15 in the code), 7 commands. Events: 2 kinds, a ring of 2 slots (52 in the code), 3 interrupts. | GSP never gets more than a batch, nothing is left behind, `curQueue` is there when the event thread uses it, `Wait` returns when and only when all is done. Commands are executed once, in order, and none waits for ever. Interrupts are taken off in order, none lost or twice; they wake the thread that waits for them, and the one that waits for any; `gspExit` can join the event thread. |
| `ipc` (`MCIpc`) | every row, two slots, any order of requests | The words a request sends were stored by it, and those it stores are sent; the kernel meets the descriptors where they are; the slots are put back. Each but for the wrappers that `MCIpc` names. |
| `library` (`MCLibrary`) | 48 services, 3 users. Heaps of 6 grains in one pool, or 3 in each of two, sizes and alignments of 1 and 2, 3 buffers, at most 1 cell lost. 8 nodes, two of them equal. 5 commands. 4 wave buffers, 2 slots (4 in the code), sequence numbers below 5 (2^16), 1 clear. | A count is the number of users; users have what the service acquires; nothing stays open without them. No cell of a heap is in two places or missing, free blocks are merged, no request is refused that there is room for; refinement of `Allocator`. The tree is balanced, in order and has its contents. Parameters are not left in APT. The channel's list, statuses, counts and slots agree, and a buffer is done for a reason. |

Three threads on a lock are a holder, a waiter about to sleep or asleep, and one
being woken or arriving. A release of the semaphore can be too small for a waiter,
enough for one, and cut short at the maximum. The arbiter wakes one, some or all;
batches are cut short and refilled; the buffer's ring goes round more than twice and is full
on the way, the interrupts' ring once and a half. A heap of
three buffers never runs out of free blocks, which `heap_reinit` shows to matter; two
pools are both tried. Eight nodes make a tree of four levels, where every case of the
insertion and of the removal occurs (TLC's coverage shows each taken). Four wave buffers
are one more than the first and the slots; sequence numbers go round; a clear comes at
every moment of a report. The wave buffers are symmetric (`MCSymmetry`): no liveness is
checked in that run. `MaxDepth`, `MaxRegistered` (never reached), `MaxCommands`,
`MaxInterrupts`, `MaxUsers` and `MaxSync` only keep the state space finite. Deadlock is checked except where the system ends: all threads
exited (`MCThread*`), all commands submitted or the program gone (`MCGpu*`).

The other six runs are [divergences](#what-the-code-does-not-do).

**Fairness.** A thread inside a library function goes on (weak fairness on what
it does next): the kernel runs every runnable thread. Nobody has to make another
call; in particular a holder need not unlock unless the property says so. Which
sleeper a SIGNAL wakes, and who wins a store, is never fair. `LightLock` progress
(`GrantWaiter` in `Mutex`) is that *somebody* gets a free lock that is asked for.
In `GxQueue` each thread gets `queueLock` in the end if it is free infinitely often
(strong fairness), because the lock is only held for a few instructions, and GSP
executes what it was given. In `GspEvents` the event thread and both waiting threads
go on; no interrupt has to come, and nobody has to call or to exit.

## What the code does not do

Each of these is a run that TLC is expected to refute, with the sentence of the
headers it contradicts in `PROJECT.json`.

* `condvar_two`: between releasing the lock and entering the kernel, a waiter can be
  passed over. `CondVar_Signal` then wakes nobody if another waiter is registered,
  since the word the kernel compares is still negative. `CondVar_Broadcast` has the
  same gap if another thread registers in between (`BroadcastWakesAll` fails for two
  waiters too). A single waiter is safe, and so is a predicate loop whose wakeups are
  repeated.
* `thread_join`: `threadExit` sets `finished` before it stores the exit code, and
  `threadJoin` and `threadGetExitCode` trust `finished`.
* `thread_detach`: `threadDetach` and `threadExit` may each leave the block to the
  other; it leaks.
* `gpu_stop_run`: after Stop with commands in flight, completions are not counted; run
  again, the queue never ends and `gxCmdQueueWait` hangs.
* `ipc_header`: `CAMU_SetSleepCamera` sends a header that announces no parameter.
* `heap_reinit`: a heap without free blocks is taken for one not set up; the next
  request initialises it again and hands out memory in use.

The same kinds of thing that have no run of their own are *named* in the models, so that
the properties hold for all the others and a new case would be found:

* Requests (`MCIpc.tla`): 16 wrappers send words that they do not store or store only for
  long enough data (`MCSendsStale`), 8 store parameters that the header does not send
  (`MCLosesWords`), 4 have a descriptor elsewhere than the header says and one where the
  kernel fills in the id of the process (`NIMS_RegisterSelf`, `nim.c:28`; `MCMisplaces`),
  11 do not, or not always, put the static-buffer slots back (`MCKeepsSlots`). Where only
  the comment behind a header differs (`act.c:747`, `am.c:1458`, `ndm.c:187`, `qtm.c:374`
  and others), the header counts.
* Services (`MCLibrary.tla`): for six the count differs from the users once an init has
  failed (`MCMiscounts`): `actInit` decrements the handle, `hidInit` keeps its count,
  `nimsInit` decrements twice, and `aptInit`, `ndspInit` and `mvdstdInit` can return success
  after undoing everything. Seven can leave something open (`MCLeaks`): the handles of
  `hid` and `irrst`, the mutex of `csnd`, the event of `gsp`, a thread of `apt`, memory of
  `httpc`, a session of `sslc`.
* `gspInit` says that it initialises the interrupt queue's header and clears that of the
  command buffer.

Three more orders of the thread code are in the model and have no run of their own.
`threadFree` after such a join frees the descriptor and stack of a thread that has
yet to read `detached` there: with `FreedMemoryKept = FALSE` it may find anything, and
`FreedAtMostOnce` fails. A detached thread may end before its handle is stored; the
handle stays open. Joining a detached thread, as the library does with its own event
threads, may read a freed descriptor.

A semaphore whose users acquire different amounts can wake only threads that
need more than there is, while another sleeps though it could go on. No
document promises otherwise, so it is not a divergence; progress is checked for
equal amounts.

## Proofs

All theorems are for every value of the constants under the modules' assumptions:
finite sets of threads, a non-thread for "nobody", a positive nesting bound, rings with
at least one slot, uses among the five modelled, a table of services or of requests whose
rows are what the module asks of them (`StepsAssumption`, `CountingAssumption`,
`RowsAssumption`, `RestoringAssumption`), sizes and alignments above zero, and a heap of one
region or of two that do not overlap (`HeapAssumption`); TLC evaluates them for each run.
Beyond these, five kinds of theorem assume more, each time because the code is wrong
without it:

| Assumption | Why | Shown by |
|---|---|---|
| `FlagReliable`: freed memory keeps its content until the thread that ran in it has exited, or all threads are created detached | `threadFree` after a join that trusted `finished` | `thread_join` |
| `~RunAfterStop`: a queue stopped early is not run again | its completions are never counted | `gpu_stop_run` |
| `OneWaiter`: at most one thread waits on the condition variable | a second waiter's registration hides the first | `condvar_two` |
| `MCLeaks \subseteq Leaks`: the services named may leak | they do | [the list above](#what-the-code-does-not-do) |
| `RowsAreLaidOut`: a row that is not named has its descriptors where its header says | the rows are data; `ipc` checks those of the library, with the names | the list above |

* **LightLock** (`LightLockProofs`). Exclusion is not inductive: it needs the sign
  of the word to mean "held", which after a retry is right only because the word
  counts the waiters. `IInv` is types, exclusion, the count and no lost wakeup
  together. `NextTyped`, `WaitersMove` (a step moves one waiter, or wakes one) and
  `TakeLock` carry the cases. Theorems: `TypeCorrect`, `LockExcludes`,
  `WordIsAccurate`, `WakeupsAreNotLost`, and `ImplementsMutexSafety`: each step maps
  to a step of `Mutex` or a stutter.
* **LightEvent** (`LightEventProofs`). No lock covers the reads, so what holds is said
  place by place. `ByType`: only the places of its own type are ever reached, and the
  credit of a one-shot event is 1 exactly while it is set, for the store that sets or takes
  it is one step. `Holding`: the lock keeps a sticky event set from its store to its SIGNAL.
  `Noted`: a wait has noted every moment the event was set. No lost wakeup is inductive
  only with these: a store next to a sleeper leaves a waker behind it, and who is woken is
  then awake (`SetStep`, `WakeStep`). Theorems: `PassesAreEarned`, `SignalsPassOneEach`,
  `NobodySleepsOnASetEvent`.
* **RecursiveLock** (`SyncProofs`). `Owned` and `NotOwned` list what owner,
  tag, counter and level are at each place of the code; `FreeIsClean` says a free
  lock has no tag and no count. A step of one thread cannot disturb another
  (`OthersUndisturbed`) since only the owner touches what is shared. Theorems:
  `TypeCorrect`, `RecursiveLockExcludes`, `OwnTagIsOwnership`, `HolderIsUndisturbed`, and
  `RecursiveMutexIsRefined`: what the counter says of the owner of the LightLock goes from
  level to level as in `RecursiveMutex`, which `StepRefines` shows action by action; the
  reads and writes of the tag, and the LightLock taken and released, are stutters
  (`NothingHappens`), for the counter is zero while the owner changes.
* **CondVar** (`SyncProofs`). `CvInv`: the word owes at most as many registrations as there
  are waits in progress, less those that a waker has taken and is about to signal
  (`CvCounted`), and whom a wakeup was meant for still waits. For one waiter `CvOne` gives
  the word exactly at each of its places, with who has taken the registration. Theorems:
  `OneWaiterIsCounted`, `TimeoutsTellTheTruth` (an action property); the counts, in
  `CountsAreRight`, hold for any number of waiters.
* **LightSemaphore** (`SyncProofs`). `SmInv` ties `num_threads_acq` to the places of the
  acquirers. Theorems: `CountsAreRight` and `SemaphoreIsRefined`, which maps every step
  to one of the abstract `Semaphore` or a stutter: the exclusive store that takes or gives
  is the abstract step, whatever happens to the count of waiters around it.
* **The sync run as a whole.** `TypesHold` and `SleepersAreThoughtOf` state the run's
  invariants of the composition; the LightLock's come from `LightLockProofs` by an
  INSTANCE with the run's variables.
* **Threads** (`ThreadLifecycleProofs`). A block is freed once because `detached` says
  who may free it and does not change after anybody has started to: `Flags`, `Freeing`
  and `Done` say so place by place, thread by thread. Theorems: `TypeCorrect` (with it,
  no handle is closed twice), and `BlocksAreFreedOnce` (`FreedOnceFinished`).
* **GX command queues** (`GpuProofs`). Nobody unbinds a queue that runs, and only
  the event thread ends its running: `CurQueueIsThere`, for any use of a queue. The rest
  assumes that a queue stopped early is not run again. Until an early stop the commands
  in flight are `curEntry - lastEntry` (`Accounted`): no interrupt is discarded, since
  `isRunning` stays set while one is on its way, and only the owner of `queueLock` has a
  batch (`Locking`). Theorems: `InFlightIsBounded`, `WaitIsForAll`, `NoCommandIsLeft`. The
  types are stronger than they look: that `lastEntry <= curEntry` also while a queue is
  being stopped needs `Counted`, which follows every completion from GSP to the count
  (`FieldsKeepOrder`).
* **GX command buffer** (`GpuProofs`). What a producer has loaded is the header as long as
  its reservation holds, and only the owner of the lock has one; so the slot it fills is
  free, and the ring from `index` on holds `executed + 1 .. accepted` in order, plus the
  one being copied. Theorem: `CommandsExecuteInOrder`.
* **GSP events** (`GpuProofs`). The ring is the queue of what came and was not taken off,
  and what the event thread has loaded is its head while the reservation holds; `PopStore`
  needs it and `Interrupt` keeps it (`EvInOrder`). Theorem: `InterruptsStayInOrder`.
  `GpuTypesHold` gives the types of all three levels.
* **Services** (`LibraryProofs`). While an init runs the count is 1 and there are
  no users, for a second call would only count; between calls it is the users. What the
  steps done so far acquired is still open, since only the last exit, or a failure that
  ends the init, closes anything. `OpenInv` is the other direction: what is open was
  acquired by a step done; a row that `GivesBack` closes that on every way out. That the
  rows of 41 services do is `RowsGiveBack`, row by row from their definitions. Theorems:
  `TheCountIsRight`, `UsersAreAlwaysServed`, `NothingIsLeftOpen`.
* **Heaps** (`LibraryProofs`). `PoolOK` says that the blocks of a pool are in order with
  something between any two; every operation of a pool is a piece of that sequence
  `Replaced` by another, and `ReplacedPool` says once what that does to order and cells. So
  `CarveTakes`: Allocate takes from the pool the cells of the chunk and no others, with or
  without a node for the tail; `DeallocatePuts`: Deallocate puts the chunk's cells back,
  wherever it lies and whatever it touches, or, without a node, leaves the pool as it was.
  `HeapInv` is then that each cell of the regions is free, in one chunk or lost
  (`Parted`), and that each buffer begins a chunk at least as long. A chunk of the map is
  not at the address of a new one, for both would have its first cell: so
  `rbtree_insert` refuses nothing until the heap is initialised a second time, which is
  where the theorem ends. Theorem: `HeapStaysSound`.
  `NoRoomIsOverlooked` uses the gap between two blocks again: cells that follow each other
  are all of one block (`StretchInOneBlock`), and if a block has an aligned cell with room
  behind it, so has the first aligned cell, which is the one that the search tries
  (`WasteIsLeast`). `HeapImplementsAllocator` maps each step of the heap, under the same
  condition, to one of `Allocator`: an allocation to the stretch `Given`, a free to the
  chunk `Returned`, a failed malloc to a stretch mislaid or to nothing. Which chunk went
  with a buffer is the only one at its address, and that no two are is again `Parted`.
* **Trees** (`TreeProofs`). Balance and order are recursive notions, and a loop that has
  come half way has neither. So the invariant says both link by link. `Ordered`: the nodes
  have numbers `pos` from 1 to how many there are, and each node two bounds `bnd` between
  which the numbers below it lie; a child has one bound from its parent and the other is
  the parent's own number, and where there is no child no number is left. A rotation
  changes the bounds of two nodes and the numbers of none (`RotateOrders`); unlinking a
  node closes the gap it leaves, linking one opens a gap. `Even`: each node has a number
  `h` of black nodes below, the same by either child. `Good` puts them together with the
  rule of red nodes and three sets of exceptions, which are what the loops are about: `X`,
  the links below which a black node is missing (the place that `recolor` mends), `U`, the
  nodes that may be red at the root or below a red node (the one that `do_insert` has
  climbed to), and `D`, those that may have red children although they are red.
  `TreeInvariant` has a case for each `job`: idle and a tree without exceptions; inserting,
  with one red node excepted; mending, with one short place; removed. Each turn of a loop
  moves its exception up or removes it: `RecolourIsGood`, `PromoteIsGood`, `BlackenedIsGood` and the
  lemmas on each branch of `recolor`.
  That the searches, `do_iterate` and the in-order walk find what they should is about
  recursive functions. `DescentEnds` and `Recursion` say once that a function whose calls
  go down in some number exists and is the one its definition says (by the least number at
  which it would not be, from the well-foundedness of `<`: an induction that needs no
  operator). The number is the distance of a node's bounds, or for a walk up what remains
  of it. Theorem: `TreeStaysSound`. `TreesStaySound`, in `LibraryProofs`,
  is the same of the trees that the run composes: the definitions of the two instances
  are shown equal, operator by operator (`SameTree`).
* **ndsp channels** (`LibraryProofs`). `QueueIsSound` alone is not inductive: the sound
  thread's report was read without the lock, and acts on a queue that may have been
  cleared and refilled since. `SoundHistory` says what the sequence numbers give: the
  queue's buffers were added since the last clear, those counted were given to the DSP,
  and the report is of this queue or nothing in it is counted. Theorems:
  `WaveBufsStayInOrder`, for any number of slots and buffers, and `DoneIsEarned`, an
  action property: no buffer is freed by a report that is not of it.
* **Requests** (`IpcCallProofs`). `TypeCorrect`, and `StaticsAreGivenBack`: what a wrapper
  found in the slots stays in `entry` from its call to its return. `WalkInv` says
  that the kernel goes from one stop of the row to the next, so `RequestsAreUnderstood`
  reduces its walk to a rule about single rows. The rule failed for `NIMS_RegisterSelf`
  when it was tried, where the walk as it was stated first did not look: `WalkIsRight`
  now does. `SentWordsAreStored` and `StoredWordsAreSent` compare each row with its own
  header: the run `ipc` does so for all 1094, and a theorem could only assume it of them.
* **APT parameters** (`LibraryProofs`). `ParametersArriveAtMain`; the invariant is
  inductive as it stands, one case per step of the handler and of the main thread.

Each invariant but two was first checked with TLC on the instance of the module's run:
`HeapInv` speaks of all integers, and `TreeInvariant` says that a numbering exists. Of
these the run checks what they imply. Only model-checked is all liveness, and the progress
part of the refinements `ImplementsMutex` and `ImplementsSemaphore`: liveness under
fairness is out of the prover's reach; and `SentWordsAreStored` and `StoredWordsAreSent`,
which are about the rows of one table. Every other safety property that a passing run
checks is a theorem too.

## Not modelled

* Memory ordering: steps are sequentially consistent. The code has barriers around
  its exclusive accesses; the plain accesses of flags in `thread.c` and `gxqueue.c`
  have none, so the models show fewer behaviours than the hardware there.
* `AptParameters` takes it that `APT_GlanceParameter` and `APT_ReceiveParameter` fail only
  when there is no parameter. If the request itself failed with a parameter there, the
  event thread would drop the event (`apt.c:498`), or a receiver would have used up the
  one it was woken by (`apt.c:641`), and nothing would announce the parameter again.
* Time: a timeout may expire at any moment. That `LightEvent_WaitTimeout` restarts its
  timeout, and that `gxCmdQueueWait` adds nanoseconds to ticks, is out of sight.
* 16- and 32-bit wrap-around of waiter counts: it takes 32768 threads.
* Two threads that submit GX commands without a common lock, completion callbacks
  that use the queue, and commands that raise only PSC1.
* Callbacks on GSP events: the program's own code, set in three stores that no lock covers.
* What the words of a request mean, and the replies: the state is in other processes.
* Calls of one service's init or exit by two threads at a time: the code raises the count
  before the session exists, and a second caller would use it too early.
* APT's flag word with the main loop, sleep, home menu and hooks: several threads change
  the flags without synchronisation. ndsp's sleep: `ndspSync` may mark the thread as
  sleeping after the hook has woken it (`ndsp.c:389`), and then waits for ever. So `NdspChannel`
  has `UpdateChn` on the sound thread only, and not on the thread of the hook, which calls
  it as ndsp resumes (`ndsp.c:284`).
* A request of no bytes to the heap, which shares the address of another buffer, and
  `mappable.c`. `Heap` looks addresses up in a function; that the tree does the same is
  what `TreeIsSound` says of the tree.
* Sequential code whose risk is in its data (decompression, UTF, console and font layout,
  GPU command words, paths, sockets as devices), and what runs once before and after
  `main`: ordinary tests reach it. Each is listed as `not_modelled` or `partly` in
  `PROJECT.json`, with the reason.
