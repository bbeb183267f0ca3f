# Mectov OS in TLA+

Mectov OS is a 32-bit x86 SMP kernel written in C (paths below are relative to
the repository root; the kernel is under `src/`). This directory models the part of it on
which everything else stands, the scheduler and the life of a task, and the two layers of
synchronisation above it, the kernel's semaphores and futexes and the Ring 3 mutex
and condition variable. On top come six kernel objects that share
neither state nor locks with each other: message queues, shared memory, descriptors with pipes and
terminals, the sector cache, TCP and page directories. It lists what remains.

| File | What it is |
|---|---|
| `Sched.tla` | the scheduler and the task lifecycle of `src/sys/task.c`, its specification and its properties |
| `Sem.tla` | the semaphores of `src/sys/sync.c` and the deferred clean-up of dead waiters |
| `Futex.tla` | the futexes of `src/sys/sync.c`, the mutex and condition variable of `apps/lib/sync.h`, and the bounded buffer of `apps/conddemo.c` that uses them |
| `Tables.tla` | what the modules below have in common: numbered slots and the scan for the first that fits |
| `Ipc.tla` | the message queues of `src/sys/ipc.c` |
| `Channel.tla` | the bounded first-in first-out queue that `Ipc` implements |
| `Shm.tla` | the segments of `src/sys/shm.c`, with fork, threads, exec and exit of `task.c` |
| `Fds.tla` | the descriptor tables, pipes and terminals of `src/sys/fd.c` and `pty.c` |
| `Blk.tla` | the sector cache of `src/sys/blkcache.c` and the reads, writes and read-ahead of `src/drivers/ata.c` |
| `Tcp.tla` | the TCP of `src/drivers/net.c`, on two hosts with a network between them |
| `PageDirs.tla` | who owns a page directory, which core walks it and when `task.c` frees it |
| `MCSched.tla`, `MCSync.tla`, `MCFutex.tla`, `MCObjects.tla`, `*.cfg` | the instances TLC checks; `MCSync` holds `Sem` and `Futex`, `MCObjects` the last six |
| `SchedProofs.tla` | the theorems about `Sched`, queues and cores first, then exits, counts and parents, for every number of cores and tasks |
| `Queues.tla` | how the loops of `sync.c` compact a waiter queue, and the entries of the sector cache go |
| `Lemmas.tla` | what several proofs need: the least of some numbers, compacted queues, counting |
| `SyncProofs.tla` | the theorems about `Sem` and `Futex`, apart and in `MCSync`, for every number of threads and every table and queue size |
| `IpcProofs.tla` | `Ipc` implements `Channel`, for every number of tasks and queues and every depth; every entry of `Fds` counts its references and every end of a pipe or terminal is closed once |
| `MemoryProofs.tla` | the segments of `Shm` go and their frames stay apart; each directory of `PageDirs` is owned once and none is walked after it is freed |
| `BlkProofs.tla` | the cache is bounded and coherent and reads are fresh, for every number of callers, sectors and entries |
| `TcpProofs.tla` | the streams of `Tcp` are intact and nothing sent is forgotten, for all tables, buffers, numbers of bytes and faults |
| `ObjectsProofs.tla` | what is proved of the last six modules holds of `MCObjects`, where they stand side by side |
| `PROJECT.json` | components, runs, the source lines of every definition, hazards, findings, theorems |

## 1. The system

| Component | State | Operations | Interacts through | What is hard | What makes it correct |
|---|---|---|---|---|---|
| **Scheduler and task lifecycle** (`sys/task.c`) | `tasks[64]`, `rq[]`, `current_task[]`, `num_tasks`, saved frames, `deferred_pd_q` | `schedule`, create, fork, fork_exec, exit, kill, stop, continue, sleep, waitpid, wake, reap | `task_lock`; called by every other part | a killed task goes on until its own core ticks; checks made before the lock; the switch outlives the lock | one task on one core, no task lost, no exit lost, no slot reused too early |
| **IRQ and syscall entry** (`interrupt_entry.asm`, `idt.c`, `syscall.c`) | kernel stacks | stack switch, signal delivery on return | calls `futex_sweep`, then `schedule` | the stack is left after the lock | no stack is shared |
| **Semaphores, futexes** (`sys/sync.c`) | 2 tables with waiter queues, `cleanup_pending` bits | wait, post, wake, requeue, timed wait, sweep, drain | `sync_lock` before `task_lock`; `task_set_state` | dead and recycled waiters, signals that end a wait, timed waits | no parked task that nobody can wake, no token created or lost |
| **Ring 3 mutex and condition variable** (`apps/lib/sync.h`) | a lock word, a sequence word | lock, unlock, wait, signal, broadcast | futex system calls | wakes that race the park | mutual exclusion, no lost wake-up |
| **Main loop** (`kernel.c`) | none of its own | drains, reaps, polls GUI and network | runs as task 0 on the BSP | it is a task among others and can be starved | it keeps coming round |
| **Memory** (`vmm.c`, `mem.c`) | frame reference counts, page directories | clone copy-on-write, fault, free, shoot down TLBs | `task_lock` before `vmm_lock` | last sharer dies on another core | no frame freed while mapped |
| **Descriptors, pipes, ptys** (`fd.c`, `pty.c`, `syscall_vfs.c`) | global descriptor table with counts | open, dup, close, read, write | `fd_lock` | close races a blocked reader | end of file exactly when the last writer is gone |
| **Message queues, shared memory** (`ipc.c`, `shm.c`) | bounded queues, one waiter slot per direction; attach counts | send, receive; attach, detach, remove | `ipc_lock`; `task_sleep` | a second waiter; death between count and bit | no message lost; a segment freed once |
| **VFS, ext2, FAT32** | mounts, inodes, metadata on disk | path operations | `vfs_lock`, then the block cache | order of metadata writes across a power cut | an image that mounts again |
| **Block and page cache** (`blkcache.c`, `pcache.c`) | sectors with generations | read, commit, invalidate | `blkcache_lock`, then the driver lock | a read that races a write | a cache never older than the disk |
| **Network** (`net.c`, `syscall_net.c`) | sockets, TCP control blocks | connect, listen, retransmit | NIC interrupts, main loop | loss, duplication, timeouts | a stream delivered once and in order |
| **Window manager, desktop, shell** | windows, jobs | deferred close, job control | `task_lock` before `wm_lock` before `gui_lock` | a window of a dying task | no window outlives its task |
| Drivers, SMP start, loader, watchdog, passwords, applications | registers, tables | | | hardware protocols or start-up code | |

The documents fix two lock orders that matter to the models:
`sync_lock` before `task_lock` (`docs/architecture/scheduler.md:55`) and
`task_lock` before `vmm_lock` (`docs/kernel-locking.md`).

## 2. Plan

1. **Sched, SchedProofs** (done): scheduler and lifecycle.
2. **Sem, Futex, SyncProofs** (done): semaphores; futexes with the mutex and condition
   variable on top. Left: an abstract lock that `Futex` implements, and dead waiters of futexes.
3. **Ipc, Channel, IpcProofs** (done): message queues and the abstract queue they implement.
4. **Blk, BlkProofs** (done): the sector cache against a disk. Left: the page cache, which is filled in
   `vfs.c` and needs a model of a file's size and contents there.
5. **Shm, MemoryProofs, Fds, Tcp, TcpProofs** (done): segments, descriptors (proved in `IpcProofs`),
   connections. Left: a second connection in `Tcp`, for ids that go stale.
6. **RqAging**: the score of `rq_pick` (priority, nice, `wait_ticks`) and the bound it puts on
   waiting; it discharges `NoStarvation` below.
7. **PageDirs, MemoryProofs** (done): page directories, `CR3` and the deferred-free queue of 8.
8. **FrameRefs**: copy-on-write counts of `vmm.c`, TLB shoot-down.
9. Metadata order of ext2 across a power cut. 10. Window close and lock order.

Every safety invariant and action property of the passing runs, and the refinement, is a theorem (section 6); what
must eventually happen is model-checked.

## 3. How `Sched` corresponds to the code

**State.** `tab` is everything `task_lock` protects: per task its state, queue (`rq_cpu`),
parent, the pid a parked waitpid asked for (`waiting`), whether a deliverable signal is
pending, the ticks left to sleep; per core `current_task[]`; and `num_tasks`. `rq[]` and
`rq_cpu` are kept equal by `rq_enqueue`/`rq_remove`, so a queue is a set of tasks:
`rq_pick` chooses by score, not by position, and the score is left open.
`ctx[c]` is the program core `c` executes (a program counter and two locals),
`frame[t]` the one saved at `tasks[t].esp`. `leaving[c]` is the task whose kernel stack
the stub of core `c` has not left yet. `waitq` is the union of the waiter queues of `sync.c`.

**Steps.** A section under `task_lock` is one step, and so is each piece of code that
runs outside it. The locked operations (`terminate_task`, `task_set_state`, `task_signal`,
`thread_create_ex`, ...) are functions from task table to task table, so that a handler is
their composition: `Tick(c)` is all of `schedule()`, its steps 1 to 5 in order, `Install`
stores the result. `waitpid` is `WaitPid`, `Scan` (unlocked), `Reap` (re-checked under the
lock), `Park` (with its second look), `WaitDone` (the hlt loop) and `Unwait`. `Signal` is the unlocked
look at the target and `SignalLocked` the rest. `task_fork_exec` is `ForkExec`
(reads the core number, builds the image with interrupts on) and `ForkExecLocked`. `ReapZombies` and
`Drain` are the two calls the main loop makes; which zombies have outlived the timeout is a free choice.

**Two cores.** A task killed by another core goes on executing its program until its own
core ticks. The context has a ghost flag `dead` for that; the kernel has none, and no
guard of a kernel operation reads it except through `Late` (next paragraph).

**Windows.** The source has seven race windows, and `Windows` says which an instance opens.
A closed window runs the two halves of the code around it back to back.

| Window | Where | Opened, it lets |
|---|---|---|
| `signal` | `task.c:2691` | a SIGSTOP revive a task that died since the unlocked look (run `stopped_dead`) |
| `switch` | `interrupt_entry.asm:60` | a second core resume a task whose stack the first is still popping from (run `shared_stack`) |
| `sleep` | `task.c:1580` | a task killed on its way into `task_sleep` come back to life when the sleep expires |
| `park` | `task.c:2608` | a task killed between the scan and the park of waitpid come back as a waiter |
| `block` | `sync.c` calls of `task_set_state(self, BLOCKED)` | a killed task become BLOCKED, outside `num_tasks` |
| `create` | `task.c:1427` | a dead thread become the parent of a new task, which the next owner of its slot adopts |
| `cid` | `task.c:2412` | after a stop and a continue, `current_task[cid]` name another task, which becomes the parent of the program `task_fork_exec` starts |

The first two have runs of their own; the others were found while modelling and are what one sees by
opening the window in `lifecycle.cfg` or `signals.cfg` (for `cid`, with signals 18 and 19). Windows that
revive dead tasks let `num_tasks` drift without bound, so the passing
runs open those that keep the state space finite. The theorems say which they need closed (section 6).

**Left out of the data.** Priority, nice and aging scores (any READY task of the queue may be
picked); signal numbers beyond kill, stop, continue and "handled"; masks and the in-handler
flag (a delivery may leave the signal pending); more than one delivery attempt in step 5; `SA_RESTART`; the
SIGCHLD bit; page directories, file descriptors, mmap regions, rlimits, FPU state, sessions,
accounting, stack watermarks. A fault (`task_fault_signal`) and `task_exit` are `Exit`, `task_kill_locked` is
SIGKILL, `task_signal_group` a sequence of `task_signal`. The unlocked scan of `waitpid` is
one snapshot; sleep is counted in ticks.

### `Sem` and `Futex`

A section under `sync_lock` is one step. Both keep of a task what `sync.c` tells apart: dead, BLOCKED
or runnable. `task_set_state(tid, READY)` is the assignment of `state`; that a signal, or a stop and a
continue, also ends a park is `Signal`.

| Code | Definition |
|---|---|
| `sems[]` | `sems`: in use, count, queue of tids |
| `sem_wait` | `sem_wait_Take`, or `sem_wait_Park` and, when the state is no longer BLOCKED, `sem_wait_Return` |
| `wake_one` | `wake_one(q)`, the position of the first live waiter; `After`, the queue that is left |
| `cleanup_pending_lo`, `_hi` | `pending` |
| `sync_drain_pending` | `DrainRead`, `DrainClear` (another core may set a bit between the two), then `DrainPurge` per thread, in any order |
| `futexes[]` | `futexes[w]`, per word the queue with a deadline per waiter; `Slots` counts entries in use |
| `futex_wait_timeout` | `FutexCheck` (the unlocked look), `FutexPark` (second look, both ways to return -2), `FutexReturn` |
| `futex_wake`, `futex_requeue`, `futex_sweep` | the operators of these names |
| `mct_mutex_lock`, `_unlock` | `Lock`, `Spin`; `Unlock` (the store), `UnlockWake` |
| `mct_cond_wait`, `_signal`, `_broadcast`, `_broadcast_requeue` | `CondWait`; `CondBump` then `CondSignal`, `CondBroadcast` or `CondRequeue` |
| `producer`, `consumer` | `Produce`, `Consume`, and the program counters around them |

In `Sem` a killed thread stops at once; what its last instructions may still do is what the windows of `Sched` are for.
`owed` is history: tokens created and posted less waits that returned. It stops counting when a wait is ended by something
else than a post, or a listed slot gets a new owner, as the code itself then returns 0 without
a token or hands one to a thread that never waited. The limit of `count`, `0x7FFFFFFF`, is the bound `MaxTokens`.

In `Futex` nobody dies. What a program does inside its critical section to data only the holder touches is one step; each
access to a shared word is a step. The two scheduling-relevant variants of the last broadcast are the constant `Last`: the
plain one conddemo uses, and the requeue, which also does that round's unlock. `Ahead` is how far the
requeue's `expected` is behind the counter: 1 is what `apps/lib/sync.h` passes, 0 what the kernel call needs. The untimed `futex_wait`,
`futex_requeue` of a word onto itself (it would not end) and a deadline that wraps to 0 are left out.

### `Ipc`

A section under `ipc_lock` is one step. `queues[q]` has the fields of the slot; a call that cannot go on is
`asleep` (`task_sleep(1)`) and then `awake` before its next try; a call that owes a `task_wake` after the lock is
`waking`.

| Code | Definition |
|---|---|
| `queue_push`, `queue_pop` | the operators of these names, with head, tail and count modulo `DEPTH` |
| `ipc_queue_create`, `_destroy` | the actions of these names; destroying leaves head and tail and wakes nobody |
| `ipc_send` | `Sent`, `SendParks` or `NoQueue`; `Retry` is the next round of its loop |
| `ipc_receive` | `Received`, `ReceiveParks`, `NoQueue` |
| `ipc_try_send`, `ipc_try_receive` | the actions of these names |
| `task_wake(waiter)` after the unlock | `Wake`, of the number, whoever bears it by then |
| the end of the sleep in `schedule()` | `SleepEnds` |

`Kill` and `Reuse` are what `task.c` may do to a caller between two sections; `ipc.c` is not told. A message is its
sender and type.

### `Shm`

Each section under `shm_lock` is one step; with interrupts off, system calls of one core do not interleave. `space[t]` names
the address space of a task (threads share one), `maps` what is mapped there, `refs` the frame counts of `mem.c`
with their stop at `FRAME_PINNED`. `shm_get`, `shm_at`, `shm_dt`, `shm_ctl` are actions; `ShmExit` is `shm_task_exit`
followed by the release of the space, in the order of `task_cleanup`; `task_fork`, `thread_create`, `task_exec`
are what those do to mappings and bits. A segment has one frame, so the roll-back of a half-made mapping does not
arise. `inherited` is history: a task with attachments has forked.

### `Fds`

`gfds` is `global_fds[]`, `fds[t]` the table of a task. One system call is one step, up to the `sti; hlt` in which a
pipe call waits (`Waiting`); `ResumeRead` and `ResumeWrite` are the rounds of the loop after it. `Release` is
`fd_release_global` for all the references a call drops, with `PipeAfter` and `PtyAfter` (`pty_close`). `Rewired` is
`task_rewire_fds`, in its order, the rest closed. Rings are counts of bytes.
Sockets, file contents, `poll` and the descriptor limit are left out.

### `Blk`

No lock spans a call, and the steps say where the locks are: `blkcache_read` (hit or miss, with the generation),
`DiskRead`, `Commit` (`blkcache_commit`), then `ata_ra_maybe_prefetch`, `PrefetchRead`, `PrefetchCommit` under `ra_lock`;
`DiskWrite`, then `blkcache_invalidate`. The stamps of the entries are the sequence `order`, least recently used
first; `Touched` moves entries to its end, `Without` drops them. `ReadCall` with `note` FALSE is a read by the one-sector path, which neither notes the stream nor reads ahead.
A drive may fail a read, a prefetch, and a write after any part of it (`DiskWriteFails`). `seen` and `torn` are history: what
a sector held while a read was under way, and what refused writes may have replaced.

### `Tcp`

Both hosts run the code; each function holds `net_lock` and is one step. `net_handle_tcp` is its stages in their
order: `AckClears`, `Store`, `FinAcked`, `PeerFin`, with `SynSent`, `SynRcvd`, `Reset`, `Spawn` beside them;
`ConnectTimeout` and `Retransmit` are the timers of `net_poll`; `ArpReply` starts a connect queued before the gateway's
address was known. `net` is a set, so segments are reordered at will; loss, duplication, an early retransmission and a
forged RST are faults, `MaxFaults` of them. Byte `n` of a stream is the number `n`. Sequence numbers are modulo `MOD`, and comparisons
are the code's `>=`. The window field is left out, as the code never reads it; checksums, IP, and the redirect of
port 80 in `tcp_start_conn` are, too.

### `PageDirs`

`pdir[t]` is `tasks[t].page_dir`, `cr3[c]` what core `c` walks, `used` the directories allocated. `terminate_task` is the release of the
address space in `task_cleanup` (freed, put aside in `deferred`, or left to sharers) followed by the end of `t`; `task_reap_zombies`
frees what the queue may let go, `Tick` is the commit of `schedule()`. Of the system calls, `fork_common` clones; `ThreadRead` and
`thread_create_ex` are apart, as the directory is read before the lock; `loader_build_image` makes an image that
`PdForkExec` (`task_fork_exec`, or `finish_loaded_task` of a program) gives to a child and `task_exec_Scan`, `task_exec_Rewire` to the
caller. Parents are left out, so a dead task is ZOMBIE or FREE at will.

A killed task goes on until its core ticks, and two system calls act on what they read before the kill: a thread is created in a
directory that is already put aside (`syscall_proc.c:95`), and an exec that saw a sharer, or that was killed itself, between its unlocked
scan and the end frees nothing or brings a directory to a dead slot (`task.c:2302-2321`). Such a step sets `raced`, and the behaviour ends
there. Directories that an overflow of the queue or a kill inside the loader leaves allocated for ever are in `lost`; `unseen` are the
cores of the finding below.

## 4. Runs

| Run | Instance | Shows |
|---|---|---|
| `lifecycle` | 2 cores, 2 workers, kills, all of create, exit, waitpid, block; windows `create`, `signal`, `cid`, `switch` open; 442,000 states | `OneCore`, `DeadNotQueued`, `RunningIsCurrent`, `NotStranded`, `NoLostExit` (the re-check of waitpid), `NumTasks` (no zombie freed twice), `NoDeadContext` (the slot-reuse stall of v38.160), `DeadStayDead`, `NoSteal`, `TypeOK` |
| `signals` | the same with kill, stop, continue and a handled signal, sleepers, no open window; 213,000 states | `NoLostExit` when stops and signals cut waits short; `ParentLive`: every parent can still wait |
| `progress` | kills, sleepers, fairness; 7,500 states | `CoreLetsGo`, `WaitpidReturns`, `SleeperWakes` |
| `stopped_dead` | window `signal`, SIGKILL and SIGSTOP | `DeadStayDead` is violated: a finding |
| `shared_stack` | window `switch`, block | `StackExclusive` is violated: a finding |
| `one_cpu` | one core, two workers | `CoreLetsGo` is violated: a finding |
| `sync` | `Sem` or `Futex`, chosen at the start: 3 threads, 2 semaphores, queues of 2, signals, kills, reuse, destroy; 1 producer, 2 consumers, 2 items, 1 slot, 2 futex entries, queues of 2, signals, both broadcasts; 864,000 states | `NoneForgotten` (a parked thread is always where a post finds it), `NoIdleToken`, `TokensConserved` (dead waiters neither swallow nor make tokens), `OneInside`, `ParkedListed` (a parked thread keeps a deadline), `NoLostSignal`, `SyncTypeOK` (a queue never outgrows its array) |
| `reused_slot` | 1 semaphore, kills and reuse | `EntriesOwned` is violated: a finding |
| `parks_end` | 1 producer, 3 consumers, 1 item, both broadcasts, no signals, fairness; 92,000 states | `FreeLockTaken`, `ParkEnds` |
| `broadcast` | the same with the value `apps/lib/sync.h` passes | `BroadcastReaches` is violated: a finding |
| `freed_directory` | 2 cores, 2 slots, 3 directories | `NeverWalkedFreed` is violated: a finding |
| `objects` | the six modules of `MCObjects`, one of them active in a behaviour; 221,000 states | see below |

`objects` puts the six modules side by side: `part` is chosen in the initial state and never changes, so that a state
of one is combined with the initial states of the others only. It shows

* `Ipc` (3 tasks, one queue of 2): `ImplementsChannel`, the refinement; `WaitersJustified`, a slot never outlives the state
  of the queue it was set in; `NobodyStranded`, although a second waiter overwrites the first;
* `Tcp` (a client that sends 2 bytes, a server with one slot for a child, buffer of one byte, 2 retransmissions, one fault):
  `StreamIntact`, what the program gets is a prefix of what was sent; `NothingForgotten`, what was sent is acknowledged
  only when stored; `SentArrives`;
* `Fds` (3 tasks, 2 descriptors each, 2 global entries, one pipe, one terminal): `RefsExact`, `EndsExact`, `ReaderReturns`;
* `Shm` (2 tasks, one segment, 2 frames): `SegmentReclaimed`, `FramesApart`;
* `Blk` (one reader, one writer, 3 sectors, 2 entries, read-ahead of 1): `CacheIsDisk`, `ReadsFresh`;
* `PageDirs` (2 cores, 2 slots, 3 directories, a queue of one): `DirsOwned`, every directory has exactly one kind of owner and
  none leaks but those lost to a full queue or a killed loader call; `DirLive`, no core walks a freed one, up to the finding.

Deadlock is not checked in this run: a behaviour of `PageDirs` ends at a lost race (section 3), a client that has sent its bytes and a host whose slots are stuck (section 5) may stop.

**Bounds.** Two cores give every remote kill, remote wake and migration; two workers give a
parent, a child, an orphan and a slot that is reused. `MaxSleep = 1` already separates "asleep", "due" and
"woken". `Pids` is `{-1}`: a wait for one pid differs only in which children it sees. What two workers cannot show is a
parent with two children that parks twice; the theorems, `NoLostExit` among them, have no such bound.
Deadlock is checked in every run; the hlt loops always have a tick to wait for, and so has a park.
For `Sem`, three threads are a dead waiter, a live one behind it and a poster; two semaphores let a thread leave a stale
entry on one and wait on the other; queues of two fill up. For `Futex`, two consumers make a queue with a head and a tail, three let a requeue wake
one and move the rest; two table entries for three words and queues of two reach both -2 returns. `Timeout = 1` separates
"listed" from "due".
For `Ipc`, three tasks are two waiters that share the slot and a third that serves them; one of them both sends and receives,
and one dies. For `Tcp`, one byte in the buffer makes every second segment arrive at a full one, and `MOD = 64` with steps of 8
keeps old and new sequence numbers apart as 2^32 does. For `Fds`, two global entries are a pipe and nothing else, so tables fill up; one
slot of a ring stays empty, so a size of 2 makes it hold one byte and a write of 2 wait. For `Blk`, three sectors and two entries evict. For
`PageDirs`, two slots on two cores that exit together overflow a queue of one; three directories are two in use and an image.
Larger instances were checked once: `Blk` with two writes (598,000 states), `Shm` with two segments and keys (852,000)
and with three tasks (432,000), `PageDirs` with three slots (1,390,000), `Tcp` with two faults and with both hosts writing (702,000).
The inductive invariants of section 6 were checked before they were proved: `SemInv` and `FutexInv` on the instance of `sync`, `ShmInv` with three
tasks (431,000) and with two segments (397,000), `FdsInv` with three entries and up to three references (2,426,000), and those of `Sched` on the
instances of `lifecycle` and `signals`; that of `Tcp` on four instances, with both hosts writing, two slots for
children, two faults, or two bytes in a buffer (28,000 to 814,000 states).

**Fairness.** `TickFairness`: every core keeps receiving its timer interrupt and leaves the stub; the
timers are hardware and never masked for ever. `WaitPidFairness`: a
program inside waitpid that is given a core again and again executes its next instruction;
strong fairness, as a preemption disables it in between. `NoStarvation`: no task stays READY off every core
for ever; `rq_pick` adds `wait_ticks`, which grows at every pick that passes the task over, to a
bounded priority. It is an assumption here and item 6 of the plan. Nothing is
assumed of the reaper, of other programs or of signals. The one-core run assumes `TickFairness` only.
`IpcFairness` and `FdsFairness`: the timer ends every sleep and every hlt, and a task inside the kernel is
scheduled again (`NoStarvation`); tasks need not make another call. `TcpFairness`: the network delivers what it does not lose,
`net_poll` comes round, and a program that holds a connection takes what has arrived. `Shm`, `Blk` and `PageDirs` need none.
`Futex!Fairness`: time passes, the sweep comes round (a busy `sync_lock` skips one tick, but no section under it waits),
and a runnable thread executes its next instruction, which is `NoStarvation` again; `FairSpec` is of programs without signal handlers (`QuietNext`). Nothing stronger is assumed: that a
given thread ever wins the mutex is not claimed, as the code is not fair.

## 5. Findings

* `stopped_dead`: `task_signal` looks at the state before it takes `task_lock` and not again, although
  `task.c:1750` says it re-checks liveness; a SIGSTOP that loses the race with the target's exit
  makes the dead slot STOPPED, and SIGCONT then READY.
* `shared_stack`: `schedule()` unlocks before `irq_common_stub` loads the new stack. A task that
  blocked can be woken onto another core's queue and resumed there while the first core still pops from
  its stack; `docs/architecture/scheduler.md:20` says a task never executes on two CPUs at once.
* `one_cpu`: with one CPU, the death of the last task but the kernel's brings `num_tasks` to 1,
  and the fast path of `schedule()` returns before it looks at the dead current task: the machine stays in
  its hlt loop; `scheduler.md:122` says a dead core parks on its own idle task.

* `reused_slot`: `sync_task_cleanup` skips a tid that is alive again, as "a tid observed live here owns whatever
  entries it holds" (`sync.c:104`). A slot reused before the drain breaks this: the dead waiter's entry stays, and
  the next post is spent on a thread that never waited.
* `broadcast`: `mct_cond_broadcast_requeue` passes `seq - 1` after the bump, as `sync.c:436` asks, but
  `futex_requeue` compares it with the word under the lock and always returns -1: nobody is woken or moved until
  the 50 ms are over. With the current value (`Ahead = {0}`) the property holds.

* `freed_directory`: a program creates a thread and exits; the thread is killed by another core before the first core ticks.
  `task_cleanup` asks which cores run the thread (`task.c:1009`), finds none, and frees the directory that the first core still walks;
  the comment at 1004 says that a directory in any CPU's CR3 is not freed.

Seen while modelling and not run: a handled signal makes `sem_wait` return 0 without a token
(`sync.c:284`), and the entry it leaves swallows a later post; the waiters of a destroyed semaphore get 0
too, against the comment at `sync.c:318`; a thread that dies while the drain is between reading and clearing the
bits stays listed; a child's exit makes a parent READY that was
stopped inside waitpid (`task.c:1339` tests `waiting`, not the state); `waitpid` parks with no child left when its child
exited and was reaped by timeout between scan and park (`task.c:2606` looks only for
zombies); `rq_steal` is unreachable, so an AP idles while a peer has READY tasks,
against `scheduler.md:26`. The last is a theorem, `NeverSteals`.

Of the kernel objects:

* Queues: `ipc.h` says a send blocks until a receiver arrives; it blocks only while the queue is full. A sender asleep on a
  destroyed queue whose slot is created again sends to the new queue (`ipc.c:125`).
* TCP: a repeated SYN in SYN_RCVD sets the child's own sequence number from the peer's (`net.c:1345`), against the comment at 1336 that calls
  it idempotent; the handshake then cannot end. A FIN that overtakes a lost segment ends the stream before it (1410). When both sides
  close at once, both stay in FIN_WAIT_1, and a lost FIN or last ACK leaves a slot for ever, as neither is sent again. After the
  last retransmission the connection stays ESTABLISHED and `net_tcp_send` returns 0 for ever (1599). Acknowledgements are compared with `>=`, which
  fails across 2^32 (1358). A connect closed before the ARP reply is started on its freed slot (323), a second queued
  connect overwrites the first (611), and `net_tcp_close` reads `in_use` before it takes the lock (784).
* Descriptors: a pipe writer whose reader is gone waits for ever (`fd.c:300`); a read waits until its whole size has come (139); rewiring
  `in = 1, out = 0` gives both descriptors the same entry (657); `task_fork` raises counts without `fd_lock` (`task.c:2194`, against
  `fd.c:10-13`).
* Shared memory: `task_fork` copies `shm_bits` and does not raise `attach_count` (`task.c:2133`), so a destroyed segment goes when
  the child exits although the parent has it attached, and `FramesApart` then fails; it is stated up to the first such fork. `task_exec` keeps the bits
  of the space it leaves. Two threads of one space that both attach leave a frame reference behind.
* Sector cache: a refused write leaves the cache as it is (`ata.c:331`), so a copy from before it may be served; `torn` in
  `CacheIsDisk` is that case.

## 6. Proofs

`SchedProofs` proves, from `SchedAssumption` alone (at least one core, more slots
than cores, the sets of inputs) and with any `Windows` unless a condition is given:

| Theorem | Statement |
|---|---|
| `TypeCorrect` | `Spec => []TypeOK` |
| `NeverOnTwoCores` | `Spec => []OneCore` |
| `DeadNeverQueued` | `Spec => []DeadNotQueued` |
| `RunningHasACore` | `Spec => []RunningIsCurrent` |
| `NoTaskStranded` | `Spec => []NotStranded` |
| `IdleNeverMoves` | `Spec => []IdlePinned`, the "foreign idle" panic is unreachable |
| `NeverSteals` | `Spec => NoSteal` |
| `ExitsAreHeard` | `Spec => []NoLostExit` |
| `TasksCounted` | `Tame => (Spec => []NumTasks)` |
| `NoParkedFrame` | `Tame => (Spec => []NoDeadContext)` |
| `DeadAreNotRevived` | `Tame => (Spec => DeadStayDead)` |
| `NoOrphan` | `Tame /\ Closed => (Spec => []ParentLive)` |

The invariant of the first six is `IInv`: `Safe(tab)`, a predicate on the task table alone, and `Prog`, which ties
contexts to tasks. None of the properties is inductive by itself. `OneCore` needs to know that a pick comes from the
core's own queue and is nobody's current task, hence `RunningIsCurrent`; this needs `DeadNotQueued` and
`NotStranded`, as `rq_enqueue` refuses what is dead and keeps what is queued; that `rq_pick`
is never empty needs `IdlePinned` and that the idle tasks stay READY or RUNNING, hence that no signal, wait or exit
reaches them, which is `Prog`: programs other than the main loop belong to workers.
Each locked operation has one lemma (`TerminateSafe`, `SetStateSafe`, `SignalSafe`, `CreateSafe`, `UpkeepSafe`,
`PreemptSafe`, `SwitchSafe`) that it preserves `Safe`, most through `MovedSafe`, which lists the ways an operation may
move a task; `InstallProg` and `ResumeProg` do the same for `Prog`; then one lemma per
kind of step, and `NextSafe` puts them together.

`NoLostExit` needs `LInv`, that is `IInv` with `Heard` (the property of the table) and `WaitsIn`: a task listed as waiting is in the hlt loop
of waitpid, has just left it or has no program any more. Hence whoever begins to wait is at `Park`, whose second look under
`task_lock` finds the zombies there are, and every later exit of a child wakes its parent in the section that makes the
zombie; the race windows change neither, which is why none need be closed.

The other four compare tasks with the contexts of dead programs (`Marks`) and slots with `num_tasks` (`Counted`), and an open window breaks them
in the code: a program that was killed goes on through `sleep`, `park` or `block` and its slot comes back, or a stop sent through
`signal` brings it back. `Tame` closes the first three, and `signal` where SIGSTOP is sent; `stopped_dead` is the counterexample for
the last. `ParentLive` needs `Closed` as well, no `create` and no `cid`, through which a dead or another task
becomes the parent. The instance of `lifecycle` satisfies `Tame` with four windows open, that of `signals`, with none open, both conditions. Each operation under
the lock has a second lemma, that it changes the table lawfully (what was dead stays dead, the count follows the slots, the children of who exits
go to the kernel), and each kind of step one that the marks follow.

`SyncProofs` is about `Sem` and `Futex`. Of `Sem` it proves, from `SemAssumption`, `SemTypes`, `WaitersListed` (`SemSpec => []NoneForgotten`),
`TokensUsed` (`[]NoIdleToken`) and `TokensKept` (`[]TokensConserved`). The invariant `SemInv` is the types; `Parks`, the first two
properties together with `Gone` (the dead wait for nothing); and, while no wait has ended by something else than a post and no listed slot has a new owner
(`owed # None`), `Clean`. The first two hold whatever happens: stale entries, a purge that comes late and reused slots only ever add entries. Tokens need more: that a
post goes to a thread that waits here, hence that the live threads of a queue are those parked on its semaphore (`Honest`), each once (`NoTwice`), and
that nobody waits on a destroyed semaphore (`Open`). `wake_one` and the purge have lemmas of their own (`WakeOne`, `PurgedQueue`), by the position of entries in the
queue; `Compacted` in `Queues` is the library's `SelectSeq`, by position and as a function the provers can expand, and
its lemma `CompactedSeq` in `Lemmas` says what is kept, in which length and without repetition.

Of `Futex` it proves `MutualExclusion` (`Spec => []OneInside`), `FutexTypes`, `ParkedAreListed` (`[]ParkedListed`) and `SignalsReach`
(`[]NoLostSignal`), for any number of threads, any tables, time-outs and signals, from `FutexAssumption` (finitely many threads, a consumer, an item to make).
`OneInside` is not inductive:
that the winner of the cmpxchg finds nobody inside needs `Held`, that the lock word is 1 while somebody is. The waiter
queues do not occur in that argument, which is its point: `apps/lib/sync.h:134-140` and `conddemo.c:131-139` suspect the
requeue of letting threads bypass the lock, and no wake can. The corrupted counts recorded there need another cause (the stray
second unlock that v38.160 removed, `conddemo.c:141`, is one).
The other two need the invariant `FutexInv`. Its half `CtrlInv` is about the programs: which rounds are left (`Rounds`), the word each waits on (`Words`), when
consumers leave (`AllTaken`), what a consumer on its way to park has seen (`Snapshot`), and that what was made is in the buffer or consumed (`Counts`).
Its half `TableInv` is about the tables: sizes, and no queue without an entry (`TableOK`); who is parked is in the call it
parked in (`Parked`), and is listed under some word, under its own as long as items remain, since only the announcement of the end may requeue (`Listings`);
and only consumers wait for items (`Served`). A lost signal would be a consumer that parks after the last item was announced. `Snapshot` excludes it: who is
about to park has seen the sequence word no later than it is now, and if the word is still the same, nothing has been made since.

`IpcProofs` is about queues and descriptors. Of `Ipc` it proves `IpcTypes`, `QueuesAreChannels`, `IpcSpec => ImplementsChannel`, the whole refinement: the initial state maps to `Channel!Init` and each
step to a step of `Channel` or a stutter. It rests on the arithmetic of the ring (`Round`, `HeldIs`, `PushRing`, `PopRing`): the content of a queue is its
`count` entries from `tail` on, and `head` is `count` after `tail` modulo `DEPTH`; and on `InOrder`, that those entries are messages.
`WakesJustified` is `IpcSpec => []WaitersJustified`. `IpcAssumption` asks that `None` be no key, message or sequence, so that the mapping tells
a missing queue from an empty one.

Of `Fds` it proves `FdsTypes`, `CountsExact` (`FdsSpec => []RefsExact`) and `EndsCounted` (`FdsSpec => []EndsExact`) from `FdsAssumption` (each table and
ring has a size), for any set of tasks, infinite ones included. The two properties hold only together: an end closes when the
last descriptor leaves its entry, so the ends are right if the counts are; and what `fd_release_global` closes is what the entry names, so
an entry in use must name a pipe or terminal of its kind (`Kinds`). `Unique` says that a pipe has one entry as its reader and one as its writer, so that the close
of one is the close of the end; `CallsOK`, that who waits inside a pipe call still has the descriptor. `Counts` counts a set of
descriptors over all tasks; the lemmas `TableChanged` and `DroppedRefs` say what a new table of one task does to
it, `Releases` what the loop over the released descriptors leaves, and `Allocates` what new entries add. With these each call is a few lines about which
descriptors it drops and adds.

`MemoryProofs` is about segments and page directories. Of `Shm` it proves `ShmTypes`, `DestroyedGo` (`ShmSpec => []SegmentReclaimed`) and `NoFrameShared` (`ShmSpec => []FramesApart`), from `ShmAssumption` (finitely
many slots, `FRAME_PINNED` above 0). The first needs `Accounts`, that a segment counts no more attachments than tasks have its bit and a
destroyed one some; it survives the uncounted copy that fork makes, as that only adds bits. The second holds until such a fork (`~inherited`) and needs the exact account `Kept`: a bit is counted, and
its task maps the frame of the segment or nothing (`Attached`); a frame belongs to one segment (`Apart`) and counts its segment and every space that maps it, unless its count has reached
`FRAME_PINNED` (`Referenced`); and a space nobody has maps nothing (`Vacated`).

Of `PageDirs` it proves `PageDirsTyped`, `DirectoriesOwned`, `PageDirsSpec => []DirsOwned`, and `NoFreedWalk`, `PageDirsSpec => []DirLive`, for any number of
cores, slots and directories and any length of the queue, from `PageDirsAssumption` (the kernel's directory is none of the others, and `None` is
neither a slot nor an entry of the queue). Neither property is inductive: that a directory outlives the last core in it needs `Walks`,
which says where the `CR3` of every core comes from: a live task's directory, the image `task_exec` walks ahead of its rewire, or, for a dead
task that is still current, an entry of the deferred queue in that task's name; and that `task_exec` may free what nobody shared when it looked
needs `CoresOK`, that nobody has begun to share it since: only its own thread could, and that is in the call. `Allocated`, `DirsApart`, `Once` and `Accounted` are
`DirsOwned` taken apart. The invariant claims nothing once a call has gone on over its caller's death, which is where `PageDirs` ends a behaviour, and `Walks`
leaves out the cores of the finding `NeverWalkedFreed`. There is one lemma per action.

`BlkProofs` proves `CacheCoherent`, `BlkSpec => []CacheIsDisk`, and `NoStaleRead`, `BlkSpec => []ReadsFresh`, from
`BlkAssumption`. Neither is inductive, as what is committed comes from a read begun earlier. The invariant adds per call what its
buffer may hold at each point: with the generation unchanged since the miss, every sector read is what the disk holds or a write
that has not invalidated yet replaced (`Fillable`), since the invalidation that ends such a write also raises the generation; a
read under way has seen whatever the disk and the cache hold (`Watched`). There is one lemma per step.
`BlkTypes` (`[]BlkTypeOK`) adds `Bounds`: the recency order lists the cached sectors, each once (`Ordered`, from `TouchedLists`, `WithoutLists` and, as a hit
moves entries and makes none, a count of injections in `ListsLength`); the generation is behind the writes by those that have not
invalidated yet (`Tally`); and `ra_lock` admits one prefetch (`Single`).

`TcpProofs` proves `TcpTypes` (`TcpSpec => []TcpTypeOK`), from `TcpAssumption` alone, and `StreamsIntact` and `NothingLost`,
`NumbersFit => (TcpSpec => []StreamIntact)` and `NumbersFit => (TcpSpec => []NothingForgotten)`, for any tables, buffers, segment sizes, numbers of bytes in both
directions and faults. `NumbersFit` is about the initial sequence numbers, which the code does not control: a client draws its own at random
(`get_random_u32`, `net.c:565`), the child of a listening port takes `get_ticks() * 54321 + port` (1271), and acknowledgements are compared with `>=` without regard to a wrap
(1358). The theorems need that no stream of the connection wraps, that the numbers of two children of the server are further apart than the bytes of one (`STEP`),
and that the client's is none of the server's; without it a segment of one incarnation could be taken for the next. It
is a condition on the constants that TLC evaluates on the instance of `objects` (`TcpNumbers`).

Neither property is inductive, for what a host may accept depends on every segment still in the network and on what its peer has kept. The invariant has three parts.
`TypeInv` has types and bounds. `Shape` says how far the handshake is: which slot is in use on either side, that a SYN in the network is the one SYN of
the client or the answer of the server to it, which numbers are taken, that a segment with RST means `cut`. `Link(b)` relates the
hosts, `b` being the first byte's number of the server's side, with one `Way` per direction: the sender's slot holds the one outstanding
segment (`Snd`), every segment on the way carries bytes at their own place of the stream and acknowledges no more than is stored (`Outgoing`, `Comes`), the receiver's
`ack` is the number of what it has stored (`Rcv`), and a FIN stands behind all that was sent (`Closing`). Before a connection is up nothing is on its way (`Quiet`);
then the client is up and the server not yet (`Fresh`), or both have been (`Met`), when a child still in its handshake, from a SYN doubled on the way,
is none that the segments of `b` fit. Lemmas such as `WayStore`, `WayUp` and `SndFits` say what one stage of `net_handle_tcp` does to a `Way`; then each step has
a lemma for `Shape` and one for `Link`, and `ShapeNext` and `LinkNext` put them together. That a buffer too small for the
segment does not lose it, the ground of `NothingForgotten`, is in `Snd`: what left `tx` is stored.

`ObjectsProofs` shows that a behaviour of the instance `MCObjects` is one of each of its six modules, with its fairness (`EachRuns`). So their types hold together
(`ObjectsTypes`, `ObjectsSpec => []ObjectsTypeOK`), and so does every safety property that the run checks (`ObjectsSafe`). `SyncTypes` (`SyncSpec => []SyncTypeOK`) is the same for `Sem` and `Futex`, in
`SyncProofs`.

Model-checked only: of `Ipc`, `NobodyStranded`, of `Fds`, `ReaderReturns`, of `Tcp`, `SentArrives`, of `Futex`, `FreeLockTaken` and `ParkEnds`, of `Sched`,
`CoreLetsGo`, `WaitpidReturns` and `SleeperWakes`: they say what happens eventually, and the prover handles neither fairness nor `ENABLED`.

Neither proved nor checked: the streams of `Tcp` when the initial sequence numbers do not satisfy `NumbersFit`.

## 7. Not modelled

The components of section 1 marked `not_modelled` in `PROJECT.json`, each with its reason; of
`task.c` itself the memory regions, framebuffer
ownership and the accounting fields; exec appears only in `Shm` and `PageDirs`. Of `fd.c` the sockets, file offsets and `poll`;
of `shm.c` and `fd.c` what two cores do at once (each section under their locks is one step; what is read outside them is
listed with the hazards); of `net.c` everything but TCP; of the caches `pcache.c`.

The models cover a few thousand lines of a repository of 139,000. Nearly all of the rest is what a state machine
over small sets says nothing about: Doom and Quake with their tables, the Ring 3 applications, drawing, image and font code,
drivers that follow a hardware protocol, string and formatting code. The parts with states and interleavings of their
own that remain are the VFS with ext2 and FAT32, virtual memory, the window manager and the shell's jobs (items 6 to 10 of the plan).
