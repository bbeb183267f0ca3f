------------------------------- MODULE Sched -------------------------------
(***************************************************************************)
(* The SMP scheduler and task lifecycle of the kernel (src/sys/task.c).    *)
(*                                                                         *)
(* Everything task_lock protects is one record, `tab`; a section of code   *)
(* that runs under the lock is one atomic step, and code that runs outside *)
(* it (the scan of waitpid, the hlt loops, the check task_signal makes     *)
(* before it takes the lock) is a step of its own.  Each core executes a   *)
(* program context; a tick saves it into the slot of the outgoing task and *)
(* loads the one of the incoming task, exactly when schedule() does.       *)
(*                                                                         *)
(* `Windows` names the race windows of the source that an instance opens.  *)
(* The source has all of them.  A closed window means that the two halves  *)
(* of the code around it run back to back.                                 *)
(***************************************************************************)
EXTENDS Integers, FiniteSets

CONSTANTS NCPU,      \* cores 0 .. NCPU-1; core 0 is the BSP
          NTASK,     \* task slots (MAX_TASKS)
          MaxSleep,  \* longest sleep a program asks for, in ticks
          Signals,   \* signals programs send
          Calls,     \* system calls programs make
          Pids,      \* targets programs pass to waitpid
          Windows    \* race windows that are open

CPU  == 0 .. NCPU - 1
Task == 0 .. NTASK - 1
None == -1
Any  == -1           \* waitpid(-1)

Workers == NCPU .. NTASK - 1

SIGKILL == 9
SIGUSR  == 10        \* any signal for which the target installed a handler
SIGCONT == 18
SIGSTOP == 19

\* sleep, park, block, create: a program killed by another core goes on until
\*   its own core ticks, and may still get to task_sleep, to the park of
\*   waitpid, to task_set_state(self, BLOCKED) or to thread_create_ex.
\* signal: task_signal looks at the target's state before it takes the lock.
\* cid: task_fork_exec reads get_cid(), then builds the image with interrupts
\*   on, then uses current_task[cid] under the lock.
\* switch: schedule() drops the lock before the stub leaves the old stack.
AllWindows == {"sleep", "park", "block", "create", "signal", "cid", "switch"}

ASSUME SchedAssumption ==
  /\ NCPU \in Nat \ {0}
  /\ NTASK \in Nat /\ NTASK > NCPU
  /\ MaxSleep \in Nat \ {0}
  /\ Signals \subseteq {SIGKILL, SIGUSR, SIGCONT, SIGSTOP}
  /\ Calls \subseteq {"exit", "create", "sleep", "block"}
  /\ Pids \subseteq Workers \cup {Any}
  /\ Windows \subseteq AllWindows

VARIABLES
  tab,     \* tasks[], the runqueues, current_task[] and num_tasks
  ctx,     \* ctx[c]: the program context core c executes
  frame,   \* frame[t]: the context saved at tasks[t].esp, or Gone
  leaving, \* leaving[c]: task whose stack core c still stands on, or None
  waitq    \* tasks listed as waiters of a semaphore or futex (sync.c)

vars == <<tab, ctx, frame, leaving, waitq>>

State == {"FREE", "RUNNING", "READY", "SLEEP", "BLOCKED", "ZOMBIE", "STOPPED"}

\* tasks[], one field per member the scheduler decides by; rq_cpu is None for
\* a task in no runqueue, waiting is the pid a parked waitpid asked for or 0.
Table == [state : [Task -> State], rq_cpu : [Task -> CPU \cup {None}],
          parent : [Task -> Task \cup {None}],
          waiting : [Task -> Workers \cup {Any, 0}],
          pending : [Task -> BOOLEAN], sleep : [Task -> 0 .. MaxSleep],
          current : [CPU -> Task \cup {None}], num_tasks : Int]

(***************************************************************************)
(* A program context: where the program is, two locals of the system call  *)
(* it is in, and whether the program has been terminated (a ghost: the     *)
(* kernel has no such flag).                                               *)
(***************************************************************************)
PC == {"none", "boot", "idle", "main", "run", "spawn", "parked", "slept", "scan",
       "reap", "park", "wait", "unwait", "blocked", "signal"}
Context == [pc : PC, a : Int, b : Int, dead : BOOLEAN]
At(pc, a, b) == [pc |-> pc, a |-> a, b |-> b, dead |-> FALSE]
Fresh == At("run", 0, 0)
\* No saved context is of use: the task is on a core, or is dead.
Gone  == At("none", 0, 0)

IsIdle(t) == t \in 1 .. NCPU - 1
Idle(c)   == c          \* task 0 on the BSP, the pinned idle task on an AP

Dead(k, t) == k.state[t] \in {"ZOMBIE", "FREE"}

-----------------------------------------------------------------------------
(* Runqueues.  rq[c] is the set of tasks whose rq_cpu is c. *)

rq(k, c) == {t \in Task : k.rq_cpu[t] = c}

CurrentAnywhere(k, t)     == \E c \in CPU : k.current[c] = t
CurrentElsewhere(k, c, t) == \E d \in CPU \ {c} : k.current[d] = t

rq_enqueue(k, c, t) ==
  IF \/ k.rq_cpu[t] # None
     \/ Dead(k, t)
     \/ IsIdle(t) /\ c # t
  THEN k
  ELSE [k EXCEPT !.rq_cpu[t] = c]

\* Broken: the entry is swapped out but the task keeps its rq_cpu.
rq_remove_Kept(k, t) == k

rq_remove(k, t) == [k EXCEPT !.rq_cpu[t] = None]

\* Broken: the scan goes on to a phantom core, whose queue is always empty.
rq_least_loaded_Phantom(k) ==
  CHOOSE c \in 0 .. NCPU : \A d \in 0 .. NCPU : Cardinality(rq(k, c)) <= Cardinality(rq(k, d))

\* The first of the shortest queues (`least` is never empty).
rq_least_loaded(k) ==
  LET n(c)  == Cardinality(rq(k, c))
      least == {c \in CPU : \A d \in CPU : n(c) < n(d) \/ (n(c) = n(d) /\ c <= d)}
  IN  CHOOSE c \in CPU : least # {} => c \in least

\* Broken: a woken task is not queued.
rq_enqueue_wake_Lost(k, t) == k

rq_enqueue_wake(k, t) ==
  IF t = 0 \/ IsIdle(t) THEN k ELSE rq_enqueue(k, rq_least_loaded(k), t)

\* Broken: a task whose frame is live on another core is picked.
rq_pick_Live(k, c) == {t \in rq(k, c) : k.state[t] = "READY" /\ (t \in Workers \/ t = c)}

\* Broken: the idle task is kept for when nothing else is found.
rq_pick_NotIdle(k, c) == {t \in rq(k, c) \cap Workers :
                            k.state[t] = "READY" /\ ~CurrentElsewhere(k, c, t)}

\* The tasks rq_pick may return.  The score (priority, nice, aging) that
\* chooses among them is left open here.
rq_pick(k, c) ==
  {t \in rq(k, c) :
     /\ k.state[t] = "READY"
     /\ t = 0 => c = 0
     /\ IsIdle(t) => c = t
     /\ ~CurrentElsewhere(k, c, t)}

rq_steal(k, c) ==
  {t \in Task \ {0} :
     /\ k.rq_cpu[t] \notin {c, None}
     /\ ~IsIdle(t)
     /\ k.state[t] = "READY"
     /\ ~CurrentElsewhere(k, c, t)}

-----------------------------------------------------------------------------
(* The locked operations, as functions on the task table. *)

\* Broken: the children keep a dead parent.
Disown_Not(k, t) == k

\* The children of an exiting task go to the kernel, the zombies among them
\* are freed.
Disown(k, t) ==
  LET kids  == {i \in Task \ {0, t} : k.state[i] # "FREE" /\ k.parent[i] = t}
      freed == {i \in kids : k.state[i] = "ZOMBIE"}
  IN  [k EXCEPT
         !.state  = [i \in Task |-> IF i \in freed THEN "FREE" ELSE @[i]],
         !.parent = [i \in Task |-> IF i \in kids \ freed THEN 0 ELSE @[i]],
         !.num_tasks = @ - Cardinality(freed)]

\* Broken: a parent parked in waitpid sleeps on.
WakeParent_Lost(k, p) == k

\* A parent parked in waitpid is woken, whichever child it waits for.
WakeParent(k, p) ==
  IF k.waiting[p] = 0 THEN k
  ELSE rq_enqueue_wake([k EXCEPT !.waiting[p] = 0, !.state[p] = "READY"], p)

terminate_task(k, t) ==
  LET k1 == Disown(rq_remove(k, t), t)
      p  == k.parent[t]
  IN  IF t = 0 \/ Dead(k, t) THEN k
      ELSE IF p <= 0 \/ p = t \/ Dead(k1, p)
      THEN [k1 EXCEPT !.state[t] = "FREE", !.num_tasks = @ - 1]
      ELSE WakeParent([k1 EXCEPT !.state[t] = "ZOMBIE"], p)

\* Broken: a woken task that no core executes is not queued.
task_set_state_Lost(k, t, s) ==
  IF Dead(k, t) /\ s \in {"RUNNING", "READY"} THEN k
  ELSE IF s = "READY" THEN [k EXCEPT !.state[t] = s] ELSE rq_remove([k EXCEPT !.state[t] = s], t)

task_set_state(k, t, s) ==
  IF \/ IsIdle(t) /\ s \notin {"RUNNING", "READY"}
     \/ Dead(k, t) /\ s \in {"RUNNING", "READY"}
     \/ k.state[t] = s
  THEN k
  ELSE LET k1 == [k EXCEPT !.state[t] = s]
       IN  IF s = "READY"
           THEN LET k2 == [k1 EXCEPT !.sleep[t] = 0]
                IN  IF CurrentAnywhere(k, t) THEN k2 ELSE rq_enqueue_wake(k2, t)
           ELSE IF s = "RUNNING" THEN k1 ELSE rq_remove(k1, t)

\* task_signal once it holds the lock.  A default-action signal other than
\* these stops like SIGSTOP or kills like SIGKILL.
task_signal(k, t, s) ==
  CASE s = SIGKILL -> terminate_task(k, t)
    [] s = SIGSTOP -> rq_remove([k EXCEPT !.state[t] = "STOPPED"], t)
    [] s = SIGCONT -> IF k.state[t] = "STOPPED"
                      THEN rq_enqueue_wake([k EXCEPT !.state[t] = "READY"], t)
                      ELSE k
    [] OTHER -> LET k1 == [k EXCEPT !.pending[t] = TRUE]
                IN  IF k.state[t] \in {"BLOCKED", "SLEEP"}
                    THEN rq_enqueue_wake([k1 EXCEPT !.state[t] = "READY"], t)
                    ELSE k1

\* Broken, as before v38.160: a slot is claimed while a core stands on it.
FreeSlots_Current(k) == {i \in Task : k.state[i] = "FREE"}

\* The FREE slots that no core still names as its current task.
FreeSlots(k) == {i \in Task : k.state[i] = "FREE" /\ ~CurrentAnywhere(k, i)}

thread_create_ex(k, i, p) ==
  LET k1 == [k EXCEPT !.state[i] = "READY", !.rq_cpu[i] = None, !.parent[i] = p,
                      !.waiting[i] = 0, !.pending[i] = FALSE, !.sleep[i] = 0,
                      !.num_tasks = @ + 1]
  IN  rq_enqueue(k1, rq_least_loaded(k1), i)

\* The children of p that waitpid(pid) looks at, and those it can reap.
Children(k, p, pid) == {i \in Task \ {0} : /\ k.state[i] # "FREE"
                                           /\ k.parent[i] = p
                                           /\ pid # Any => i = pid}
Zombies(k, p, pid) == {i \in Children(k, p, pid) : k.state[i] = "ZOMBIE"}

-----------------------------------------------------------------------------
(* schedule(), in the order of its numbered steps. *)

CurDead(k, c) == k.current[c] > 0 /\ Dead(k, k.current[c])

\* Broken: the clock runs on the BSP but the deadline is tested for zero first.
Upkeep_Frozen(k, c) ==
  {[k EXCEPT !.sleep = [t \in Task |-> IF c = 0 /\ @[t] > 1 THEN @[t] - 1 ELSE @[t]]]}

\* 1. Sleep upkeep.  Which queue each woken sleeper joins is left open: the
\* loop recomputes rq_least_loaded for every one of them.
Upkeep(k, c) ==
  IF c # 0 THEN {k}
  ELSE LET due == {t \in Task : k.state[t] = "SLEEP" /\ k.sleep[t] <= 1}
       IN  {[k EXCEPT
               !.sleep  = [t \in Task |-> IF k.state[t] = "SLEEP" /\ @[t] > 0
                                          THEN @[t] - 1 ELSE @[t]],
               !.state  = [t \in Task |-> IF t \in due THEN "READY" ELSE @[t]],
               !.rq_cpu = [t \in Task |->
                             IF t \in due /\ @[t] = None /\ t # 0 /\ ~IsIdle(t)
                             THEN place[t] ELSE @[t]]] : place \in [due -> CPU]}

sched_integrity_sweep(k) ==
  [k EXCEPT !.rq_cpu = [t \in Task |-> IF t > 0 /\ Dead(k, t) THEN None ELSE @[t]]]

\* Broken: the outgoing task stays RUNNING.
Preempt_Running(k, c) ==
  LET t == k.current[c]
  IN  IF t = None \/ CurDead(k, c) \/ k.state[t] \notin {"RUNNING", "READY"} THEN k
      ELSE rq_enqueue(k, c, t)

\* Broken: cur_dead is not asked; all that did not park goes back to READY.
Preempt_Revives(k, c) ==
  LET t == k.current[c]
  IN  IF t = None \/ k.state[t] \in {"SLEEP", "BLOCKED", "STOPPED"} THEN k
      ELSE rq_enqueue([k EXCEPT !.state[t] = "READY"], c, t)

\* 2. RUNNING -> READY; a task woken while it was still current is requeued.
Preempt(k, c) ==
  LET t == k.current[c]
  IN  IF t = None \/ CurDead(k, c) THEN k
      ELSE LET k1 == IF k.state[t] = "RUNNING"
                     THEN [k EXCEPT !.state[t] = "READY"] ELSE k
           IN  IF k1.state[t] = "READY" THEN rq_enqueue(k1, c, t) ELSE k1

SaveFrame(k, c) ==
  IF k.current[c] = None \/ CurDead(k, c) THEN frame
  ELSE [frame EXCEPT ![k.current[c]] = ctx[c]]

\* fxrstor and iret: the saved context moves to the core.
Take(f, n) == [f EXCEPT ![n] = Gone]

\* 3. Own queue, then a peer's, then the current task, then (if that is dead)
\* the core's idle task.  A foreign idle task or a dead task is refused.
Candidates(k, c) ==
  LET t == k.current[c]
      s == IF rq_pick(k, c) # {} THEN rq_pick(k, c)
           ELSE IF rq_steal(k, c) # {} THEN rq_steal(k, c)
           ELSE IF t # None /\ k.state[t] \in {"READY", "RUNNING"} THEN {t}
           ELSE IF CurDead(k, c) THEN {Idle(c)} \ {t}
           ELSE {}
  IN  {n \in s : n > 0 => ~Dead(k, n) /\ (IsIdle(n) => n = c)}

\* 4. Commit.
SwitchTo(k, c, n) ==
  [k EXCEPT !.state[n] = "RUNNING", !.current[c] = n,
            !.rq_cpu[n] = IF n \in rq_steal(k, c) THEN c ELSE @]

\* After step 5 killed the pick; cur is the task the core entered with.
Repick(k, c, cur) ==
  IF rq_pick(k, c) # {} THEN rq_pick(k, c)
  ELSE IF rq_steal(k, c) # {} THEN rq_steal(k, c)
  ELSE {Idle(c)} \ {cur}

\* Make k the task table; the contexts of the programs it terminates are dead.
Install(k, f, x) ==
  LET died == {t \in Task : ~Dead(tab, t) /\ Dead(k, t)}
  IN  /\ tab' = k
      /\ frame' = [t \in Task |->
                     IF t \in died THEN Gone ELSE f[t]]
      /\ ctx' = [c \in CPU |-> IF k.current[c] \in died
                               THEN [x[c] EXCEPT !.dead = TRUE] ELSE x[c]]

Stay(k) == Install(k, frame, ctx) /\ UNCHANGED leaving

Resume(c, n, k, f) ==
  LET t == tab.current[c]
  IN  /\ Install(k, Take(f, n), [ctx EXCEPT ![c] = f[n]])
      /\ leaving' = [leaving EXCEPT ![c] =
                       IF "switch" \in Windows /\ t # n THEN t ELSE None]

\* 5. The pick has a signal pending and is about to return to Ring 3: its
\* handler is entered, or the signal stays pending (masked, or a handler is
\* already running), or its stack is unusable and it is terminated.  A task
\* that became a ZOMBIE is replaced; one that became FREE is not, and the core
\* resumes it in task_dead_park.
Deliverable(k, f, n) == n \in Workers /\ k.pending[n] /\ f[n].pc = "run"

Deliver(c, n, k, f) ==
  LET k1 == terminate_task(k, n)
      ms == Repick(k1, c, tab.current[c])
  IN  \/ \E p \in BOOLEAN : Resume(c, n, [k EXCEPT !.pending[n] = p], f)
      \/ k1.state[n] = "FREE"
         /\ Resume(c, n, k1, [f EXCEPT ![n] = At("parked", 0, 0)])
      \/ k1.state[n] = "ZOMBIE"
         /\ IF ms = {} THEN Stay(k1)
            ELSE \E m \in ms : Resume(c, m, SwitchTo(k1, c, m), f)

\* k1: after step 1; k2: after step 2; k3: after step 4.
Tick(c) ==
  /\ leaving[c] = None
  /\ \E k0 \in Upkeep(tab, c), swept \in {FALSE, c = 0} :
       \E k1 \in {IF swept THEN sched_integrity_sweep(k0) ELSE k0} :
       \E k2 \in {Preempt(k1, c)}, f \in {SaveFrame(k1, c)} :
         IF k1.num_tasks <= 1 /\ k1.current[c] # None THEN Stay(k1)
         ELSE IF Candidates(k2, c) = {} THEN Stay(k2)
         ELSE \E n \in Candidates(k2, c) : \E k3 \in {SwitchTo(k2, c, n)} :
                IF Deliverable(k3, f, n) THEN Deliver(c, n, k3, f)
                                         ELSE Resume(c, n, k3, f)
  /\ UNCHANGED waitq

\* irq_common_stub: mov esp, eax.
SwitchStack(c) ==
  /\ leaving[c] # None
  /\ leaving' = [leaving EXCEPT ![c] = None]
  /\ UNCHANGED <<tab, ctx, frame, waitq>>

-----------------------------------------------------------------------------
(* Steps of the program a core executes. *)

Self(c) == tab.current[c]

Exec(c, pc) == leaving[c] = None /\ Self(c) # None /\ ctx[c].pc = pc

\* A program that was killed gets here only through an open window.
Late(c, w) == ctx[c].dead => w \in Windows

\* The program of core c moves to `at` (its ghost flag stays).
Goto(c, at) == [ctx EXCEPT ![c] = [at EXCEPT !.dead = ctx[c].dead]]

Step(c, k, at) == Install(k, frame, Goto(c, at)) /\ UNCHANGED leaving

\* SYS_EXIT: task_exit_with_code
Exit(c) ==
  /\ "exit" \in Calls /\ Exec(c, "run")
  /\ Step(c, terminate_task(tab, Self(c)), At("parked", 0, 0))
  /\ UNCHANGED waitq

\* A new task in the first claimable slot, child of p, by core c's program.
Create(c, p, at) ==
  /\ "create" \in Calls /\ Late(c, "create")
  /\ \E i \in FreeSlots(tab) :
       /\ \A j \in FreeSlots(tab) : i <= j
       /\ Install(thread_create_ex(tab, i, p), [frame EXCEPT ![i] = Fresh],
                  Goto(c, at))
  /\ UNCHANGED <<leaving, waitq>>

\* SYS_THREAD_CREATE, SYS_FORK and the kernel's own launches
ThreadCreate(c) ==
  \E pc \in {"run", "main"} :
    Exec(c, pc) /\ Create(c, Self(c), At(pc, 0, 0))

\* task_fork_exec: the core it started on is remembered across the load
ForkExec(c) ==
  /\ Exec(c, "run") /\ "cid" \in Windows
  /\ Step(c, tab, At("spawn", c, 0))
  /\ UNCHANGED waitq

ForkExecLocked(c) ==
  Exec(c, "spawn") /\ Create(c, tab.current[ctx[c].a], Fresh)

\* SYS_SLEEP: task_sleep, whose loop looks at the core it was called on
Sleep(c) ==
  /\ "sleep" \in Calls /\ Exec(c, "run") /\ Late(c, "sleep")
  /\ \E n \in 1 .. MaxSleep :
       Step(c, rq_remove([tab EXCEPT !.sleep[Self(c)] = n,
                                     !.state[Self(c)] = "SLEEP"], Self(c)),
            At("slept", c, 0))
  /\ UNCHANGED waitq

SleepDone(c) ==
  /\ Exec(c, "slept")
  /\ tab.state[tab.current[ctx[c].a]] # "SLEEP"
  /\ Step(c, tab, Fresh)
  /\ UNCHANGED waitq

\* SYS_WAITPID
WaitPid(c) ==
  /\ Exec(c, "run")
  /\ \E pid \in Pids : Step(c, tab, At("scan", pid, 0))
  /\ UNCHANGED waitq

Scan(c) ==
  /\ Exec(c, "scan")
  /\ LET pid == ctx[c].a
         zs  == Zombies(tab, Self(c), pid)
     IN  \/ \E z \in zs : Step(c, tab, At("reap", pid, z))
         \/ /\ zs = {} /\ Children(tab, Self(c), pid) # {}
            /\ Step(c, tab, At("park", pid, 0))
         \/ zs = {} /\ Step(c, tab, Fresh)    \* ECHILD, or WNOHANG
  /\ UNCHANGED waitq

\* Broken: the zombie the scan found is not looked at again under the lock.
Reap_Unchecked(c) ==
  /\ Exec(c, "reap")
  /\ Step(c, [tab EXCEPT !.state[ctx[c].b] = "FREE", !.num_tasks = @ - 1], Fresh)
  /\ UNCHANGED waitq

Reap(c) ==
  /\ Exec(c, "reap")
  /\ LET z == ctx[c].b
     IN  IF tab.state[z] = "ZOMBIE" /\ tab.parent[z] = Self(c)
         THEN Step(c, [tab EXCEPT !.state[z] = "FREE", !.num_tasks = @ - 1], Fresh)
         ELSE Step(c, tab, At("scan", ctx[c].a, 0))
  /\ UNCHANGED waitq

\* Broken: no second look for a zombie once the lock is held.
Park_NoRecheck(c) ==
  /\ Exec(c, "park") /\ Late(c, "park")
  /\ Step(c, rq_remove([tab EXCEPT !.waiting[Self(c)] = ctx[c].a,
                                   !.state[Self(c)] = "BLOCKED"], Self(c)),
          At("wait", ctx[c].a, 0))
  /\ UNCHANGED waitq

Park(c) ==
  /\ Exec(c, "park") /\ Late(c, "park")
  /\ LET t   == Self(c)
         pid == ctx[c].a
         k   == rq_remove(tab, t)
     IN  IF Zombies(tab, t, pid) = {}
         THEN Step(c, [k EXCEPT !.waiting[t] = pid, !.state[t] = "BLOCKED"],
                   At("wait", pid, 0))
         ELSE Step(c, [k EXCEPT !.waiting[t] = 0, !.state[t] = "READY"],
                   At("scan", pid, 0))
  /\ UNCHANGED waitq

WaitDone(c) ==
  /\ Exec(c, "wait") /\ tab.state[Self(c)] # "BLOCKED"
  /\ Step(c, tab, At("unwait", ctx[c].a, 0))
  /\ UNCHANGED waitq

Unwait(c) ==
  /\ Exec(c, "unwait")
  /\ Step(c, [tab EXCEPT !.waiting[Self(c)] = 0], At("scan", ctx[c].a, 0))
  /\ UNCHANGED waitq

\* SYS_KILL and Ctrl+C: the state of the target is looked at, then locked
Signal(c) ==
  \E pc \in {"run", "main"}, t \in Workers, s \in Signals :
    /\ Exec(c, pc) /\ ~Dead(tab, t)
    /\ IF "signal" \in Windows /\ pc = "run"
       THEN Step(c, tab, At("signal", t, s))
       ELSE Step(c, task_signal(tab, t, s), At(pc, 0, 0))
    /\ UNCHANGED waitq

SignalLocked(c) ==
  /\ Exec(c, "signal")
  /\ Step(c, task_signal(tab, ctx[c].a, ctx[c].b), Fresh)
  /\ UNCHANGED waitq

\* task_deliver_signals on the way out of a system call
SyscallReturn(c) ==
  /\ Exec(c, "run") /\ ~Dead(tab, Self(c)) /\ tab.pending[Self(c)]
  /\ LET k == [tab EXCEPT !.pending[Self(c)] = FALSE]
     IN  \/ Step(c, k, Fresh)
         \/ Step(c, terminate_task(k, Self(c)), At("parked", 0, 0))
  /\ UNCHANGED waitq

\* sem_wait, futex_wait: list the caller, then task_set_state(self, BLOCKED)
Block(c) ==
  /\ "block" \in Calls /\ Exec(c, "run") /\ Late(c, "block")
  /\ Step(c, task_set_state(tab, Self(c), "BLOCKED"), At("blocked", 0, 0))
  /\ waitq' = waitq \cup {Self(c)}

BlockDone(c) ==
  /\ Exec(c, "blocked") /\ tab.state[Self(c)] # "BLOCKED"
  /\ Step(c, tab, Fresh)
  /\ UNCHANGED waitq

-----------------------------------------------------------------------------
\* wake_one, futex_sweep: a post, a wake or a deadline takes a listed task
Wake(t) ==
  /\ t \in waitq
  /\ waitq' = waitq \ {t}
  /\ IF Dead(tab, t) \/ IsIdle(t) THEN UNCHANGED <<tab, ctx, frame, leaving>>
     ELSE Stay(task_set_state(tab, t, "READY"))

\* sync_drain_pending, in the BSP's main loop
Drain ==
  /\ Exec(0, "main")
  /\ waitq' = {t \in waitq : ~Dead(tab, t)}
  /\ UNCHANGED <<tab, ctx, frame, leaving>>

\* task_reap_zombies, in the BSP's main loop: zombies without a live parent,
\* and any that outlived the timeout
ReapZombies(late) ==
  /\ Exec(0, "main")
  /\ LET zs == {t \in Task \ {0} :
                  /\ tab.state[t] = "ZOMBIE"
                  /\ t \in late \/ tab.parent[t] <= 0 \/ Dead(tab, tab.parent[t])}
     IN  Stay([tab EXCEPT
                 !.state = [t \in Task |-> IF t \in zs THEN "FREE" ELSE @[t]],
                 !.num_tasks = @ - Cardinality(zs)])
  /\ UNCHANGED waitq

-----------------------------------------------------------------------------
\* init_tasking, with the first program already launched by the kernel
Init ==
  /\ tab = [state   |-> [t \in Task |-> IF t = 0 THEN "RUNNING"
                                        ELSE IF IsIdle(t) \/ t = NCPU THEN "READY"
                                        ELSE "FREE"],
            rq_cpu  |-> [t \in Task |-> IF t < NCPU THEN t
                                        ELSE IF t = NCPU THEN 0 ELSE None],
            parent  |-> [t \in Task |-> 0],
            waiting |-> [t \in Task |-> 0],
            pending |-> [t \in Task |-> FALSE],
            sleep   |-> [t \in Task |-> 0],
            current |-> [c \in CPU |-> IF c = 0 THEN 0 ELSE None],
            num_tasks |-> NCPU + 1]
  /\ ctx = [c \in CPU |-> At(IF c = 0 THEN "main" ELSE "boot", 0, 0)]
  /\ frame = [t \in Task |-> IF t = 0 \/ t > NCPU THEN Gone
                             ELSE IF IsIdle(t) THEN At("idle", 0, 0) ELSE Fresh]
  /\ leaving = [c \in CPU |-> None]
  /\ waitq = {}

Program(c) ==
  \/ Exit(c) \/ ThreadCreate(c) \/ ForkExec(c) \/ ForkExecLocked(c)
  \/ Sleep(c) \/ SleepDone(c)
  \/ WaitPid(c) \/ Scan(c) \/ Reap(c) \/ Park(c) \/ WaitDone(c) \/ Unwait(c)
  \/ Signal(c) \/ SignalLocked(c) \/ SyscallReturn(c)
  \/ Block(c) \/ BlockDone(c)

Next ==
  \/ \E c \in CPU : Tick(c) \/ SwitchStack(c) \/ Program(c)
  \/ \E t \in Task : Wake(t)
  \/ Drain
  \/ \E late \in SUBSET {t \in Workers : tab.state[t] = "ZOMBIE"} : ReapZombies(late)

Spec == Init /\ [][Next]_vars

\* Every core keeps ticking.  The aging score of rq_pick leaves no task READY
\* and off every core for ever, and a program inside waitpid that is given a core
\* again and again gets on with it.  Nothing is assumed of the reaper or of other
\* programs.
TickFairness == \A c \in CPU : WF_vars(Tick(c)) /\ WF_vars(SwitchStack(c))

NoStarvation == \A t \in Workers :
  []<>(tab.state[t] # "READY" \/ CurrentAnywhere(tab, t))

WaitPidStep(t) == \E c \in CPU :
  Self(c) = t /\ (Scan(c) \/ Reap(c) \/ Park(c) \/ WaitDone(c) \/ Unwait(c))
WaitPidFairness == \A t \in Workers : SF_vars(WaitPidStep(t))

TickSpec == Spec /\ TickFairness
FairSpec == TickSpec /\ NoStarvation /\ WaitPidFairness
-----------------------------------------------------------------------------
(* Properties. *)

Live(t)       == ~Dead(tab, t)
Stack(c)      == IF leaving[c] # None THEN leaving[c] ELSE tab.current[c]

\* Every variable keeps its type.
TypeOK ==
  /\ tab \in Table
  /\ ctx \in [CPU -> Context] /\ frame \in [Task -> Context]
  /\ leaving \in [CPU -> Task \cup {None}]
  /\ waitq \subseteq Workers

\* "A task can never execute on two CPUs at once": no two cores name the same
\* current task.
OneCore == \A c, d \in CPU :
  c # d /\ tab.current[c] = tab.current[d] => tab.current[c] = None

\* A dead task is in no runqueue, so no core can pick it (the "dead-in-rq"
\* shape sched_integrity_sweep looks for).
DeadNotQueued == \A t \in Task : Dead(tab, t) => tab.rq_cpu[t] = None

\* A RUNNING task is current on the very core whose queue it is in.
RunningIsCurrent == \A t \in Task :
  tab.state[t] = "RUNNING" =>
    tab.rq_cpu[t] # None /\ tab.current[tab.rq_cpu[t]] = t

\* Task 0 and the idle tasks are queued and current only on their own core.
IdlePinned == \A t \in Task \ Workers, c \in CPU :
  (tab.rq_cpu[t] = c \/ tab.current[c] = t) => c = t

\* A READY task is in some runqueue, or a core still executes it and will
\* requeue it: no task is stranded.
NotStranded == \A t \in Task :
  tab.state[t] = "READY" => tab.rq_cpu[t] # None \/ CurrentAnywhere(tab, t)

\* A task parked in waitpid has no child it could reap: the exit of a child
\* between the scan and the park is not lost.
NoLostExit == \A t \in Workers :
  tab.state[t] = "BLOCKED" /\ tab.waiting[t] # 0
    => Zombies(tab, t, tab.waiting[t]) = {}

\* num_tasks counts the slots in use (schedule() stops switching at one).
NumTasks == tab.num_tasks = Cardinality({t \in Task : tab.state[t] # "FREE"})

\* A live slot never holds the context of a program that was terminated: the
\* "parked-frame" corruption of v38.160.
NoDeadContext ==
  /\ \A c \in CPU : tab.current[c] # None /\ ctx[c].dead => Dead(tab, tab.current[c])
  /\ \A t \in Task : ~Dead(tab, t) /\ ~CurrentAnywhere(tab, t)
                       => frame[t] # Gone /\ ~frame[t].dead

\* The parent of a task is the kernel or a task that can still wait for it.
ParentLive == \A t \in Task :
  tab.state[t] # "FREE" /\ tab.parent[t] # 0 => ~Dead(tab, tab.parent[t])

\* A core only ever takes tasks of its own runqueue: its idle task is always in
\* it, so rq_steal is never reached and no task is migrated by stealing.
NoSteal == [][\A c \in CPU, t \in Task :
  tab.rq_cpu[t] \notin {c, None} /\ tab.current[c] # t => tab'.current[c] # t]_vars

\* A dead slot comes back to life only as a fresh task.
DeadStayDead == [][\A t \in Task :
  Dead(tab, t) /\ ~Dead(tab', t) => frame'[t] = Fresh /\ tab'.num_tasks = tab.num_tasks + 1]_vars

\* No two cores stand on the same kernel stack.
StackExclusive == \A c, d \in CPU : c # d /\ Stack(c) = Stack(d) => Stack(c) = None

\* A core lets go of a task that died on it (only then is its slot claimable).
CoreLetsGo == \A c \in CPU : CurDead(tab, c) ~> ~CurDead(tab, c)

\* A sleeper wakes: nothing but a stop or its death takes the clock from it.
SleeperWakes == \A t \in Workers :
  tab.state[t] = "SLEEP" ~> tab.state[t] # "SLEEP"

\* The program of task t is inside task_waitpid.
InWaitpid(t) == \E pc \in {"scan", "reap", "park", "wait", "unwait"} :
  IF CurrentAnywhere(tab, t) THEN \E c \in CPU : Self(c) = t /\ ctx[c].pc = pc
                             ELSE frame[t].pc = pc

\* waitpid returns once a child has exited, unless its caller dies or someone
\* else reaps the child.
WaitpidReturns == \A t \in Workers :
  InWaitpid(t) /\ Zombies(tab, t, Any) # {}
    ~> ~InWaitpid(t) \/ Zombies(tab, t, Any) = {}

=============================================================================
