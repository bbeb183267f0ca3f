---------------------------- MODULE SchedProofs ----------------------------
(***************************************************************************)
(* Proofs about Sched, for any number of cores and tasks.  The locked      *)
(* operations are functions on the task table, so an invariant comes in    *)
(* parts: what holds of the table alone and every operation preserves, and *)
(* what ties the contexts on the cores and in the slots to it.             *)
(*   IInv   Safe and Prog: queues, current[] and types.                    *)
(*   LInv   Heard and WaitsIn besides: who waits in waitpid, and that no   *)
(*          exit escapes it.  Both hold with every race window open.       *)
(*   MInv   Marked and Counted besides: which contexts belong to dead      *)
(*          programs, and num_tasks.  For that Tame has to keep the        *)
(*          windows closed through which a dead slot comes back.           *)
(***************************************************************************)
EXTENDS Sched, FiniteSetTheorems, TLAPS

USE DEF CPU, Task, Workers, None, Any, IsIdle, Idle, SIGKILL, SIGUSR, SIGCONT, SIGSTOP

OneCoreIn(k) == \A c, d \in CPU :
  c # d /\ k.current[c] = k.current[d] => k.current[c] = None
DeadOut(k) == \A t \in Task : Dead(k, t) => k.rq_cpu[t] = None
RunningHome(k) == \A t \in Task :
  k.state[t] = "RUNNING" => k.rq_cpu[t] # None /\ k.current[k.rq_cpu[t]] = t
Pinned(k) == \A t \in Task \ Workers, c \in CPU :
  (k.rq_cpu[t] = c \/ k.current[c] = t) => c = t
ReadyKept(k) == \A t \in Task :
  k.state[t] = "READY" => k.rq_cpu[t] # None \/ CurrentAnywhere(k, t)
IdleKept(k) == \A c \in CPU :
  k.rq_cpu[Idle(c)] = c /\ k.state[Idle(c)] \in {"READY", "RUNNING"}

WaitersWork(k) == \A t \in Task \ Workers : k.waiting[t] = 0

\* What every operation under task_lock preserves.
Safe(k) ==
  /\ k \in Table
  /\ OneCoreIn(k) /\ DeadOut(k) /\ RunningHome(k) /\ Pinned(k)
  /\ ReadyKept(k) /\ IdleKept(k) /\ WaitersWork(k)

\* The members of the task table have the types task_t and struct runqueue give
\* them.
LEMMA Fields ==
  ASSUME NEW k \in Table
  PROVE  /\ k.state \in [Task -> State] /\ k.rq_cpu \in [Task -> CPU \cup {None}]
         /\ k.current \in [CPU -> Task \cup {None}]
         /\ k.parent \in [Task -> Task \cup {None}]
BY DEF Table

\* How an operation may change task u without switching cores: not at all;
\* preempt it; or give a worker a new state and queue that go together.
Moved(k, k1, u) ==
  \/ k1.state[u] = k.state[u] /\ k1.rq_cpu[u] = k.rq_cpu[u]
  \/ /\ k.state[u] = "RUNNING" /\ k1.state[u] = "READY"
     /\ k1.rq_cpu[u] = k.rq_cpu[u]
  \/ /\ u \in Workers /\ k1.state[u] # "RUNNING"
     /\ Dead(k1, u) => k1.rq_cpu[u] = None
     /\ k1.state[u] = "READY" => k1.rq_cpu[u] # None \/ CurrentAnywhere(k, u)

\* Every operation that leaves current[] alone moves tasks in these ways only,
\* and doing so preserves Safe.
LEMMA MovedSafe ==
  ASSUME NEW k, Safe(k), NEW k1 \in Table, k1.current = k.current,
         \A u \in Task : Moved(k, k1, u), WaitersWork(k1)
  PROVE  Safe(k1)
<1> USE DEF Moved
<1>1. OneCoreIn(k1)
  BY DEF Safe, OneCoreIn
<1>2. DeadOut(k1)
  BY DEF Safe, DeadOut, Dead
<1>3. RunningHome(k1)
  BY DEF Safe, RunningHome
<1>4. Pinned(k1)
  BY SchedAssumption DEF Safe, Pinned
<1>5. ReadyKept(k1)
  BY DEF Safe, ReadyKept, RunningHome, CurrentAnywhere
<1>6. IdleKept(k1)
  BY SchedAssumption DEF Safe, IdleKept
<1> QED BY <1>1, <1>2, <1>3, <1>4, <1>5, <1>6 DEF Safe

\* Task 0 and the idle tasks are always runnable.
LEMMA CoreTasks ==
  ASSUME NEW k, Safe(k), NEW t \in Task \ Workers
  PROVE  k.state[t] \in {"READY", "RUNNING"} /\ k.rq_cpu[t] = t
BY SchedAssumption DEF Safe, IdleKept

-----------------------------------------------------------------------------
(* The runqueue operations. *)

\* rq_least_loaded always names a core: its result is a valid index of rq[].
LEMMA LeastLoaded == ASSUME NEW k PROVE rq_least_loaded(k) \in CPU
<1> DEFINE n(c)  == Cardinality(rq(k, c))
           least == {c \in CPU : \A d \in CPU : n(c) < n(d) \/ (n(c) = n(d) /\ c <= d)}
<1>1. \E c \in CPU : least # {} => c \in least
  <2>1. CASE least = {}
    BY <2>1, SchedAssumption
  <2>2. CASE least # {}
    BY <2>2
  <2> QED BY <2>1, <2>2
<1> HIDE DEF least
<1>2. (CHOOSE c \in CPU : least # {} => c \in least) \in CPU
  BY <1>1
<1> QED BY <1>2 DEF rq_least_loaded, least

\* k1 is k but for the fields that say which task is queued where.
Requeued(k, k1, t) ==
  /\ k1 \in Table
  /\ k1 = [k EXCEPT !.rq_cpu = k1.rq_cpu]
  /\ \A u \in Task \ {t} : k1.rq_cpu[u] = k.rq_cpu[u]

\* A task that is in a runqueue stays in it; any task, or any but t.
Kept(k, k1) == \A u \in Task : k.rq_cpu[u] # None => k1.rq_cpu[u] = k.rq_cpu[u]
KeptBut(k, k1, t) == \A u \in Task \ {t} :
  k.rq_cpu[u] # None => k1.rq_cpu[u] = k.rq_cpu[u]

\* rq_remove takes one task out of its runqueue and changes nothing else.
LEMMA RemoveTable ==
  ASSUME NEW k \in Table, NEW t \in Task
  PROVE  Requeued(k, rq_remove(k, t), t) /\ rq_remove(k, t).rq_cpu[t] = None
BY DEF rq_remove, Requeued, Table

\* rq_enqueue touches the queue of one task only, always queues a live worker, and
\* ignores a dead task and one that is already queued.
LEMMA EnqueueTable ==
  ASSUME NEW k \in Table, NEW c \in CPU, NEW t \in Task
  PROVE  /\ Requeued(k, rq_enqueue(k, c, t), t)
         /\ t \in Workers /\ ~Dead(k, t) => rq_enqueue(k, c, t).rq_cpu[t] # None
         /\ Dead(k, t) => rq_enqueue(k, c, t) = k
         /\ k.rq_cpu[t] # None => rq_enqueue(k, c, t) = k
<1> DEFINE k1 == [k EXCEPT !.rq_cpu[t] = c]
<1>1. k1 \in Table /\ k1.rq_cpu = [k.rq_cpu EXCEPT ![t] = c] /\ k1 = [k EXCEPT !.rq_cpu = k1.rq_cpu]
  BY DEF Table
<1>2. Requeued(k, k1, t) /\ k1.rq_cpu[t] = c
  BY <1>1 DEF Requeued, Table
<1>3. Requeued(k, k, t)
  BY DEF Requeued, Table
<1> HIDE DEF k1
<1> QED BY <1>2, <1>3, SchedAssumption DEF rq_enqueue, k1

\* rq_enqueue_wake leaves every live worker in some runqueue and touches no other
\* task.
LEMMA WakeTable ==
  ASSUME NEW k \in Table, NEW t \in Task
  PROVE  /\ Requeued(k, rq_enqueue_wake(k, t), t)
         /\ t \in Workers /\ ~Dead(k, t) => rq_enqueue_wake(k, t).rq_cpu[t] # None
         /\ k.rq_cpu[t] # None => rq_enqueue_wake(k, t) = k
<1>1. Requeued(k, k, t)
  BY DEF Requeued, Table
<1> QED BY <1>1, EnqueueTable, LeastLoaded, SchedAssumption DEF rq_enqueue_wake

-----------------------------------------------------------------------------
(* The operations that leave current[] alone. *)

\* The slots are finitely many, so the number terminate_task and the reaper
\* subtract from num_tasks is a natural number.
LEMMA TaskSets == \A S : S \subseteq Task => Cardinality(S) \in Nat
<1>1. IsFiniteSet(Task)
  BY FS_Interval, SchedAssumption
<1> QED BY <1>1, FS_Subset, FS_CardinalityType

\* terminate_task: the exiting task leaves its queue, its zombies become FREE, and
\* a parked parent is queued when it is made READY.
LEMMA TerminateSafe ==
  ASSUME NEW k, Safe(k), NEW t \in Task, ~IsIdle(t)
  PROVE  /\ Safe(terminate_task(k, t)) /\ terminate_task(k, t).current = k.current
         /\ KeptBut(k, terminate_task(k, t), t)
<1> DEFINE k0 == rq_remove(k, t)
           kids  == {i \in Task \ {0, t} : k0.state[i] # "FREE" /\ k0.parent[i] = t}
           freed == {i \in kids : k0.state[i] = "ZOMBIE"}
           k1 == [k0 EXCEPT
                    !.state  = [i \in Task |-> IF i \in freed THEN "FREE" ELSE @[i]],
                    !.parent = [i \in Task |-> IF i \in kids \ freed THEN 0 ELSE @[i]],
                    !.num_tasks = @ - Cardinality(freed)]
           kf == [k1 EXCEPT !.state[t] = "FREE", !.num_tasks = @ - 1]
           k2 == [k1 EXCEPT !.state[t] = "ZOMBIE"]
           p  == k.parent[t]
           k3 == [k2 EXCEPT !.waiting[p] = 0, !.state[p] = "READY"]
<1>1. CASE t = 0 \/ Dead(k, t)
  BY <1>1 DEF terminate_task, KeptBut
<1>2. CASE ~(t = 0 \/ Dead(k, t))
  <2>0. t \in Workers /\ k \in Table
    BY <1>2, SchedAssumption DEF Safe
  <2>1. Requeued(k, k0, t) /\ k0.rq_cpu[t] = None
    BY <2>0, RemoveTable
  <2>2. freed \subseteq Task
    OBVIOUS
  <2>3. Cardinality(freed) \in Nat
    BY <2>2, TaskSets
  <2>4. /\ k1 \in Table
        /\ k1.state = [i \in Task |-> IF i \in freed THEN "FREE" ELSE k.state[i]]
        /\ k1.rq_cpu = k0.rq_cpu /\ k1.current = k.current /\ k1.waiting = k.waiting
    <3>1. k0 \in Table /\ k0.state = k.state /\ k0.current = k.current
          /\ k0.waiting = k.waiting
      BY <2>0, <2>1 DEF Requeued, Table
    <3>2. [i \in Task |-> IF i \in freed THEN "FREE" ELSE k0.state[i]] \in [Task -> State]
      BY <3>1 DEF Table, State
    <3>3. [i \in Task |-> IF i \in kids \ freed THEN 0 ELSE k0.parent[i]]
            \in [Task -> Task \cup {None}]
      BY <3>1, SchedAssumption DEF Table
    <3>4. k0.num_tasks - Cardinality(freed) \in Int
      BY <2>3, <3>1 DEF Table
    <3> HIDE DEF k0, freed, kids
    <3> QED BY <3>1, <3>2, <3>3, <3>4 DEF Table
  <2>4a. \A u \in freed : k.state[u] = "ZOMBIE"
    BY <2>0, <2>1 DEF Requeued, Table
  <2> HIDE DEF k0, k1, freed
  <2>5. /\ kf \in Table /\ kf.state = [k1.state EXCEPT ![t] = "FREE"]
        /\ kf.rq_cpu = k1.rq_cpu /\ kf.current = k.current /\ kf.waiting = k.waiting
    <3>1. [k1.state EXCEPT ![t] = "FREE"] \in [Task -> State]
      BY <2>4 DEF Table, State
    <3>2. k1.num_tasks - 1 \in Int
      BY <2>4 DEF Table
    <3> QED BY <2>4, <3>1, <3>2 DEF Table
  <2>6. /\ k2 \in Table /\ k2.state = [k1.state EXCEPT ![t] = "ZOMBIE"]
        /\ k2.rq_cpu = k1.rq_cpu /\ k2.current = k.current /\ k2.waiting = k.waiting
    BY <2>4 DEF Table, State
  <2> HIDE DEF kf, k2
  <2>7. \A u \in Task : u # t => Moved(k, k1, u)
    BY <2>1, <2>4, <2>4a, CoreTasks, SchedAssumption DEF Moved, Requeued, Dead, Safe, DeadOut
  <2>8. Safe(kf)
    <3>1. \A u \in Task : Moved(k, kf, u)
      BY <2>0, <2>1, <2>4, <2>5, <2>7 DEF Moved, Table, Dead
    <3> QED BY <2>5, <3>1, MovedSafe DEF Safe, WaitersWork
  <2>9. Safe(k2)
    <3>1. \A u \in Task : Moved(k, k2, u)
      BY <2>0, <2>1, <2>4, <2>6, <2>7 DEF Moved, Table, Dead
    <3> QED BY <2>6, <3>1, MovedSafe DEF Safe, WaitersWork
  <2>11. KeptBut(k, kf, t) /\ KeptBut(k, k2, t)
    BY <2>1, <2>4, <2>5, <2>6 DEF KeptBut, Requeued
  <2>10. ASSUME ~(p <= 0 \/ p = t \/ Dead(k1, p)), k.waiting[p] # 0
         PROVE  /\ Safe(rq_enqueue_wake(k3, p)) /\ rq_enqueue_wake(k3, p).current = k.current
                /\ KeptBut(k, rq_enqueue_wake(k3, p), t)
    <3> DEFINE k4 == rq_enqueue_wake(k3, p)
    <3>1. p \in Workers
      BY <2>0, <2>10, SchedAssumption DEF Safe, WaitersWork, Table
    <3>2. /\ k3 \in Table /\ k3.rq_cpu = k2.rq_cpu /\ k3.current = k.current
          /\ k3.state = [k2.state EXCEPT ![p] = "READY"]
          /\ k3.waiting = [k.waiting EXCEPT ![p] = 0]
      BY <2>6, <3>1 DEF Table, State
    <3>3. ~Dead(k3, p)
      BY <3>1, <3>2, <2>6, SchedAssumption DEF Dead, Table
    <3> HIDE DEF k3
    <3>4. Requeued(k3, k4, p) /\ k4.rq_cpu[p] # None /\ (k3.rq_cpu[p] # None => k4 = k3)
      BY <3>1, <3>2, <3>3, WakeTable, SchedAssumption
    <3> HIDE DEF k4
    <3>5. /\ k4 \in Table /\ k4.current = k.current /\ k4.state = k3.state
          /\ k4.waiting = k3.waiting
      BY <3>2, <3>4 DEF Requeued, Table
    <3>6. \A u \in Task : Moved(k2, k4, u)
      <4>1. \A u \in Task \ {p} : k4.state[u] = k2.state[u] /\ k4.rq_cpu[u] = k2.rq_cpu[u]
        <5>1. k2.state \in [Task -> State]
          BY <2>6, Fields
        <5>2. \A u \in Task \ {p} : k4.rq_cpu[u] = k3.rq_cpu[u]
          BY <3>4 DEF Requeued
        <5> QED BY <3>2, <3>5, <5>1, <5>2
      <4>2. p \in Task /\ k4.state[p] = "READY"
        BY <2>6, <3>1, <3>2, <3>5, Fields, SchedAssumption
      <4> QED BY <3>1, <3>4, <4>1, <4>2 DEF Moved, Dead
    <3>7. WaitersWork(k4)
      <4>1. k4.waiting = [k.waiting EXCEPT ![p] = 0]
        BY <3>2, <3>5
      <4>2. \A u \in Task \ Workers : k.waiting[u] = 0 /\ u # p
        BY <3>1 DEF Safe, WaitersWork
      <4>3. DOMAIN k.waiting = Task
        BY <2>0 DEF Safe, Table
      <4> QED
        BY <4>1, <4>2, <4>3 DEF WaitersWork
    <3>8. KeptBut(k, k4, t)
      <4>1. \A u \in Task \ {t} : k.rq_cpu[u] # None => k3.rq_cpu[u] = k.rq_cpu[u]
        BY <2>6, <2>11, <3>2 DEF KeptBut
      <4>2. \A u \in Task \ {p} : k4.rq_cpu[u] = k3.rq_cpu[u]
        BY <3>4 DEF Requeued
      <4>3. k3.rq_cpu[p] # None => k4.rq_cpu[p] = k3.rq_cpu[p]
        BY <3>4
      <4> QED BY <4>1, <4>2, <4>3 DEF KeptBut
    <3> QED BY <2>6, <2>9, <3>5, <3>6, <3>7, <3>8, MovedSafe DEF k4
  <2> QED BY <1>2, <2>5, <2>6, <2>8, <2>9, <2>10, <2>11
            DEF terminate_task, Disown, WakeParent, k0, k1, k2, kf, freed
<1> QED BY <1>1, <1>2

\* task_set_state keeps state and queue together, for a task that blocks itself
\* and for one that is woken.
LEMMA SetStateSafe ==
  ASSUME NEW k, Safe(k), NEW t \in Workers,
         NEW s \in {"READY", "BLOCKED"}
  PROVE  Safe(task_set_state(k, t, s)) /\ task_set_state(k, t, s).current = k.current
<1> DEFINE k1 == [k EXCEPT !.state[t] = s]
           k2 == [k1 EXCEPT !.sleep[t] = 0]
           r  == task_set_state(k, t, s)
<1>0. t \in Task /\ ~IsIdle(t)
  BY SchedAssumption
<1>1. /\ k1 \in Table /\ k1.state = [k.state EXCEPT ![t] = s]
      /\ k1.rq_cpu = k.rq_cpu /\ k1.current = k.current /\ k1.waiting = k.waiting
  BY <1>0 DEF Safe, Table, State
<1> HIDE DEF k1
<1>2. /\ k2 \in Table /\ k2.state = k1.state
      /\ k2.rq_cpu = k.rq_cpu /\ k2.current = k.current /\ k2.waiting = k.waiting
  <2>1. [k1.sleep EXCEPT ![t] = 0] \in [Task -> 0 .. MaxSleep]
    BY <1>0, <1>1, SchedAssumption DEF Table
  <2> QED BY <1>1, <2>1 DEF Table
<1> HIDE DEF k2
<1>3. CASE r = k
  BY <1>3
<1>4. CASE s = "READY" /\ CurrentAnywhere(k, t) /\ r = k2
  <2>1. \A u \in Task : Moved(k, k2, u)
    BY <1>0, <1>1, <1>2, <1>4 DEF Moved, Dead, CurrentAnywhere, Safe, Table
  <2> QED BY <1>2, <1>4, <2>1, MovedSafe DEF Safe, WaitersWork
<1>5. CASE s = "READY" /\ r = rq_enqueue_wake(k2, t)
  <2> DEFINE k3 == rq_enqueue_wake(k2, t)
  <2>1. ~Dead(k2, t)
    BY <1>0, <1>1, <1>2, <1>5 DEF Dead, Safe, Table
  <2>2. Requeued(k2, k3, t) /\ k3.rq_cpu[t] # None
    BY <1>0, <1>2, <2>1, WakeTable
  <2> HIDE DEF k3
  <2>3. /\ k3 \in Table /\ k3.current = k.current /\ k3.state = k1.state
        /\ k3.waiting = k.waiting
    BY <1>1, <1>2, <2>2 DEF Requeued, Table
  <2>4. \A u \in Task \ {t} : k3.state[u] = k.state[u] /\ k3.rq_cpu[u] = k.rq_cpu[u]
    BY <1>1, <1>2, <2>2, <2>3, Fields DEF Requeued, Safe
  <2>5. \A u \in Task : Moved(k, k3, u)
    <3>1. k3.state[t] = "READY"
      BY <1>0, <1>1, <1>5, <2>3, Fields DEF Safe
    <3> QED BY <2>2, <2>4, <3>1 DEF Moved, Dead
  <2> QED BY <1>5, <2>3, <2>5, MovedSafe DEF Safe, WaitersWork, k3
<1>6. CASE s = "BLOCKED" /\ r = rq_remove(k1, t)
  <2> DEFINE k3 == rq_remove(k1, t)
  <2>1. Requeued(k1, k3, t) /\ k3.rq_cpu[t] = None
    BY <1>0, <1>1, RemoveTable
  <2> HIDE DEF k3
  <2>2. /\ k3 \in Table /\ k3.current = k.current /\ k3.state = k1.state
        /\ k3.waiting = k.waiting
    BY <1>1, <2>1 DEF Requeued, Table
  <2>3. \A u \in Task : Moved(k, k3, u)
    <3>1. \A u \in Task \ {t} : k3.state[u] = k.state[u] /\ k3.rq_cpu[u] = k.rq_cpu[u]
      BY <1>1, <2>1, <2>2, Fields DEF Requeued, Safe
    <3>2. k3.state[t] = "BLOCKED"
      BY <1>0, <1>1, <1>6, <2>2, Fields DEF Safe
    <3> QED BY <2>1, <3>1, <3>2 DEF Moved, Dead
  <2> QED BY <1>6, <2>2, <2>3, MovedSafe DEF Safe, WaitersWork, k3
<1>7. r = k \/ (s = "READY" /\ CurrentAnywhere(k, t) /\ r = k2)
            \/ (s = "READY" /\ r = rq_enqueue_wake(k2, t))
            \/ (s = "BLOCKED" /\ r = rq_remove(k1, t))
  <2>1. CASE s = "READY"
    BY <2>1 DEF task_set_state, k1, k2
  <2>2. CASE s = "BLOCKED"
    BY <2>2 DEF task_set_state, k1, k2
  <2> QED BY <2>1, <2>2
<1> QED BY <1>3, <1>4, <1>5, <1>6, <1>7 DEF Safe

\* task_signal under task_lock, for every signal and every state of the target,
\* the dead ones included (it does not look again).
LEMMA SignalSafe ==
  ASSUME NEW k, Safe(k), NEW t \in Workers, NEW s
  PROVE  Safe(task_signal(k, t, s)) /\ task_signal(k, t, s).current = k.current
<1> DEFINE ks == [k EXCEPT !.state[t] = "STOPPED"]
           kc == [k EXCEPT !.state[t] = "READY"]
           kp == [k EXCEPT !.pending[t] = TRUE]
           kw == [kp EXCEPT !.state[t] = "READY"]
<1>0. t \in Task /\ ~IsIdle(t) /\ k \in Table
  BY SchedAssumption DEF Safe
<1>1. /\ ks \in Table /\ ks.state = [k.state EXCEPT ![t] = "STOPPED"]
      /\ ks.rq_cpu = k.rq_cpu /\ ks.current = k.current /\ ks.waiting = k.waiting
  BY <1>0 DEF Table, State
<1>2. /\ kc \in Table /\ kc.state = [k.state EXCEPT ![t] = "READY"]
      /\ kc.rq_cpu = k.rq_cpu /\ kc.current = k.current /\ kc.waiting = k.waiting
  BY <1>0 DEF Table, State
<1>3. /\ kp \in Table /\ kp.state = k.state
      /\ kp.rq_cpu = k.rq_cpu /\ kp.current = k.current /\ kp.waiting = k.waiting
  BY <1>0 DEF Table
<1> HIDE DEF ks, kc, kp
<1>4. /\ kw \in Table /\ kw.state = [k.state EXCEPT ![t] = "READY"]
      /\ kw.rq_cpu = k.rq_cpu /\ kw.current = k.current /\ kw.waiting = k.waiting
  BY <1>0, <1>3 DEF Table, State
<1> HIDE DEF kw
<1>5. Safe(rq_remove(ks, t)) /\ rq_remove(ks, t).current = k.current
  <2> DEFINE k3 == rq_remove(ks, t)
  <2>1. Requeued(ks, k3, t) /\ k3.rq_cpu[t] = None
    BY <1>0, <1>1, RemoveTable
  <2> HIDE DEF k3
  <2>2. /\ k3 \in Table /\ k3.current = k.current /\ k3.state = ks.state
        /\ k3.waiting = k.waiting
    BY <1>1, <2>1 DEF Requeued, Table
  <2>3. \A u \in Task : Moved(k, k3, u)
    <3>1. \A u \in Task \ {t} : k3.state[u] = k.state[u] /\ k3.rq_cpu[u] = k.rq_cpu[u]
      BY <1>0, <1>1, <2>1, <2>2, Fields DEF Requeued
    <3>2. k3.state[t] = "STOPPED"
      BY <1>0, <1>1, <2>2, Fields
    <3> QED BY <2>1, <3>1, <3>2 DEF Moved, Dead
  <2> QED BY <2>2, <2>3, MovedSafe DEF Safe, WaitersWork, k3
<1>6. ASSUME NEW x \in {kc, kw}
      PROVE  Safe(rq_enqueue_wake(x, t)) /\ rq_enqueue_wake(x, t).current = k.current
  <2> DEFINE k3 == rq_enqueue_wake(x, t)
  <2>0. /\ x \in Table /\ x.state = [k.state EXCEPT ![t] = "READY"]
        /\ x.rq_cpu = k.rq_cpu /\ x.current = k.current /\ x.waiting = k.waiting
    BY <1>2, <1>4, <1>6
  <2>1. ~Dead(x, t)
    BY <1>0, <2>0, Fields DEF Dead
  <2>2. Requeued(x, k3, t) /\ k3.rq_cpu[t] # None
    BY <1>0, <2>0, <2>1, WakeTable
  <2> HIDE DEF k3
  <2>3. /\ k3 \in Table /\ k3.current = k.current /\ k3.state = x.state
        /\ k3.waiting = k.waiting
    BY <2>0, <2>2 DEF Requeued, Table
  <2>4. \A u \in Task : Moved(k, k3, u)
    <3>1. \A u \in Task \ {t} : k3.state[u] = k.state[u] /\ k3.rq_cpu[u] = k.rq_cpu[u]
      BY <1>0, <2>0, <2>2, <2>3, Fields DEF Requeued
    <3>2. k3.state[t] = "READY"
      BY <1>0, <2>0, <2>3, Fields
    <3> QED BY <2>2, <3>1, <3>2 DEF Moved, Dead
  <2> QED BY <2>3, <2>4, MovedSafe DEF Safe, WaitersWork, k3
<1>7. Safe(kp)
  BY <1>3, MovedSafe DEF Moved, Safe, WaitersWork
<1>8. task_signal(k, t, s) \in {terminate_task(k, t), rq_remove(ks, t), k, kp,
                               rq_enqueue_wake(kc, t), rq_enqueue_wake(kw, t)}
  BY DEF task_signal, ks, kc, kp, kw
<1> QED BY <1>0, <1>3, <1>5, <1>6, <1>7, <1>8, TerminateSafe

\* thread_create_ex: a slot that is FREE and no core's current task becomes a
\* live, queued task.
LEMMA CreateSafe ==
  ASSUME NEW k, Safe(k), NEW i \in FreeSlots(k), NEW p \in Task \cup {None}
  PROVE  /\ Safe(thread_create_ex(k, i, p))
         /\ thread_create_ex(k, i, p).current = k.current
         /\ ~Dead(thread_create_ex(k, i, p), i)
<1> DEFINE k1 == [k EXCEPT !.state[i] = "READY", !.rq_cpu[i] = None, !.parent[i] = p,
                      !.waiting[i] = 0, !.pending[i] = FALSE, !.sleep[i] = 0,
                      !.num_tasks = @ + 1]
           c  == rq_least_loaded(k1)
           k2 == rq_enqueue(k1, c, i)
<1>0. k \in Table /\ i \in Workers /\ i \in Task /\ k.state[i] = "FREE"
  BY CoreTasks DEF FreeSlots, Safe
<1>1. /\ k1 \in Table /\ k1.state = [k.state EXCEPT ![i] = "READY"]
      /\ k1.rq_cpu = [k.rq_cpu EXCEPT ![i] = None] /\ k1.current = k.current
      /\ k1.waiting = [k.waiting EXCEPT ![i] = 0]
  <2>1. /\ [k.state EXCEPT ![i] = "READY"] \in [Task -> State]
        /\ [k.rq_cpu EXCEPT ![i] = None] \in [Task -> CPU \cup {None}]
        /\ [k.parent EXCEPT ![i] = p] \in [Task -> Task \cup {None}]
    BY <1>0, Fields DEF State
  <2>2. /\ [k.waiting EXCEPT ![i] = 0] \in [Task -> Workers \cup {Any, 0}]
        /\ [k.pending EXCEPT ![i] = FALSE] \in [Task -> BOOLEAN]
        /\ [k.sleep EXCEPT ![i] = 0] \in [Task -> 0 .. MaxSleep]
        /\ k.num_tasks + 1 \in Int
    BY <1>0, SchedAssumption DEF Table
  <2> QED BY <1>0, <2>1, <2>2 DEF Table
<1> HIDE DEF k1
<1>2. c \in CPU
  BY LeastLoaded
<1> HIDE DEF c
<1>3. ~Dead(k1, i)
  BY <1>0, <1>1, Fields DEF Dead
<1>4. Requeued(k1, k2, i) /\ k2.rq_cpu[i] # None
  BY <1>0, <1>1, <1>2, <1>3, EnqueueTable
<1> HIDE DEF k2
<1>5. /\ k2 \in Table /\ k2.current = k.current /\ k2.state = k1.state
      /\ k2.waiting = k1.waiting
  BY <1>1, <1>4 DEF Requeued, Table
<1>6. k2.state[i] = "READY"
  <2>1. k2.state = [k.state EXCEPT ![i] = "READY"]
    BY <1>1, <1>5
  <2>2. DOMAIN k.state = Task
    BY <1>0, Fields
  <2> QED
    BY <1>0, <2>1, <2>2
<1>7. \A u \in Task : Moved(k, k2, u)
  <2>1. \A u \in Task \ {i} : k2.state[u] = k.state[u] /\ k2.rq_cpu[u] = k.rq_cpu[u]
    BY <1>0, <1>1, <1>4, <1>5, Fields DEF Requeued
  <2> QED BY <1>0, <1>4, <1>6, <2>1 DEF Moved, Dead
<1>8. WaitersWork(k2)
  BY <1>0, <1>1, <1>5 DEF Safe, WaitersWork, Table
<1> QED BY <1>5, <1>6, <1>7, <1>8, MovedSafe DEF thread_create_ex, k1, k2, c, Dead

-----------------------------------------------------------------------------
(* The steps of schedule(). *)

\* Step 1 of schedule(): an expired sleeper is queued whichever core its queue is
\* on.
LEMMA UpkeepSafe ==
  ASSUME NEW k, Safe(k), NEW c \in CPU, NEW k1 \in Upkeep(k, c)
  PROVE  /\ Safe(k1) /\ k1.current = k.current /\ Kept(k, k1)
         /\ \A t \in Task : Dead(k1, t) <=> Dead(k, t)
<1>1. CASE c # 0
  BY <1>1 DEF Upkeep, Kept
<1>2. CASE c = 0
  <2> DEFINE due == {t \in Task : k.state[t] = "SLEEP" /\ k.sleep[t] <= 1}
  <2>1. PICK place \in [due -> CPU] :
          k1 = [k EXCEPT
                 !.sleep  = [t \in Task |-> IF k.state[t] = "SLEEP" /\ @[t] > 0
                                            THEN @[t] - 1 ELSE @[t]],
                 !.state  = [t \in Task |-> IF t \in due THEN "READY" ELSE @[t]],
                 !.rq_cpu = [t \in Task |->
                               IF t \in due /\ @[t] = None /\ t # 0 /\ ~IsIdle(t)
                               THEN place[t] ELSE @[t]]]
    BY <1>2 DEF Upkeep
  <2>2. k \in Table /\ due \subseteq Task
    BY DEF Safe
  <2>3. /\ [t \in Task |-> IF k.state[t] = "SLEEP" /\ k.sleep[t] > 0
                            THEN k.sleep[t] - 1 ELSE k.sleep[t]] \in [Task -> 0 .. MaxSleep]
        /\ [t \in Task |-> IF t \in due THEN "READY" ELSE k.state[t]] \in [Task -> State]
        /\ [t \in Task |-> IF t \in due /\ k.rq_cpu[t] = None /\ t # 0 /\ ~IsIdle(t)
                            THEN place[t] ELSE k.rq_cpu[t]] \in [Task -> CPU \cup {None}]
    BY <2>1, <2>2, SchedAssumption DEF Table, State
  <2>4. /\ k1 \in Table /\ k1.current = k.current /\ k1.waiting = k.waiting
        /\ k1.state = [t \in Task |-> IF t \in due THEN "READY" ELSE k.state[t]]
        /\ k1.rq_cpu = [t \in Task |-> IF t \in due /\ k.rq_cpu[t] = None /\ t # 0 /\ ~IsIdle(t)
                                        THEN place[t] ELSE k.rq_cpu[t]]
    BY <2>1, <2>2, <2>3 DEF Table
  <2>5. \A t \in due : t \in Workers /\ k1.state[t] = "READY" /\ k1.rq_cpu[t] # None
    BY <2>1, <2>2, <2>4, CoreTasks, SchedAssumption
  <2>6. \A t \in Task \ due : k1.state[t] = k.state[t] /\ k1.rq_cpu[t] = k.rq_cpu[t]
    BY <2>4
  <2>7. \A t \in due : k.state[t] = "SLEEP"
    OBVIOUS
  <2> HIDE DEF due
  <2>8. \A t \in Task : Moved(k, k1, t)
    BY <2>5, <2>6 DEF Moved, Dead
  <2>9. Kept(k, k1)
    BY <2>4 DEF Kept
  <2> QED BY <2>4, <2>5, <2>6, <2>7, <2>8, <2>9, MovedSafe DEF Safe, WaitersWork, Dead
<1> QED BY <1>1, <1>2

\* sched_integrity_sweep changes no state and empties no queue of a live task.
LEMMA SweepSafe ==
  ASSUME NEW k, Safe(k)
  PROVE  /\ Safe(sched_integrity_sweep(k)) /\ sched_integrity_sweep(k).current = k.current
         /\ sched_integrity_sweep(k).state = k.state /\ Kept(k, sched_integrity_sweep(k))
<1> DEFINE k1 == sched_integrity_sweep(k)
<1>1. /\ k1 \in Table /\ k1.current = k.current /\ k1.waiting = k.waiting
      /\ k1.state = k.state
      /\ \A t \in Task : k1.rq_cpu[t] = IF t > 0 /\ Dead(k, t) THEN None ELSE k.rq_cpu[t]
  BY DEF sched_integrity_sweep, Safe, Table
<1>2. \A t \in Task : Moved(k, k1, t)
  BY <1>1 DEF Moved, Safe, DeadOut
<1>3. Kept(k, k1)
  BY <1>1 DEF Kept, Safe, DeadOut
<1> QED BY <1>1, <1>2, <1>3, MovedSafe DEF Safe, WaitersWork

\* After step 2 the outgoing task of core c is in a runqueue if it can run.
Yielded(k, c) ==
  LET t == k.current[c]
  IN  t # None => /\ k.state[t] # "RUNNING"
                  /\ k.state[t] = "READY" => k.rq_cpu[t] # None

\* Step 2 of schedule(): the outgoing task is no longer RUNNING and stays queued.
LEMMA PreemptSafe ==
  ASSUME NEW k, Safe(k), NEW c \in CPU
  PROVE  /\ Safe(Preempt(k, c)) /\ Preempt(k, c).current = k.current
         /\ Yielded(Preempt(k, c), c) /\ Kept(k, Preempt(k, c))
         /\ \A u \in Task : Dead(Preempt(k, c), u) <=> Dead(k, u)
<1> DEFINE t  == k.current[c]
           k1 == [k EXCEPT !.state[t] = "READY"]
<1>0. k \in Table /\ t \in Task \cup {None}
  BY Fields DEF Safe
<1>1. CASE t = None \/ CurDead(k, c)
  BY <1>1 DEF Preempt, Yielded, CurDead, Dead, Kept
<1>2. CASE ~(t = None \/ CurDead(k, c)) /\ k.state[t] = "RUNNING"
  <2>1. t \in Task /\ k.rq_cpu[t] # None
    BY <1>0, <1>2 DEF Safe, RunningHome
  <2>2. /\ k1 \in Table /\ k1.state = [k.state EXCEPT ![t] = "READY"]
        /\ k1.rq_cpu = k.rq_cpu /\ k1.current = k.current /\ k1.waiting = k.waiting
    BY <1>0, <2>1 DEF Table, State
  <2> HIDE DEF k1
  <2>3. k1.state[t] = "READY" /\ \A u \in Task \ {t} : k1.state[u] = k.state[u]
    BY <1>0, <2>1, <2>2, Fields
  <2>4. Preempt(k, c) = k1
    <3>1. rq_enqueue(k1, c, t) = k1
      BY <2>1, <2>2, EnqueueTable
    <3> QED BY <1>2, <2>3, <3>1 DEF Preempt, k1
  <2>5. Safe(k1)
    <3>1. \A u \in Task : Moved(k, k1, u)
      BY <1>2, <2>1, <2>2, <2>3 DEF Moved
    <3> QED BY <2>2, <3>1, MovedSafe DEF Safe, WaitersWork
  <2>6. Kept(k, k1)
    BY <2>2 DEF Kept
  <2> QED BY <1>2, <2>1, <2>2, <2>3, <2>4, <2>5, <2>6 DEF Yielded, Dead
<1>3. CASE ~(t = None \/ CurDead(k, c)) /\ k.state[t] = "READY"
  <2> DEFINE k2 == rq_enqueue(k, c, t)
  <2>1. t \in Task /\ ~Dead(k, t)
    BY <1>0, <1>3 DEF Dead
  <2>2. Requeued(k, k2, t) /\ (k.rq_cpu[t] # None => k2 = k)
          /\ (t \in Workers => k2.rq_cpu[t] # None)
    BY <1>0, <2>1, EnqueueTable
  <2>3. k2.rq_cpu[t] # None
    BY <2>1, <2>2, CoreTasks
  <2>4. Preempt(k, c) = k2
    BY <1>3 DEF Preempt
  <2> HIDE DEF k2
  <2>5. /\ k2 \in Table /\ k2.current = k.current /\ k2.state = k.state
        /\ k2.waiting = k.waiting
    BY <1>0, <2>2 DEF Requeued, Table
  <2>6. CASE k2 = k
    BY <1>3, <2>3, <2>4, <2>6 DEF Yielded, Kept
  <2>7. CASE k2 # k
    <3>1. t \in Workers
      BY <2>1, <2>2, <2>7, CoreTasks
    <3>2. \A u \in Task : Moved(k, k2, u)
      BY <1>3, <2>2, <2>3, <2>5, <3>1 DEF Moved, Requeued, Dead
    <3>3. Safe(k2)
      BY <2>5, <3>2, MovedSafe DEF Safe, WaitersWork
    <3>4. Kept(k, k2)
      BY <2>1, <2>2 DEF Kept, Requeued
    <3> QED BY <1>3, <2>3, <2>4, <2>5, <3>3, <3>4 DEF Yielded, Dead
  <2> QED BY <2>6, <2>7
<1>4. CASE ~(t = None \/ CurDead(k, c)) /\ k.state[t] \notin {"RUNNING", "READY"}
  BY <1>4 DEF Preempt, Yielded, Kept
<1> QED BY <1>1, <1>2, <1>3, <1>4

\* A core's own idle task can always be picked, so step 3 stops at the core's
\* own runqueue: rq_steal and the fallbacks behind it are never reached.
LEMMA OwnQueueServes ==
  ASSUME NEW k, Safe(k), NEW c \in CPU, Yielded(k, c)
  PROVE  Idle(c) \in rq_pick(k, c)
<1>1. /\ Idle(c) \in Task /\ k.rq_cpu[Idle(c)] = c
      /\ k.state[Idle(c)] \in {"READY", "RUNNING"}
  BY SchedAssumption DEF Safe, IdleKept
<1>2. k.state[Idle(c)] = "READY"
  BY <1>1 DEF Safe, RunningHome, Yielded
<1>3. ~CurrentElsewhere(k, c, Idle(c))
  BY SchedAssumption DEF Safe, Pinned, CurrentElsewhere
<1> QED BY <1>1, <1>2, <1>3, SchedAssumption DEF rq_pick, rq

\* Step 4 of schedule(): what rq_pick returned is current on this core only.
LEMMA SwitchSafe ==
  ASSUME NEW k, Safe(k), NEW c \in CPU, Yielded(k, c), NEW n \in rq_pick(k, c)
  PROVE  /\ Safe(SwitchTo(k, c, n))
         /\ SwitchTo(k, c, n).current = [k.current EXCEPT ![c] = n]
         /\ SwitchTo(k, c, n).state[n] = "RUNNING" /\ SwitchTo(k, c, n).rq_cpu = k.rq_cpu
         /\ \A u \in Task : Dead(SwitchTo(k, c, n), u) <=> Dead(k, u)
<1> DEFINE k1 == SwitchTo(k, c, n)
<1>0. /\ k \in Table /\ n \in Task /\ k.rq_cpu[n] = c /\ k.state[n] = "READY"
      /\ ~CurrentElsewhere(k, c, n) /\ (n \notin Workers => c = n)
  BY SchedAssumption DEF rq_pick, rq, Safe
<1>1. n \notin rq_steal(k, c)
  BY <1>0 DEF rq_steal
<1>2. /\ k1 \in Table /\ k1.state = [k.state EXCEPT ![n] = "RUNNING"]
      /\ k1.current = [k.current EXCEPT ![c] = n] /\ k1.rq_cpu = k.rq_cpu
      /\ k1.waiting = k.waiting
  <2>1. [k.rq_cpu EXCEPT ![n] = IF n \in rq_steal(k, c) THEN c ELSE @] = k.rq_cpu
    BY <1>0, <1>1, Fields
  <2> HIDE DEF rq_steal
  <2>2. [k.state EXCEPT ![n] = "RUNNING"] \in [Task -> State]
    BY <1>0, Fields DEF State
  <2>3. [k.current EXCEPT ![c] = n] \in [CPU -> Task \cup {None}]
    BY <1>0, Fields
  <2>4. k1 = [k EXCEPT !.state = [k.state EXCEPT ![n] = "RUNNING"],
                      !.current = [k.current EXCEPT ![c] = n], !.rq_cpu = k.rq_cpu]
    BY <1>0, <2>1 DEF SwitchTo, Table
  <2> HIDE DEF k1
  <2> QED BY <1>0, <2>2, <2>3, <2>4 DEF Table
<1> HIDE DEF k1
<1>3. /\ \A u \in Task : k1.state[u] = IF u = n THEN "RUNNING" ELSE k.state[u]
      /\ \A d \in CPU : k1.current[d] = IF d = c THEN n ELSE k.current[d]
      /\ k.current \in [CPU -> Task \cup {None}]
  BY <1>0, <1>2, Fields
<1>4. OneCoreIn(k1)
  BY <1>0, <1>3 DEF Safe, OneCoreIn, CurrentElsewhere
<1>5. DeadOut(k1)
  BY <1>2, <1>3 DEF Safe, DeadOut, Dead
<1>6. RunningHome(k1)
  BY <1>0, <1>2, <1>3, Fields DEF Safe, RunningHome, Yielded
<1>7. Pinned(k1)
  BY <1>0, <1>2, <1>3 DEF Safe, Pinned
<1>8. ReadyKept(k1)
  BY <1>0, <1>2, <1>3 DEF Safe, ReadyKept, CurrentAnywhere, Yielded
<1>9. IdleKept(k1)
  BY <1>2, <1>3, SchedAssumption DEF Safe, IdleKept
<1>10. WaitersWork(k1)
  BY <1>2 DEF Safe, WaitersWork
<1> QED BY <1>0, <1>2, <1>3, <1>4, <1>5, <1>6, <1>7, <1>8, <1>9, <1>10 DEF Safe, Dead, k1

-----------------------------------------------------------------------------
(* The contexts on the cores and in the slots. *)

\* The locals of a program that is inside a system call.
Local(at) ==
  /\ at.pc = "spawn" => at.a \in CPU /\ "cid" \in Windows
  /\ at.pc \in {"scan", "reap", "park", "wait", "unwait"} => at.a \in Pids
  /\ at.pc = "reap" => at.b \in Task
  /\ at.pc = "signal" => at.a \in Workers /\ at.b \in Signals /\ "signal" \in Windows
Contexts == {at \in Context : Local(at)}

\* Task 0 runs the main loop and an idle task its hlt loop, always.
Home(t, at) == (t = 0 => at.pc = "main") /\ (IsIdle(t) => at.pc = "idle")

Prog(k, x, f) ==
  /\ x \in [CPU -> Contexts] /\ f \in [Task -> Contexts]
  /\ \A c \in CPU : k.current[c] # None => Home(k.current[c], x[c])
  /\ \A t \in Task : ~CurrentAnywhere(k, t) => Home(t, f[t])

IInv == /\ Safe(tab) /\ Prog(tab, ctx, frame)
        /\ leaving \in [CPU -> Task \cup {None}]
        /\ waitq \subseteq Workers

\* Storing a new task table: the programs it terminates lose their contexts, all
\* others keep theirs.
LEMMA InstallProg ==
  ASSUME NEW k, Safe(tab), Safe(k), NEW f, NEW x, Prog(k, x, f), Install(k, f, x)
  PROVE  Safe(tab') /\ Prog(tab', ctx', frame')
<1> DEFINE died == {t \in Task : ~Dead(tab, t) /\ Dead(k, t)}
<1>1. died \subseteq Workers
  BY CoreTasks DEF Dead
<1>2. /\ tab' = k
      /\ frame' = [t \in Task |-> IF t \in died THEN Gone ELSE f[t]]
      /\ ctx' = [c \in CPU |-> IF k.current[c] \in died
                               THEN [x[c] EXCEPT !.dead = TRUE] ELSE x[c]]
  BY DEF Install
<1> HIDE DEF died
<1>3. Gone \in Contexts
  BY DEF Gone, At, Contexts, Context, Local, PC
<1>4. \A at \in Contexts : /\ [at EXCEPT !.dead = TRUE] \in Contexts
                          /\ [at EXCEPT !.dead = TRUE].pc = at.pc
  BY DEF Contexts, Context, Local
<1>5. ctx' \in [CPU -> Contexts] /\ frame' \in [Task -> Contexts]
  BY <1>2, <1>3, <1>4 DEF Prog
<1>6. \A c \in CPU : ctx'[c].pc = x[c].pc
  BY <1>2, <1>4 DEF Prog
<1>7. \A t \in Task \ Workers : frame'[t] = f[t]
  BY <1>1, <1>2
<1>8. \A c \in CPU : k.current[c] # None => Home(k.current[c], ctx'[c])
  BY <1>6 DEF Prog, Home
<1>9. \A t \in Task : ~CurrentAnywhere(k, t) => Home(t, frame'[t])
  BY <1>7, SchedAssumption DEF Prog, Home
<1> QED BY <1>2, <1>5, <1>8, <1>9 DEF Prog

\* A step of the program on core c that leaves current[] alone.
LEMMA StepProg ==
  ASSUME IInv, NEW c \in CPU, NEW k, Safe(k), k.current = tab.current,
         NEW at \in Contexts,
         Self(c) \in Workers \/ at.pc = ctx[c].pc, Step(c, k, at)
  PROVE  /\ Safe(tab') /\ Prog(tab', ctx', frame') /\ leaving' = leaving
         /\ tab'.current = tab.current
<1> DEFINE x == Goto(c, at)
<1>1. [at EXCEPT !.dead = ctx[c].dead] \in Contexts
      /\ [at EXCEPT !.dead = ctx[c].dead].pc = at.pc
  BY DEF IInv, Prog, Contexts, Context, Local
<1>2. x \in [CPU -> Contexts] /\ x[c].pc = at.pc /\ \A d \in CPU \ {c} : x[d] = ctx[d]
  BY <1>1 DEF Goto, IInv, Prog
<1> HIDE DEF x
<1>3. Prog(k, x, frame)
  BY <1>2, SchedAssumption DEF IInv, Prog, Home, CurrentAnywhere, Self
<1> QED BY <1>3, InstallProg DEF Step, Install, IInv, x

\* A locked operation that leaves current[] and every context alone.
LEMMA StayProg ==
  ASSUME IInv, NEW k, Safe(k), k.current = tab.current, Stay(k)
  PROVE  /\ Safe(tab') /\ Prog(tab', ctx', frame') /\ leaving' = leaving
         /\ tab'.current = tab.current
<1>1. Prog(k, ctx, frame)
  BY DEF IInv, Prog, CurrentAnywhere
<1> QED BY <1>1, InstallProg DEF Stay, Install, IInv

\* Core c loads the context saved for task n.
LEMMA ResumeProg ==
  ASSUME IInv, NEW c \in CPU, NEW n \in Task, NEW k, Safe(k),
         k.current = [tab.current EXCEPT ![c] = n], ~CurrentElsewhere(tab, c, n),
         NEW f \in [Task -> Contexts],
         \A t \in Task : ~CurrentElsewhere(tab, c, t) => Home(t, f[t]),
         Resume(c, n, k, f)
  PROVE  /\ Safe(tab') /\ Prog(tab', ctx', frame')
         /\ leaving' \in [CPU -> Task \cup {None}]
         /\ tab'.current = [tab.current EXCEPT ![c] = n]
<1> DEFINE x == [ctx EXCEPT ![c] = f[n]]
           g == Take(f, n)
<1>1. tab.current \in [CPU -> Task \cup {None}]
  BY Fields DEF IInv, Safe
<1>2. Gone \in Contexts
  BY DEF Gone, At, Contexts, Context, Local, PC
<1>3. x \in [CPU -> Contexts] /\ g \in [Task -> Contexts]
  BY <1>2 DEF IInv, Prog, Take
<1>4. \A d \in CPU : k.current[d] = IF d = c THEN n ELSE tab.current[d]
  BY <1>1
<1>5. \A d \in CPU : k.current[d] # None => Home(k.current[d], x[d])
  BY <1>4 DEF IInv, Prog
<1>6. \A t \in Task : ~CurrentAnywhere(k, t) => Home(t, g[t])
  BY <1>4 DEF CurrentAnywhere, CurrentElsewhere, Take
<1>7. Prog(k, x, g)
  BY <1>3, <1>5, <1>6 DEF Prog
<1>8. leaving' \in [CPU -> Task \cup {None}]
  BY <1>1 DEF IInv, Resume
<1> QED BY <1>7, <1>8, InstallProg DEF Resume, Install, IInv

-----------------------------------------------------------------------------
(* Every action preserves IInv. *)

\* Core c takes task m, which was in its own runqueue or in none.
Takes(c, m) ==
  tab'.current = [tab.current EXCEPT ![c] = m] /\ tab.rq_cpu[m] \in {c, None}

\* Step 5 of schedule(): the pick runs its handler, keeps the signal pending, or
\* is terminated and replaced by another task of the same queue.
LEMMA DeliverSafe ==
  ASSUME IInv, NEW c \in CPU, NEW n \in Workers, NEW k, Safe(k), k.state[n] = "RUNNING",
         k.current = [tab.current EXCEPT ![c] = n], ~CurrentElsewhere(tab, c, n),
         NEW f \in [Task -> Contexts],
         \A t \in Task : ~CurrentElsewhere(tab, c, t) => Home(t, f[t]),
         \A t \in Task : ~CurrentAnywhere(tab, t) => f[t] = frame[t],
         tab.rq_cpu[n] \in {c, None}, Kept(tab, k), Deliver(c, n, k, f)
  PROVE  /\ Safe(tab') /\ Prog(tab', ctx', frame')
         /\ leaving' \in [CPU -> Task \cup {None}]
         /\ \E m \in Task : Takes(c, m)
<1> DEFINE k1 == terminate_task(k, n)
           ms == Repick(k1, c, tab.current[c])
<1>0. n \in Task /\ ~IsIdle(n) /\ n # 0 /\ tab.current \in [CPU -> Task \cup {None}]
  BY SchedAssumption, Fields DEF IInv, Safe
<1>1. Safe(k1) /\ k1.current = k.current /\ KeptBut(k, k1, n)
  BY <1>0, TerminateSafe
<1> HIDE DEF k1
<1>2. CASE \E p \in BOOLEAN : Resume(c, n, [k EXCEPT !.pending[n] = p], f)
  <2>1. PICK p \in BOOLEAN : Resume(c, n, [k EXCEPT !.pending[n] = p], f)
    BY <1>2
  <2> DEFINE k2 == [k EXCEPT !.pending[n] = p]
  <2>2. /\ k2 \in Table /\ k2.state = k.state /\ k2.rq_cpu = k.rq_cpu
        /\ k2.current = k.current /\ k2.waiting = k.waiting
    BY <1>0 DEF Safe, Table
  <2>2a. Resume(c, n, k2, f)
    BY <2>1
  <2> HIDE DEF k2
  <2>3. Safe(k2) /\ k2.current = [tab.current EXCEPT ![c] = n]
    BY <2>2, MovedSafe DEF Moved, Safe, WaitersWork
  <2>4. /\ Safe(tab') /\ Prog(tab', ctx', frame')
        /\ leaving' \in [CPU -> Task \cup {None}]
        /\ tab'.current = [tab.current EXCEPT ![c] = n]
    BY <1>0, <2>2a, <2>3, ResumeProg
  <2>5. Takes(c, n)
    BY <2>4 DEF Takes
  <2> QED BY <1>0, <2>4, <2>5
<1>3. CASE k1.state[n] = "FREE" /\ Resume(c, n, k1, [f EXCEPT ![n] = At("parked", 0, 0)])
  <2> DEFINE g == [f EXCEPT ![n] = At("parked", 0, 0)]
  <2>1. At("parked", 0, 0) \in Contexts
    BY DEF At, Contexts, Context, Local, PC
  <2>2. g \in [Task -> Contexts] /\ \A t \in Task \ {n} : g[t] = f[t]
    BY <2>1
  <2>2a. Resume(c, n, k1, g)
    BY <1>3
  <2> HIDE DEF g
  <2>3. \A t \in Task : ~CurrentElsewhere(tab, c, t) => Home(t, g[t])
    BY <1>0, <2>2 DEF Home
  <2>4. /\ Safe(tab') /\ Prog(tab', ctx', frame')
        /\ leaving' \in [CPU -> Task \cup {None}]
        /\ tab'.current = [tab.current EXCEPT ![c] = n]
    <3>1. Safe(k1) /\ k1.current = [tab.current EXCEPT ![c] = n] /\ g \in [Task -> Contexts]
      BY <1>1, <2>2
    <3> QED BY <1>0, <2>2a, <2>3, <3>1, ResumeProg
  <2>5. Takes(c, n)
    BY <2>4 DEF Takes
  <2> QED BY <1>0, <2>4, <2>5
<1>4. ASSUME k1.state[n] = "ZOMBIE"
      PROVE  ms = rq_pick(k1, c) /\ ms # {} /\ Yielded(k1, c)
  <2>1. k1.current[c] = n
    BY <1>0, <1>1
  <2>2. Yielded(k1, c)
    BY <1>4, <2>1 DEF Yielded
  <2> QED BY <1>1, <2>2, OwnQueueServes DEF Repick
<1>5. CASE k1.state[n] = "ZOMBIE" /\ IF ms = {} THEN Stay(k1)
                                   ELSE \E m \in ms : Resume(c, m, SwitchTo(k1, c, m), f)
  <2>1. PICK m \in rq_pick(k1, c) : Resume(c, m, SwitchTo(k1, c, m), f)
    BY <1>4, <1>5
  <2>2. m \in Task /\ ~CurrentElsewhere(k1, c, m) /\ k1.rq_cpu[m] = c
    BY DEF rq_pick, rq
  <2>3. /\ Safe(SwitchTo(k1, c, m))
        /\ SwitchTo(k1, c, m).current = [tab.current EXCEPT ![c] = m]
    BY <1>0, <1>1, <1>4, <1>5, SwitchSafe
  <2>4. ~CurrentElsewhere(tab, c, m)
    BY <1>0, <1>1, <2>2 DEF CurrentElsewhere
  <2>5. tab.rq_cpu[m] \in {c, None}
    BY <1>1, <2>2 DEF Kept, KeptBut
  <2>6. /\ Safe(tab') /\ Prog(tab', ctx', frame')
        /\ leaving' \in [CPU -> Task \cup {None}]
        /\ tab'.current = [tab.current EXCEPT ![c] = m]
    BY <2>1, <2>2, <2>3, <2>4, ResumeProg
  <2> QED BY <2>2, <2>5, <2>6 DEF Takes
<1> QED BY <1>2, <1>3, <1>5 DEF Deliver, k1

\* One timer interrupt: whatever schedule() does keeps the invariant, and the core
\* keeps its task or takes one that nobody else runs.
LEMMA TickSafe ==
  ASSUME IInv, NEW c \in CPU, Tick(c)
  PROVE  IInv' /\ (tab'.current = tab.current \/ \E m \in Task : Takes(c, m))
<1>1. PICK k0 \in Upkeep(tab, c), swept \in {FALSE, c = 0} :
        \E k1 \in {IF swept THEN sched_integrity_sweep(k0) ELSE k0} :
        \E k2 \in {Preempt(k1, c)}, f \in {SaveFrame(k1, c)} :
          IF k1.num_tasks <= 1 /\ k1.current[c] # None THEN Stay(k1)
          ELSE IF Candidates(k2, c) = {} THEN Stay(k2)
          ELSE \E n \in Candidates(k2, c) : \E k3 \in {SwitchTo(k2, c, n)} :
                 IF Deliverable(k3, f, n) THEN Deliver(c, n, k3, f)
                                          ELSE Resume(c, n, k3, f)
  BY DEF Tick
<1> DEFINE k1 == IF swept THEN sched_integrity_sweep(k0) ELSE k0
           k2 == Preempt(k1, c)
           f  == SaveFrame(k1, c)
<1>1a. \/ Stay(k1)
       \/ Candidates(k2, c) = {}
       \/ \E n \in Candidates(k2, c) :
            LET k3 == SwitchTo(k2, c, n)
            IN  IF Deliverable(k3, f, n) THEN Deliver(c, n, k3, f)
                                         ELSE Resume(c, n, k3, f)
  BY <1>1
<1>2. Safe(k0) /\ k0.current = tab.current /\ Kept(tab, k0) /\ \A t \in Task : Dead(k0, t) <=> Dead(tab, t)
  BY UpkeepSafe DEF IInv
<1>3. Safe(k1) /\ k1.current = tab.current /\ \A t \in Task : Dead(k1, t) <=> Dead(tab, t)
  BY <1>2, SweepSafe DEF Dead
<1>3a. Kept(tab, k1)
  BY <1>2, SweepSafe DEF Kept
<1> HIDE DEF k1
<1>4. Safe(k2) /\ k2.current = tab.current /\ Yielded(k2, c)
  BY <1>3, PreemptSafe
<1>4a. Kept(tab, k2)
  BY <1>3, <1>3a, PreemptSafe DEF Kept
<1> HIDE DEF k2
<1>5. tab.current \in [CPU -> Task \cup {None}]
  BY Fields DEF IInv, Safe
<1>6. /\ f \in [Task -> Contexts]
      /\ \A t \in Task : ~CurrentElsewhere(tab, c, t) => Home(t, f[t])
      /\ \A t \in Task : ~CurrentAnywhere(tab, t) => f[t] = frame[t]
  <2> DEFINE t == tab.current[c]
  <2>1. CASE t = None \/ CurDead(k1, c)
    <3>1. f = frame
      BY <1>3, <2>1 DEF SaveFrame
    <3>2. \A u \in Task \ Workers : u = t => t = None
      <4> SUFFICES ASSUME t \in Task \ Workers, t # None PROVE FALSE
        OBVIOUS
      <4>1. k1.current[c] = t /\ Dead(k1, t)
        BY <1>3, <2>1 DEF CurDead
      <4>2. k1.state[t] \in {"READY", "RUNNING"}
        BY <1>3, CoreTasks
      <4> QED
        BY <4>1, <4>2 DEF Dead
    <3>3. frame \in [Task -> Contexts] /\ \A u \in Task : ~CurrentAnywhere(tab, u) => Home(u, frame[u])
      BY DEF IInv, Prog
    <3>4. ASSUME NEW u \in Task, ~CurrentElsewhere(tab, c, u)
          PROVE  Home(u, frame[u])
      <4>1. CASE u \in Workers
        BY <4>1, SchedAssumption DEF Home
      <4>2. CASE u \notin Workers
        <5>1. tab.current[c] # u
          BY <3>2, <4>2, SchedAssumption
        <5>2. ~CurrentAnywhere(tab, u)
          BY <3>4, <5>1 DEF CurrentAnywhere, CurrentElsewhere
        <5> QED
          BY <3>3, <5>2
      <4> QED
        BY <4>1, <4>2
    <3> QED
      BY <3>1, <3>3, <3>4
  <2>2. CASE ~(t = None \/ CurDead(k1, c))
    <3>1. f = [frame EXCEPT ![t] = ctx[c]] /\ t \in Task
      BY <1>3, <1>5, <2>2 DEF SaveFrame
    <3> QED BY <2>2, <3>1 DEF IInv, Prog, CurrentAnywhere, CurrentElsewhere
  <2> QED BY <2>1, <2>2
<1> HIDE DEF f
<1>7. Candidates(k2, c) = rq_pick(k2, c) /\ rq_pick(k2, c) # {}
  <2>1. rq_pick(k2, c) # {}
    BY <1>4, OwnQueueServes
  <2>2. \A n \in rq_pick(k2, c) : n > 0 => ~Dead(k2, n) /\ (IsIdle(n) => n = c)
    BY DEF rq_pick, Dead
  <2> QED BY <2>1, <2>2 DEF Candidates
<1>8. CASE Stay(k1)
  BY <1>3, <1>8, StayProg DEF IInv, Tick
<1>9. CASE \E n \in rq_pick(k2, c) :
             LET k3 == SwitchTo(k2, c, n)
             IN  IF Deliverable(k3, f, n) THEN Deliver(c, n, k3, f)
                                          ELSE Resume(c, n, k3, f)
  <2>1. PICK n \in rq_pick(k2, c) :
          LET k3 == SwitchTo(k2, c, n)
          IN  IF Deliverable(k3, f, n) THEN Deliver(c, n, k3, f)
                                       ELSE Resume(c, n, k3, f)
    BY <1>9
  <2> DEFINE k3 == SwitchTo(k2, c, n)
  <2>2. n \in Task /\ ~CurrentElsewhere(tab, c, n)
    BY <1>4 DEF rq_pick, rq, CurrentElsewhere
  <2>2a. tab.rq_cpu[n] \in {c, None}
    BY <1>4a, <2>2 DEF rq_pick, rq, Kept
  <2>3. /\ Safe(k3) /\ k3.current = [tab.current EXCEPT ![c] = n]
        /\ k3.state[n] = "RUNNING" /\ Kept(tab, k3)
    BY <1>4, <1>4a, SwitchSafe DEF Kept
  <2> HIDE DEF k3
  <2>4. CASE Deliverable(k3, f, n) /\ Deliver(c, n, k3, f)
    BY <1>6, <2>2, <2>2a, <2>3, <2>4, DeliverSafe DEF Deliverable, IInv, Tick
  <2>5. CASE Resume(c, n, k3, f)
    BY <1>6, <2>2, <2>2a, <2>3, <2>5, ResumeProg DEF Takes, IInv, Tick
  <2> QED BY <2>1, <2>4, <2>5 DEF k3
<1> QED BY <1>1a, <1>7, <1>8, <1>9 DEF k1, k2, f

\* init_tasking and create_idle_task establish the invariant.
LEMMA InitSafe == Init => IInv
<1> SUFFICES ASSUME Init PROVE IInv
  OBVIOUS
<1>0. /\ tab.state = [t \in Task |-> IF t = 0 THEN "RUNNING"
                                   ELSE IF IsIdle(t) \/ t = NCPU THEN "READY"
                                   ELSE "FREE"]
      /\ tab.rq_cpu = [t \in Task |-> IF t < NCPU THEN t
                                    ELSE IF t = NCPU THEN 0 ELSE None]
      /\ tab.waiting = [t \in Task |-> 0]
      /\ tab.current = [c \in CPU |-> IF c = 0 THEN 0 ELSE None]
  BY DEF Init
<1>1. tab \in Table
  BY SchedAssumption DEF Init, Table, State
<1>2. \A t \in Task :
        /\ tab.state[t] = (IF t = 0 THEN "RUNNING"
                           ELSE IF IsIdle(t) \/ t = NCPU THEN "READY" ELSE "FREE")
        /\ tab.rq_cpu[t] = (IF t < NCPU THEN t ELSE IF t = NCPU THEN 0 ELSE None)
        /\ tab.waiting[t] = 0
  BY <1>0
<1>3. \A c \in CPU : tab.current[c] = IF c = 0 THEN 0 ELSE None
  BY <1>0
<1>4. OneCoreIn(tab) /\ DeadOut(tab) /\ RunningHome(tab) /\ Pinned(tab)
  <2>1. OneCoreIn(tab)
    BY <1>3 DEF OneCoreIn
  <2>2. DeadOut(tab)
    BY <1>2, SchedAssumption DEF DeadOut, Dead
  <2>3. RunningHome(tab)
    BY <1>2, <1>3, SchedAssumption DEF RunningHome
  <2>4. Pinned(tab)
    BY <1>2, <1>3, SchedAssumption DEF Pinned
  <2> QED BY <2>1, <2>2, <2>3, <2>4
<1>5. ReadyKept(tab) /\ IdleKept(tab) /\ WaitersWork(tab)
  <2>1. ReadyKept(tab)
    BY <1>2, SchedAssumption DEF ReadyKept
  <2>2. IdleKept(tab)
    BY <1>2, SchedAssumption DEF IdleKept
  <2>3. WaitersWork(tab)
    BY <1>2 DEF WaitersWork
  <2> QED BY <2>1, <2>2, <2>3
<1>6. ctx \in [CPU -> Contexts] /\ frame \in [Task -> Contexts]
  BY DEF Init, At, Gone, Fresh, Contexts, Context, Local, PC
<1>7. /\ \A c \in CPU : tab.current[c] # None => Home(tab.current[c], ctx[c])
      /\ \A t \in Task : ~CurrentAnywhere(tab, t) => Home(t, frame[t])
  <2>1. Home(0, ctx[0])
    BY SchedAssumption DEF Init, Home, At
  <2>2. \A t \in Task \ {0} : Home(t, frame[t])
    BY SchedAssumption DEF Init, Home, At, Fresh, Gone
  <2>3. CurrentAnywhere(tab, 0)
    BY <1>3, SchedAssumption DEF CurrentAnywhere
  <2> QED BY <1>3, <2>1, <2>2, <2>3
<1>8. leaving \in [CPU -> Task \cup {None}] /\ waitq \subseteq Workers
  BY DEF Init
<1> QED BY <1>1, <1>4, <1>5, <1>6, <1>7, <1>8 DEF IInv, Safe, Prog

\* A program that is not the main loop belongs to a worker.
LEMMA Worker ==
  ASSUME IInv, NEW c \in CPU, NEW pc, Exec(c, pc), pc \notin {"main", "idle"}
  PROVE  Self(c) \in Workers /\ Self(c) \in Task /\ ~IsIdle(Self(c)) /\ ctx[c].pc = pc
BY Fields, SchedAssumption DEF IInv, Safe, Prog, Home, Exec, Self

\* A creation by the program of core c, whoever becomes the parent.
LEMMA CreateStepSafe ==
  ASSUME IInv, NEW c \in CPU, NEW p \in Task \cup {None}, NEW at \in Contexts,
         Self(c) \in Workers \/ at.pc = ctx[c].pc, Create(c, p, at)
  PROVE  IInv' /\ tab'.current = tab.current
<1>1. PICK i \in FreeSlots(tab) :
        Install(thread_create_ex(tab, i, p), [frame EXCEPT ![i] = Fresh], Goto(c, at))
  BY DEF Create
<1> DEFINE k == thread_create_ex(tab, i, p)
           f == [frame EXCEPT ![i] = Fresh]
           x == Goto(c, at)
<1>2. Safe(tab) /\ Safe(k) /\ k.current = tab.current
  BY CreateSafe DEF IInv
<1> HIDE DEF k
<1>3. Fresh \in Contexts
  BY DEF Fresh, At, Contexts, Context, Local, PC
<1>4. i \in Task /\ i \in Workers
  BY CoreTasks DEF FreeSlots, IInv
<1>5. f \in [Task -> Contexts] /\ \A t \in Task \ Workers : f[t] = frame[t]
  BY <1>3, <1>4 DEF IInv, Prog
<1>6. [at EXCEPT !.dead = ctx[c].dead] \in Contexts
      /\ [at EXCEPT !.dead = ctx[c].dead].pc = at.pc
  BY DEF IInv, Prog, Contexts, Context, Local
<1>7. x \in [CPU -> Contexts] /\ x[c].pc = at.pc /\ \A d \in CPU \ {c} : x[d] = ctx[d]
  BY <1>6 DEF Goto, IInv, Prog
<1> HIDE DEF x, f
<1>8. Prog(k, x, f)
  BY <1>2, <1>5, <1>7, SchedAssumption DEF IInv, Prog, Home, CurrentAnywhere, Self
<1> QED BY <1>1, <1>2, <1>8, InstallProg DEF IInv, Create, Install, k, x, f

\* A worker that leaves its runqueue takes a state that is not RUNNING.
LEMMA LeaveSafe ==
  ASSUME NEW k, Safe(k), NEW t \in Workers, NEW k1 \in Table,
         NEW s \in State, s # "RUNNING", s = "READY" => CurrentAnywhere(k, t),
         k1.state = [k.state EXCEPT ![t] = s], k1.rq_cpu = [k.rq_cpu EXCEPT ![t] = None],
         k1.current = k.current,
         \A u \in Task \ Workers : k1.waiting[u] = k.waiting[u]
  PROVE  Safe(k1)
<1>1. k \in Table /\ t \in Task
  BY SchedAssumption DEF Safe
<1>2. /\ k1.state[t] = s /\ k1.rq_cpu[t] = None
      /\ \A u \in Task \ {t} : k1.state[u] = k.state[u] /\ k1.rq_cpu[u] = k.rq_cpu[u]
  BY <1>1, Fields
<1>3. \A u \in Task : Moved(k, k1, u)
  BY <1>2 DEF Moved
<1> QED BY <1>3, MovedSafe DEF Safe, WaitersWork

\* The contexts a program in waitpid goes through are well formed.
LEMMA WaitContexts ==
  ASSUME NEW pid \in Pids
  PROVE  /\ \A pc \in {"scan", "park", "wait", "unwait"} : At(pc, pid, 0) \in Contexts
         /\ \A z \in Task : At("reap", pid, z) \in Contexts
<1>1. pid \in Int /\ \A z \in Task : z \in Int
  BY SchedAssumption
<1>2. \A pc \in {"scan", "park", "wait", "unwait"} : At(pc, pid, 0) \in Contexts
  <2> TAKE pc \in {"scan", "park", "wait", "unwait"}
  <2>1. At(pc, pid, 0) \in Context
    BY <1>1 DEF At, Context, PC
  <2>2. Local(At(pc, pid, 0))
    BY DEF At, Local
  <2> QED BY <2>1, <2>2 DEF Contexts
<1>3. \A z \in Task : At("reap", pid, z) \in Contexts
  <2> TAKE z \in Task
  <2>1. At("reap", pid, z) \in Context
    BY <1>1 DEF At, Context, PC
  <2>2. Local(At("reap", pid, z))
    BY DEF At, Local
  <2> QED BY <2>1, <2>2 DEF Contexts
<1> QED BY <1>2, <1>3

\* Every system call step of a program keeps the invariant and the current tasks.
LEMMA ProgramSafe ==
  ASSUME IInv, NEW c \in CPU, Program(c) PROVE IInv' /\ tab'.current = tab.current
<1> USE DEF At
<1>0. Safe(tab) /\ tab \in Table /\ Fresh \in Contexts
  BY DEF IInv, Safe, Fresh, Contexts, Context, Local, PC
<1>1. CASE Exit(c)
  <2>1. /\ Safe(terminate_task(tab, Self(c)))
        /\ terminate_task(tab, Self(c)).current = tab.current
    BY <1>0, <1>1, Worker, TerminateSafe DEF Exit
  <2>2. At("parked", 0, 0) \in Contexts
    BY DEF Contexts, Context, Local, PC
  <2> QED BY <1>1, <2>1, <2>2, Worker, StepProg DEF Exit, IInv
<1>2. CASE ThreadCreate(c)
  <2>1. PICK pc \in {"run", "main"} : Exec(c, pc) /\ Create(c, Self(c), At(pc, 0, 0))
    BY <1>2 DEF ThreadCreate
  <2>2. At(pc, 0, 0) \in Contexts
    BY DEF Contexts, Context, Local, PC
  <2>3. Self(c) \in Task \cup {None} /\ At(pc, 0, 0).pc = ctx[c].pc
    BY <1>0, <2>1, Fields DEF Exec, Self
  <2> QED BY <2>1, <2>2, <2>3, CreateStepSafe
<1>3. CASE ForkExec(c)
  <2>1. At("spawn", c, 0) \in Contexts
    BY <1>3 DEF ForkExec, Contexts, Context, Local, PC
  <2> QED BY <1>0, <1>3, <2>1, Worker, StepProg DEF ForkExec, IInv
<1>4. CASE ForkExecLocked(c)
  <2>1. tab.current[ctx[c].a] \in Task \cup {None}
    BY <1>0, <1>4, Fields DEF ForkExecLocked, Exec, IInv, Prog, Contexts, Local
  <2> QED BY <1>0, <1>4, <2>1, Worker, CreateStepSafe DEF ForkExecLocked
<1>5. CASE Sleep(c)
  <2>1. PICK n \in 1 .. MaxSleep :
          Step(c, rq_remove([tab EXCEPT !.sleep[Self(c)] = n,
                                        !.state[Self(c)] = "SLEEP"], Self(c)),
               At("slept", c, 0))
    BY <1>5 DEF Sleep
  <2> DEFINE t == Self(c)
             k1 == [tab EXCEPT !.sleep[t] = n, !.state[t] = "SLEEP"]
             k2 == rq_remove(k1, t)
  <2>2. t \in Workers /\ t \in Task
    BY <1>5, Worker DEF Sleep
  <2>3. /\ k2 \in Table /\ k2.state = [tab.state EXCEPT ![t] = "SLEEP"]
        /\ k2.rq_cpu = [tab.rq_cpu EXCEPT ![t] = None] /\ k2.current = tab.current
        /\ k2.waiting = tab.waiting
    <3>1. [tab.sleep EXCEPT ![t] = n] \in [Task -> 0 .. MaxSleep]
      BY <1>0, <2>2, SchedAssumption DEF Table
    <3>2. [tab.state EXCEPT ![t] = "SLEEP"] \in [Task -> State]
      BY <1>0, <2>2, Fields DEF State
    <3>3. [tab.rq_cpu EXCEPT ![t] = None] \in [Task -> CPU \cup {None}]
      BY <1>0, <2>2, Fields
    <3> QED BY <1>0, <2>2, <3>1, <3>2, <3>3 DEF Table, rq_remove
  <2> HIDE DEF k2
  <2>4. Safe(k2)
    BY <1>0, <2>2, <2>3, LeaveSafe DEF State
  <2>5. At("slept", c, 0) \in Contexts
    BY DEF Contexts, Context, Local, PC
  <2> QED BY <1>5, <2>1, <2>2, <2>3, <2>4, <2>5, StepProg DEF Sleep, IInv, k2
<1>6. CASE SleepDone(c)
  BY <1>0, <1>6, Worker, StepProg DEF SleepDone, IInv
<1>7. CASE WaitPid(c)
  <2>1. PICK pid \in Pids : Exec(c, "run") /\ Step(c, tab, At("scan", pid, 0)) /\ UNCHANGED waitq
    BY <1>7 DEF WaitPid
  <2>2. At("scan", pid, 0) \in Contexts
    BY <2>1, WaitContexts
  <2> QED BY <1>0, <2>1, <2>2, Worker, StepProg DEF IInv
<1>8. CASE Scan(c)
  <2>1. Self(c) \in Workers /\ ctx[c] \in Contexts /\ ctx[c].pc = "scan"
    BY <1>8, Worker DEF Scan, IInv, Prog
  <2>2. ctx[c].a \in Pids
    BY <2>1 DEF Contexts, Local
  <2>3. \A z \in Task : At("reap", ctx[c].a, z) \in Contexts
    BY <2>2, WaitContexts
  <2>4. At("park", ctx[c].a, 0) \in Contexts
    BY <2>2, WaitContexts
  <2>5. \E at \in Contexts : Step(c, tab, at)
    BY <1>0, <1>8, <2>3, <2>4 DEF Scan, Zombies, Children
  <2> QED BY <1>0, <1>8, <2>1, <2>5, StepProg DEF Scan, IInv
<1>9. CASE Reap(c)
  <2> DEFINE z  == ctx[c].b
             k1 == [tab EXCEPT !.state[z] = "FREE", !.num_tasks = @ - 1]
  <2>1. Self(c) \in Workers /\ ctx[c] \in Contexts /\ ctx[c].pc = "reap"
    BY <1>9, Worker DEF Reap, IInv, Prog
  <2>2. ctx[c].a \in Pids
    BY <2>1 DEF Contexts, Local
  <2>3. At("scan", ctx[c].a, 0) \in Contexts
    BY <2>2, WaitContexts
  <2>4. CASE Step(c, tab, At("scan", ctx[c].a, 0))
    BY <1>0, <1>9, <2>1, <2>3, <2>4, StepProg DEF Reap, IInv
  <2>5. CASE tab.state[z] = "ZOMBIE" /\ Step(c, k1, Fresh)
    <3>0. z \in Task
      BY <2>1 DEF Contexts, Local
    <3>1. /\ [tab.state EXCEPT ![z] = "FREE"] \in [Task -> State]
          /\ tab.num_tasks - 1 \in Int
      BY <1>0, <3>0 DEF Table, State
    <3>2. /\ k1 \in Table /\ k1.state = [tab.state EXCEPT ![z] = "FREE"]
          /\ k1.rq_cpu = tab.rq_cpu /\ k1.current = tab.current
          /\ k1.waiting = tab.waiting
      BY <1>0, <3>1 DEF Table
    <3> HIDE DEF k1
    <3>3. \A u \in Task : Moved(tab, k1, u)
      BY <1>0, <2>5, <3>2, CoreTasks, Fields DEF Moved, Safe, DeadOut, Dead
    <3>4. Safe(k1)
      BY <1>0, <3>2, <3>3, MovedSafe DEF Safe, WaitersWork
    <3> QED BY <1>0, <1>9, <2>1, <2>5, <3>2, <3>4, StepProg DEF Reap, IInv
  <2> QED BY <1>9, <2>4, <2>5 DEF Reap
<1>10. CASE Park(c)
  <2> DEFINE t   == Self(c)
             pid == ctx[c].a
             k   == rq_remove(tab, t)
             kb  == [k EXCEPT !.waiting[t] = pid, !.state[t] = "BLOCKED"]
             kr  == [k EXCEPT !.waiting[t] = 0, !.state[t] = "READY"]
  <2>1. /\ t \in Workers /\ t \in Task /\ CurrentAnywhere(tab, t)
        /\ ctx[c] \in Contexts /\ ctx[c].pc = "park"
    BY <1>10, Worker DEF Park, IInv, Prog, CurrentAnywhere, Self
  <2>2. pid \in Pids
    BY <2>1 DEF Contexts, Local
  <2>3. At("scan", pid, 0) \in Contexts /\ At("wait", pid, 0) \in Contexts
    BY <2>2, WaitContexts
  <2>4. /\ \A s \in State : [tab.state EXCEPT ![t] = s] \in [Task -> State]
        /\ [tab.rq_cpu EXCEPT ![t] = None] \in [Task -> CPU \cup {None}]
        /\ \A w \in {pid, 0} : [tab.waiting EXCEPT ![t] = w] \in [Task -> Workers \cup {Any, 0}]
    BY <1>0, <2>1, <2>2, SchedAssumption DEF Table
  <2>5. /\ kb \in Table /\ kb.state = [tab.state EXCEPT ![t] = "BLOCKED"]
        /\ kb.rq_cpu = [tab.rq_cpu EXCEPT ![t] = None] /\ kb.current = tab.current
        /\ kb.waiting = [tab.waiting EXCEPT ![t] = pid]
    BY <1>0, <2>1, <2>4 DEF Table, rq_remove, State
  <2>6. /\ kr \in Table /\ kr.state = [tab.state EXCEPT ![t] = "READY"]
        /\ kr.rq_cpu = [tab.rq_cpu EXCEPT ![t] = None] /\ kr.current = tab.current
        /\ kr.waiting = [tab.waiting EXCEPT ![t] = 0]
    BY <1>0, <2>1, <2>4 DEF Table, rq_remove, State
  <2> HIDE DEF kb, kr
  <2>7. tab.waiting \in [Task -> Workers \cup {Any, 0}]
    BY <1>0 DEF Table
  <2>8. Safe(kb)
    BY <1>0, <2>1, <2>5, <2>7, LeaveSafe DEF State
  <2>9. Safe(kr)
    BY <1>0, <2>1, <2>6, <2>7, LeaveSafe DEF State
  <2>10. Step(c, kb, At("wait", pid, 0)) \/ Step(c, kr, At("scan", pid, 0))
    BY <1>10 DEF Park, kb, kr
  <2> QED BY <1>10, <2>1, <2>3, <2>5, <2>6, <2>8, <2>9, <2>10, StepProg DEF Park, IInv
<1>11. CASE WaitDone(c)
  <2>1. Self(c) \in Workers /\ ctx[c] \in Contexts /\ ctx[c].pc = "wait"
    BY <1>11, Worker DEF WaitDone, IInv, Prog
  <2>2. At("unwait", ctx[c].a, 0) \in Contexts
    BY <2>1, WaitContexts DEF Contexts, Local
  <2> QED BY <1>0, <1>11, <2>1, <2>2, StepProg DEF WaitDone, IInv
<1>12. CASE Unwait(c)
  <2> DEFINE t  == Self(c)
             k1 == [tab EXCEPT !.waiting[t] = 0]
  <2>1. t \in Workers /\ t \in Task /\ ctx[c] \in Contexts /\ ctx[c].pc = "unwait"
    BY <1>12, Worker DEF Unwait, IInv, Prog
  <2>2. At("scan", ctx[c].a, 0) \in Contexts
    BY <2>1, WaitContexts DEF Contexts, Local
  <2>3. /\ k1 \in Table /\ k1.state = tab.state /\ k1.rq_cpu = tab.rq_cpu
        /\ k1.current = tab.current /\ k1.waiting = [tab.waiting EXCEPT ![t] = 0]
    BY <1>0, <2>1 DEF Table
  <2> HIDE DEF k1
  <2>4. tab.waiting \in [Task -> Workers \cup {Any, 0}]
    BY <1>0 DEF Table
  <2>5. Safe(k1)
    BY <1>0, <2>1, <2>3, <2>4, MovedSafe DEF Moved, Safe, WaitersWork
  <2> QED BY <1>12, <2>1, <2>2, <2>3, <2>5, StepProg DEF Unwait, IInv, k1
<1>13. CASE Signal(c)
  <2>1. PICK pc \in {"run", "main"}, t \in Workers, s \in Signals :
          /\ Exec(c, pc)
          /\ IF "signal" \in Windows /\ pc = "run"
             THEN Step(c, tab, At("signal", t, s))
             ELSE Step(c, task_signal(tab, t, s), At(pc, 0, 0))
          /\ UNCHANGED waitq
    BY <1>13 DEF Signal
  <2>2. ctx[c].pc = pc
    BY <2>1 DEF Exec
  <2>3. At(pc, 0, 0) \in Contexts
    BY DEF Contexts, Context, Local, PC
  <2>3a. "signal" \in Windows => At("signal", t, s) \in Contexts
    BY SchedAssumption DEF Contexts, Context, Local, PC
  <2>4. Safe(task_signal(tab, t, s)) /\ task_signal(tab, t, s).current = tab.current
    BY <1>0, SignalSafe
  <2>5. CASE "signal" \in Windows /\ pc = "run" /\ Step(c, tab, At("signal", t, s))
    BY <1>0, <2>1, <2>3a, <2>5, Worker, StepProg DEF IInv
  <2>6. CASE Step(c, task_signal(tab, t, s), At(pc, 0, 0))
    BY <2>1, <2>2, <2>3, <2>4, <2>6, StepProg DEF IInv
  <2> QED BY <2>1, <2>5, <2>6
<1>14. CASE SignalLocked(c)
  <2>1. Self(c) \in Workers /\ ctx[c] \in Contexts /\ ctx[c].pc = "signal"
    BY <1>14, Worker DEF SignalLocked, IInv, Prog
  <2>2. ctx[c].a \in Workers
    BY <2>1 DEF Contexts, Local
  <2> DEFINE k == task_signal(tab, ctx[c].a, ctx[c].b)
  <2>3. Safe(k) /\ k.current = tab.current
    BY <1>0, <2>2, SignalSafe
  <2> HIDE DEF k
  <2> QED BY <1>0, <1>14, <2>1, <2>3, StepProg DEF SignalLocked, IInv, k
<1>15. CASE SyscallReturn(c)
  <2> DEFINE t == Self(c)
             k == [tab EXCEPT !.pending[t] = FALSE]
  <2>1. t \in Workers /\ t \in Task /\ ~IsIdle(t)
    BY <1>15, Worker DEF SyscallReturn
  <2>2. /\ k \in Table /\ k.state = tab.state /\ k.rq_cpu = tab.rq_cpu
        /\ k.current = tab.current /\ k.waiting = tab.waiting
    BY <1>0, <2>1 DEF Table
  <2> HIDE DEF k
  <2>3. Safe(k)
    BY <1>0, <2>2, MovedSafe DEF Moved, Safe, WaitersWork
  <2>4. Safe(terminate_task(k, t)) /\ terminate_task(k, t).current = tab.current
    BY <2>1, <2>2, <2>3, TerminateSafe
  <2>5. At("parked", 0, 0) \in Contexts
    BY DEF Contexts, Context, Local, PC
  <2>6. Step(c, k, Fresh) \/ Step(c, terminate_task(k, t), At("parked", 0, 0))
    BY <1>15 DEF SyscallReturn, k
  <2> QED BY <1>0, <1>15, <2>1, <2>2, <2>3, <2>4, <2>5, <2>6, StepProg DEF SyscallReturn, IInv
<1>16. CASE Block(c)
  <2>1. Self(c) \in Workers
    BY <1>16, Worker DEF Block
  <2> DEFINE k == task_set_state(tab, Self(c), "BLOCKED")
  <2>2. Safe(k) /\ k.current = tab.current
    BY <1>0, <2>1, SetStateSafe
  <2> HIDE DEF k
  <2>3. At("blocked", 0, 0) \in Contexts
    BY DEF Contexts, Context, Local, PC
  <2> QED BY <1>16, <2>1, <2>2, <2>3, StepProg DEF Block, IInv, k
<1>17. CASE BlockDone(c)
  BY <1>0, <1>17, Worker, StepProg DEF BlockDone, IInv
<1> QED BY <1>1, <1>2, <1>3, <1>4, <1>5, <1>6, <1>7, <1>8, <1>9, <1>10, <1>11, <1>12,
           <1>13, <1>14, <1>15, <1>16, <1>17 DEF Program

\* A post, a wake or a deadline of the wait queues.
LEMMA WakeSafe ==
  ASSUME IInv, NEW t \in Task, Wake(t) PROVE IInv' /\ tab'.current = tab.current
<1>1. t \in Workers /\ ~IsIdle(t)
  BY SchedAssumption DEF IInv, Wake
<1>2. CASE UNCHANGED <<tab, ctx, frame, leaving>>
  BY <1>2 DEF IInv, Wake
<1>3. CASE Stay(task_set_state(tab, t, "READY"))
  <2> DEFINE k == task_set_state(tab, t, "READY")
  <2>1. Safe(k) /\ k.current = tab.current
    BY <1>1, SetStateSafe DEF IInv
  <2> HIDE DEF k
  <2>2. /\ Safe(tab') /\ Prog(tab', ctx', frame') /\ leaving' = leaving
        /\ tab'.current = tab.current
    BY <1>3, <2>1, StayProg DEF k
  <2> QED BY <2>2 DEF IInv, Wake
<1> QED BY <1>2, <1>3 DEF Wake

\* The BSP's reaper.
LEMMA ReapZombiesSafe ==
  ASSUME IInv, NEW late, ReapZombies(late) PROVE IInv' /\ tab'.current = tab.current
<1> DEFINE zs == {t \in Task \ {0} :
                    /\ tab.state[t] = "ZOMBIE"
                    /\ t \in late \/ tab.parent[t] <= 0 \/ Dead(tab, tab.parent[t])}
           k == [tab EXCEPT
                   !.state = [t \in Task |-> IF t \in zs THEN "FREE" ELSE @[t]],
                   !.num_tasks = @ - Cardinality(zs)]
<1>1. Safe(tab) /\ tab \in Table
  BY DEF IInv, Safe
<1>2. zs \subseteq Task /\ \A t \in zs : tab.state[t] = "ZOMBIE"
  OBVIOUS
<1>3. tab.num_tasks - Cardinality(zs) \in Int
  <2>1. Cardinality(zs) \in Nat
    BY <1>2, TaskSets
  <2>2. tab.num_tasks \in Int
    BY <1>1 DEF Table
  <2> HIDE DEF zs
  <2> QED BY <2>1, <2>2
<1>4. Stay(k) /\ UNCHANGED waitq
  BY DEF ReapZombies
<1> HIDE DEF zs
<1>5. [t \in Task |-> IF t \in zs THEN "FREE" ELSE tab.state[t]] \in [Task -> State]
  BY <1>1, Fields DEF State
<1>6. /\ k \in Table /\ k.rq_cpu = tab.rq_cpu /\ k.current = tab.current
      /\ k.waiting = tab.waiting
      /\ k.state = [t \in Task |-> IF t \in zs THEN "FREE" ELSE tab.state[t]]
  BY <1>1, <1>3, <1>5 DEF Table
<1> HIDE DEF k
<1>7. \A u \in Task : Moved(tab, k, u)
  BY <1>1, <1>2, <1>6, CoreTasks DEF Moved, Safe, DeadOut, Dead
<1>8. Safe(k)
  BY <1>1, <1>6, <1>7, MovedSafe DEF Safe, WaitersWork
<1>9. /\ Safe(tab') /\ Prog(tab', ctx', frame') /\ leaving' = leaving
      /\ tab'.current = tab.current
  BY <1>4, <1>6, <1>8, StayProg
<1> QED BY <1>4, <1>9 DEF IInv

\* Every step preserves IInv, and only a tick changes current_task[], by giving
\* its core a task of the core's own runqueue.
StepSafe == IInv' /\ (\/ tab'.current = tab.current
                      \/ \E c \in CPU, m \in Task : Takes(c, m))

\* Every step of the system keeps the invariant; only a tick changes a current
\* task.
LEMMA NextSafe == ASSUME IInv, [Next]_vars PROVE StepSafe
<1>0. ASSUME IInv', tab'.current = tab.current PROVE StepSafe
  BY <1>0 DEF StepSafe
<1>1. ASSUME NEW c \in CPU, Tick(c) PROVE StepSafe
  BY <1>1, TickSafe DEF StepSafe
<1>2. ASSUME NEW c \in CPU, SwitchStack(c) PROVE StepSafe
  <2>1. None \in Task \cup {None}
    OBVIOUS
  <2> QED BY <1>2, <2>1 DEF SwitchStack, IInv, StepSafe
<1>3. ASSUME NEW c \in CPU, Program(c) PROVE StepSafe
  BY <1>3, ProgramSafe DEF StepSafe
<1>4. ASSUME NEW t \in Task, Wake(t) PROVE StepSafe
  BY <1>4, WakeSafe DEF StepSafe
<1>5. CASE Drain
  BY <1>5 DEF Drain, IInv, StepSafe
<1>6. ASSUME NEW late, ReapZombies(late) PROVE StepSafe
  BY <1>6, ReapZombiesSafe DEF StepSafe
<1>7. CASE UNCHANGED vars
  BY <1>7 DEF vars, IInv, StepSafe
<1> QED BY <1>1, <1>2, <1>3, <1>4, <1>5, <1>6, <1>7 DEF Next

-----------------------------------------------------------------------------
(* The theorems. *)

\* IInv, which the handlers of task.c keep between two critical sections, is
\* an invariant.
THEOREM Invariance == Spec => []IInv
<1>1. Init => IInv
  BY InitSafe
<1>2. IInv /\ [Next]_vars => IInv'
  BY NextSafe DEF StepSafe
<1> QED BY <1>1, <1>2, PTL DEF Spec

\* Every variable keeps its type: no operation of task.c writes a field of a
\* task, a queue or current_task[] out of its range.
THEOREM TypeCorrect == Spec => []TypeOK
<1>1. IInv => TypeOK
  BY DEF IInv, Safe, Prog, Contexts, TypeOK
<1> QED BY <1>1, Invariance, PTL

\* A task never executes on two cores at once, however the ticks of the cores,
\* the locked operations and the race windows interleave.
THEOREM NeverOnTwoCores == Spec => []OneCore
<1>1. IInv => OneCore
  BY DEF IInv, Safe, OneCoreIn, OneCore
<1> QED BY <1>1, Invariance, PTL

\* An exited or killed task is in no runqueue: sched_integrity_sweep never has
\* anything to remove.
THEOREM DeadNeverQueued == Spec => []DeadNotQueued
<1>1. IInv => DeadNotQueued
  BY DEF IInv, Safe, DeadOut, DeadNotQueued
<1> QED BY <1>1, Invariance, PTL

\* A task marked RUNNING is the current task of the core whose queue it is in,
\* so rq_steal, rq_pick and task_is_current_elsewhere read a consistent table.
THEOREM RunningHasACore == Spec => []RunningIsCurrent
<1>1. IInv => RunningIsCurrent
  BY DEF IInv, Safe, RunningHome, RunningIsCurrent
<1> QED BY <1>1, Invariance, PTL

\* Task 0 and the idle tasks never leave their core: the "foreign idle" panic of
\* schedule() is unreachable.
THEOREM IdleNeverMoves == Spec => []IdlePinned
<1>1. IInv => IdlePinned
  BY DEF IInv, Safe, Pinned, IdlePinned
<1> QED BY <1>1, Invariance, PTL

\* No wake-up, signal or preemption leaves a READY task out of every queue.
THEOREM NoTaskStranded == Spec => []NotStranded
<1>1. IInv => NotStranded
  BY DEF IInv, Safe, ReadyKept, NotStranded
<1> QED BY <1>1, Invariance, PTL

\* schedule() takes every task from the core's own runqueue, whose idle task is
\* always READY there: rq_steal is dead code and no task migrates by stealing.
THEOREM NeverSteals == Spec => NoSteal
<1>1. ASSUME IInv, [Next]_vars, NEW c \in CPU, NEW t \in Task,
             tab.rq_cpu[t] \notin {c, None}, tab.current[c] # t
      PROVE  tab'.current[c] # t
  <2>1. CASE tab'.current = tab.current
    BY <1>1, <2>1
  <2>2. CASE \E d \in CPU, m \in Task : Takes(d, m)
    <3>1. tab.current \in [CPU -> Task \cup {None}]
      BY <1>1, Fields DEF IInv, Safe
    <3> QED BY <1>1, <2>2, <3>1 DEF Takes
  <2> QED BY <1>1, <2>1, <2>2, NextSafe DEF StepSafe
<1>2. IInv /\ [Next]_vars
        => [\A c \in CPU, t \in Task :
              tab.rq_cpu[t] \notin {c, None} /\ tab.current[c] # t
                => tab'.current[c] # t]_vars
  BY <1>1
<1> QED BY <1>2, Invariance, PTL DEF Spec, NoSteal

-----------------------------------------------------------------------------
(* Exits, counts and parents.                                                 *)

\* NoLostExit of a table, child by child
Heard(k) == \A t \in Workers, i \in Task \ {0} :
  k.state[t] = "BLOCKED" /\ k.waiting[t] # 0 /\ k.state[i] = "ZOMBIE" /\ k.parent[i] = t
    => k.waiting[t] # Any /\ i # k.waiting[t]

\* NumTasks of a table
InUse(k) == {t \in Task : k.state[t] # "FREE"}
Counted(k) == k.num_tasks = Cardinality(InUse(k))

\* ParentLive of a table; nobody is the parent of task 0.
Parents(k) ==
  /\ k.parent[0] = 0
  /\ \A t \in Task : k.state[t] # "FREE" /\ k.parent[t] # 0
                       => k.parent[t] \in Task /\ ~Dead(k, k.parent[t])

\* From k to k1 no exit is lost and nobody begins to wait.
Harmless(k, k1) ==
  /\ Heard(k) => Heard(k1)
  /\ \A t \in Task : k1.waiting[t] \in {k.waiting[t], 0}

\* From k to k1 nobody comes back to life, the count stays right, and no task
\* loses its parent.
Stays(k, k1) == \A t \in Task : Dead(k, t) => Dead(k1, t)
Lawful(k, k1) ==
  /\ Stays(k, k1)
  /\ Counted(k) => Counted(k1)
  /\ Parents(k) => Parents(k1)

\* The types of the members of the task table that Fields leaves out.
LEMMA TableFields ==
  ASSUME NEW k \in Table
  PROVE  /\ k.state \in [Task -> State] /\ k.parent \in [Task -> Task \cup {None}]
         /\ k.waiting \in [Task -> Workers \cup {Any, 0}] /\ k.num_tasks \in Int
         /\ k.current \in [CPU -> Task \cup {None}]
         /\ k.pending \in [Task -> BOOLEAN] /\ k.sleep \in [Task -> 0 .. MaxSleep]
         /\ k.rq_cpu \in [Task -> CPU \cup {None}]
BY DEF Table

\* Operations in sequence keep what each of them keeps.
LEMMA Composed ==
  ASSUME NEW k, NEW k1, NEW k2
  PROVE  /\ Harmless(k, k1) /\ Harmless(k1, k2) => Harmless(k, k2)
         /\ Lawful(k, k1) /\ Lawful(k1, k2) => Lawful(k, k2)
BY DEF Harmless, Lawful, Stays

SameDead(k, k1) ==
  \A t \in Task : Dead(k, t) \/ Dead(k1, t) => k1.state[t] = k.state[t]

\* An operation under which nobody exits and nobody waits.
LEMMA QuietFates ==
  ASSUME NEW k, NEW k1,
         k1.parent = k.parent,
         \A u \in Task : /\ k1.waiting[u] \in {k.waiting[u], 0}
                         /\ k1.state[u] = "ZOMBIE" => k.state[u] = "ZOMBIE"
                         /\ k1.state[u] = "BLOCKED" => k.state[u] = "BLOCKED" \/ k1.waiting[u] = 0
  PROVE  /\ Harmless(k, k1)
         /\ k1.num_tasks = k.num_tasks /\ SameDead(k, k1) => Lawful(k, k1)
<1>1. Heard(k) => Heard(k1)
  BY SchedAssumption DEF Heard
<1>2. ASSUME k1.num_tasks = k.num_tasks, SameDead(k, k1)
      PROVE  Lawful(k, k1)
  <2>1. \A u \in Task : /\ Dead(k1, u) <=> Dead(k, u)
                        /\ k1.state[u] = "FREE" <=> k.state[u] = "FREE"
    BY <1>2 DEF Dead, SameDead
  <2>2. InUse(k1) = InUse(k)
    BY <2>1 DEF InUse
  <2>3. Parents(k) => Parents(k1)
    BY <2>1 DEF Parents
  <2> QED
    BY <1>2, <2>1, <2>2, <2>3 DEF Lawful, Stays, Counted
<1> QED
  BY <1>1, <1>2 DEF Harmless

\* An operation that changes nothing.
LEMMA SameFates == ASSUME NEW k PROVE Harmless(k, k) /\ Lawful(k, k)
BY DEF Harmless, Lawful, Stays

\* The slots in use are finitely many.
LEMMA InUseFinite ==
  ASSUME NEW k
  PROVE  IsFiniteSet(InUse(k)) /\ Cardinality(InUse(k)) \in Nat
<1>1. IsFiniteSet(Task) /\ InUse(k) \subseteq Task
  BY FS_Interval, SchedAssumption DEF InUse
<1> QED
  BY <1>1, FS_Subset, FS_CardinalityType

\* Some zombies are reaped.
LEMMA ReapedFates ==
  ASSUME NEW k \in Table, NEW k1, NEW zs \in SUBSET (Task \ {0}),
         \A z \in zs : k.state[z] = "ZOMBIE",
         k1.parent = k.parent, k1.waiting = k.waiting,
         k1.num_tasks = k.num_tasks - Cardinality(zs),
         \A t \in Task : k1.state[t] = IF t \in zs THEN "FREE" ELSE k.state[t]
  PROVE  Harmless(k, k1) /\ Lawful(k, k1)
<1>1. Heard(k) => Heard(k1)
  BY SchedAssumption DEF Heard
<1>2. Stays(k, k1) /\ \A t \in Task : Dead(k1, t) => Dead(k, t)
  BY DEF Stays, Dead
<1>3. Counted(k) => Counted(k1)
  <2>1. InUse(k1) = InUse(k) \ zs /\ zs \subseteq InUse(k)
    BY DEF InUse
  <2>2. InUse(k) \cap zs = zs
    BY <2>1
  <2>3. IsFiniteSet(InUse(k)) /\ IsFiniteSet(zs)
    BY <2>1, InUseFinite, FS_Subset
  <2>4. Cardinality(InUse(k) \ zs) = Cardinality(InUse(k)) - Cardinality(InUse(k) \cap zs)
    BY <2>3, FS_Difference
  <2> QED
    BY <2>1, <2>2, <2>4, InUseFinite DEF Counted
<1>4. Parents(k) => Parents(k1)
  BY <1>2 DEF Parents
<1> QED
  BY <1>1, <1>2, <1>3, <1>4 DEF Harmless, Lawful

\* What terminate_task does to a live worker: its zombies go, its other children
\* go to the kernel, and it stays as a zombie only for a live parent, which
\* does not wait any more.
LEMMA TerminateForm ==
  ASSUME NEW k, Safe(k), NEW t \in Workers, ~Dead(k, t)
  PROVE  LET r == terminate_task(k, t)
             p == k.parent[t]
             kids == {i \in Task \ {0, t} : k.state[i] # "FREE" /\ k.parent[i] = t}
         IN  \E freed \in SUBSET kids :
               /\ \A i \in kids : i \in freed <=> k.state[i] = "ZOMBIE"
               /\ \A i \in Task : r.parent[i] = IF i \in kids \ freed THEN 0 ELSE k.parent[i]
               /\ \/ /\ r.num_tasks = k.num_tasks - Cardinality(freed) - 1
                     /\ r.waiting = k.waiting
                     /\ \A i \in Task : r.state[i] = IF i \in freed \cup {t} THEN "FREE"
                                                     ELSE k.state[i]
                  \/ /\ r.num_tasks = k.num_tasks - Cardinality(freed)
                     /\ p \in Task \ freed /\ p # 0 /\ p # t /\ ~Dead(k, p)
                     /\ \A i \in Task : r.waiting[i] = IF i = p THEN 0 ELSE k.waiting[i]
                     /\ \A i \in Task : i # p =>
                          r.state[i] = IF i = t THEN "ZOMBIE"
                                       ELSE IF i \in freed THEN "FREE" ELSE k.state[i]
                     /\ r.state[p] \in {k.state[p], "READY"}
<1> DEFINE k0 == rq_remove(k, t)
           kids  == {i \in Task \ {0, t} : k.state[i] # "FREE" /\ k.parent[i] = t}
           freed == {i \in kids : k.state[i] = "ZOMBIE"}
           k1 == [k0 EXCEPT
                    !.state  = [i \in Task |-> IF i \in freed THEN "FREE" ELSE @[i]],
                    !.parent = [i \in Task |-> IF i \in kids \ freed THEN 0 ELSE @[i]],
                    !.num_tasks = @ - Cardinality(freed)]
           kf == [k1 EXCEPT !.state[t] = "FREE", !.num_tasks = @ - 1]
           k2 == [k1 EXCEPT !.state[t] = "ZOMBIE"]
           p  == k.parent[t]
           k3 == [k2 EXCEPT !.waiting[p] = 0, !.state[p] = "READY"]
           r  == terminate_task(k, t)
<1>1. k \in Table /\ t \in Task /\ t # 0
  BY SchedAssumption DEF Safe
<1>2. /\ k0.state = k.state /\ k0.parent = k.parent /\ k0.waiting = k.waiting
      /\ k0.num_tasks = k.num_tasks /\ k0 \in Table
  BY <1>1, RemoveTable DEF rq_remove, Requeued, Table
<1>3. Disown(k0, t) = k1
  BY <1>2 DEF Disown
<1>4. r = IF p <= 0 \/ p = t \/ Dead(k1, p) THEN kf ELSE WakeParent(k2, p)
  BY <1>1, <1>3 DEF terminate_task
<1>5. Cardinality(freed) \in Nat
  BY TaskSets
<1>6. /\ k1.state = [i \in Task |-> IF i \in freed THEN "FREE" ELSE k.state[i]]
      /\ k1.parent = [i \in Task |-> IF i \in kids \ freed THEN 0 ELSE k.parent[i]]
      /\ k1.num_tasks = k.num_tasks - Cardinality(freed) /\ k1.waiting = k.waiting
      /\ k1 \in Table
  <2>1. /\ k1.state = [i \in Task |-> IF i \in freed THEN "FREE" ELSE k0.state[i]]
        /\ k1.parent = [i \in Task |-> IF i \in kids \ freed THEN 0 ELSE k0.parent[i]]
        /\ k1.num_tasks = k0.num_tasks - Cardinality(freed) /\ k1.waiting = k0.waiting
        /\ k1.current = k0.current /\ k1.rq_cpu = k0.rq_cpu /\ k1.pending = k0.pending
        /\ k1.sleep = k0.sleep
        /\ k1 = [k1 EXCEPT !.state = k1.state]
    BY <1>2 DEF Table
  <2>2. /\ k1.state \in [Task -> State] /\ k1.parent \in [Task -> Task \cup {None}]
        /\ k1.num_tasks \in Int
    <3>1. /\ k0.state \in [Task -> State] /\ k0.parent \in [Task -> Task \cup {None}]
          /\ k0.num_tasks \in Int
      BY <1>2, TableFields
    <3>2. "FREE" \in State /\ 0 \in Task
      BY <1>1, SchedAssumption DEF State
    <3> HIDE DEF k0, k1, kids, freed
    <3>3. k1.state \in [Task -> State]
      <4>1. k1.state = [i \in Task |-> IF i \in freed THEN "FREE" ELSE k0.state[i]]
        BY <2>1
      <4>2. \A i \in Task : (IF i \in freed THEN "FREE" ELSE k0.state[i]) \in State
        BY <3>1, <3>2
      <4> QED
        BY <4>1, <4>2
    <3>4. k1.parent \in [Task -> Task \cup {None}]
      <4>1. k1.parent = [i \in Task |-> IF i \in kids \ freed THEN 0 ELSE k0.parent[i]]
        BY <2>1
      <4>2. \A i \in Task : (IF i \in kids \ freed THEN 0 ELSE k0.parent[i]) \in Task \cup {None}
        BY <3>1, <3>2
      <4> QED
        BY <4>1, <4>2
    <3>5. k1.num_tasks \in Int
      BY <1>5, <2>1, <3>1
    <3> QED
      BY <3>3, <3>4, <3>5
  <2>3. k1 \in Table
    <3> DEFINE s1 == k1.state
               p1 == k1.parent
               n1 == k1.num_tasks
    <3>1. k1 = [k0 EXCEPT !.state = s1, !.parent = p1, !.num_tasks = n1]
      BY <1>2, <2>1 DEF Table
    <3>2. s1 \in [Task -> State] /\ p1 \in [Task -> Task \cup {None}] /\ n1 \in Int
      BY <2>2
    <3> HIDE DEF k1, s1, p1, n1, k0
    <3> QED
      BY <1>2, <3>1, <3>2 DEF Table
  <2> QED
    BY <1>2, <2>1, <2>3
<1> HIDE DEF k0, k1, kids, freed
<1>7. kids \subseteq Task \ {0, t} /\ freed \subseteq kids
      /\ (\A i \in kids : i \in freed <=> k.state[i] = "ZOMBIE")
  BY DEF kids, freed
<1>8. /\ kf.state = [k1.state EXCEPT ![t] = "FREE"] /\ kf.parent = k1.parent
      /\ kf.waiting = k.waiting /\ kf.num_tasks = k.num_tasks - Cardinality(freed) - 1
  BY <1>6 DEF Table
<1>9. /\ k2.state = [k1.state EXCEPT ![t] = "ZOMBIE"] /\ k2.parent = k1.parent
      /\ k2.waiting = k.waiting /\ k2.num_tasks = k.num_tasks - Cardinality(freed)
      /\ k2 \in Table
  BY <1>1, <1>6 DEF Table, State
<1> HIDE DEF kf, k2
<1>10. \A i \in Task : k1.parent[i] = IF i \in kids \ freed THEN 0 ELSE k.parent[i]
  BY <1>6
<1>11. CASE p <= 0 \/ p = t \/ Dead(k1, p)
  <2>1. r = kf
    BY <1>4, <1>11
  <2>2. \A i \in Task : r.state[i] = IF i \in freed \cup {t} THEN "FREE" ELSE k.state[i]
    BY <1>1, <1>6, <1>8, <2>1
  <2>3. \A i \in Task : r.parent[i] = IF i \in kids \ freed THEN 0 ELSE k.parent[i]
    <3>1. r.parent = k1.parent
      BY <1>8, <2>1
    <3> HIDE DEF r
    <3> QED
      BY <1>10, <3>1
  <2> QED
    BY <1>7, <1>8, <2>1, <2>2, <2>3 DEF kids
<1>12. CASE ~(p <= 0 \/ p = t \/ Dead(k1, p))
  <2>1. r = WakeParent(k2, p)
    BY <1>4, <1>12
  <2>2. p \in Task /\ p # 0 /\ p # t
    BY <1>1, <1>12, TableFields, SchedAssumption
  <2>3. p \notin freed /\ ~Dead(k, p)
    BY <1>6, <1>12, <2>2 DEF Dead
  <2>4. /\ k3.state = [k2.state EXCEPT ![p] = "READY"] /\ k3.parent = k1.parent
        /\ k3.waiting = [k.waiting EXCEPT ![p] = 0]
        /\ k3.num_tasks = k.num_tasks - Cardinality(freed) /\ k3 \in Table
    <3>1. [k2.state EXCEPT ![p] = "READY"] \in [Task -> State]
          /\ [k2.waiting EXCEPT ![p] = 0] \in [Task -> Workers \cup {Any, 0}]
      BY <1>9, <2>2, TableFields DEF State
    <3> QED
      BY <1>9, <3>1 DEF Table
  <2> HIDE DEF k3
  <2>5. \A i \in Task : k2.state[i] = IF i = t THEN "ZOMBIE"
                                      ELSE IF i \in freed THEN "FREE" ELSE k.state[i]
    BY <1>6, <1>9
  <2>6. CASE k.waiting[p] = 0
    <3>1. r = k2
      BY <1>9, <2>1, <2>6 DEF WakeParent
    <3>2. \A i \in Task : r.waiting[i] = IF i = p THEN 0 ELSE k.waiting[i]
      BY <1>9, <2>6, <3>1
    <3>3. r.state[p] = k.state[p]
      BY <2>2, <2>3, <2>5, <3>1
    <3>4. \A i \in Task : r.parent[i] = IF i \in kids \ freed THEN 0 ELSE k.parent[i]
      BY <1>9, <1>10, <3>1
    <3> QED
      BY <1>7, <1>9, <2>2, <2>3, <2>5, <3>1, <3>2, <3>3, <3>4 DEF kids
  <2>7. CASE k.waiting[p] # 0
    <3> DEFINE k4 == rq_enqueue_wake(k3, p)
    <3>1. r = k4
      BY <1>9, <2>1, <2>7 DEF WakeParent, k3
    <3>2. Requeued(k3, k4, p)
      BY <2>2, <2>4, WakeTable
    <3> HIDE DEF k4
    <3>3. /\ k4.state = k3.state /\ k4.parent = k3.parent /\ k4.waiting = k3.waiting
          /\ k4.num_tasks = k3.num_tasks
      BY <2>4, <3>2 DEF Requeued, Table
    <3>4. /\ \A i \in Task : r.waiting[i] = IF i = p THEN 0 ELSE k.waiting[i]
          /\ \A i \in Task : r.state[i] = IF i = p THEN "READY" ELSE k2.state[i]
      <4>1. /\ r.waiting = [k.waiting EXCEPT ![p] = 0]
            /\ r.state = [k2.state EXCEPT ![p] = "READY"]
        BY <2>4, <3>1, <3>3
      <4>2. k.waiting \in [Task -> Workers \cup {Any, 0}] /\ k2.state \in [Task -> State]
        BY <1>1, <1>9, TableFields
      <4> QED
        BY <4>1, <4>2
    <3>5. \A i \in Task : r.parent[i] = IF i \in kids \ freed THEN 0 ELSE k.parent[i]
      BY <1>10, <2>4, <3>1, <3>3
    <3> QED
      BY <1>7, <2>2, <2>3, <2>4, <2>5, <3>1, <3>3, <3>4, <3>5 DEF kids
  <2> QED
    BY <2>6, <2>7
<1> QED
  BY <1>11, <1>12

\* terminate_task: the parent hears of the exit, and the orphans have a parent.
LEMMA TerminateFates ==
  ASSUME NEW k, Safe(k), NEW t \in Workers
  PROVE  Harmless(k, terminate_task(k, t)) /\ Lawful(k, terminate_task(k, t))
<1>1. CASE Dead(k, t)
  BY <1>1, SameFates DEF terminate_task
<1>2. CASE ~Dead(k, t)
  <2> DEFINE r == terminate_task(k, t)
             p == k.parent[t]
             kids == {i \in Task \ {0, t} : k.state[i] # "FREE" /\ k.parent[i] = t}
  <2>1. PICK freed \in SUBSET kids :
               /\ \A i \in kids : i \in freed <=> k.state[i] = "ZOMBIE"
               /\ \A i \in Task : r.parent[i] = IF i \in kids \ freed THEN 0 ELSE k.parent[i]
               /\ \/ /\ r.num_tasks = k.num_tasks - Cardinality(freed) - 1
                     /\ r.waiting = k.waiting
                     /\ \A i \in Task : r.state[i] = IF i \in freed \cup {t} THEN "FREE"
                                                     ELSE k.state[i]
                  \/ /\ r.num_tasks = k.num_tasks - Cardinality(freed)
                     /\ p \in Task \ freed /\ p # 0 /\ p # t /\ ~Dead(k, p)
                     /\ \A i \in Task : r.waiting[i] = IF i = p THEN 0 ELSE k.waiting[i]
                     /\ \A i \in Task : i # p =>
                          r.state[i] = IF i = t THEN "ZOMBIE"
                                       ELSE IF i \in freed THEN "FREE" ELSE k.state[i]
                     /\ r.state[p] \in {k.state[p], "READY"}
    BY <1>2, TerminateForm
  <2>2. k \in Table /\ t \in Task /\ t # 0 /\ k.state[t] # "FREE"
    BY <1>2, SchedAssumption DEF Safe, Dead
  <2>3. \A i : i \in kids <=> i \in Task /\ i # 0 /\ i # t /\ k.state[i] # "FREE" /\ k.parent[i] = t
    OBVIOUS
  <2> HIDE DEF r, kids
  <2>4. IsFiniteSet(freed) /\ Cardinality(freed) \in Nat /\ freed \subseteq Task
    <3>1. IsFiniteSet(Task) /\ freed \subseteq Task
      BY <2>1, <2>3, FS_Interval, SchedAssumption
    <3> QED
      BY <3>1, FS_Subset, FS_CardinalityType
  <2>5. CASE /\ r.num_tasks = k.num_tasks - Cardinality(freed) - 1
             /\ r.waiting = k.waiting
             /\ \A i \in Task : r.state[i] = IF i \in freed \cup {t} THEN "FREE"
                                             ELSE k.state[i]
    <3>1. \A i \in Task : /\ r.parent[i] = k.parent[i] \/ r.parent[i] = 0
                          /\ r.state[i] = k.state[i] \/ r.state[i] = "FREE"
      BY <2>1, <2>5
    <3>2. Heard(k) => Heard(r)
      BY <2>5, <3>1, SchedAssumption DEF Heard
    <3>3. Stays(k, r)
      BY <2>1, <2>3, <2>5 DEF Stays, Dead
    <3>4. Counted(k) => Counted(r)
      <4>1. InUse(r) = (InUse(k) \ freed) \ {t}
        BY <2>4, <2>5 DEF InUse
      <4>2. freed \subseteq InUse(k) /\ InUse(k) \cap freed = freed /\ t \in InUse(k) \ freed
        BY <2>1, <2>2, <2>3 DEF InUse
      <4>3. Cardinality(InUse(k) \ freed) = Cardinality(InUse(k)) - Cardinality(freed)
            /\ IsFiniteSet(InUse(k) \ freed)
        BY <4>2, InUseFinite, FS_Difference
      <4> DEFINE S == InUse(k) \ freed
      <4>4. IsFiniteSet(S) /\ t \in S /\ InUse(r) = S \ {t}
        BY <4>1, <4>2, <4>3
      <4> HIDE DEF S
      <4>5. Cardinality(InUse(r)) = Cardinality(S) - 1
        BY <4>4, FS_RemoveElement
      <4> QED
        BY <2>4, <2>5, <4>3, <4>5, InUseFinite DEF Counted, S
    <3>5. Parents(k) => Parents(r)
      <4> SUFFICES ASSUME Parents(k)
                   PROVE  Parents(r)
        OBVIOUS
      <4>1. r.parent[0] = 0
        BY <2>1, <2>3, SchedAssumption DEF Parents
      <4>2. ASSUME NEW i \in Task, r.state[i] # "FREE", r.parent[i] # 0
            PROVE  r.parent[i] \in Task /\ ~Dead(r, r.parent[i])
        <5>1. i # t /\ i \notin freed /\ k.state[i] # "FREE" /\ i \notin kids
              /\ r.parent[i] = k.parent[i]
          BY <2>1, <2>5, <4>2
        <5>2. i # 0
          BY <4>1, <4>2
        <5>3. k.parent[i] # t
          BY <2>3, <5>1, <5>2
        <5>4. k.parent[i] \in Task /\ ~Dead(k, k.parent[i])
          BY <4>2, <5>1 DEF Parents
        <5>5. k.parent[i] \notin freed
          BY <2>1, <5>4 DEF Dead
        <5> QED
          BY <2>5, <5>1, <5>3, <5>4, <5>5 DEF Dead
      <4> QED
        BY <4>1, <4>2 DEF Parents
    <3>6. Harmless(k, r) /\ Lawful(k, r)
      BY <2>5, <3>2, <3>3, <3>4, <3>5 DEF Harmless, Lawful
    <3> QED
      BY <3>6 DEF r
  <2>6. CASE /\ r.num_tasks = k.num_tasks - Cardinality(freed)
             /\ p \in Task \ freed /\ p # 0 /\ p # t /\ ~Dead(k, p)
             /\ \A i \in Task : r.waiting[i] = IF i = p THEN 0 ELSE k.waiting[i]
             /\ \A i \in Task : i # p =>
                  r.state[i] = IF i = t THEN "ZOMBIE"
                               ELSE IF i \in freed THEN "FREE" ELSE k.state[i]
             /\ r.state[p] \in {k.state[p], "READY"}
    <3>1. Heard(k) => Heard(r)
      <4> SUFFICES ASSUME Heard(k), NEW u \in Workers, NEW i \in Task \ {0},
                          r.state[u] = "BLOCKED", r.waiting[u] # 0,
                          r.state[i] = "ZOMBIE", r.parent[i] = u
                   PROVE  r.waiting[u] # Any /\ i # r.waiting[u]
        BY DEF Heard
      <4>1. u \in Task /\ u # 0
        BY SchedAssumption
      <4>2. u # p /\ k.state[u] = "BLOCKED" /\ r.waiting[u] = k.waiting[u]
        BY <2>6, <4>1
      <4>3. r.parent[i] = k.parent[i]
        BY <2>1, <4>1
      <4>4. i # t
        BY <4>2, <4>3
      <4>5. k.state[i] = "ZOMBIE"
        BY <2>6, <4>4
      <4> QED
        BY <4>2, <4>3, <4>5 DEF Heard
    <3>2. \A u \in Task : Dead(r, u) => Dead(k, u) \/ u = t
      BY <2>1, <2>6 DEF Dead
    <3>3. Stays(k, r)
      BY <2>1, <2>6, <1>2 DEF Stays, Dead
    <3>4. Counted(k) => Counted(r)
      <4>1. InUse(r) = InUse(k) \ freed
        <5>1. \A i \in Task : r.state[i] # "FREE" <=> k.state[i] # "FREE" /\ i \notin freed
          <6> TAKE i \in Task
          <6>1. CASE i = p
            BY <2>6, <6>1 DEF Dead
          <6>2. CASE i # p
            BY <2>1, <2>2, <2>3, <2>6, <6>2
          <6> QED
            BY <6>1, <6>2
        <5> QED
          BY <5>1 DEF InUse
      <4>2. InUse(k) \cap freed = freed
        BY <2>1, <2>3 DEF InUse
      <4>3. Cardinality(InUse(k) \ freed) = Cardinality(InUse(k)) - Cardinality(freed)
        BY <4>2, InUseFinite, FS_Difference
      <4> QED
        BY <2>6, <4>1, <4>3 DEF Counted
    <3>5. Parents(k) => Parents(r)
      <4> SUFFICES ASSUME Parents(k)
                   PROVE  Parents(r)
        OBVIOUS
      <4>1. r.parent[0] = 0
        BY <2>1, <2>3, SchedAssumption DEF Parents
      <4>2. ASSUME NEW i \in Task, r.state[i] # "FREE", r.parent[i] # 0
            PROVE  r.parent[i] \in Task /\ ~Dead(r, r.parent[i])
        <5>1. k.state[i] # "FREE" /\ r.parent[i] = k.parent[i]
          <6>1. CASE i = p
            BY <2>1, <2>6, <4>2, <6>1 DEF Dead
          <6>2. CASE i # p
            BY <2>1, <2>2, <2>6, <4>2, <6>2
          <6> QED
            BY <6>1, <6>2
        <5>2. k.parent[i] # t
          <6>1. CASE i = t
            BY <2>6, <6>1
          <6>2. CASE i # t
            <7>1. i # 0
              BY <4>1, <4>2
            <7>2. i \in kids => i \in freed
              BY <2>1, <4>2
            <7>3. i \notin freed
              <8>1. CASE i = p
                BY <2>6, <8>1
              <8>2. CASE i # p
                BY <2>6, <4>2, <6>2, <8>2
              <8> QED
                BY <8>1, <8>2
            <7> QED
              BY <2>3, <5>1, <6>2, <7>1, <7>2, <7>3
          <6> QED
            BY <6>1, <6>2
        <5>3. k.parent[i] \in Task /\ ~Dead(k, k.parent[i])
          BY <4>2, <5>1 DEF Parents
        <5> QED
          BY <3>2, <5>1, <5>2, <5>3
      <4> QED
        BY <4>1, <4>2 DEF Parents
    <3>6. Harmless(k, r) /\ Lawful(k, r)
      BY <2>6, <3>1, <3>3, <3>4, <3>5 DEF Harmless, Lawful
    <3> QED
      BY <3>6 DEF r
  <2> QED
    BY <2>1, <2>5, <2>6 DEF r
<1> QED
  BY <1>1, <1>2


\* k1 differs from k at most in the state of task t, and in fields that say
\* nothing of exits and waits.
Turned(k, k1, t, st) ==
  /\ k1.parent = k.parent /\ k1.waiting = k.waiting /\ k1.num_tasks = k.num_tasks
  /\ \A u \in Task : k1.state[u] = IF u = t THEN st ELSE k.state[u]

\* A task changes its state and neither exits nor, if it waits, blocks.
LEMMA TurnedFates ==
  ASSUME NEW k, NEW k1, NEW t, NEW st, Turned(k, k1, t, st),
         st = "ZOMBIE" => k.state[t] = "ZOMBIE"
  PROVE  /\ (st = "BLOCKED" => k.waiting[t] = 0 \/ k.state[t] = "BLOCKED") => Harmless(k, k1)
         /\ (st = k.state[t] \/ (~Dead(k, t) /\ st \notin {"ZOMBIE", "FREE"})) => Lawful(k, k1)
<1>1. /\ k1.parent = k.parent /\ k1.waiting = k.waiting /\ k1.num_tasks = k.num_tasks
      /\ \A u \in Task : k1.state[u] = IF u = t THEN st ELSE k.state[u]
  BY DEF Turned
<1>2. Heard(k) /\ (st = "BLOCKED" => k.waiting[t] = 0 \/ k.state[t] = "BLOCKED") => Heard(k1)
  <2> SUFFICES ASSUME Heard(k), st = "BLOCKED" => k.waiting[t] = 0 \/ k.state[t] = "BLOCKED",
                      NEW u \in Workers, NEW i \in Task \ {0},
                      k1.state[u] = "BLOCKED", k1.waiting[u] # 0,
                      k1.state[i] = "ZOMBIE", k1.parent[i] = u
               PROVE  k1.waiting[u] # Any /\ i # k1.waiting[u]
    BY DEF Heard
  <2>1. u \in Task
    BY SchedAssumption
  <2>2. k.state[u] = "BLOCKED" /\ k.waiting[u] # 0
    BY <1>1, <2>1
  <2>3. k.state[i] = "ZOMBIE" /\ k.parent[i] = u
    BY <1>1
  <2> QED
    BY <1>1, <2>2, <2>3 DEF Heard
<1>3. ASSUME st = k.state[t] \/ (~Dead(k, t) /\ st \notin {"ZOMBIE", "FREE"})
      PROVE  Lawful(k, k1)
  <2>1. \A u \in Task : (Dead(k1, u) <=> Dead(k, u))
                        /\ (k1.state[u] = "FREE" <=> k.state[u] = "FREE")
    BY <1>1, <1>3 DEF Dead
  <2>2. InUse(k1) = InUse(k)
    BY <2>1 DEF InUse
  <2>3. Parents(k) => Parents(k1)
    BY <1>1, <2>1 DEF Parents
  <2> QED
    BY <1>1, <2>1, <2>2, <2>3 DEF Lawful, Stays, Counted
<1> QED
  BY <1>1, <1>2, <1>3 DEF Harmless

\* What a change of the queues alone leaves of these fields.
LEMMA RequeuedTurned ==
  ASSUME NEW k, NEW k1 \in Table, NEW k2, NEW t, NEW st, NEW u,
         Turned(k, k1, t, st), Requeued(k1, k2, u)
  PROVE  Turned(k, k2, t, st)
<1>1. /\ k2.state = k1.state /\ k2.parent = k1.parent /\ k2.waiting = k1.waiting
      /\ k2.num_tasks = k1.num_tasks
  BY DEF Requeued, Table
<1> QED
  BY <1>1 DEF Turned

\* task_set_state.
LEMMA SetStateFates ==
  ASSUME NEW k, Safe(k), NEW t \in Workers, NEW s \in {"READY", "BLOCKED"}
  PROVE  LET r == task_set_state(k, t, s)
         IN  /\ s = "READY" \/ k.waiting[t] = 0 => Harmless(k, r)
             /\ s = "READY" \/ ~Dead(k, t) => Lawful(k, r)
<1> DEFINE k1 == [k EXCEPT !.state[t] = s]
           k2 == [k1 EXCEPT !.sleep[t] = 0]
           r  == task_set_state(k, t, s)
<1>0. t \in Task /\ ~IsIdle(t) /\ k \in Table
  BY SchedAssumption DEF Safe
<1>1. k1 \in Table /\ Turned(k, k1, t, s)
  BY <1>0 DEF Table, State, Turned
<1> HIDE DEF k1
<1>2. k2 \in Table /\ Turned(k, k2, t, s)
  <2>1. [k1.sleep EXCEPT ![t] = 0] \in [Task -> 0 .. MaxSleep]
    BY <1>0, <1>1, SchedAssumption DEF Table
  <2>2. k2 \in Table /\ k2.state = k1.state /\ k2.parent = k1.parent
        /\ k2.waiting = k1.waiting /\ k2.num_tasks = k1.num_tasks
    BY <1>1, <2>1 DEF Table
  <2> QED
    BY <1>1, <2>2 DEF Turned
<1> HIDE DEF k2
<1>3. \/ r = k
      \/ s = "READY" /\ ~Dead(k, t) /\ r \in {k2, rq_enqueue_wake(k2, t)}
      \/ s = "BLOCKED" /\ r = rq_remove(k1, t)
  <2>1. CASE s = "READY"
    BY <2>1 DEF task_set_state, k1, k2
  <2>2. CASE s = "BLOCKED"
    BY <2>2 DEF task_set_state, k1, k2
  <2> QED
    BY <2>1, <2>2
<1>4. CASE r = k
  BY <1>4, SameFates
<1>5. CASE r # k
  <2>1. Turned(k, r, t, s)
    <3>1. Turned(k, rq_enqueue_wake(k2, t), t, s)
      BY <1>0, <1>2, WakeTable, RequeuedTurned
    <3>2. Turned(k, rq_remove(k1, t), t, s)
      BY <1>0, <1>1, RemoveTable, RequeuedTurned
    <3> QED
      BY <1>2, <1>3, <1>5, <3>1, <3>2
  <2>2. s = "READY" => ~Dead(k, t)
    BY <1>3, <1>5
  <2> HIDE DEF r
  <2>3. s = "READY" \/ k.waiting[t] = 0 => Harmless(k, r)
    BY <2>1, TurnedFates
  <2>4. s = "READY" \/ ~Dead(k, t) => Lawful(k, r)
    BY <2>1, <2>2, TurnedFates
  <2> QED
    BY <2>3, <2>4 DEF r
<1> QED
  BY <1>4, <1>5

\* task_signal under task_lock: only a stop brings a dead target back.
LEMMA SignalFates ==
  ASSUME NEW k, Safe(k), NEW t \in Workers, NEW s
  PROVE  LET r == task_signal(k, t, s)
         IN  /\ Harmless(k, r)
             /\ ~Dead(k, t) \/ s # SIGSTOP => Lawful(k, r)
<1> DEFINE ks == [k EXCEPT !.state[t] = "STOPPED"]
           kc == [k EXCEPT !.state[t] = "READY"]
           kp == [k EXCEPT !.pending[t] = TRUE]
           kw == [kp EXCEPT !.state[t] = "READY"]
           r  == task_signal(k, t, s)
<1>0. t \in Task /\ k \in Table
  BY SchedAssumption DEF Safe
<1>1. ks \in Table /\ Turned(k, ks, t, "STOPPED")
  BY <1>0 DEF Table, State, Turned
<1>2. kc \in Table /\ Turned(k, kc, t, "READY")
  BY <1>0 DEF Table, State, Turned
<1>3. kp \in Table /\ Turned(k, kp, t, k.state[t]) /\ kp.state = k.state
  BY <1>0 DEF Table, State, Turned
<1> HIDE DEF ks, kc, kp
<1>4. kw \in Table /\ Turned(k, kw, t, "READY")
  <2>1. [kp.state EXCEPT ![t] = "READY"] \in [Task -> State]
    BY <1>0, <1>3, TableFields DEF State
  <2>2. kw \in Table /\ kw.state = [kp.state EXCEPT ![t] = "READY"] /\ kw.parent = kp.parent
        /\ kw.waiting = kp.waiting /\ kw.num_tasks = kp.num_tasks
    BY <1>3, <2>1 DEF Table
  <2>3. kp.state \in [Task -> State]
    BY <1>3, TableFields
  <2> HIDE DEF kw
  <2> QED
    BY <1>0, <1>3, <2>2, <2>3 DEF Turned
<1> HIDE DEF kw
<1>5. CASE s = SIGKILL
  <2>1. r = terminate_task(k, t)
    BY <1>5 DEF task_signal
  <2> QED
    BY <2>1, TerminateFates
<1>6. CASE s = SIGSTOP
  <2>1. r = rq_remove(ks, t)
    BY <1>6 DEF task_signal, ks
  <2>2. Turned(k, r, t, "STOPPED")
    BY <1>0, <1>1, <2>1, RemoveTable, RequeuedTurned
  <2> HIDE DEF r
  <2>3. Harmless(k, r) /\ (~Dead(k, t) => Lawful(k, r))
    BY <2>2, TurnedFates
  <2> QED
    BY <1>6, <2>3 DEF r
<1>7. CASE s \notin {SIGKILL, SIGSTOP}
  <2>1. \/ r = k
        \/ r = kp
        \/ k.state[t] = "STOPPED" /\ r = rq_enqueue_wake(kc, t)
        \/ k.state[t] \in {"BLOCKED", "SLEEP"} /\ r = rq_enqueue_wake(kw, t)
    <3>1. CASE s = SIGCONT
      BY <1>7, <3>1 DEF task_signal, kc
    <3>2. CASE s # SIGCONT
      BY <1>7, <3>2 DEF task_signal, kp, kw
    <3> QED
      BY <3>1, <3>2
  <2>2. Turned(k, rq_enqueue_wake(kc, t), t, "READY") /\ Turned(k, rq_enqueue_wake(kw, t), t, "READY")
    BY <1>0, <1>2, <1>4, WakeTable, RequeuedTurned
  <2> HIDE DEF r
  <2>3. CASE r = k
    BY <2>3, SameFates DEF r
  <2>4. CASE r = kp
    BY <1>3, <2>4, TurnedFates DEF r
  <2>5. CASE k.state[t] \in {"STOPPED", "BLOCKED", "SLEEP"} /\ Turned(k, r, t, "READY")
    <3>1. ~Dead(k, t)
      BY <2>5 DEF Dead
    <3>2. Harmless(k, r) /\ Lawful(k, r)
      BY <2>5, <3>1, TurnedFates
    <3> QED
      BY <3>2 DEF r
  <2> QED
    BY <2>1, <2>2, <2>3, <2>4, <2>5
<1> QED
  BY <1>5, <1>6, <1>7

\* thread_create_ex brings one slot into use and touches nobody else.
LEMMA CreateFates ==
  ASSUME NEW k, Safe(k), NEW i \in FreeSlots(k), NEW p \in Task \cup {None}
  PROVE  LET r == thread_create_ex(k, i, p)
         IN  /\ Harmless(k, r) /\ r.waiting[i] = 0
             /\ r.num_tasks = k.num_tasks + 1
             /\ \A t \in Task \ {i} : Dead(k, t) <=> Dead(r, t)
             /\ Counted(k) => Counted(r)
             /\ p \in Task /\ ~Dead(k, p) /\ Parents(k) => Parents(r)
<1> DEFINE k1 == [k EXCEPT !.state[i] = "READY", !.rq_cpu[i] = None, !.parent[i] = p,
                      !.waiting[i] = 0, !.pending[i] = FALSE, !.sleep[i] = 0,
                      !.num_tasks = @ + 1]
           c  == rq_least_loaded(k1)
           r  == rq_enqueue(k1, c, i)
<1>0. k \in Table /\ i \in Workers /\ i \in Task /\ i # 0 /\ k.state[i] = "FREE"
  BY CoreTasks, SchedAssumption DEF FreeSlots, Safe
<1>1. /\ k1 \in Table /\ k1.state = [k.state EXCEPT ![i] = "READY"]
      /\ k1.parent = [k.parent EXCEPT ![i] = p] /\ k1.num_tasks = k.num_tasks + 1
      /\ k1.waiting = [k.waiting EXCEPT ![i] = 0]
  <2>1. /\ [k.state EXCEPT ![i] = "READY"] \in [Task -> State]
        /\ [k.rq_cpu EXCEPT ![i] = None] \in [Task -> CPU \cup {None}]
        /\ [k.parent EXCEPT ![i] = p] \in [Task -> Task \cup {None}]
    BY <1>0, Fields DEF State
  <2>2. /\ [k.waiting EXCEPT ![i] = 0] \in [Task -> Workers \cup {Any, 0}]
        /\ [k.pending EXCEPT ![i] = FALSE] \in [Task -> BOOLEAN]
        /\ [k.sleep EXCEPT ![i] = 0] \in [Task -> 0 .. MaxSleep]
        /\ k.num_tasks + 1 \in Int
    BY <1>0, SchedAssumption DEF Table
  <2> QED
    BY <1>0, <2>1, <2>2 DEF Table
<1> HIDE DEF k1
<1>2. c \in CPU
  BY LeastLoaded
<1> HIDE DEF c
<1>3. Requeued(k1, r, i)
  BY <1>0, <1>1, <1>2, EnqueueTable
<1> HIDE DEF r
<1>4. /\ r.state = k1.state /\ r.parent = k1.parent /\ r.waiting = k1.waiting
      /\ r.num_tasks = k.num_tasks + 1
  BY <1>1, <1>3 DEF Requeued, Table
<1>5. \A u \in Task : /\ r.state[u] = IF u = i THEN "READY" ELSE k.state[u]
                      /\ r.parent[u] = IF u = i THEN p ELSE k.parent[u]
                      /\ r.waiting[u] = IF u = i THEN 0 ELSE k.waiting[u]
  <2>0. /\ DOMAIN k.state = Task /\ DOMAIN k.parent = Task /\ DOMAIN k.waiting = Task
    BY <1>0, TableFields
  <2>1. \A u \in Task : r.state[u] = IF u = i THEN "READY" ELSE k.state[u]
    <3>1. r.state = [k.state EXCEPT ![i] = "READY"]
      BY <1>1, <1>4
    <3> QED
      BY <2>0, <3>1
  <2>2. \A u \in Task : r.parent[u] = IF u = i THEN p ELSE k.parent[u]
    <3>1. r.parent = [k.parent EXCEPT ![i] = p]
      BY <1>1, <1>4
    <3> QED
      BY <2>0, <3>1
  <2>3. \A u \in Task : r.waiting[u] = IF u = i THEN 0 ELSE k.waiting[u]
    <3>1. r.waiting = [k.waiting EXCEPT ![i] = 0]
      BY <1>1, <1>4
    <3> QED
      BY <2>0, <3>1
  <2> QED
    BY <2>1, <2>2, <2>3
<1>6. Heard(k) => Heard(r)
  <2> SUFFICES ASSUME Heard(k), NEW u \in Workers, NEW z \in Task \ {0},
                      r.state[u] = "BLOCKED", r.waiting[u] # 0,
                      r.state[z] = "ZOMBIE", r.parent[z] = u
               PROVE  r.waiting[u] # Any /\ z # r.waiting[u]
    BY DEF Heard
  <2>1. u \in Task /\ u # i /\ z # i
    BY <1>5, SchedAssumption
  <2>2. k.state[u] = "BLOCKED" /\ k.waiting[u] = r.waiting[u]
    BY <1>5, <2>1
  <2>3. k.state[z] = "ZOMBIE" /\ k.parent[z] = u
    BY <1>5, <2>1
  <2> QED
    BY <2>2, <2>3 DEF Heard
<1>7. \A t \in Task \ {i} : Dead(k, t) <=> Dead(r, t)
  BY <1>5 DEF Dead
<1>8. Counted(k) => Counted(r)
  <2>1. InUse(r) = InUse(k) \cup {i} /\ i \notin InUse(k)
    BY <1>0, <1>5 DEF InUse
  <2>2. Cardinality(InUse(k) \cup {i}) = Cardinality(InUse(k)) + 1
    BY <2>1, InUseFinite, FS_AddElement
  <2> QED
    BY <1>4, <2>1, <2>2 DEF Counted
<1>9. ASSUME p \in Task, ~Dead(k, p), Parents(k) PROVE Parents(r)
  <2>1. r.parent[0] = 0
    BY <1>0, <1>5, <1>9, SchedAssumption DEF Parents
  <2>2. ASSUME NEW t \in Task, r.state[t] # "FREE", r.parent[t] # 0
        PROVE  r.parent[t] \in Task /\ ~Dead(r, r.parent[t])
    <3>1. CASE t = i
      <4>1. r.parent[t] = p /\ p # i
        BY <1>0, <1>5, <1>9, <3>1 DEF Dead
      <4> QED
        BY <1>7, <1>9, <4>1
    <3>2. CASE t # i
      <4>1. k.parent[t] = r.parent[t] /\ k.parent[t] \in Task /\ ~Dead(k, k.parent[t])
        BY <1>5, <1>9, <2>2, <3>2 DEF Parents
      <4>2. k.parent[t] # i
        BY <1>0, <4>1 DEF Dead
      <4> QED
        BY <1>7, <4>1, <4>2
    <3> QED
      BY <3>1, <3>2
  <2> QED
    BY <2>1, <2>2 DEF Parents
<1>10. r = thread_create_ex(k, i, p)
  BY DEF thread_create_ex, k1, c, r
<1>11. r.waiting[i] = 0
  BY <1>0, <1>5
<1> QED
  BY <1>4, <1>5, <1>6, <1>7, <1>8, <1>9, <1>10, <1>11 DEF Harmless

\* The sleepers that are due.
LEMMA UpkeepFates ==
  ASSUME NEW k, Safe(k), NEW c \in CPU, NEW k1 \in Upkeep(k, c)
  PROVE  Harmless(k, k1) /\ Lawful(k, k1)
<1>1. CASE c # 0
  BY <1>1, SameFates DEF Upkeep
<1>2. CASE c = 0
  <2> DEFINE due == {t \in Task : k.state[t] = "SLEEP" /\ k.sleep[t] <= 1}
  <2>1. PICK place \in [due -> CPU] :
          k1 = [k EXCEPT
                 !.sleep  = [t \in Task |-> IF k.state[t] = "SLEEP" /\ @[t] > 0
                                            THEN @[t] - 1 ELSE @[t]],
                 !.state  = [t \in Task |-> IF t \in due THEN "READY" ELSE @[t]],
                 !.rq_cpu = [t \in Task |->
                               IF t \in due /\ @[t] = None /\ t # 0 /\ ~IsIdle(t)
                               THEN place[t] ELSE @[t]]]
    BY <1>2 DEF Upkeep
  <2>2. /\ k1.parent = k.parent /\ k1.waiting = k.waiting /\ k1.num_tasks = k.num_tasks
        /\ k1.state = [t \in Task |-> IF t \in due THEN "READY" ELSE k.state[t]]
    BY <2>1 DEF Safe, Table
  <2>3. \A t \in Task : k1.state[t] = k.state[t] \/ (k.state[t] = "SLEEP" /\ k1.state[t] = "READY")
    BY <2>2
  <2>4. SameDead(k, k1)
    BY <2>3 DEF SameDead, Dead
  <2> QED
    BY <2>2, <2>3, <2>4, QuietFates
<1> QED
  BY <1>1, <1>2

\* The integrity sweep.
LEMMA SweepFates ==
  ASSUME NEW k, Safe(k)
  PROVE  Harmless(k, sched_integrity_sweep(k)) /\ Lawful(k, sched_integrity_sweep(k))
<1> DEFINE k1 == sched_integrity_sweep(k)
<1>1. /\ k1.parent = k.parent /\ k1.waiting = k.waiting /\ k1.num_tasks = k.num_tasks
      /\ k1.state = k.state
  BY DEF sched_integrity_sweep, Safe, Table
<1> HIDE DEF k1
<1>2. SameDead(k, k1)
  BY <1>1 DEF SameDead
<1>3. Harmless(k, k1) /\ Lawful(k, k1)
  BY <1>1, <1>2, QuietFates
<1> QED
  BY <1>3 DEF k1

\* The outgoing task yields.
LEMMA PreemptFates ==
  ASSUME NEW k, Safe(k), NEW c \in CPU
  PROVE  Harmless(k, Preempt(k, c)) /\ Lawful(k, Preempt(k, c))
<1> DEFINE t  == k.current[c]
           k1 == [k EXCEPT !.state[t] = "READY"]
           r  == Preempt(k, c)
<1>0. k \in Table /\ t \in Task \cup {None}
  BY Fields DEF Safe
<1>1. CASE t = None \/ CurDead(k, c) \/ k.state[t] \notin {"RUNNING", "READY"}
  <2>1. r = k
    BY <1>1 DEF Preempt
  <2> QED
    BY <2>1, SameFates
<1>2. CASE ~(t = None \/ CurDead(k, c)) /\ k.state[t] \in {"RUNNING", "READY"}
  <2>1. t \in Task /\ ~Dead(k, t)
    BY <1>0, <1>2 DEF Dead
  <2>2. k1 \in Table /\ Turned(k, k1, t, "READY")
    BY <1>0, <2>1 DEF Table, State, Turned
  <2>3. k.state[t] = "READY" => Turned(k, k, t, "READY")
    BY DEF Turned
  <2>4. \/ r = rq_enqueue(k1, c, t)
        \/ k.state[t] = "READY" /\ r = rq_enqueue(k, c, t)
    <3>1. k1.state[t] = "READY"
      BY <2>1, <2>2 DEF Turned
    <3> HIDE DEF k1
    <3> QED
      BY <1>2, <3>1 DEF Preempt, k1
  <2> HIDE DEF k1
  <2>5. Turned(k, r, t, "READY")
    <3>1. CASE r = rq_enqueue(k1, c, t)
      <4>1. Requeued(k1, r, t)
        BY <2>1, <2>2, <3>1, EnqueueTable
      <4> HIDE DEF r
      <4> QED
        BY <2>2, <4>1, RequeuedTurned
    <3>2. CASE k.state[t] = "READY" /\ r = rq_enqueue(k, c, t)
      <4>1. Requeued(k, r, t)
        BY <1>0, <2>1, <3>2, EnqueueTable
      <4> HIDE DEF r
      <4> QED
        BY <1>0, <2>3, <3>2, <4>1, RequeuedTurned
    <3> QED
      BY <2>4, <3>1, <3>2
  <2> HIDE DEF r
  <2>6. Harmless(k, r) /\ Lawful(k, r)
    BY <2>1, <2>5, TurnedFates
  <2> QED
    BY <2>6 DEF r
<1> QED
  BY <1>1, <1>2

\* The incoming task runs.
LEMMA SwitchFates ==
  ASSUME NEW k, Safe(k), NEW c \in CPU, NEW n \in rq_pick(k, c)
  PROVE  Harmless(k, SwitchTo(k, c, n)) /\ Lawful(k, SwitchTo(k, c, n))
<1> DEFINE r == SwitchTo(k, c, n)
<1>1. k \in Table /\ n \in Task /\ k.state[n] = "READY"
  BY DEF rq_pick, rq, Safe
<1>2. Turned(k, r, n, "RUNNING")
  BY <1>1 DEF SwitchTo, Turned, Table
<1> HIDE DEF r
<1>3. ~Dead(k, n)
  BY <1>1 DEF Dead
<1>4. Harmless(k, r) /\ Lawful(k, r)
  BY <1>2, <1>3, TurnedFates
<1> QED
  BY <1>4 DEF r

-----------------------------------------------------------------------------
(* The contexts of waiting and of dead programs. *)

\* A task listed as waiting is inside the hlt loop of waitpid or has just left
\* it, or has no context any more; a task on a core has no saved context.
Waits == {"wait", "unwait", "none"}
WaitsIn(k, x, f) ==
  /\ \A t \in Task : k.waiting[t] # 0 => f[t].pc \in Waits
  /\ \A c \in CPU : k.current[c] # None =>
       f[k.current[c]] = Gone /\ (k.waiting[k.current[c]] # 0 => x[c].pc \in Waits)

\* A core executes a terminated program exactly while its current task is dead,
\* and a live task has a context to go on from.
Marks(k, x, f) ==
  /\ \A c \in CPU : k.current[c] # None =>
       (x[c].dead <=> Dead(k, k.current[c])) /\ (~Dead(k, k.current[c]) => x[c].pc # "none")
  /\ \A t \in Task : ~Dead(k, t) /\ ~CurrentAnywhere(k, t) => f[t].pc # "none" /\ ~f[t].dead

\* The invariant of exits, with every window open.
LInv == IInv /\ Heard(tab) /\ WaitsIn(tab, ctx, frame)

Marked == Marks(tab, ctx, frame)

\* Storing a table keeps the contexts of the waiting tasks ...
LEMMA InstallWaits ==
  ASSUME NEW k, NEW f \in [Task -> Contexts], NEW x \in [CPU -> Contexts],
         k.current \in [CPU -> Task \cup {None}], Install(k, f, x), WaitsIn(k, x, f)
  PROVE  WaitsIn(tab, ctx, frame)'
<1> DEFINE died == {t \in Task : ~Dead(tab, t) /\ Dead(k, t)}
<1>1. /\ tab' = k
      /\ frame' = [t \in Task |-> IF t \in died THEN Gone ELSE f[t]]
      /\ ctx' = [c \in CPU |-> IF k.current[c] \in died
                               THEN [x[c] EXCEPT !.dead = TRUE] ELSE x[c]]
  BY DEF Install
<1> HIDE DEF died
<1>2. \A at \in Contexts : [at EXCEPT !.dead = TRUE].pc = at.pc
  BY DEF Contexts, Context, Local
<1>3. \A c \in CPU : ctx'[c].pc = x[c].pc
  BY <1>1, <1>2
<1>4. Gone.pc = "none"
  BY DEF Gone, At
<1>5. \A t \in Task : frame'[t] \in {Gone, f[t]}
  BY <1>1
<1>6. \A t \in Task : k.waiting[t] # 0 => frame'[t].pc \in Waits
  BY <1>4, <1>5 DEF WaitsIn, Waits
<1>7. \A c \in CPU : k.current[c] # None =>
        frame'[k.current[c]] = Gone /\ (k.waiting[k.current[c]] # 0 => ctx'[c].pc \in Waits)
  BY <1>3, <1>5 DEF WaitsIn
<1> QED
  BY <1>1, <1>6, <1>7 DEF WaitsIn

\* ... and marks exactly the programs of the tasks it terminates.
LEMMA InstallMarks ==
  ASSUME NEW k, NEW f \in [Task -> Contexts], NEW x \in [CPU -> Contexts],
         k.current \in [CPU -> Task \cup {None}], Install(k, f, x),
         \A c \in CPU : k.current[c] # None =>
           /\ x[c].dead <=> Dead(tab, k.current[c])
           /\ Dead(tab, k.current[c]) => Dead(k, k.current[c])
           /\ ~Dead(k, k.current[c]) => x[c].pc # "none",
         \A t \in Task : ~Dead(k, t) /\ ~CurrentAnywhere(k, t) => f[t].pc # "none" /\ ~f[t].dead
  PROVE  Marked'
<1> DEFINE died == {t \in Task : ~Dead(tab, t) /\ Dead(k, t)}
<1>1. /\ tab' = k
      /\ frame' = [t \in Task |-> IF t \in died THEN Gone ELSE f[t]]
      /\ ctx' = [c \in CPU |-> IF k.current[c] \in died
                               THEN [x[c] EXCEPT !.dead = TRUE] ELSE x[c]]
  BY DEF Install
<1>2. \A t \in Task : t \in died <=> ~Dead(tab, t) /\ Dead(k, t)
  OBVIOUS
<1> HIDE DEF died
<1>3. \A at \in Contexts : /\ [at EXCEPT !.dead = TRUE].pc = at.pc
                          /\ [at EXCEPT !.dead = TRUE].dead = TRUE
  BY DEF Contexts, Context, Local
<1>4. ASSUME NEW c \in CPU, k.current[c] # None
      PROVE  (ctx'[c].dead <=> Dead(k, k.current[c]))
             /\ (~Dead(k, k.current[c]) => ctx'[c].pc # "none")
  <2>1. k.current[c] \in Task
    BY <1>4
  <2>2. CASE k.current[c] \in died
    <3>1. ctx'[c].dead = TRUE
      BY <1>1, <1>3, <2>2
    <3>2. Dead(k, k.current[c])
      BY <1>2, <2>1, <2>2
    <3> QED
      BY <3>1, <3>2
  <2>3. CASE k.current[c] \notin died
    <3>1. ctx'[c] = x[c]
      BY <1>1, <2>3
    <3>2. Dead(tab, k.current[c]) <=> Dead(k, k.current[c])
      BY <1>2, <1>4, <2>1, <2>3
    <3> QED
      BY <1>4, <3>1, <3>2
  <2> QED
    BY <2>2, <2>3
<1>5. ASSUME NEW t \in Task, ~Dead(k, t), ~CurrentAnywhere(k, t)
      PROVE  frame'[t].pc # "none" /\ ~frame'[t].dead
  <2>1. frame'[t] = f[t]
    BY <1>1, <1>2, <1>5
  <2> QED
    BY <1>5, <2>1
<1> QED
  BY <1>1, <1>4, <1>5 DEF Marked, Marks

\* What a step that creates no task gives.
Peaceful == Marked' /\ Lawful(tab, tab')

\* A step of the program on core c.
LEMMA StepLife ==
  ASSUME LInv, NEW c \in CPU, NEW k, Safe(k), k.current = tab.current,
         NEW at \in Contexts, Self(c) \in Task, Heard(k),
         \A u \in Task \ {Self(c)} : k.waiting[u] \in {tab.waiting[u], 0},
         k.waiting[Self(c)] # 0 => at.pc \in Waits, Step(c, k, at)
  PROVE  /\ Heard(tab') /\ WaitsIn(tab, ctx, frame)'
         /\ Marked /\ Lawful(tab, k) /\ at.pc # "none" => Peaceful
<1> DEFINE x == Goto(c, at)
           e == [at EXCEPT !.dead = ctx[c].dead]
<1>1. /\ ctx \in [CPU -> Contexts] /\ frame \in [Task -> Contexts]
      /\ Safe(tab) /\ tab.current \in [CPU -> Task \cup {None}]
  BY Fields DEF LInv, IInv, Prog, Safe
<1>2. e \in Contexts /\ e.pc = at.pc /\ e.dead = ctx[c].dead
  BY <1>1 DEF Contexts, Context, Local
<1> HIDE DEF e
<1>3. x \in [CPU -> Contexts] /\ x[c] = e /\ \A d \in CPU \ {c} : x[d] = ctx[d]
  BY <1>1, <1>2 DEF Goto, e
<1> HIDE DEF x
<1>4. Install(k, frame, x) /\ tab' = k
  BY DEF Step, Install, x
<1>5. OneCoreIn(tab)
  BY <1>1 DEF Safe
<1>6. WaitsIn(k, x, frame)
  <2>1. ASSUME NEW t \in Task, k.waiting[t] # 0 PROVE frame[t].pc \in Waits
    <3>1. CASE t = Self(c)
      <4>1. frame[t] = Gone
        BY <1>1, <3>1 DEF LInv, WaitsIn, Self
      <4> QED
        BY <4>1 DEF Gone, At, Waits
    <3>2. CASE t # Self(c)
      BY <2>1, <3>2 DEF LInv, WaitsIn
    <3> QED
      BY <3>1, <3>2
  <2>2. ASSUME NEW d \in CPU, k.current[d] # None
        PROVE  frame[k.current[d]] = Gone /\ (k.waiting[k.current[d]] # 0 => x[d].pc \in Waits)
    <3>1. frame[k.current[d]] = Gone
      BY <2>2 DEF LInv, WaitsIn
    <3>2. CASE d = c
      BY <1>2, <1>3, <3>1, <3>2 DEF Self
    <3>3. CASE d # c
      <4>1. k.current[d] # Self(c) /\ k.current[d] \in Task
        BY <1>1, <1>5, <2>2, <3>3, SchedAssumption DEF OneCoreIn, Self
      <4>2. x[d] = ctx[d]
        BY <1>3, <3>3
      <4>3. k.waiting[k.current[d]] # 0 => tab.waiting[k.current[d]] # 0
        BY <4>1
      <4> QED
        BY <2>2, <3>1, <4>2, <4>3 DEF LInv, WaitsIn
    <3> QED
      BY <3>2, <3>3
  <2> QED
    BY <2>1, <2>2 DEF WaitsIn
<1>7. WaitsIn(tab, ctx, frame)'
  BY <1>1, <1>3, <1>4, <1>6, InstallWaits
<1>8. ASSUME Marked, Lawful(tab, k), at.pc # "none" PROVE Marked'
  <2>1. ASSUME NEW d \in CPU, k.current[d] # None
        PROVE  /\ x[d].dead <=> Dead(tab, k.current[d])
               /\ Dead(tab, k.current[d]) => Dead(k, k.current[d])
               /\ ~Dead(k, k.current[d]) => x[d].pc # "none"
    <3>1. k.current[d] \in Task
      BY <1>1, <2>1
    <3>2. (x[d].dead <=> ctx[d].dead) /\ (x[d].pc = ctx[d].pc \/ x[d].pc = at.pc)
      <4>1. CASE d = c
        BY <1>2, <1>3, <4>1
      <4>2. CASE d # c
        BY <1>3, <4>2
      <4> QED
        BY <4>1, <4>2
    <3>3. Dead(tab, k.current[d]) => Dead(k, k.current[d])
      BY <1>8, <3>1 DEF Lawful, Stays
    <3>4. (ctx[d].dead <=> Dead(tab, k.current[d]))
          /\ (~Dead(tab, k.current[d]) => ctx[d].pc # "none")
      BY <1>8, <2>1 DEF Marked, Marks
    <3> QED
      BY <1>8, <3>2, <3>3, <3>4
  <2>2. ASSUME NEW t \in Task, ~Dead(k, t), ~CurrentAnywhere(k, t)
        PROVE  frame[t].pc # "none" /\ ~frame[t].dead
    <3>1. ~Dead(tab, t) /\ ~CurrentAnywhere(tab, t)
      BY <1>8, <2>2 DEF Lawful, Stays, CurrentAnywhere
    <3> QED
      BY <1>8, <3>1 DEF Marked, Marks
  <2> QED
    BY <1>1, <1>3, <1>4, <2>1, <2>2, InstallMarks
<1> QED
  BY <1>4, <1>7, <1>8 DEF Peaceful

\* A step whose operation puts nobody to wait.
LEMMA MoveLife ==
  ASSUME LInv, NEW c \in CPU, NEW k, Safe(k), k.current = tab.current, Harmless(tab, k),
         NEW at \in Contexts, Self(c) \in Task, at.pc \in Waits \/ ctx[c].pc \notin Waits,
         Step(c, k, at)
  PROVE  /\ Heard(tab') /\ WaitsIn(tab, ctx, frame)'
         /\ Marked /\ Lawful(tab, k) /\ at.pc # "none" => Peaceful
<1>1. Heard(k)
  BY DEF LInv, Harmless
<1>2. \A u \in Task : k.waiting[u] \in {tab.waiting[u], 0}
  BY DEF Harmless
<1>3. k.waiting[Self(c)] # 0 => at.pc \in Waits
  <2> SUFFICES ASSUME k.waiting[Self(c)] # 0 PROVE at.pc \in Waits
    OBVIOUS
  <2>1. tab.waiting[Self(c)] # 0 /\ Self(c) # None
    BY <1>2, SchedAssumption
  <2>2. ctx[c].pc \in Waits
    BY <2>1 DEF LInv, WaitsIn, Self
  <2> QED
    BY <2>2
<1> QED
  BY <1>1, <1>2, <1>3, StepLife


\* A locked operation that leaves every context alone.
LEMMA StayLife ==
  ASSUME LInv, NEW k, Safe(k), k.current = tab.current, Harmless(tab, k), Stay(k)
  PROVE  /\ Heard(tab') /\ WaitsIn(tab, ctx, frame)'
         /\ Marked /\ Lawful(tab, k) => Peaceful
<1>1. /\ ctx \in [CPU -> Contexts] /\ frame \in [Task -> Contexts]
      /\ tab.current \in [CPU -> Task \cup {None}]
  BY Fields DEF LInv, IInv, Prog, Safe
<1>2. Install(k, frame, ctx) /\ tab' = k
  BY DEF Stay, Install
<1>3. \A t \in Task : k.waiting[t] # 0 => tab.waiting[t] # 0
  BY DEF Harmless
<1>4. WaitsIn(k, ctx, frame)
  BY <1>1, <1>3 DEF LInv, WaitsIn
<1>5. WaitsIn(tab, ctx, frame)'
  BY <1>1, <1>2, <1>4, InstallWaits
<1>6. ASSUME Marked, Lawful(tab, k) PROVE Marked'
  <2>1. ASSUME NEW d \in CPU, k.current[d] # None
        PROVE  /\ ctx[d].dead <=> Dead(tab, k.current[d])
               /\ Dead(tab, k.current[d]) => Dead(k, k.current[d])
               /\ ~Dead(k, k.current[d]) => ctx[d].pc # "none"
    <3>1. k.current[d] \in Task
      BY <1>1, <2>1
    <3>2. Dead(tab, k.current[d]) => Dead(k, k.current[d])
      BY <1>6, <3>1 DEF Lawful, Stays
    <3>3. (ctx[d].dead <=> Dead(tab, k.current[d]))
          /\ (~Dead(tab, k.current[d]) => ctx[d].pc # "none")
      BY <1>6, <2>1 DEF Marked, Marks
    <3> QED
      BY <3>2, <3>3
  <2>2. ASSUME NEW t \in Task, ~Dead(k, t), ~CurrentAnywhere(k, t)
        PROVE  frame[t].pc # "none" /\ ~frame[t].dead
    <3>1. ~Dead(tab, t) /\ ~CurrentAnywhere(tab, t)
      BY <1>6, <2>2 DEF Lawful, Stays, CurrentAnywhere
    <3> QED
      BY <1>6, <3>1 DEF Marked, Marks
  <2> QED
    BY <1>1, <1>2, <2>1, <2>2, InstallMarks
<1>7. Heard(tab')
  BY <1>2 DEF LInv, Harmless
<1> QED
  BY <1>2, <1>5, <1>6, <1>7 DEF Peaceful

\* What the saved contexts are when core c picks its next task.
Saved(k, c, f) ==
  /\ f \in [Task -> Contexts]
  /\ \A t \in Task : k.waiting[t] # 0 => f[t].pc \in Waits
  /\ \A t \in Task : CurrentElsewhere(tab, c, t) => f[t] = Gone

\* The same of the contexts of the live tasks.
SavedLive(k, c, f) == \A t \in Task :
  ~Dead(k, t) /\ ~CurrentElsewhere(tab, c, t) => f[t].pc # "none" /\ ~f[t].dead

\* Core c goes on with the context saved for task n.
LEMMA ResumeLife ==
  ASSUME LInv, NEW c \in CPU, NEW n \in Task, NEW k, Safe(k),
         k.current = [tab.current EXCEPT ![c] = n], ~CurrentElsewhere(tab, c, n),
         Harmless(tab, k), NEW f, Saved(k, c, f), Resume(c, n, k, f)
  PROVE  /\ Heard(tab') /\ WaitsIn(tab, ctx, frame)'
         /\ Marked /\ Lawful(tab, k) /\ SavedLive(k, c, f) /\ ~Dead(k, n) => Peaceful
         /\ Marked /\ Lawful(tab, k) /\ ~Dead(tab, n)
            /\ (\A t \in Task \ {n} : ~Dead(k, t) /\ ~CurrentElsewhere(tab, c, t)
                                        => f[t].pc # "none" /\ ~f[t].dead)
            /\ f[n].pc # "none" /\ ~f[n].dead => Peaceful
<1> DEFINE x == [ctx EXCEPT ![c] = f[n]]
           g == Take(f, n)
<1>1. /\ ctx \in [CPU -> Contexts] /\ f \in [Task -> Contexts]
      /\ tab.current \in [CPU -> Task \cup {None}] /\ Safe(tab)
  BY Fields DEF LInv, IInv, Prog, Safe, Saved
<1>2. Gone \in Contexts
  BY DEF Gone, At, Contexts, Context, Local, PC
<1>3. /\ x \in [CPU -> Contexts] /\ g \in [Task -> Contexts]
      /\ x[c] = f[n] /\ g[n] = Gone
      /\ \A d \in CPU \ {c} : x[d] = ctx[d]
      /\ \A t \in Task \ {n} : g[t] = f[t]
  BY <1>1, <1>2 DEF Take
<1>4. Install(k, g, x) /\ tab' = k
  BY DEF Resume, Install
<1> HIDE DEF x, g
<1>5. \A d \in CPU : k.current[d] = IF d = c THEN n ELSE tab.current[d]
  BY <1>1
<1>6. k.current \in [CPU -> Task \cup {None}]
  BY <1>1
<1>7. WaitsIn(k, x, g)
  <2>1. ASSUME NEW t \in Task, k.waiting[t] # 0 PROVE g[t].pc \in Waits
    <3>1. CASE t = n
      BY <1>3, <3>1 DEF Gone, At, Waits
    <3>2. CASE t # n
      BY <1>3, <2>1, <3>2 DEF Saved
    <3> QED
      BY <3>1, <3>2
  <2>2. ASSUME NEW d \in CPU, k.current[d] # None
        PROVE  g[k.current[d]] = Gone /\ (k.waiting[k.current[d]] # 0 => x[d].pc \in Waits)
    <3>1. CASE d = c
      BY <1>3, <1>5, <3>1 DEF Saved
    <3>2. CASE d # c
      <4>1. k.current[d] = tab.current[d] /\ x[d] = ctx[d] /\ k.current[d] \in Task
        <5>1. k.current[d] = tab.current[d]
          BY <1>5, <3>2
        <5>2. x[d] = ctx[d]
          BY <1>3, <3>2
        <5>3. k.current[d] \in Task
          BY <1>6, <2>2
        <5> QED
          BY <5>1, <5>2, <5>3
      <4>2. CurrentElsewhere(tab, c, k.current[d])
        BY <3>2, <4>1 DEF CurrentElsewhere
      <4>3. k.current[d] # n /\ f[k.current[d]] = Gone
        BY <4>1, <4>2 DEF Saved
      <4>4. k.waiting[k.current[d]] # 0 => tab.waiting[k.current[d]] # 0
        BY <4>1 DEF Harmless
      <4> QED
        BY <1>3, <2>2, <4>1, <4>3, <4>4 DEF LInv, WaitsIn
    <3> QED
      BY <3>1, <3>2
  <2> QED
    BY <2>1, <2>2 DEF WaitsIn
<1>8. WaitsIn(tab, ctx, frame)'
  BY <1>3, <1>4, <1>6, <1>7, InstallWaits
<1>9. ASSUME Marked, Lawful(tab, k), f[n].pc # "none", ~f[n].dead, ~Dead(tab, n),
             \A t \in Task \ {n} : ~Dead(k, t) /\ ~CurrentElsewhere(tab, c, t)
                                     => f[t].pc # "none" /\ ~f[t].dead
      PROVE  Marked'
  <2>1. ASSUME NEW d \in CPU, k.current[d] # None
        PROVE  /\ x[d].dead <=> Dead(tab, k.current[d])
               /\ Dead(tab, k.current[d]) => Dead(k, k.current[d])
               /\ ~Dead(k, k.current[d]) => x[d].pc # "none"
    <3>1. CASE d = c
      BY <1>3, <1>5, <1>9, <3>1
    <3>2. CASE d # c
      <4>1. k.current[d] = tab.current[d] /\ x[d] = ctx[d] /\ k.current[d] \in Task
        <5>1. k.current[d] = tab.current[d]
          BY <1>5, <3>2
        <5>2. x[d] = ctx[d]
          BY <1>3, <3>2
        <5>3. k.current[d] \in Task
          BY <1>6, <2>1
        <5> QED
          BY <5>1, <5>2, <5>3
      <4>2. Dead(tab, k.current[d]) => Dead(k, k.current[d])
        BY <1>9, <4>1 DEF Lawful, Stays
      <4>3. (ctx[d].dead <=> Dead(tab, k.current[d]))
            /\ (~Dead(tab, k.current[d]) => ctx[d].pc # "none")
        BY <1>9, <2>1, <4>1 DEF Marked, Marks
      <4> QED
        BY <4>1, <4>2, <4>3
    <3> QED
      BY <3>1, <3>2
  <2>2. ASSUME NEW t \in Task, ~Dead(k, t), ~CurrentAnywhere(k, t)
        PROVE  g[t].pc # "none" /\ ~g[t].dead
    <3>1. t # n /\ ~CurrentElsewhere(tab, c, t)
      BY <1>5, <2>2 DEF CurrentAnywhere, CurrentElsewhere
    <3>2. g[t] = f[t]
      BY <1>3, <3>1
    <3> QED
      BY <1>9, <2>2, <3>1, <3>2
  <2> QED
    BY <1>3, <1>4, <1>6, <2>1, <2>2, InstallMarks
<1>10. ASSUME Marked, Lawful(tab, k), SavedLive(k, c, f), ~Dead(k, n) PROVE Marked'
  <2>1. ~Dead(tab, n)
    BY <1>10 DEF Lawful, Stays
  <2>2. f[n].pc # "none" /\ ~f[n].dead
    BY <1>10 DEF SavedLive
  <2> QED
    BY <1>9, <1>10, <2>1, <2>2 DEF SavedLive
<1>11. Heard(tab')
  BY <1>4 DEF LInv, Harmless
<1> QED
  BY <1>4, <1>8, <1>9, <1>10, <1>11 DEF Peaceful

\* A creation: one fresh task, one more slot in use.
Created == \E i \in Task :
  /\ frame'[i] = Fresh /\ tab'.num_tasks = tab.num_tasks + 1
  /\ \A t \in Task \ {i} : Dead(tab, t) => Dead(tab', t)

\* The creation by the program of core c.
LEMMA CreateLife ==
  ASSUME LInv, NEW c \in CPU, NEW p \in Task \cup {None}, NEW at \in Contexts,
         Self(c) \in Task, ctx[c].pc \notin Waits, at.pc # "none", Create(c, p, at)
  PROVE  /\ Heard(tab') /\ WaitsIn(tab, ctx, frame)'
         /\ Marked => /\ Marked' /\ Created
                      /\ Counted(tab) => Counted(tab')
                      /\ p \in Task /\ ~Dead(tab, p) /\ Parents(tab) => Parents(tab')
<1>1. PICK i \in FreeSlots(tab) :
        Install(thread_create_ex(tab, i, p), [frame EXCEPT ![i] = Fresh], Goto(c, at))
  BY DEF Create
<1> DEFINE k == thread_create_ex(tab, i, p)
           f == [frame EXCEPT ![i] = Fresh]
           x == Goto(c, at)
           e == [at EXCEPT !.dead = ctx[c].dead]
<1>2. /\ ctx \in [CPU -> Contexts] /\ frame \in [Task -> Contexts]
      /\ Safe(tab) /\ tab.current \in [CPU -> Task \cup {None}]
  BY Fields DEF LInv, IInv, Prog, Safe
<1>3. /\ Safe(k) /\ k.current = tab.current /\ ~Dead(k, i)
      /\ Harmless(tab, k) /\ k.waiting[i] = 0 /\ k.num_tasks = tab.num_tasks + 1
      /\ \A t \in Task \ {i} : Dead(tab, t) <=> Dead(k, t)
      /\ Counted(tab) => Counted(k)
      /\ p \in Task /\ ~Dead(tab, p) /\ Parents(tab) => Parents(k)
  BY <1>2, CreateSafe, CreateFates
<1> HIDE DEF k
<1>4. Fresh \in Contexts /\ Fresh.pc = "run" /\ ~Fresh.dead
  BY DEF Fresh, At, Contexts, Context, Local, PC
<1>5. i \in Task /\ ~CurrentAnywhere(tab, i) /\ Dead(tab, i)
  BY DEF FreeSlots, Dead
<1>6. e \in Contexts /\ e.pc = at.pc /\ e.dead = ctx[c].dead
  BY <1>2 DEF Contexts, Context, Local
<1> HIDE DEF e
<1>7. /\ x \in [CPU -> Contexts] /\ x[c] = e /\ (\A d \in CPU \ {c} : x[d] = ctx[d])
      /\ f \in [Task -> Contexts] /\ f[i] = Fresh /\ \A t \in Task \ {i} : f[t] = frame[t]
  BY <1>2, <1>4, <1>5, <1>6 DEF Goto, e
<1>8. Install(k, f, x) /\ tab' = k
  BY <1>1 DEF k, Install
<1> HIDE DEF x, f
<1>9. \A t \in Task : k.waiting[t] # 0 => tab.waiting[t] # 0
  BY <1>3 DEF Harmless
<1>10. WaitsIn(k, x, f)
  <2>1. ASSUME NEW t \in Task, k.waiting[t] # 0 PROVE f[t].pc \in Waits
    <3>1. t # i
      BY <1>3, <2>1
    <3> QED
      BY <1>7, <1>9, <2>1, <3>1 DEF LInv, WaitsIn
  <2>2. ASSUME NEW d \in CPU, k.current[d] # None
        PROVE  f[k.current[d]] = Gone /\ (k.waiting[k.current[d]] # 0 => x[d].pc \in Waits)
    <3>1. k.current[d] \in Task /\ k.current[d] # i /\ k.current[d] = tab.current[d]
      BY <1>2, <1>3, <1>5, <2>2 DEF CurrentAnywhere
    <3>2. f[k.current[d]] = Gone
      BY <1>7, <2>2, <3>1 DEF LInv, WaitsIn
    <3>3. k.waiting[k.current[d]] # 0 => ctx[d].pc \in Waits
      BY <1>9, <2>2, <3>1 DEF LInv, WaitsIn
    <3>4. d # c => x[d] = ctx[d]
      BY <1>7
    <3> QED
      BY <3>2, <3>3, <3>4
  <2> QED
    BY <2>1, <2>2 DEF WaitsIn
<1>11. WaitsIn(tab, ctx, frame)'
  BY <1>2, <1>3, <1>7, <1>8, <1>10, InstallWaits
<1>12. ASSUME Marked PROVE Marked'
  <2>1. ASSUME NEW d \in CPU, k.current[d] # None
        PROVE  /\ x[d].dead <=> Dead(tab, k.current[d])
               /\ Dead(tab, k.current[d]) => Dead(k, k.current[d])
               /\ ~Dead(k, k.current[d]) => x[d].pc # "none"
    <3>1. k.current[d] \in Task /\ k.current[d] # i /\ k.current[d] = tab.current[d]
      BY <1>2, <1>3, <1>5, <2>1 DEF CurrentAnywhere
    <3>2. (x[d].dead <=> ctx[d].dead) /\ (x[d].pc = ctx[d].pc \/ x[d].pc = at.pc)
      <4>1. CASE d = c
        BY <1>6, <1>7, <4>1
      <4>2. CASE d # c
        BY <1>7, <4>2
      <4> QED
        BY <4>1, <4>2
    <3>3. Dead(tab, k.current[d]) <=> Dead(k, k.current[d])
      BY <1>3, <3>1
    <3>4. (ctx[d].dead <=> Dead(tab, k.current[d]))
          /\ (~Dead(tab, k.current[d]) => ctx[d].pc # "none")
      BY <1>12, <2>1, <3>1 DEF Marked, Marks
    <3> QED
      BY <3>2, <3>3, <3>4
  <2>2. ASSUME NEW t \in Task, ~Dead(k, t), ~CurrentAnywhere(k, t)
        PROVE  f[t].pc # "none" /\ ~f[t].dead
    <3>1. CASE t = i
      BY <1>4, <1>7, <3>1
    <3>2. CASE t # i
      <4>1. ~Dead(tab, t) /\ ~CurrentAnywhere(tab, t) /\ f[t] = frame[t]
        BY <1>3, <1>7, <2>2, <3>2 DEF CurrentAnywhere
      <4> QED
        BY <1>12, <4>1 DEF Marked, Marks
    <3> QED
      BY <3>1, <3>2
  <2> QED
    BY <1>2, <1>3, <1>7, <1>8, <2>1, <2>2, InstallMarks
<1>13. Created
  <2>1. frame'[i] = Fresh
    BY <1>3, <1>5, <1>7, <1>8 DEF Install
  <2> QED
    BY <1>3, <1>5, <1>8, <2>1 DEF Created
<1>14. Heard(tab')
  BY <1>3, <1>8 DEF LInv, Harmless
<1> QED
  BY <1>3, <1>8, <1>11, <1>12, <1>13, <1>14


\* A pending signal meets the pick.
LEMMA DeliverLife ==
  ASSUME LInv, NEW c \in CPU, NEW n \in Workers, NEW k, Safe(k), k.state[n] = "RUNNING",
         k.current = [tab.current EXCEPT ![c] = n], ~CurrentElsewhere(tab, c, n),
         Harmless(tab, k), NEW f, Saved(k, c, f), f[n].pc = "run", Deliver(c, n, k, f)
  PROVE  /\ Heard(tab') /\ WaitsIn(tab, ctx, frame)'
         /\ Marked /\ Lawful(tab, k) /\ SavedLive(k, c, f) => Peaceful
<1> DEFINE k1 == terminate_task(k, n)
           ms == Repick(k1, c, tab.current[c])
           k2(p) == [k EXCEPT !.pending[n] = p]
           g == [f EXCEPT ![n] = At("parked", 0, 0)]
           Goal == /\ Heard(tab') /\ WaitsIn(tab, ctx, frame)'
                   /\ Marked /\ Lawful(tab, k) /\ SavedLive(k, c, f) => Peaceful
<1>0. /\ n \in Task /\ ~IsIdle(n) /\ n # 0
      /\ tab.current \in [CPU -> Task \cup {None}]
  BY SchedAssumption, Fields DEF LInv, IInv, Safe
<1>1. Safe(k1) /\ k1.current = k.current /\ Harmless(k, k1) /\ Lawful(k, k1)
  BY <1>0, TerminateSafe, TerminateFates
<1>2. Harmless(tab, k1) /\ (Lawful(tab, k) => Lawful(tab, k1))
  BY <1>1, Composed
<1>3. k.waiting[n] = 0 /\ k1.waiting[n] = 0
  <2>1. k.waiting[n] = 0
    BY <1>0 DEF Saved, Waits
  <2> QED
    BY <1>0, <1>1, <2>1 DEF Harmless
<1>4. ~Dead(k, n) /\ (Lawful(tab, k) => ~Dead(tab, n))
  BY <1>0 DEF Dead, Lawful, Stays
<1>5. Saved(k1, c, f) /\ (Lawful(tab, k) /\ SavedLive(k, c, f) => SavedLive(k1, c, f))
  <2>1. \A t \in Task : k1.waiting[t] # 0 => k.waiting[t] # 0
    BY <1>1 DEF Harmless
  <2>2. \A t \in Task : ~Dead(k1, t) => ~Dead(k, t)
    BY <1>1 DEF Lawful, Stays
  <2> QED
    BY <2>1, <2>2 DEF Saved, SavedLive
<1> HIDE DEF k1
<1>6. ASSUME NEW p \in BOOLEAN, Resume(c, n, k2(p), f) PROVE Goal
  <2> DEFINE q == k2(p)
  <2>1. /\ q \in Table /\ q.state = k.state /\ q.rq_cpu = k.rq_cpu
        /\ q.current = k.current /\ q.waiting = k.waiting
        /\ q.parent = k.parent /\ q.num_tasks = k.num_tasks
    BY <1>0, <1>6 DEF Safe, Table
  <2>2. Resume(c, n, q, f)
    BY <1>6
  <2> HIDE DEF q
  <2>3. Safe(q) /\ q.current = [tab.current EXCEPT ![c] = n]
    BY <2>1, MovedSafe DEF Moved, Safe, WaitersWork
  <2>4. Harmless(k, q) /\ Lawful(k, q)
    <3>1. SameDead(k, q)
      BY <2>1 DEF SameDead
    <3> QED
      BY <2>1, <3>1, QuietFates
  <2>5. Harmless(tab, q) /\ (Lawful(tab, k) => Lawful(tab, q))
    BY <2>4, Composed
  <2>6. Saved(q, c, f) /\ (SavedLive(k, c, f) => SavedLive(q, c, f)) /\ ~Dead(q, n)
    BY <1>4, <2>1 DEF Saved, SavedLive, Dead
  <2> QED
    BY <1>0, <2>2, <2>3, <2>5, <2>6, ResumeLife
<1>7. ASSUME k1.state[n] = "FREE", Resume(c, n, k1, g) PROVE Goal
  <2>1. At("parked", 0, 0) \in Contexts /\ At("parked", 0, 0).pc = "parked"
        /\ ~At("parked", 0, 0).dead
    BY DEF At, Contexts, Context, Local, PC
  <2>2. g \in [Task -> Contexts] /\ g[n] = At("parked", 0, 0) /\ \A t \in Task \ {n} : g[t] = f[t]
    BY <1>0, <2>1 DEF Saved
  <2>3. Resume(c, n, k1, g)
    BY <1>7
  <2> HIDE DEF g
  <2>4. Saved(k1, c, g)
    BY <1>3, <1>5, <2>2 DEF Saved
  <2>5. Heard(tab') /\ WaitsIn(tab, ctx, frame)'
    BY <1>0, <1>1, <1>2, <2>3, <2>4, ResumeLife
  <2>6. ASSUME Marked, Lawful(tab, k), SavedLive(k, c, f) PROVE Peaceful
    <3>1. \A t \in Task \ {n} : ~Dead(k1, t) /\ ~CurrentElsewhere(tab, c, t)
                                  => g[t].pc # "none" /\ ~g[t].dead
      BY <1>5, <2>2, <2>6 DEF SavedLive
    <3>2. g[n].pc # "none" /\ ~g[n].dead
      BY <2>1, <2>2
    <3> QED
      BY <1>0, <1>1, <1>2, <1>4, <2>3, <2>4, <2>6, <3>1, <3>2, ResumeLife
  <2> QED
    BY <2>5, <2>6
<1>8. ASSUME k1.state[n] = "ZOMBIE" PROVE ms = rq_pick(k1, c) /\ ms # {} /\ Yielded(k1, c)
  <2>1. k1.current[c] = n
    BY <1>0, <1>1
  <2>2. Yielded(k1, c)
    BY <1>8, <2>1 DEF Yielded
  <2> QED
    BY <1>1, <2>2, OwnQueueServes DEF Repick
<1>9. ASSUME k1.state[n] = "ZOMBIE", NEW m \in rq_pick(k1, c), Resume(c, m, SwitchTo(k1, c, m), f)
      PROVE  Goal
  <2> DEFINE q == SwitchTo(k1, c, m)
  <2>1. m \in Task /\ ~CurrentElsewhere(k1, c, m)
    BY <1>9 DEF rq_pick, rq
  <2>2. /\ Safe(q) /\ q.current = [tab.current EXCEPT ![c] = m] /\ q.state[m] = "RUNNING"
        /\ \A u \in Task : Dead(q, u) <=> Dead(k1, u)
    BY <1>0, <1>1, <1>8, <1>9, SwitchSafe
  <2>3. Harmless(k1, q) /\ Lawful(k1, q)
    BY <1>1, <1>9, SwitchFates
  <2>4. ~CurrentElsewhere(tab, c, m)
    BY <1>0, <1>1, <2>1 DEF CurrentElsewhere
  <2>5. Harmless(tab, q) /\ (Lawful(tab, k) => Lawful(tab, q))
    BY <1>2, <2>3, Composed
  <2>6. Resume(c, m, q, f)
    BY <1>9
  <2> HIDE DEF q
  <2>7. Saved(q, c, f)
    BY <1>5, <2>3 DEF Saved, Harmless
  <2>8. Lawful(tab, k) /\ SavedLive(k, c, f) => SavedLive(q, c, f)
    BY <1>5, <2>2 DEF SavedLive
  <2>9. ~Dead(q, m)
    BY <2>2 DEF Dead
  <2> QED
    BY <2>1, <2>2, <2>4, <2>5, <2>6, <2>7, <2>8, <2>9, ResumeLife
<1>10. \/ \E p \in BOOLEAN : Resume(c, n, k2(p), f)
       \/ k1.state[n] = "FREE" /\ Resume(c, n, k1, g)
       \/ k1.state[n] = "ZOMBIE"
          /\ IF ms = {} THEN Stay(k1) ELSE \E m \in ms : Resume(c, m, SwitchTo(k1, c, m), f)
  BY DEF Deliver, k1
<1> HIDE DEF k2, g, ms
<1>11. Goal
  BY <1>6, <1>7, <1>8, <1>9, <1>10
<1> QED
  BY <1>11

\* One timer interrupt.
LEMMA TickLife ==
  ASSUME LInv, NEW c \in CPU, Tick(c)
  PROVE  /\ Heard(tab') /\ WaitsIn(tab, ctx, frame)'
         /\ Marked => Peaceful
<1>1. PICK k0 \in Upkeep(tab, c), swept \in {FALSE, c = 0} :
        \E k1 \in {IF swept THEN sched_integrity_sweep(k0) ELSE k0} :
        \E k2 \in {Preempt(k1, c)}, f \in {SaveFrame(k1, c)} :
          IF k1.num_tasks <= 1 /\ k1.current[c] # None THEN Stay(k1)
          ELSE IF Candidates(k2, c) = {} THEN Stay(k2)
          ELSE \E n \in Candidates(k2, c) : \E k3 \in {SwitchTo(k2, c, n)} :
                 IF Deliverable(k3, f, n) THEN Deliver(c, n, k3, f)
                                          ELSE Resume(c, n, k3, f)
  BY DEF Tick
<1> DEFINE k1 == IF swept THEN sched_integrity_sweep(k0) ELSE k0
           k2 == Preempt(k1, c)
           f  == SaveFrame(k1, c)
           Goal == /\ Heard(tab') /\ WaitsIn(tab, ctx, frame)'
                   /\ Marked => Peaceful
<1>1a. \/ Stay(k1)
       \/ Candidates(k2, c) = {}
       \/ \E n \in Candidates(k2, c) :
            LET k3 == SwitchTo(k2, c, n)
            IN  IF Deliverable(k3, f, n) THEN Deliver(c, n, k3, f)
                                         ELSE Resume(c, n, k3, f)
  BY <1>1
<1>2. Safe(tab) /\ Safe(k0) /\ k0.current = tab.current /\ Harmless(tab, k0) /\ Lawful(tab, k0)
  BY UpkeepSafe, UpkeepFates DEF LInv, IInv
<1>3. Safe(k1) /\ k1.current = tab.current /\ Harmless(tab, k1) /\ Lawful(tab, k1)
      /\ \A t \in Task : Dead(k1, t) <=> Dead(tab, t)
  <2>1. \A t \in Task : Dead(k0, t) <=> Dead(tab, t)
    BY <1>2, UpkeepSafe
  <2>2. CASE swept
    BY <1>2, <2>1, <2>2, SweepSafe, SweepFates, Composed DEF Dead
  <2>3. CASE ~swept
    BY <1>2, <2>1, <2>3
  <2> QED
    BY <2>2, <2>3
<1> HIDE DEF k1
<1>4. Safe(k2) /\ k2.current = tab.current /\ Yielded(k2, c)
      /\ Harmless(tab, k2) /\ Lawful(tab, k2)
  BY <1>3, PreemptSafe, PreemptFates, Composed
<1> HIDE DEF k2
<1>5. /\ tab.current \in [CPU -> Task \cup {None}]
      /\ ctx \in [CPU -> Contexts] /\ frame \in [Task -> Contexts]
  BY Fields DEF LInv, IInv, Prog, Safe
<1>6. /\ f \in [Task -> Contexts]
      /\ \A t \in Task : tab.waiting[t] # 0 => f[t].pc \in Waits
      /\ \A t \in Task : CurrentElsewhere(tab, c, t) => f[t] = Gone
      /\ Marked => \A t \in Task : ~Dead(tab, t) /\ ~CurrentElsewhere(tab, c, t)
                                     => f[t].pc # "none" /\ ~f[t].dead
  <2> DEFINE t0 == tab.current[c]
  <2>0. \A t \in Task : CurrentElsewhere(tab, c, t) => frame[t] = Gone /\ t # t0
    BY <1>2, <1>5, SchedAssumption DEF LInv, WaitsIn, CurrentElsewhere, Safe, OneCoreIn
  <2>1. CASE t0 = None \/ CurDead(k1, c)
    <3>1. f = frame
      BY <1>3, <2>1 DEF SaveFrame
    <3>2. \A t \in Task : t = t0 => Dead(tab, t)
      BY <1>3, <1>5, <2>1, SchedAssumption DEF CurDead
    <3>3. \A t \in Task : ~Dead(tab, t) /\ ~CurrentElsewhere(tab, c, t) => ~CurrentAnywhere(tab, t)
      BY <3>2 DEF CurrentElsewhere, CurrentAnywhere
    <3>4. \A t \in Task : tab.waiting[t] # 0 => f[t].pc \in Waits
      BY <3>1 DEF LInv, WaitsIn
    <3>5. Marked => \A t \in Task : ~Dead(tab, t) /\ ~CurrentElsewhere(tab, c, t)
                                     => f[t].pc # "none" /\ ~f[t].dead
      BY <3>1, <3>3 DEF Marked, Marks
    <3> QED
      BY <1>5, <2>0, <3>1, <3>4, <3>5
  <2>2. CASE ~(t0 = None \/ CurDead(k1, c))
    <3>1. f = [frame EXCEPT ![t0] = ctx[c]] /\ t0 \in Task
      BY <1>3, <1>5, <2>2 DEF SaveFrame
    <3>2. f \in [Task -> Contexts] /\ f[t0] = ctx[c] /\ \A t \in Task \ {t0} : f[t] = frame[t]
      BY <1>5, <3>1
    <3> HIDE DEF f
    <3>3. \A t \in Task : tab.waiting[t] # 0 => f[t].pc \in Waits
      BY <2>2, <3>2 DEF LInv, WaitsIn
    <3>4. ~Dead(tab, t0)
      <4>1. CASE t0 = 0
        BY <1>2, <3>1, <4>1, CoreTasks, SchedAssumption DEF Dead
      <4>2. CASE t0 # 0
        <5>1. t0 > 0
          BY <3>1, <4>2, SchedAssumption
        <5> QED
          BY <1>3, <2>2, <3>1, <5>1 DEF CurDead
      <4> QED
        BY <4>1, <4>2
    <3>5. ASSUME Marked, NEW t \in Task, ~Dead(tab, t), ~CurrentElsewhere(tab, c, t)
          PROVE  f[t].pc # "none" /\ ~f[t].dead
      <4>1. CASE t = t0
        BY <2>2, <3>2, <3>4, <3>5, <4>1 DEF Marked, Marks
      <4>2. CASE t # t0
        <5>1. ~CurrentAnywhere(tab, t)
          BY <3>5, <4>2 DEF CurrentElsewhere, CurrentAnywhere
        <5> QED
          BY <3>2, <3>5, <4>2, <5>1 DEF Marked, Marks
      <4> QED
        BY <4>1, <4>2
    <3> QED
      BY <2>0, <3>2, <3>3, <3>5
  <2> QED
    BY <2>1, <2>2
<1> HIDE DEF f
<1>7. Candidates(k2, c) = rq_pick(k2, c) /\ rq_pick(k2, c) # {}
  <2>1. rq_pick(k2, c) # {}
    BY <1>4, OwnQueueServes
  <2>2. \A n \in rq_pick(k2, c) : n > 0 => ~Dead(k2, n) /\ (IsIdle(n) => n = c)
    BY DEF rq_pick, Dead
  <2> QED
    BY <2>1, <2>2 DEF Candidates
<1>8. CASE Stay(k1)
  BY <1>3, <1>8, StayLife
<1>9. ASSUME NEW n \in rq_pick(k2, c),
             LET k3 == SwitchTo(k2, c, n)
             IN  IF Deliverable(k3, f, n) THEN Deliver(c, n, k3, f)
                                          ELSE Resume(c, n, k3, f)
      PROVE  Goal
  <2> DEFINE k3 == SwitchTo(k2, c, n)
  <2>1. n \in Task /\ ~CurrentElsewhere(tab, c, n)
    BY <1>4, <1>9 DEF rq_pick, rq, CurrentElsewhere
  <2>2. /\ Safe(k3) /\ k3.current = [tab.current EXCEPT ![c] = n]
        /\ k3.state[n] = "RUNNING"
    BY <1>4, <1>9, SwitchSafe
  <2>3. Harmless(tab, k3) /\ Lawful(tab, k3)
    BY <1>4, <1>9, SwitchFates, Composed
  <2>4. (Deliverable(k3, f, n) /\ Deliver(c, n, k3, f)) \/ Resume(c, n, k3, f)
    BY <1>9
  <2> HIDE DEF k3
  <2>5. Saved(k3, c, f)
    BY <1>6, <2>3 DEF Saved, Harmless
  <2>6. Marked => SavedLive(k3, c, f)
    BY <1>6, <2>3 DEF SavedLive, Lawful, Stays
  <2>7. CASE Deliverable(k3, f, n) /\ Deliver(c, n, k3, f)
    <3>1. n \in Workers /\ f[n].pc = "run"
      BY <2>7 DEF Deliverable
    <3> QED
      BY <2>1, <2>2, <2>3, <2>5, <2>6, <2>7, <3>1, DeliverLife
  <2>8. CASE Resume(c, n, k3, f)
    <3>1. ~Dead(k3, n)
      BY <2>2 DEF Dead
    <3> QED
      BY <2>1, <2>2, <2>3, <2>5, <2>6, <2>8, <3>1, ResumeLife
  <2> QED
    BY <2>4, <2>7, <2>8
<1>10. Goal
  BY <1>1a, <1>7, <1>8, <1>9
<1> QED
  BY <1>10


-----------------------------------------------------------------------------
(* Every action. *)

\* The windows in which a program killed by another core, or a stop sent to a
\* task that has exited meanwhile, brings a dead slot back are closed.
Tame == /\ Windows \cap {"sleep", "park", "block"} = {}
        /\ "signal" \in Windows => SIGSTOP \notin Signals

\* The windows in which a dead or another task becomes the parent are closed.
Closed == Windows \cap {"create", "cid"} = {}

\* What every step gives then.
Regular ==
  /\ Marked' /\ (Stays(tab, tab') \/ Created)
  /\ Counted(tab) => Counted(tab')
  /\ Closed /\ Parents(tab) => Parents(tab')

\* A step after which the marks are right and the table changed lawfully is regular.
LEMMA PeaceRegular == Peaceful => Regular
BY DEF Peaceful, Regular, Lawful

\* A program that may only go on if its task lives.
LEMMA LateLives ==
  ASSUME IInv, Tame, Marked, NEW c \in CPU, NEW w \in {"sleep", "park", "block"}, Late(c, w),
         Self(c) \in Task
  PROVE  ~Dead(tab, Self(c))
<1>1. ~ctx[c].dead
  BY DEF Tame, Late
<1>2. Self(c) # None
  BY SchedAssumption
<1> QED
  BY <1>1, <1>2 DEF Marked, Marks, Self

\* Task t waits for w, if it has no zombie, or for nothing.
Parked(k, k1, t, w) ==
  /\ k1.parent = k.parent /\ k1.num_tasks = k.num_tasks
  /\ \A u \in Task : /\ k1.waiting[u] = IF u = t THEN w ELSE k.waiting[u]
                     /\ u # t => k1.state[u] = k.state[u]
  /\ k1.state[t] = IF w = 0 THEN "READY" ELSE "BLOCKED"
  /\ w # 0 => Zombies(k, t, w) = {}

\* The park of waitpid.
LEMMA ParkFates ==
  ASSUME NEW k, NEW t \in Workers, NEW k1, NEW w, Parked(k, k1, t, w)
  PROVE  /\ Heard(k) => Heard(k1)
         /\ \A u \in Task \ {t} : k1.waiting[u] = k.waiting[u]
         /\ k1.waiting[t] = w
         /\ ~Dead(k, t) => Lawful(k, k1)
<1>1. t \in Task
  BY SchedAssumption
<1>2. \A u \in Task : k1.waiting[u] = IF u = t THEN w ELSE k.waiting[u]
  BY DEF Parked
<1>3. \A u \in Task : k1.state[u] = IF u = t THEN (IF w = 0 THEN "READY" ELSE "BLOCKED")
                                    ELSE k.state[u]
  BY DEF Parked
<1>4. Heard(k) => Heard(k1)
  <2> SUFFICES ASSUME Heard(k), NEW u \in Workers, NEW i \in Task \ {0},
                      k1.state[u] = "BLOCKED", k1.waiting[u] # 0,
                      k1.state[i] = "ZOMBIE", k1.parent[i] = u
               PROVE  k1.waiting[u] # Any /\ i # k1.waiting[u]
    BY DEF Heard
  <2>1. u \in Task /\ i # t /\ k.state[i] = "ZOMBIE" /\ k.parent[i] = u
    BY <1>3, SchedAssumption DEF Parked
  <2>2. CASE u = t
    <3>1. w # 0 /\ k1.waiting[u] = w
      BY <1>2, <2>1, <2>2
    <3>2. i \notin Zombies(k, t, w)
      BY <3>1 DEF Parked
    <3>3. ~(w # Any => i = w)
      BY <2>1, <2>2, <3>2 DEF Zombies, Children
    <3> QED
      BY <3>1, <3>3
  <2>3. CASE u # t
    BY <1>2, <1>3, <2>1, <2>3 DEF Heard
  <2> QED
    BY <2>2, <2>3
<1>5. ASSUME ~Dead(k, t) PROVE Lawful(k, k1)
  <2>1. \A u \in Task : (Dead(k1, u) <=> Dead(k, u))
                        /\ (k1.state[u] = "FREE" <=> k.state[u] = "FREE")
    BY <1>3, <1>5 DEF Dead
  <2>2. InUse(k1) = InUse(k)
    BY <2>1 DEF InUse
  <2>3. Parents(k) => Parents(k1)
    BY <2>1 DEF Parents, Parked
  <2> QED
    BY <2>1, <2>2, <2>3 DEF Lawful, Stays, Counted, Parked
<1> QED
  BY <1>1, <1>2, <1>4, <1>5

\* The steps of a program.
LEMMA ProgramLife ==
  ASSUME LInv, NEW c \in CPU, Program(c)
  PROVE  /\ Heard(tab') /\ WaitsIn(tab, ctx, frame)'
         /\ Tame /\ Marked => Regular
<1> DEFINE t == Self(c)
           Goal == /\ Heard(tab') /\ WaitsIn(tab, ctx, frame)'
                   /\ Tame /\ Marked => Regular
<1>0. /\ IInv /\ Safe(tab) /\ tab \in Table /\ tab.current \in [CPU -> Task \cup {None}]
      /\ ctx[c] \in Contexts /\ Heard(tab) /\ Harmless(tab, tab) /\ Lawful(tab, tab)
  BY Fields, SameFates DEF LInv, IInv, Prog, Safe
\* the step changes no table
<1>a. ASSUME NEW pc, Exec(c, pc), pc \notin {"main", "idle", "none"},
             NEW at \in Contexts, at.pc # "none", at.pc \in Waits \/ pc \notin Waits,
             Step(c, tab, at)
      PROVE  Goal
  <2>1. t \in Task /\ ctx[c].pc = pc
    BY <1>0, <1>a, Worker
  <2>2. /\ Heard(tab') /\ WaitsIn(tab, ctx, frame)' /\ (Marked => Peaceful)
    BY <1>0, <1>a, <2>1, MoveLife
  <2> QED
    BY <2>2, PeaceRegular
\* the step makes k the table
<1>b. ASSUME NEW pc, Exec(c, pc), pc \notin Waits, t \in Task, NEW at \in Contexts, at.pc # "none",
             NEW k, Safe(k), k.current = tab.current, Harmless(tab, k),
             Tame /\ Marked => Lawful(tab, k), Step(c, k, at)
      PROVE  Goal
  <2>1. ctx[c].pc = pc
    BY <1>b DEF Exec
  <2>2. /\ Heard(tab') /\ WaitsIn(tab, ctx, frame)' /\ (Marked /\ Lawful(tab, k) => Peaceful)
    BY <1>b, <2>1, MoveLife
  <2> QED
    BY <1>b, <2>2, PeaceRegular
<1> SUFFICES Goal
  OBVIOUS
<1> HIDE DEF Goal
<1>c. Fresh \in Contexts /\ Fresh.pc = "run" /\ \A pc, a, b : At(pc, a, b).pc = pc
  BY DEF Fresh, At, Contexts, Context, Local, PC
<1>d. At("parked", 0, 0) \in Contexts /\ At("blocked", 0, 0) \in Contexts
      /\ At("run", 0, 0) \in Contexts /\ At("main", 0, 0) \in Contexts
  BY DEF At, Contexts, Context, Local, PC
<1>e. "run" \notin Waits /\ "main" \notin Waits /\ "scan" \notin Waits /\ "reap" \notin Waits
      /\ "park" \notin Waits /\ "slept" \notin Waits /\ "spawn" \notin Waits
      /\ "signal" \notin Waits /\ "blocked" \notin Waits /\ "wait" \in Waits /\ "unwait" \in Waits
  BY DEF Waits
<1>1. CASE Exit(c)
  <2> DEFINE k == terminate_task(tab, t)
  <2>1. t \in Workers /\ t \in Task /\ ~IsIdle(t) /\ Exec(c, "run")
    BY <1>0, <1>1, Worker DEF Exit
  <2>2. Safe(k) /\ k.current = tab.current /\ Harmless(tab, k) /\ Lawful(tab, k)
    BY <1>0, <2>1, TerminateSafe, TerminateFates
  <2>3. Step(c, k, At("parked", 0, 0))
    BY <1>1 DEF Exit
  <2> HIDE DEF k
  <2> QED
    BY <1>b, <1>c, <1>d, <1>e, <2>1, <2>2, <2>3
<1>2. CASE ThreadCreate(c)
  <2>1. PICK pc \in {"run", "main"} : Exec(c, pc) /\ Create(c, t, At(pc, 0, 0))
    BY <1>2 DEF ThreadCreate
  <2>2. t \in Task /\ t # None /\ ctx[c].pc = pc
    BY <1>0, <2>1, SchedAssumption DEF Exec, Self
  <2>3. At(pc, 0, 0) \in Contexts /\ At(pc, 0, 0).pc # "none" /\ pc \notin Waits
    BY <1>c, <1>d, <1>e, <2>1
  <2>4. /\ Heard(tab') /\ WaitsIn(tab, ctx, frame)'
        /\ Marked => /\ Marked' /\ Created
                     /\ Counted(tab) => Counted(tab')
                     /\ t \in Task /\ ~Dead(tab, t) /\ Parents(tab) => Parents(tab')
    BY <2>1, <2>2, <2>3, CreateLife
  <2>5. Marked /\ Closed => ~Dead(tab, t)
    <3>1. Late(c, "create")
      BY <2>1 DEF Create
    <3> QED
      BY <2>2, <3>1 DEF Marked, Marks, Closed, Late, Self
  <2> QED
    BY <2>2, <2>4, <2>5 DEF Goal, Regular
<1>3. CASE ForkExec(c)
  <2>1. At("spawn", c, 0) \in Contexts /\ Exec(c, "run") /\ Step(c, tab, At("spawn", c, 0))
    BY <1>3 DEF ForkExec, At, Contexts, Context, Local, PC
  <2> QED
    BY <1>a, <1>c, <1>e, <2>1
<1>4. CASE ForkExecLocked(c)
  <2> DEFINE p == tab.current[ctx[c].a]
  <2>1. Exec(c, "spawn") /\ Create(c, p, Fresh)
    BY <1>4 DEF ForkExecLocked
  <2>2. t \in Task /\ ctx[c].pc = "spawn"
    BY <1>0, <2>1, Worker
  <2>3. p \in Task \cup {None} /\ "cid" \in Windows
    BY <1>0, <2>2 DEF Contexts, Local
  <2>4. /\ Heard(tab') /\ WaitsIn(tab, ctx, frame)'
        /\ Marked => /\ Marked' /\ Created
                     /\ Counted(tab) => Counted(tab')
    BY <1>c, <1>e, <2>1, <2>2, <2>3, CreateLife
  <2>5. ~Closed
    BY <2>3 DEF Closed
  <2> QED
    BY <2>4, <2>5 DEF Goal, Regular
<1>5. CASE Sleep(c)
  <2>1. PICK n \in 1 .. MaxSleep :
          Step(c, rq_remove([tab EXCEPT !.sleep[Self(c)] = n,
                                        !.state[Self(c)] = "SLEEP"], Self(c)),
               At("slept", c, 0))
    BY <1>5 DEF Sleep
  <2> DEFINE k1 == [tab EXCEPT !.sleep[t] = n, !.state[t] = "SLEEP"]
             k2 == rq_remove(k1, t)
  <2>2. t \in Workers /\ t \in Task /\ Exec(c, "run") /\ Late(c, "sleep")
    BY <1>0, <1>5, Worker DEF Sleep
  <2>3. /\ k2 \in Table /\ k2.state = [tab.state EXCEPT ![t] = "SLEEP"]
        /\ k2.rq_cpu = [tab.rq_cpu EXCEPT ![t] = None] /\ k2.current = tab.current
        /\ k2.waiting = tab.waiting /\ k2.parent = tab.parent /\ k2.num_tasks = tab.num_tasks
    <3>1. [tab.sleep EXCEPT ![t] = n] \in [Task -> 0 .. MaxSleep]
      BY <1>0, <2>2, SchedAssumption DEF Table
    <3>2. [tab.state EXCEPT ![t] = "SLEEP"] \in [Task -> State]
      BY <1>0, <2>2, Fields DEF State
    <3>3. [tab.rq_cpu EXCEPT ![t] = None] \in [Task -> CPU \cup {None}]
      BY <1>0, <2>2, Fields
    <3> QED
      BY <1>0, <2>2, <3>1, <3>2, <3>3 DEF Table, rq_remove
  <2>4. Step(c, k2, At("slept", c, 0))
    BY <2>1
  <2> HIDE DEF k1, k2
  <2>5. Safe(k2)
    BY <1>0, <2>2, <2>3, LeaveSafe DEF State
  <2>6. Turned(tab, k2, t, "SLEEP")
    BY <1>0, <2>2, <2>3, TableFields DEF Turned
  <2>7. Harmless(tab, k2) /\ (~Dead(tab, t) => Lawful(tab, k2))
    BY <2>6, TurnedFates
  <2>8. Tame /\ Marked => Lawful(tab, k2)
    BY <1>0, <2>2, <2>7, LateLives
  <2>9. At("slept", c, 0) \in Contexts
    BY DEF At, Contexts, Context, Local, PC
  <2> QED
    BY <1>b, <1>c, <1>e, <2>2, <2>3, <2>4, <2>5, <2>7, <2>8, <2>9
<1>6. CASE SleepDone(c)
  <2>1. Exec(c, "slept") /\ Step(c, tab, Fresh)
    BY <1>6 DEF SleepDone
  <2> QED
    BY <1>a, <1>c, <1>e, <2>1
<1>7. CASE WaitPid(c)
  <2>1. PICK pid \in Pids : Exec(c, "run") /\ Step(c, tab, At("scan", pid, 0))
    BY <1>7 DEF WaitPid
  <2>2. At("scan", pid, 0) \in Contexts
    BY <2>1, WaitContexts
  <2> QED
    BY <1>a, <1>c, <1>e, <2>1, <2>2
<1>8. CASE Scan(c)
  <2>1. Exec(c, "scan") /\ ctx[c].pc = "scan"
    BY <1>8 DEF Scan, Exec
  <2>2. ctx[c].a \in Pids
    BY <1>0, <2>1 DEF Contexts, Local
  <2>3. /\ \A z \in Task : At("reap", ctx[c].a, z) \in Contexts
        /\ At("park", ctx[c].a, 0) \in Contexts
    BY <2>2, WaitContexts
  <2>4. PICK at \in Contexts : at.pc \in {"reap", "park", "run"} /\ Step(c, tab, at)
    BY <1>8, <1>c, <2>3 DEF Scan, Zombies, Children
  <2> QED
    BY <1>a, <1>e, <2>1, <2>4
<1>9. CASE Reap(c)
  <2> DEFINE z  == ctx[c].b
             k1 == [tab EXCEPT !.state[z] = "FREE", !.num_tasks = @ - 1]
  <2>1. Exec(c, "reap") /\ ctx[c].pc = "reap" /\ t \in Task
    BY <1>0, <1>9, Worker DEF Reap
  <2>2. ctx[c].a \in Pids /\ z \in Task
    BY <1>0, <2>1 DEF Contexts, Local
  <2>3. At("scan", ctx[c].a, 0) \in Contexts
    BY <2>2, WaitContexts
  <2>4. CASE Step(c, tab, At("scan", ctx[c].a, 0))
    BY <1>a, <1>c, <1>e, <2>1, <2>3, <2>4
  <2>5. CASE tab.state[z] = "ZOMBIE" /\ Step(c, k1, Fresh)
    <3>1. /\ [tab.state EXCEPT ![z] = "FREE"] \in [Task -> State]
          /\ tab.num_tasks - 1 \in Int
      BY <1>0, <2>2 DEF Table, State
    <3>2. /\ k1 \in Table /\ k1.state = [tab.state EXCEPT ![z] = "FREE"]
          /\ k1.rq_cpu = tab.rq_cpu /\ k1.current = tab.current
          /\ k1.waiting = tab.waiting /\ k1.parent = tab.parent
          /\ k1.num_tasks = tab.num_tasks - 1
      BY <1>0, <3>1 DEF Table
    <3>3. Step(c, k1, Fresh)
      BY <2>5
    <3> HIDE DEF k1
    <3>4. \A u \in Task : Moved(tab, k1, u)
      BY <1>0, <2>2, <2>5, <3>2, CoreTasks, Fields DEF Moved, Safe, DeadOut, Dead
    <3>5. Safe(k1)
      BY <1>0, <3>2, <3>4, MovedSafe DEF Safe, WaitersWork
    <3>6. z # 0
      BY <1>0, <2>5, CoreTasks, SchedAssumption
    <3>7. Harmless(tab, k1) /\ Lawful(tab, k1)
      <4> DEFINE zs == {z}
      <4>1. Cardinality(zs) = 1
        BY FS_Singleton
      <4>2. /\ zs \in SUBSET (Task \ {0}) /\ \A y \in zs : tab.state[y] = "ZOMBIE"
            /\ \A u \in Task : k1.state[u] = IF u \in zs THEN "FREE" ELSE tab.state[u]
        BY <1>0, <2>2, <2>5, <3>2, <3>6, TableFields
      <4>3. k1.num_tasks = tab.num_tasks - Cardinality(zs)
        BY <3>2, <4>1
      <4>4. /\ k1.parent = tab.parent /\ k1.waiting = tab.waiting
            /\ \A y \in zs : tab.state[y] = "ZOMBIE"
            /\ \A u \in Task : k1.state[u] = IF u \in zs THEN "FREE" ELSE tab.state[u]
        BY <3>2, <4>2
      <4> HIDE DEF zs, z
      <4> QED
        BY <1>0, <4>2, <4>3, <4>4, ReapedFates
    <3> QED
      BY <1>b, <1>c, <1>e, <2>1, <3>2, <3>3, <3>5, <3>7
  <2> QED
    BY <1>9, <2>4, <2>5 DEF Reap
<1>10. CASE Park(c)
  <2> DEFINE pid == ctx[c].a
             k   == rq_remove(tab, t)
             kb  == [k EXCEPT !.waiting[t] = pid, !.state[t] = "BLOCKED"]
             kr  == [k EXCEPT !.waiting[t] = 0, !.state[t] = "READY"]
  <2>1. /\ t \in Workers /\ t \in Task /\ CurrentAnywhere(tab, t)
        /\ ctx[c].pc = "park" /\ Late(c, "park")
    BY <1>0, <1>10, Worker DEF Park, CurrentAnywhere, Self
  <2>2. pid \in Pids /\ pid # 0
    BY <1>0, <2>1, SchedAssumption DEF Contexts, Local
  <2>3. At("scan", pid, 0) \in Contexts /\ At("wait", pid, 0) \in Contexts
    BY <2>2, WaitContexts
  <2>4. /\ \A s \in State : [tab.state EXCEPT ![t] = s] \in [Task -> State]
        /\ [tab.rq_cpu EXCEPT ![t] = None] \in [Task -> CPU \cup {None}]
        /\ \A w \in {pid, 0} : [tab.waiting EXCEPT ![t] = w] \in [Task -> Workers \cup {Any, 0}]
    BY <1>0, <2>1, <2>2, SchedAssumption DEF Table
  <2>5. /\ kb \in Table /\ kb.state = [tab.state EXCEPT ![t] = "BLOCKED"]
        /\ kb.rq_cpu = [tab.rq_cpu EXCEPT ![t] = None] /\ kb.current = tab.current
        /\ kb.waiting = [tab.waiting EXCEPT ![t] = pid]
        /\ kb.parent = tab.parent /\ kb.num_tasks = tab.num_tasks
    BY <1>0, <2>1, <2>4 DEF Table, rq_remove, State
  <2>6. /\ kr \in Table /\ kr.state = [tab.state EXCEPT ![t] = "READY"]
        /\ kr.rq_cpu = [tab.rq_cpu EXCEPT ![t] = None] /\ kr.current = tab.current
        /\ kr.waiting = [tab.waiting EXCEPT ![t] = 0]
        /\ kr.parent = tab.parent /\ kr.num_tasks = tab.num_tasks
    BY <1>0, <2>1, <2>4 DEF Table, rq_remove, State
  <2>7. \/ Zombies(tab, t, pid) = {} /\ Step(c, kb, At("wait", pid, 0))
        \/ Step(c, kr, At("scan", pid, 0))
    BY <1>10 DEF Park, kb, kr
  <2> HIDE DEF kb, kr
  <2>8. tab.waiting \in [Task -> Workers \cup {Any, 0}]
    BY <1>0 DEF Table
  <2>9. Safe(kb)
    BY <1>0, <2>1, <2>5, <2>8, LeaveSafe DEF State
  <2>10. Safe(kr)
    BY <1>0, <2>1, <2>6, <2>8, LeaveSafe DEF State
  <2>11. Tame /\ Marked => ~Dead(tab, t)
    BY <1>0, <2>1, LateLives
  <2>12. CASE Zombies(tab, t, pid) = {} /\ Step(c, kb, At("wait", pid, 0))
    <3>0. At("wait", pid, 0).pc = "wait"
      BY <1>c
    <3>1. /\ Heard(kb) /\ (\A u \in Task \ {t} : kb.waiting[u] = tab.waiting[u])
          /\ (~Dead(tab, t) => Lawful(tab, kb))
      <4>1. /\ \A u \in Task : /\ kb.waiting[u] = IF u = t THEN pid ELSE tab.waiting[u]
                               /\ u # t => kb.state[u] = tab.state[u]
            /\ kb.state[t] = "BLOCKED"
        BY <1>0, <2>1, <2>5, <2>8, Fields
      <4>2. Parked(tab, kb, t, pid)
        BY <2>2, <2>5, <2>12, <4>1 DEF Parked
      <4>3. /\ Heard(tab) => Heard(kb)
            /\ \A u \in Task \ {t} : kb.waiting[u] = tab.waiting[u]
            /\ ~Dead(tab, t) => Lawful(tab, kb)
        BY <2>1, <4>2, ParkFates
      <4>4. Heard(tab)
        BY DEF LInv
      <4> QED
        BY <4>3, <4>4
    <3>2. /\ Heard(tab') /\ WaitsIn(tab, ctx, frame)'
          /\ (Marked /\ Lawful(tab, kb) => Peaceful)
      BY <1>e, <2>1, <2>3, <2>5, <2>9, <2>12, <3>0, <3>1, StepLife
    <3> QED
      BY <2>11, <3>1, <3>2, PeaceRegular DEF Goal
  <2>13. CASE Step(c, kr, At("scan", pid, 0))
    <3>0. At("scan", pid, 0).pc = "scan"
      BY <1>c
    <3>a. /\ \A u \in Task : /\ kr.waiting[u] = IF u = t THEN 0 ELSE tab.waiting[u]
                             /\ u # t => kr.state[u] = tab.state[u]
          /\ kr.state[t] = "READY"
      BY <1>0, <2>1, <2>6, <2>8, Fields
    <3>b. Parked(tab, kr, t, 0)
      BY <2>6, <3>a DEF Parked
    <3>c. kr.waiting[t] = 0
      BY <2>1, <3>a
    <3>d. Heard(tab) => Heard(kr)
      BY <2>1, <3>b, ParkFates
    <3>1. (\A u \in Task \ {t} : kr.waiting[u] = tab.waiting[u])
          /\ (~Dead(tab, t) => Lawful(tab, kr)) /\ Heard(kr)
      BY <1>0, <2>1, <3>a, <3>b, <3>d, ParkFates
    <3>2. /\ Heard(tab') /\ WaitsIn(tab, ctx, frame)'
          /\ (Marked /\ Lawful(tab, kr) => Peaceful)
      BY <2>1, <2>3, <2>6, <2>10, <2>13, <3>0, <3>c, <3>1, StepLife
    <3> QED
      BY <2>11, <3>1, <3>2, PeaceRegular DEF Goal
  <2> QED
    BY <2>7, <2>12, <2>13
<1>11. CASE WaitDone(c)
  <2>1. Exec(c, "wait") /\ ctx[c].pc = "wait" /\ Step(c, tab, At("unwait", ctx[c].a, 0))
    BY <1>11 DEF WaitDone, Exec
  <2>2. At("unwait", ctx[c].a, 0) \in Contexts
    BY <1>0, <2>1, WaitContexts DEF Contexts, Local
  <2> QED
    BY <1>a, <1>c, <1>e, <2>1, <2>2
<1>12. CASE Unwait(c)
  <2> DEFINE k1 == [tab EXCEPT !.waiting[t] = 0]
  <2>1. t \in Workers /\ t \in Task /\ ctx[c].pc = "unwait" /\ Exec(c, "unwait")
    BY <1>0, <1>12, Worker DEF Unwait
  <2>2. At("scan", ctx[c].a, 0) \in Contexts
    BY <1>0, <2>1, WaitContexts DEF Contexts, Local
  <2>3. /\ k1 \in Table /\ k1.state = tab.state /\ k1.rq_cpu = tab.rq_cpu
        /\ k1.current = tab.current /\ k1.waiting = [tab.waiting EXCEPT ![t] = 0]
        /\ k1.parent = tab.parent /\ k1.num_tasks = tab.num_tasks
    BY <1>0, <2>1 DEF Table
  <2>4. Step(c, k1, At("scan", ctx[c].a, 0))
    BY <1>12 DEF Unwait
  <2> HIDE DEF k1
  <2>5. tab.waiting \in [Task -> Workers \cup {Any, 0}]
    BY <1>0 DEF Table
  <2>6. Safe(k1)
    BY <1>0, <2>1, <2>3, <2>5, MovedSafe DEF Moved, Safe, WaitersWork
  <2>7. \A u \in Task : k1.waiting[u] = IF u = t THEN 0 ELSE tab.waiting[u]
    BY <2>1, <2>3, <2>5
  <2>8. Harmless(tab, k1) /\ Lawful(tab, k1)
    <3>1. SameDead(tab, k1)
      BY <2>3 DEF SameDead
    <3> QED
      BY <2>3, <2>7, <3>1, QuietFates
  <2>9. Heard(k1)
    BY <1>0, <2>8 DEF Harmless
  <2>9a. At("scan", ctx[c].a, 0).pc = "scan"
    BY <1>c
  <2>10. /\ Heard(tab') /\ WaitsIn(tab, ctx, frame)'
         /\ (Marked /\ Lawful(tab, k1) => Peaceful)
    BY <2>9a, <2>1, <2>2, <2>3, <2>4, <2>6, <2>7, <2>9, StepLife
  <2> QED
    BY <2>8, <2>10, PeaceRegular DEF Goal
<1>13. CASE Signal(c)
  <2>1. PICK pc \in {"run", "main"}, v \in Workers, s \in Signals :
          /\ Exec(c, pc) /\ ~Dead(tab, v)
          /\ IF "signal" \in Windows /\ pc = "run"
             THEN Step(c, tab, At("signal", v, s))
             ELSE Step(c, task_signal(tab, v, s), At(pc, 0, 0))
    BY <1>13 DEF Signal
  <2> DEFINE k == task_signal(tab, v, s)
  <2>2. t \in Task
    BY <1>0, <2>1, SchedAssumption DEF Exec, Self
  <2>3. Safe(k) /\ k.current = tab.current /\ Harmless(tab, k) /\ Lawful(tab, k)
    BY <1>0, <2>1, SignalSafe, SignalFates
  <2>4. CASE "signal" \in Windows /\ pc = "run" /\ Step(c, tab, At("signal", v, s))
    <3>1. At("signal", v, s) \in Contexts
      BY <2>4, SchedAssumption DEF At, Contexts, Context, Local, PC
    <3> QED
      BY <1>a, <1>c, <1>e, <2>1, <2>4, <3>1
  <2>5. CASE Step(c, k, At(pc, 0, 0))
    <3> HIDE DEF k
    <3> QED
      BY <1>b, <1>c, <1>d, <1>e, <2>1, <2>2, <2>3, <2>5
  <2> QED
    BY <2>1, <2>4, <2>5
<1>14. CASE SignalLocked(c)
  <2> DEFINE v == ctx[c].a
             s == ctx[c].b
             k == task_signal(tab, v, s)
  <2>1. Exec(c, "signal") /\ ctx[c].pc = "signal" /\ t \in Task /\ Step(c, k, Fresh)
    BY <1>0, <1>14, Worker DEF SignalLocked
  <2>2. v \in Workers /\ s \in Signals /\ "signal" \in Windows
    BY <1>0, <2>1 DEF Contexts, Local
  <2>3. Safe(k) /\ k.current = tab.current /\ Harmless(tab, k)
        /\ (s # SIGSTOP => Lawful(tab, k))
    BY <1>0, <2>2, SignalSafe, SignalFates
  <2>4. Tame => Lawful(tab, k)
    BY <2>2, <2>3 DEF Tame
  <2> HIDE DEF k
  <2> QED
    BY <1>b, <1>c, <1>e, <2>1, <2>3, <2>4
<1>15. CASE SyscallReturn(c)
  <2> DEFINE k == [tab EXCEPT !.pending[t] = FALSE]
             k1 == terminate_task(k, t)
  <2>1. t \in Workers /\ t \in Task /\ ~IsIdle(t) /\ Exec(c, "run")
    BY <1>0, <1>15, Worker DEF SyscallReturn
  <2>2. /\ k \in Table /\ k.state = tab.state /\ k.rq_cpu = tab.rq_cpu
        /\ k.current = tab.current /\ k.waiting = tab.waiting
        /\ k.parent = tab.parent /\ k.num_tasks = tab.num_tasks
    BY <1>0, <2>1 DEF Table
  <2>3. Step(c, k, Fresh) \/ Step(c, k1, At("parked", 0, 0))
    BY <1>15 DEF SyscallReturn, k
  <2> HIDE DEF k
  <2>4. Safe(k)
    BY <1>0, <2>2, MovedSafe DEF Moved, Safe, WaitersWork
  <2>5. Harmless(tab, k) /\ Lawful(tab, k)
    <3>1. SameDead(tab, k)
      BY <2>2 DEF SameDead
    <3> QED
      BY <2>2, <3>1, QuietFates
  <2>6. Safe(k1) /\ k1.current = tab.current /\ Harmless(tab, k1) /\ Lawful(tab, k1)
    BY <2>1, <2>2, <2>4, <2>5, TerminateSafe, TerminateFates, Composed
  <2> HIDE DEF k1
  <2>7. CASE Step(c, k, Fresh)
    BY <1>b, <1>c, <1>e, <2>1, <2>2, <2>4, <2>5, <2>7
  <2>8. CASE Step(c, k1, At("parked", 0, 0))
    BY <1>b, <1>c, <1>d, <1>e, <2>1, <2>6, <2>8
  <2> QED
    BY <2>3, <2>7, <2>8
<1>16. CASE Block(c)
  <2> DEFINE k == task_set_state(tab, t, "BLOCKED")
  <2>1. t \in Workers /\ t \in Task /\ Exec(c, "run") /\ ctx[c].pc = "run" /\ Late(c, "block")
        /\ Step(c, k, At("blocked", 0, 0))
    BY <1>0, <1>16, Worker DEF Block
  <2>2. Safe(k) /\ k.current = tab.current
    BY <1>0, <2>1, SetStateSafe
  <2>3. tab.waiting[t] = 0
    BY <1>e, <2>1, SchedAssumption DEF LInv, WaitsIn, Self
  <2>4. Harmless(tab, k) /\ (~Dead(tab, t) => Lawful(tab, k))
    BY <1>0, <2>1, <2>3, SetStateFates
  <2>5. Tame /\ Marked => Lawful(tab, k)
    BY <1>0, <2>1, <2>4, LateLives
  <2> HIDE DEF k
  <2> QED
    BY <1>b, <1>c, <1>d, <1>e, <2>1, <2>2, <2>4, <2>5
<1>17. CASE BlockDone(c)
  <2>1. Exec(c, "blocked") /\ Step(c, tab, Fresh)
    BY <1>17 DEF BlockDone
  <2> QED
    BY <1>a, <1>c, <1>e, <2>1
<1>18. Goal
  BY <1>1, <1>2, <1>3, <1>4, <1>5, <1>6, <1>7, <1>8, <1>9, <1>10, <1>11, <1>12,
     <1>13, <1>14, <1>15, <1>16, <1>17 DEF Program
<1> QED
  BY <1>18 DEF Goal


\* A wake-up of sync.c.
LEMMA WakeLife ==
  ASSUME LInv, NEW v \in Task, Wake(v)
  PROVE  /\ Heard(tab') /\ WaitsIn(tab, ctx, frame)'
         /\ Marked => Regular
<1> DEFINE k == task_set_state(tab, v, "READY")
<1>1. v \in Workers /\ Safe(tab)
  BY SchedAssumption DEF LInv, IInv, Wake
<1>2. Safe(k) /\ k.current = tab.current /\ Harmless(tab, k) /\ Lawful(tab, k)
  BY <1>1, SetStateSafe, SetStateFates
<1>3. Safe(tab) /\ Harmless(tab, tab) /\ Lawful(tab, tab)
  BY <1>1, SameFates
<1>4. CASE UNCHANGED <<tab, ctx, frame, leaving>>
  BY <1>3, <1>4, PeaceRegular DEF LInv, WaitsIn, Marked, Marks, Peaceful, CurrentAnywhere
<1>5. CASE Stay(k)
  <2> HIDE DEF k
  <2> QED
    BY <1>2, <1>5, StayLife, PeaceRegular
<1> QED
  BY <1>4, <1>5 DEF Wake

\* The BSP's reaper.
LEMMA ReapZombiesLife ==
  ASSUME LInv, NEW late, ReapZombies(late)
  PROVE  /\ Heard(tab') /\ WaitsIn(tab, ctx, frame)'
         /\ Marked => Regular
<1> DEFINE zs == {t \in Task \ {0} :
                    /\ tab.state[t] = "ZOMBIE"
                    /\ t \in late \/ tab.parent[t] <= 0 \/ Dead(tab, tab.parent[t])}
           k == [tab EXCEPT
                   !.state = [t \in Task |-> IF t \in zs THEN "FREE" ELSE @[t]],
                   !.num_tasks = @ - Cardinality(zs)]
<1>1. Safe(tab) /\ tab \in Table
  BY DEF LInv, IInv, Safe
<1>2. zs \in SUBSET (Task \ {0}) /\ zs \subseteq Task /\ \A z \in zs : tab.state[z] = "ZOMBIE"
  OBVIOUS
<1>3. Cardinality(zs) \in Nat
  BY <1>2, TaskSets
<1>4. Stay(k)
  BY DEF ReapZombies
<1> HIDE DEF zs
<1>5. /\ [t \in Task |-> IF t \in zs THEN "FREE" ELSE tab.state[t]] \in [Task -> State]
      /\ tab.num_tasks - Cardinality(zs) \in Int
  <2>1. tab.num_tasks \in Int /\ \A t \in Task : tab.state[t] \in State
    BY <1>1 DEF Table
  <2>2. [t \in Task |-> IF t \in zs THEN "FREE" ELSE tab.state[t]] \in [Task -> State]
    BY <2>1 DEF State
  <2>3. tab.num_tasks - Cardinality(zs) \in Int
    BY <2>1, <1>3
  <2> QED
    BY <2>2, <2>3
<1>6. /\ k \in Table /\ k.rq_cpu = tab.rq_cpu /\ k.current = tab.current
      /\ k.waiting = tab.waiting /\ k.parent = tab.parent
      /\ k.num_tasks = tab.num_tasks - Cardinality(zs)
      /\ k.state = [t \in Task |-> IF t \in zs THEN "FREE" ELSE tab.state[t]]
  BY <1>1, <1>5 DEF Table
<1> HIDE DEF k
<1>7. \A u \in Task : Moved(tab, k, u)
  BY <1>1, <1>2, <1>6, CoreTasks DEF Moved, Safe, DeadOut, Dead
<1>8. Safe(k)
  BY <1>1, <1>6, <1>7, MovedSafe DEF Safe, WaitersWork
<1>9. \A t \in Task : k.state[t] = IF t \in zs THEN "FREE" ELSE tab.state[t]
  BY <1>6
<1>10. Harmless(tab, k) /\ Lawful(tab, k)
  BY <1>1, <1>2, <1>6, <1>9, ReapedFates
<1> QED
  BY <1>4, <1>6, <1>8, <1>10, StayLife, PeaceRegular

\* Every step keeps the invariant of exits, and is regular.
LEMMA NextLife ==
  ASSUME LInv, [Next]_vars
  PROVE  LInv' /\ (Tame /\ Marked => Regular)
<1>0. IInv'
  BY NextSafe DEF LInv, StepSafe
<1> DEFINE Goal == /\ Heard(tab') /\ WaitsIn(tab, ctx, frame)'
                   /\ Tame /\ Marked => Regular
<1>1. ASSUME UNCHANGED <<tab, ctx, frame>> PROVE Goal
  BY <1>1, SameFates, PeaceRegular
     DEF LInv, WaitsIn, Marked, Marks, Peaceful, CurrentAnywhere
<1>2. ASSUME NEW c \in CPU, Tick(c) PROVE Goal
  BY <1>2, TickLife, PeaceRegular
<1>3. ASSUME NEW c \in CPU, SwitchStack(c) PROVE Goal
  BY <1>1, <1>3 DEF SwitchStack
<1>4. ASSUME NEW c \in CPU, Program(c) PROVE Goal
  BY <1>4, ProgramLife
<1>5. ASSUME NEW t \in Task, Wake(t) PROVE Goal
  BY <1>5, WakeLife
<1>6. ASSUME Drain PROVE Goal
  BY <1>1, <1>6 DEF Drain
<1>7. ASSUME NEW late, ReapZombies(late) PROVE Goal
  BY <1>7, ReapZombiesLife
<1>8. ASSUME UNCHANGED vars PROVE Goal
  BY <1>1, <1>8 DEF vars
<1> HIDE DEF Goal
<1>9. Goal
  BY <1>2, <1>3, <1>4, <1>5, <1>6, <1>7, <1>8 DEF Next
<1> QED
  BY <1>0, <1>9 DEF LInv, Goal

\* At boot nobody waits, nobody is dead and everybody's parent is the kernel.
LEMMA InitLife == Init => LInv /\ Marked /\ Counted(tab) /\ Parents(tab)
<1> SUFFICES ASSUME Init PROVE LInv /\ Marked /\ Counted(tab) /\ Parents(tab)
  OBVIOUS
<1>1. \A t \in Task :
        /\ tab.state[t] = (IF t = 0 THEN "RUNNING"
                           ELSE IF IsIdle(t) \/ t = NCPU THEN "READY" ELSE "FREE")
        /\ tab.waiting[t] = 0 /\ tab.parent[t] = 0
        /\ frame[t] = (IF t = 0 \/ t > NCPU THEN Gone
                       ELSE IF IsIdle(t) THEN At("idle", 0, 0) ELSE Fresh)
  BY DEF Init
<1>2. \A c \in CPU : /\ tab.current[c] = IF c = 0 THEN 0 ELSE None
                    /\ ctx[c] = At(IF c = 0 THEN "main" ELSE "boot", 0, 0)
  BY DEF Init
<1>3. tab.num_tasks = NCPU + 1
  BY DEF Init
<1>4. IInv
  BY InitSafe
<1>5. Heard(tab) /\ WaitsIn(tab, ctx, frame)
  <2>1. Heard(tab)
    BY <1>1, SchedAssumption DEF Heard
  <2>2. WaitsIn(tab, ctx, frame)
    BY <1>1, <1>2, SchedAssumption DEF WaitsIn
  <2> QED
    BY <2>1, <2>2
<1>6. Marked
  <2>1. \A pc : ~At(pc, 0, 0).dead /\ At(pc, 0, 0).pc = pc
    BY DEF At
  <2>2. ~Fresh.dead /\ Fresh.pc = "run"
    BY DEF At, Fresh
  <2>3. ~Dead(tab, 0)
    BY <1>1, SchedAssumption DEF Dead
  <2>4. \A c \in CPU : tab.current[c] # None =>
          (ctx[c].dead <=> Dead(tab, tab.current[c]))
          /\ (~Dead(tab, tab.current[c]) => ctx[c].pc # "none")
    BY <1>2, <2>1, <2>3
  <2>5. ASSUME NEW t \in Task, ~Dead(tab, t), ~CurrentAnywhere(tab, t)
        PROVE  frame[t].pc # "none" /\ ~frame[t].dead
    <3>1. t # 0
      BY <1>2, <2>5, SchedAssumption DEF CurrentAnywhere
    <3>2. t <= NCPU
      BY <1>1, <2>5, <3>1, SchedAssumption DEF Dead
    <3>3. frame[t] = At("idle", 0, 0) \/ frame[t] = Fresh
      BY <1>1, <3>1, <3>2, SchedAssumption
    <3> QED
      BY <2>1, <2>2, <3>3
  <2> QED
    BY <2>4, <2>5 DEF Marked, Marks
<1>7. Counted(tab)
  <2>1. InUse(tab) = 0 .. NCPU
    BY <1>1, SchedAssumption DEF InUse
  <2>2. Cardinality(0 .. NCPU) = NCPU + 1
    BY FS_Interval, SchedAssumption
  <2> QED
    BY <1>3, <2>1, <2>2 DEF Counted
<1>8. Parents(tab)
  BY <1>1, SchedAssumption DEF Parents
<1> QED
  BY <1>4, <1>5, <1>6, <1>7, <1>8 DEF LInv

\* No exit is lost: whatever windows are open, a task that has parked in waitpid
\* has no zombie it could reap, because the park looks again under task_lock and
\* terminate_task wakes the parent in the section that makes the zombie.
THEOREM ExitsAreHeard == Spec => []NoLostExit
<1>1. Init => LInv
  BY InitLife
<1>2. LInv /\ [Next]_vars => LInv'
  BY NextLife
<1>3. LInv => NoLostExit
  BY SchedAssumption DEF LInv, Heard, NoLostExit, Zombies, Children
<1> QED
  BY <1>1, <1>2, <1>3, PTL DEF Spec

\* The invariant while no dead slot can be brought back.
MInv == LInv /\ Marked /\ Counted(tab)

\* Marks and count hold in every state, as long as no dead slot can come back.
LEMMA Marking == Tame => (Spec => []MInv)
<1> SUFFICES ASSUME Tame PROVE Spec => []MInv
  OBVIOUS
<1>1. Init => MInv
  BY InitLife DEF MInv
<1>2. MInv /\ [Next]_vars => MInv'
  <2> SUFFICES ASSUME MInv, [Next]_vars PROVE MInv'
    OBVIOUS
  <2>1. LInv' /\ Regular
    BY NextLife DEF MInv
  <2>2. Marked' /\ Counted(tab')
    BY <2>1 DEF Regular, MInv
  <2>3. Counted(tab)'
    BY <2>2 DEF Counted, InUse
  <2> QED
    BY <2>1, <2>2, <2>3 DEF MInv
<1> QED
  BY <1>1, <1>2, PTL DEF Spec

\* num_tasks, which schedule() goes by, is the number of slots in use: every
\* exit, reap and creation adjusts it once.
THEOREM TasksCounted == Tame => (Spec => []NumTasks)
<1> SUFFICES ASSUME Tame PROVE Spec => []NumTasks
  OBVIOUS
<1>1. MInv => NumTasks
  BY DEF MInv, Counted, InUse, NumTasks
<1> QED
  BY <1>1, Marking, PTL

\* No core and no live slot holds the context of a terminated program: the
\* parked-frame corruption of v38.160 needs one of the windows Tame closes.
THEOREM NoParkedFrame == Tame => (Spec => []NoDeadContext)
<1> SUFFICES ASSUME Tame PROVE Spec => []NoDeadContext
  OBVIOUS
<1>1. Gone.pc = "none"
  BY DEF Gone, At
<1>2. MInv => NoDeadContext
  BY <1>1 DEF MInv, Marked, Marks, NoDeadContext
<1> QED
  BY <1>2, Marking, PTL

\* A slot that is dead stays so until thread_create_ex makes a fresh task of it.
THEOREM DeadAreNotRevived == Tame => (Spec => DeadStayDead)
<1> SUFFICES ASSUME Tame PROVE Spec => DeadStayDead
  OBVIOUS
<1>1. MInv /\ [Next]_vars
        => [\A t \in Task : Dead(tab, t) /\ ~Dead(tab', t)
              => frame'[t] = Fresh /\ tab'.num_tasks = tab.num_tasks + 1]_vars
  <2> SUFFICES ASSUME MInv, [Next]_vars, NEW t \in Task, Dead(tab, t), ~Dead(tab', t)
               PROVE  frame'[t] = Fresh /\ tab'.num_tasks = tab.num_tasks + 1
    OBVIOUS
  <2>1. Stays(tab, tab') \/ Created
    BY NextLife DEF MInv, Regular
  <2>2. ~Stays(tab, tab')
    BY DEF Stays
  <2> QED
    BY <2>1, <2>2 DEF Created
<1> QED
  BY <1>1, Marking, PTL DEF Spec, DeadStayDead

\* The parent of every task can still wait for it, or is the kernel: exits hand
\* the children over in the section that ends the parent.
THEOREM NoOrphan == Tame /\ Closed => (Spec => []ParentLive)
<1> SUFFICES ASSUME Tame, Closed PROVE Spec => []ParentLive
  OBVIOUS
<1> DEFINE PInv == MInv /\ Parents(tab)
<1>1. Init => PInv
  BY InitLife DEF MInv
<1>2. PInv /\ [Next]_vars => PInv'
  <2> SUFFICES ASSUME PInv, [Next]_vars PROVE PInv'
    OBVIOUS
  <2>1. LInv' /\ Regular
    BY NextLife DEF MInv
  <2>2. Marked' /\ Counted(tab') /\ Parents(tab')
    BY <2>1 DEF Regular, MInv
  <2>3. Counted(tab)' /\ Parents(tab)'
    BY <2>2 DEF Counted, InUse, Parents, Dead
  <2> QED
    BY <2>1, <2>2, <2>3 DEF MInv
<1>3. PInv => ParentLive
  BY DEF Parents, ParentLive
<1> HIDE DEF PInv
<1> QED
  BY <1>1, <1>2, <1>3, PTL DEF Spec

=============================================================================
