------------------------------- MODULE Futex -------------------------------
(***************************************************************************)
(* The futexes of src/sys/sync.c, the mutex and the condition variable     *)
(* built on them in apps/lib/sync.h, and the bounded buffer of             *)
(* apps/conddemo.c that uses both.  Nobody dies here: Sem has the dead     *)
(* waiters, which a futex drops in the same way.                           *)
(*                                                                         *)
(* A section under sync_lock is one step, so is every access of a program  *)
(* to a shared word; what a program does between lock and unlock to data   *)
(* only the holder touches is merged into one step.                        *)
(***************************************************************************)
EXTENDS Integers, Sequences, FiniteSets, Queues

CONSTANTS Producers, Consumers,  \* threads of the demo
          Items,        \* items each producer makes
          BUFFER_SIZE,  \* slots of the buffer
          MAX_FUTEX,    \* entries of the futex table
          MAX_WAITERS,  \* threads one entry can list
          Timeout,      \* the 50 ms of a timed park, in ticks of the model
          Last,         \* how the last item is announced: "wake", "requeue"
          Ahead         \* by how much a requeue's `expected` is behind seq

Thread == Producers \cup Consumers

ASSUME FutexAssumption ==
  /\ Producers \cap Consumers = {} /\ Consumers # {} /\ IsFiniteSet(Thread)
  /\ Items \in Nat \ {0} /\ BUFFER_SIZE \in Nat \ {0}
  /\ MAX_FUTEX \in Nat /\ MAX_WAITERS \in Nat \ {0} /\ Timeout \in Nat \ {0}
  /\ Last \subseteq {"wake", "requeue"} /\ Ahead \subseteq {0, 1}

VARIABLES
  mem,     \* the words threads share: the lock and the two sequence counters
  futexes, \* futexes[], by the word an entry is for
  state,   \* tasks[t].state: READY (or RUNNING) or BLOCKED
  pc,      \* where the program of t is
  word,    \* word[t], expected[t]: arguments of the futex call t is in
  expected,
  made,    \* items producer t has made
  count, consumed  \* of the demo's buffer

vars == <<mem, futexes, state, pc, word, expected, made, count, consumed>>

Word == {"mu", "not_full", "not_empty"}
TOTAL_ITEMS == Items * Cardinality(Producers)

\* lock, spin: mct_mutex_lock; fwait, flock, parked: futex_wait_timeout;
\* check: the loop of a producer or consumer, lock held; signal, broadcast,
\* requeue: the wake of a condition variable; cunlock, unlock, leave: lock = 0 in
\* mct_cond_wait, at the end of a round, and where a consumer returns; cwake,
\* uwake, lwake: the wake that follows it.
PC == {"lock", "spin", "fwait", "flock", "parked", "check", "signal", "broadcast",
       "requeue", "cunlock", "cwake", "unlock", "uwake", "leave", "lwake", "done"}

Entry(t) == [tid |-> t, left |-> Timeout]
Listed(q) == {q[i].tid : i \in DOMAIN q}

-----------------------------------------------------------------------------
(* futex_wake, futex_requeue, futex_sweep *)

\* The first n entries of q are taken off (every thread is alive here).
Firsts(q, n) == SubSeq(q, 1, IF n < Len(q) THEN n ELSE Len(q))
\* Broken: the queue is emptied whoever was woken.
Behind_Dropped(q, n) == <<>>

\* The entries behind those.
Behind(q, n) == SubSeq(q, n + 1, Len(q))

Ready(ts) == state' = [t \in Thread |-> IF t \in ts THEN "READY" ELSE state[t]]

\* An entry of the table that lists nobody is given back.
Holding(q) == [in_use |-> q # <<>>, waiters |-> q]

futex_wake(w, n) ==
  LET q == futexes[w].waiters
  IN  /\ Ready(Listed(Firsts(q, n)))
      /\ futexes' = [futexes EXCEPT ![w] = Holding(Behind(q, n))]

Slots(f) == Cardinality({w \in Word : f[w].in_use})

\* futex_alloc finds or claims an entry for w.
Allocable(w) == futexes[w].in_use \/ Slots(futexes) < MAX_FUTEX

\* futex_requeue(w, exp, mu, 1): wake one, move the rest to the mutex, deadlines
\* included
futex_requeue(w, exp) ==
  LET q    == futexes[w].waiters
      m    == futexes["mu"].waiters
      rest == Behind(q, 1)
      room == MAX_WAITERS - Len(m)
  IN  IF mem[w] # exp \/ ~futexes[w].in_use \/ ~Allocable("mu")
      THEN UNCHANGED <<futexes, state>>
      ELSE /\ Ready(Listed(Firsts(q, 1)))
           /\ futexes' = [futexes EXCEPT
                ![w] = Holding(Behind(rest, room)),
                !["mu"] = [in_use |-> TRUE, waiters |-> m \o Firsts(rest, room)]]

Older(e) == [e EXCEPT !.left = IF @ > 0 THEN @ - 1 ELSE @]

\* Time passes, for every timed waiter; it also does when nobody waits.
Tick ==
  /\ futexes' = [w \in Word |-> [futexes[w] EXCEPT !.waiters =
                   [i \in DOMAIN @ |-> Older(@[i])]]]
  /\ UNCHANGED <<mem, state, pc, word, expected, made, count, consumed>>

\* Positions of w's queue whose time-out is still to come, and threads whose passed
Late(w) == {i \in DOMAIN futexes[w].waiters : futexes[w].waiters[i].left # 0}
Due(w)  == {futexes[w].waiters[i].tid : i \in DOMAIN futexes[w].waiters \ Late(w)}

\* Broken: the entry goes, its thread stays parked.
Swept_Asleep(ws) == {}

\* The threads futex_sweep makes READY.
Swept(ws) == UNION {Due(w) : w \in ws}

futex_sweep ==
  /\ \E w \in Word : Due(w) # {}
  /\ Ready(Swept(Word))
  /\ futexes' = [w \in Word |->
       Holding(Compacted(futexes[w].waiters, Late(w)))]
  /\ UNCHANGED <<mem, pc, word, expected, made, count, consumed>>

-----------------------------------------------------------------------------
(* futex_wait_timeout, in its steps *)

Running(t, p) == state[t] = "READY" /\ pc[t] = p
Goto(t, p) == pc' = [pc EXCEPT ![t] = p]

\* Broken: a waiter of the mutex takes its wake for the lock.
Return_HandedOff(t) == Goto(t, IF word[t] = "mu" THEN "check" ELSE "lock")

\* Back in mct_mutex_lock, or in mct_cond_wait, which takes the mutex next.
Return(t) == Goto(t, IF word[t] = "mu" THEN "spin" ELSE "lock")

\* The look before the lock.
FutexCheck(t) ==
  /\ Running(t, "fwait")
  /\ IF mem[word[t]] = expected[t] THEN Goto(t, "flock") ELSE Return(t)
  /\ UNCHANGED <<mem, futexes, state, word, expected, made, count, consumed>>

\* Broken: no second look at the word under sync_lock.
Unchanged_Trusted(t) == TRUE

\* The word has not changed since the caller read it.
Unchanged(t) == mem[word[t]] = expected[t]

\* Broken: a full queue is appended to.
Room_Unchecked(w) == Allocable(w)

\* There is an entry for w, with a place in its queue.
Room(w) == Allocable(w) /\ Len(futexes[w].waiters) < MAX_WAITERS

\* Under sync_lock: list the caller and block it, or return -1 or -2.
FutexPark(t) ==
  /\ Running(t, "flock")
  /\ IF Unchanged(t) /\ Room(word[t])
     THEN /\ futexes' = [futexes EXCEPT ![word[t]] =
                           [in_use |-> TRUE, waiters |-> Append(@.waiters, Entry(t))]]
          /\ state' = [state EXCEPT ![t] = "BLOCKED"]
          /\ Goto(t, "parked")
     ELSE Return(t) /\ UNCHANGED <<futexes, state>>
  /\ UNCHANGED <<mem, word, expected, made, count, consumed>>

FutexReturn(t) ==
  /\ Running(t, "parked")
  /\ Return(t)
  /\ UNCHANGED <<mem, futexes, state, word, expected, made, count, consumed>>

\* A handled signal ends a park; its entry stays listed.
Signal(t) ==
  /\ state[t] = "BLOCKED"
  /\ Ready({t})
  /\ UNCHANGED <<mem, futexes, pc, word, expected, made, count, consumed>>

-----------------------------------------------------------------------------
(* mct_mutex_lock, mct_mutex_unlock *)

\* lock cmpxchgl
Lock(t) ==
  /\ Running(t, "lock")
  /\ mem' = [mem EXCEPT !["mu"] = 1]
  /\ Goto(t, IF mem["mu"] = 0 THEN "check" ELSE "spin")
  /\ UNCHANGED <<futexes, state, word, expected, made, count, consumed>>

\* while (m->lock == 1) futex_wait_timeout(&m->lock, 1, 50)
Spin(t) ==
  /\ Running(t, "spin")
  /\ IF mem["mu"] = 1
     THEN /\ Goto(t, "fwait")
          /\ word' = [word EXCEPT ![t] = "mu"]
          /\ expected' = [expected EXCEPT ![t] = 1]
     ELSE Goto(t, "lock") /\ UNCHANGED <<word, expected>>
  /\ UNCHANGED <<mem, futexes, state, made, count, consumed>>

\* The store, in mct_cond_wait and at the end of a critical section.
Unlock(t) ==
  /\ \/ Running(t, "cunlock") /\ Goto(t, "cwake")
     \/ Running(t, "unlock") /\ Goto(t, "uwake")
     \/ Running(t, "leave") /\ Goto(t, "lwake")
  /\ mem' = [mem EXCEPT !["mu"] = 0]
  /\ UNCHANGED <<futexes, state, word, expected, made, count, consumed>>

\* A producer that has made its items leaves its loop here.
Finished(t) == t \in Producers /\ made[t] = Items

UnlockWake(t) ==
  /\ \/ Running(t, "cwake") /\ Goto(t, "fwait")
     \/ Running(t, "uwake") /\ Goto(t, IF Finished(t) THEN "done" ELSE "lock")
     \/ Running(t, "lwake") /\ Goto(t, "done")
  /\ futex_wake("mu", 1)
  /\ UNCHANGED <<mem, word, expected, made, count, consumed>>

-----------------------------------------------------------------------------
(* The loops of conddemo.c, with mct_cond_wait, _signal and _broadcast *)

\* mct_cond_wait(w): the snapshot of the counter, then the mutex is released.
CondWait(t, w) ==
  /\ word' = [word EXCEPT ![t] = w]
  /\ expected' = [expected EXCEPT ![t] = mem[w]]
  /\ Goto(t, "cunlock")
  /\ UNCHANGED <<mem, made, count, consumed>>

\* The counter is bumped; the wake follows in a step of its own.
CondBump(t, w, p) ==
  /\ mem' = [mem EXCEPT ![w] = @ + 1]
  /\ word' = [word EXCEPT ![t] = w]
  /\ Goto(t, p)

Produce(t) ==
  /\ t \in Producers /\ Running(t, "check")
  /\ IF count = BUFFER_SIZE THEN CondWait(t, "not_full")
     ELSE /\ count' = count + 1 /\ made' = [made EXCEPT ![t] = @ + 1]
          /\ CondBump(t, "not_empty", "signal")
          /\ UNCHANGED <<expected, consumed>>
  /\ UNCHANGED <<futexes, state>>

Consume(t) ==
  /\ t \in Consumers /\ Running(t, "check")
  /\ \/ count = 0 /\ consumed < TOTAL_ITEMS /\ CondWait(t, "not_empty")
     \/ /\ count = 0 /\ consumed = TOTAL_ITEMS
        /\ Goto(t, "leave")
        /\ UNCHANGED <<mem, word, expected, made, count, consumed>>
     \/ /\ count > 0
        /\ count' = count - 1 /\ consumed' = consumed + 1
        /\ CondBump(t, "not_full", "signal")
        /\ UNCHANGED <<expected, made>>
  /\ UNCHANGED <<futexes, state>>

CondSignal(t) ==
  /\ Running(t, "signal")
  /\ futex_wake(word[t], 1)
  /\ IF t \in Consumers /\ consumed = TOTAL_ITEMS
     THEN \E how \in Last :
            CondBump(t, "not_empty", IF how = "wake" THEN "broadcast" ELSE "requeue")
     ELSE Goto(t, "unlock") /\ UNCHANGED <<mem, word>>
  /\ UNCHANGED <<expected, made, count, consumed>>

CondBroadcast(t) ==
  /\ Running(t, "broadcast")
  /\ futex_wake(word[t], Cardinality(Thread))
  /\ Goto(t, "unlock")
  /\ UNCHANGED <<mem, word, expected, made, count, consumed>>

\* mct_cond_broadcast_requeue, which also does the unlock of this round
CondRequeue(t) ==
  /\ Running(t, "requeue")
  /\ \E a \in Ahead : futex_requeue(word[t], mem[word[t]] - a)
  /\ Goto(t, "unlock")
  /\ UNCHANGED <<mem, word, expected, made, count, consumed>>

-----------------------------------------------------------------------------
Init ==
  /\ mem = [w \in Word |-> 0]
  /\ futexes = [w \in Word |-> Holding(<<>>)]
  /\ state = [t \in Thread |-> "READY"]
  /\ pc = [t \in Thread |-> "lock"]
  /\ word = [t \in Thread |-> "mu"]
  /\ expected = [t \in Thread |-> 1]
  /\ made = [t \in Producers |-> 0]
  /\ count = 0 /\ consumed = 0

Program(t) ==
  \/ Lock(t) \/ Spin(t) \/ Unlock(t) \/ UnlockWake(t)
  \/ FutexCheck(t) \/ FutexPark(t) \/ FutexReturn(t)
  \/ Produce(t) \/ Consume(t)
  \/ CondSignal(t) \/ CondBroadcast(t) \/ CondRequeue(t)

\* Programs without signal handlers
QuietNext == (\E t \in Thread : Program(t)) \/ Tick \/ futex_sweep

Next == QuietNext \/ \E t \in Thread : Signal(t)

Spec == Init /\ [][Next]_vars

\* The timer ticks and sweeps, and the scheduler lets every runnable thread go on.
Fairness == /\ WF_vars(Tick) /\ WF_vars(futex_sweep)
            /\ \A t \in Thread : WF_vars(Program(t))
FairSpec == Init /\ [][QuietNext]_vars /\ Fairness

-----------------------------------------------------------------------------
(* Properties. *)

\* Every variable keeps its type, and no queue outgrows waiters[MAX_WAITERS].
TypeOK ==
  /\ mem \in [Word -> Nat] /\ mem["mu"] \in {0, 1}
  /\ futexes \in [Word -> [in_use : BOOLEAN, waiters : Seq([tid : Thread, left : Nat])]]
  /\ \A w \in Word : /\ Len(futexes[w].waiters) <= MAX_WAITERS
                     /\ futexes[w].waiters # <<>> => futexes[w].in_use
  /\ Slots(futexes) <= MAX_FUTEX
  /\ state \in [Thread -> {"READY", "BLOCKED"}] /\ pc \in [Thread -> PC]
  /\ word \in [Thread -> Word] /\ expected \in [Thread -> Nat]
  /\ made \in [Producers -> 0 .. Items]
  /\ count \in Nat /\ consumed \in Nat

Inside(t) == pc[t] \in {"check", "signal", "broadcast", "requeue", "cunlock", "unlock",
                      "leave"}

\* The mutex excludes: at most one thread is between lock and unlock, whatever
\* wakes, time-outs, signals and requeues reach the threads that wait for it.
OneInside == \A t, u \in Thread : Inside(t) /\ Inside(u) => t = u

\* A parked thread is listed with a deadline, so the sweep will reach it.
ParkedListed == \A t \in Thread :
  state[t] = "BLOCKED" => \E w \in Word : \E i \in DOMAIN futexes[w].waiters :
    futexes[w].waiters[i].tid = t /\ futexes[w].waiters[i].left >= 0

\* No lost wake-up: while there is an item, not all consumers that are left wait
\* for one, or the producer of the item is still about to wake one.
NoLostSignal ==
  count > 0 => \/ \E t \in Producers : pc[t] = "signal"
               \/ \E t \in Consumers : /\ pc[t] # "done"
                                 /\ ~(state[t] = "BLOCKED" /\ word[t] = "not_empty")

\* A free mutex somebody wants is taken: no wake is lost for good.
Wants(t) == pc[t] \in {"lock", "spin"} \/ (pc[t] \in {"fwait", "flock", "parked"} /\ word[t] = "mu")
FreeLockTaken == (mem["mu"] = 0 /\ \E t \in Thread : Wants(t)) ~> mem["mu"] = 1

\* Every park ends, whether or not a wake reaches the thread.
ParkEnds == \A t \in Thread : state[t] = "BLOCKED" ~> state[t] = "READY"

\* "Bump the seq word FIRST, then requeue with the pre-bump value as expected":
\* such a broadcast leaves nobody parked on the condition variable.
BroadcastReaches == [][\A t \in Thread :
  CondRequeue(t) => futexes'[word[t]].waiters = <<>>]_vars
=============================================================================
