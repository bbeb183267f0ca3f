-------------------------------- MODULE Sem --------------------------------
(***************************************************************************)
(* The counting semaphores of src/sys/sync.c and the deferred clean-up of  *)
(* dead waiters.                                                           *)
(*                                                                         *)
(* A section under sync_lock is one step.  Of a task's state this module    *)
(* keeps what sync.c tells apart: dead (ZOMBIE or FREE), BLOCKED, or       *)
(* runnable; Sched models the rest.  A killed thread stops at once (what   *)
(* its last instructions may still do is the subject of Sched's windows).  *)
(* `owed` is a history variable the kernel does not have.                  *)
(***************************************************************************)
EXTENDS Integers, Sequences, FiniteSets, Queues

CONSTANTS Tid,         \* task slots of Ring 3 threads
          Sem,         \* semaphore ids
          SEM_MAX_WAITERS, \* MAX_WAITERS: threads one semaphore can list
          Initial,     \* values programs pass to sem_create
          MaxTokens,   \* bound: programs post no further than this count
          None,        \* no semaphore
          Calls        \* what happens: "signal", "kill", "reuse", "destroy"

ASSUME SemAssumption ==
  /\ SEM_MAX_WAITERS \in Nat \ {0}
  /\ Initial \subseteq Nat /\ MaxTokens \in Nat
  /\ None \notin Sem /\ IsFiniteSet(Tid)
  /\ Calls \subseteq {"signal", "kill", "reuse", "destroy"}

VARIABLES
  tstate,   \* tasks[t].state: READY (or RUNNING), BLOCKED, or DEAD
  sems,    \* sems[]
  on,      \* on[t]: the semaphore whose sem_wait parked t, or None
  pending, \* cleanup_pending: threads that died since the last drain
  drain,   \* the drain of the main loop: bits read, bits cleared, left to purge
  owed     \* history: per semaphore, tokens created and posted less those sem_wait
           \* returned; None once a wait ended without a post or a listed slot was
           \* reused

semVars == <<tstate, sems, on, pending, drain, owed>>

Alive(t) == tstate[t] # "DEAD"

Queued(q)  == {q[i] : i \in DOMAIN q}
Waiters(s) == Queued(sems[s].waiters)

\* Threads a post has taken off the queue of s and that have not returned yet.
Woken(s) == {t \in Tid : on[t] = s /\ tstate[t] = "READY" /\ t \notin Waiters(s)}

-----------------------------------------------------------------------------
(* wake_one: the first live waiter of q is woken, the dead before it dropped. *)

LiveAt(q) == {i \in DOMAIN q : Alive(q[i])}
FirstLive(q) == CHOOSE i \in LiveAt(q) : \A j \in LiveAt(q) : i <= j

\* Broken: a dead head is dropped and the search ends with it.
wake_one_GivesUp(q) ==
  IF q = <<>> \/ ~Alive(q[1]) THEN {} ELSE {1}

\* Broken, as before v38.55: the wake is spent on the head, dead or alive.
wake_one_Corpse(q) == IF q = <<>> THEN {} ELSE {1}

\* The position of the waiter that is woken, if there is one.
wake_one(q) == IF LiveAt(q) = {} THEN {} ELSE {FirstLive(q)}

\* What stays queued: all behind the woken one, nothing if all were dead.
After(q, woken) == IF woken = {} THEN <<>>
                   ELSE SubSeq(q, (CHOOSE i \in woken : TRUE) + 1, Len(q))

\* task_set_state(t, READY), which refuses the dead
Readied(ts) == [t \in Tid |-> IF t \in ts /\ Alive(t) THEN "READY" ELSE tstate[t]]

-----------------------------------------------------------------------------
\* The history: new[s] tokens are owed by each s in the domain of new.
Owe(new) == owed' = IF owed = None THEN None
                    ELSE [s \in Sem |-> IF s \in DOMAIN new THEN new[s] ELSE owed[s]]
Spoil == owed' = None

Runs(t) == tstate[t] = "READY" /\ on[t] = None

sem_create(t, s) ==
  /\ Runs(t) /\ ~sems[s].in_use
  /\ \E n \in Initial :
       /\ sems' = [sems EXCEPT ![s] = [in_use |-> TRUE, count |-> n, waiters |-> <<>>]]
       /\ Owe([u \in {s} |-> n])
  /\ UNCHANGED <<tstate, on, pending, drain>>

\* sem_wait with a token to take
sem_wait_Take(t, s) ==
  /\ Runs(t) /\ sems[s].in_use /\ sems[s].count > 0
  /\ sems' = [sems EXCEPT ![s].count = @ - 1]
  /\ Owe([u \in {s} |-> owed[u] - 1])
  /\ UNCHANGED <<tstate, on, pending, drain>>

\* Broken: the queue is not looked at before it grows.
sem_wait_Park_Unbounded(t, s) ==
  /\ Runs(t) /\ sems[s].in_use /\ sems[s].count = 0
  /\ sems' = [sems EXCEPT ![s].waiters = Append(@, t)]
  /\ tstate' = [tstate EXCEPT ![t] = "BLOCKED"]
  /\ on' = [on EXCEPT ![t] = s]
  /\ UNCHANGED <<pending, drain, owed>>

\* sem_wait without one; with a full queue it returns -2 and changes nothing
sem_wait_Park(t, s) ==
  /\ Runs(t) /\ sems[s].in_use /\ sems[s].count = 0
  /\ Len(sems[s].waiters) < SEM_MAX_WAITERS
  /\ sems' = [sems EXCEPT ![s].waiters = Append(@, t)]
  /\ tstate' = [tstate EXCEPT ![t] = "BLOCKED"]
  /\ on' = [on EXCEPT ![t] = s]
  /\ UNCHANGED <<pending, drain, owed>>

\* The loop of sem_wait sees another state than BLOCKED, and returns 0.
sem_wait_Return(t) ==
  /\ on[t] # None /\ tstate[t] = "READY"
  /\ on' = [on EXCEPT ![t] = None]
  /\ Owe([u \in {on[t]} |-> owed[u] - 1])
  /\ UNCHANGED <<tstate, sems, pending, drain>>

sem_post(t, s) ==
  /\ Runs(t) /\ sems[s].in_use /\ sems[s].count < MaxTokens
  /\ LET q == sems[s].waiters
         w == wake_one(q)
     IN  /\ sems' = [sems EXCEPT ![s].waiters = After(q, w),
                                 ![s].count = IF w = {} THEN @ + 1 ELSE @]
         /\ tstate' = Readied({q[i] : i \in w})
  /\ Owe([u \in {s} |-> owed[u] + 1])
  /\ UNCHANGED <<on, pending, drain>>

sem_destroy(t, s) ==
  /\ "destroy" \in Calls /\ Runs(t) /\ sems[s].in_use
  /\ sems' = [sems EXCEPT ![s].in_use = FALSE, ![s].waiters = <<>>]
  /\ tstate' = Readied(Waiters(s))
  /\ IF \E u \in Tid : on[u] = s THEN Spoil ELSE UNCHANGED owed
  /\ UNCHANGED <<on, pending, drain>>

\* A handled signal, or a stop and a continue, ends the park of t.
SemSignal(t) ==
  /\ "signal" \in Calls /\ tstate[t] = "BLOCKED"
  /\ tstate' = [tstate EXCEPT ![t] = "READY"]
  /\ Spoil
  /\ UNCHANGED <<sems, on, pending, drain>>

\* terminate_task, task_cleanup, sync_task_cleanup_defer
Kill(t) ==
  /\ "kill" \in Calls /\ Alive(t)
  /\ tstate' = [tstate EXCEPT ![t] = "DEAD"]
  /\ on' = [on EXCEPT ![t] = None]
  /\ pending' = pending \cup {t}
  /\ Owe([s \in {s \in Sem : t \in Woken(s)} |-> owed[s] - 1])
  /\ UNCHANGED <<sems, drain>>

\* thread_create_ex gives the slot to a new thread.
Reuse(t) ==
  /\ "reuse" \in Calls /\ ~Alive(t)
  /\ tstate' = [tstate EXCEPT ![t] = "READY"]
  /\ IF \E s \in Sem : t \in Waiters(s) THEN Spoil ELSE UNCHANGED owed
  /\ UNCHANGED <<sems, on, pending, drain>>

-----------------------------------------------------------------------------
(* sync_drain_pending: read the bits, clear them, purge one by one.  A thread
   that dies on another core between the first two steps leaves no bit. *)

DrainRead ==
  /\ drain = [at |-> "idle", tids |-> {}] /\ pending # {}
  /\ drain' = [at |-> "read", tids |-> pending]
  /\ UNCHANGED <<tstate, sems, on, pending, owed>>

DrainClear ==
  /\ drain.at = "read"
  /\ pending' = {}
  /\ drain' = [drain EXCEPT !.at = "purge"]
  /\ UNCHANGED <<tstate, sems, on, owed>>

\* Broken, as before v38.89: a live thread loses its entries as well.
Purge_Unchecked(q, t) == Compacted(q, Others(q, t))

\* sync_task_cleanup: the entries of a thread that is still dead go.
Purge(q, t) == IF Alive(t) THEN q ELSE Compacted(q, Others(q, t))

DrainPurge(t) ==
  /\ drain.at = "purge" /\ t \in drain.tids
  /\ sems' = [s \in Sem |-> [sems[s] EXCEPT !.waiters =
                               IF sems[s].in_use THEN Purge(@, t) ELSE @]]
  /\ drain' = [at |-> IF drain.tids = {t} THEN "idle" ELSE "purge",
               tids |-> drain.tids \ {t}]
  /\ UNCHANGED <<tstate, on, pending, owed>>

-----------------------------------------------------------------------------
\* sync_init
SemInit ==
  /\ tstate = [t \in Tid |-> "READY"]
  /\ sems = [s \in Sem |-> [in_use |-> FALSE, count |-> 0, waiters |-> <<>>]]
  /\ on = [t \in Tid |-> None]
  /\ pending = {} /\ drain = [at |-> "idle", tids |-> {}]
  /\ owed = [s \in Sem |-> 0]

SemNext ==
  \/ \E t \in Tid, s \in Sem :
       \/ sem_create(t, s) \/ sem_destroy(t, s) \/ sem_post(t, s)
       \/ sem_wait_Take(t, s) \/ sem_wait_Park(t, s)
  \/ \E t \in Tid : sem_wait_Return(t) \/ SemSignal(t) \/ Kill(t) \/ Reuse(t)
                       \/ DrainPurge(t)
  \/ DrainRead \/ DrainClear

SemSpec == SemInit /\ [][SemNext]_semVars

-----------------------------------------------------------------------------
(* Properties. *)

\* Every variable keeps its type, and no queue outgrows waiters[MAX_WAITERS].
SemTypeOK ==
  /\ tstate \in [Tid -> {"READY", "BLOCKED", "DEAD"}]
  /\ on \in [Tid -> Sem \cup {None}]
  /\ pending \subseteq Tid
  /\ drain \in [at : {"idle", "read", "purge"}, tids : SUBSET Tid]
  /\ owed = None \/ owed \in [Sem -> Int]
  /\ sems \in [Sem -> [in_use : BOOLEAN, count : Nat, waiters : Seq(Tid)]]
  /\ \A s \in Sem : Len(sems[s].waiters) <= SEM_MAX_WAITERS

\* A parked thread is listed where a post will find it, whatever dies, is
\* reused, signalled or destroyed meanwhile ("no wake path can reach an unlisted
\* waiter, so it sleeps forever").
NoneForgotten == \A t \in Tid :
  tstate[t] = "BLOCKED" => /\ on[t] \in Sem
                          /\ sems[on[t]].in_use /\ t \in Waiters(on[t])

\* No thread is parked on a semaphore that has a token left.
NoIdleToken == \A s \in Sem, t \in Tid :
  sems[s].count > 0 => ~(tstate[t] = "BLOCKED" /\ on[t] = s)

\* A token is in the count or on its way to the one thread it was handed to: as
\* long as waits end by posts and no listed slot is reused, dead waiters neither
\* swallow tokens nor make them.
TokensConserved == \A s \in Sem :
  sems[s].in_use /\ owed # None
    => owed[s] = sems[s].count + Cardinality(Woken(s))

\* "A tid observed live here owns whatever entries it holds": what a purge leaves
\* to a live thread are entries of waits that thread is in.
EntriesOwned == [][\A t \in Tid :
  DrainPurge(t) /\ Alive(t) => \A s \in Sem : t \in Waiters(s) => on[t] = s]_semVars

=============================================================================
