----------------------------- MODULE SyncProofs -----------------------------
(***************************************************************************)
(* The semaphores and futexes of src/sys/sync.c, and the mutex and         *)
(* condition variable that apps/lib/sync.h builds on the futexes, for any  *)
(* number of threads and any table and queue sizes.                        *)
(*                                                                         *)
(* Semaphores: no parked thread is forgotten, no token lies idle beside a  *)
(* parked thread, and none is lost or made up.  The first two hold         *)
(* together and need nothing else but that the dead wait for nothing.  The *)
(* third needs Clean: as long as waits end by posts and no listed slot is  *)
(* reused, the live threads a queue lists are the ones parked on it, each  *)
(* once.                                                                   *)
(*                                                                         *)
(* Futexes: the mutex excludes, a parked thread stays listed, and no       *)
(* signal is lost, under any time-outs, signals and requeues.  OneInside   *)
(* is not inductive: that the winner of the cmpxchg finds nobody inside    *)
(* needs Held, that the word is 1 while a thread is inside.  The kernel's  *)
(* tables do not occur in that argument: whoever is woken, early, late or  *)
(* twice, goes through the cmpxchg again.  The rest needs them.  CtrlInv   *)
(* says where in its loop each program is and how the buffer's count       *)
(* follows from what was produced and consumed; TableInv, who is listed    *)
(* where, once, and that the parked are.                                   *)
(***************************************************************************)
EXTENDS MCSync, Lemmas

-----------------------------------------------------------------------------
(* Semaphores *)

\* Dead threads wait for nothing.
Gone == \A t \in Tid : ~Alive(t) => on[t] = None

\* Nobody is in a wait on a semaphore that does not exist.
Open == \A s \in Sem, t \in Tid : on[t] = s => sems[s].in_use

\* The live threads a queue lists are parked on its semaphore.
Honest == \A s \in Sem, t \in Tid :
  t \in Waiters(s) /\ Alive(t) => tstate[t] = "BLOCKED" /\ on[t] = s

\* A queue lists a thread once.
NoTwice == \A s \in Sem : \A i, j \in DOMAIN sems[s].waiters :
  sems[s].waiters[i] = sems[s].waiters[j] => i = j

Clean == Open /\ Honest /\ NoTwice /\ TokensConserved

\* What holds of every park
Parks == NoneForgotten /\ NoIdleToken /\ Gone

SemInv == SemTypeOK /\ Parks /\ (owed # None => Clean)

-----------------------------------------------------------------------------
(* Queues *)

\* Who is listed, by position
LEMMA QueuedAt ==
  ASSUME NEW q \in Seq(Tid)
  PROVE  /\ DOMAIN q = 1 .. Len(q) /\ Len(q) \in Nat
         /\ Queued(q) \subseteq Tid
         /\ \A t : t \in Queued(q) <=> \E i \in 1 .. Len(q) : q[i] = t
BY DEF Queued

\* wake_one wakes the first live waiter and drops the dead before it, or drops
\* them all if they are dead.
LEMMA WakeOne ==
  ASSUME NEW q \in Seq(Tid)
  PROVE  \/ /\ wake_one(q) = {} /\ After(q, wake_one(q)) = <<>>
            /\ \A i \in 1 .. Len(q) : ~Alive(q[i])
         \/ \E m \in 1 .. Len(q) :
              /\ wake_one(q) = {m} /\ Alive(q[m])
              /\ \A i \in 1 .. Len(q) : i < m => ~Alive(q[i])
              /\ After(q, wake_one(q)) \in Seq(Tid)
              /\ Len(After(q, wake_one(q))) = Len(q) - m
              /\ \A j \in 1 .. Len(q) - m : After(q, wake_one(q))[j] = q[m + j]
<1>1. DOMAIN q = 1 .. Len(q) /\ Len(q) \in Nat /\ \A i \in 1 .. Len(q) : q[i] \in Tid
  OBVIOUS
<1>2. CASE LiveAt(q) = {}
  BY <1>1, <1>2 DEF wake_one, After, LiveAt
<1>3. CASE LiveAt(q) # {}
  <2> DEFINE m == FirstLive(q)
  <2>1. LiveAt(q) \in SUBSET Nat
    BY <1>1 DEF LiveAt
  <2>2. m \in LiveAt(q) /\ \A j \in LiveAt(q) : m <= j
    BY <1>3, <2>1, LeastOf DEF FirstLive
  <2> HIDE DEF m
  <2>3. wake_one(q) = {m}
    BY <1>3 DEF wake_one, m
  <2>4. After(q, {m}) = SubSeq(q, m + 1, Len(q))
    <3>1. (CHOOSE i \in {m} : TRUE) = m /\ {m} # {}
      OBVIOUS
    <3> QED
      BY <3>1 DEF After
  <2>5. m \in 1 .. Len(q) /\ Alive(q[m])
    BY <1>1, <2>2 DEF LiveAt
  <2>6. \A i \in 1 .. Len(q) : i < m => ~Alive(q[i])
    <3> SUFFICES ASSUME NEW i \in 1 .. Len(q), i < m, Alive(q[i])
                 PROVE  FALSE
      OBVIOUS
    <3>1. i \in LiveAt(q)
      BY <1>1 DEF LiveAt
    <3> QED
      BY <2>2, <2>5, <3>1
  <2> DEFINE r == SubSeq(q, m + 1, Len(q))
  <2>7. r \in Seq(Tid) /\ Len(r) = Len(q) - m /\ \A j \in 1 .. Len(q) - m : r[j] = q[m + j]
    <3>1. m \in Nat /\ m <= Len(q)
      BY <1>1, <2>5
    <3> QED
      BY <3>1, RestSeq
  <2> QED
    BY <2>3, <2>4, <2>5, <2>6, <2>7
<1> QED
  BY <1>2, <1>3

\* A purge takes the entries of the thread and leaves every other.
LEMMA PurgedQueue ==
  ASSUME NEW q \in Seq(Tid), NEW t \in Tid
  PROVE  /\ Purge(q, t) \in Seq(Tid) /\ Len(Purge(q, t)) <= Len(q)
         /\ Queued(Purge(q, t)) \subseteq Queued(q)
         /\ \A u \in Queued(q) : u # t \/ Alive(t) => u \in Queued(Purge(q, t))
         /\ (\A i, j \in DOMAIN q : q[i] = q[j] => i = j)
              => \A i, j \in DOMAIN Purge(q, t) : Purge(q, t)[i] = Purge(q, t)[j] => i = j
<1>1. CASE Alive(t)
  BY <1>1 DEF Purge
<1>2. CASE ~Alive(t)
  <2> DEFINE stay == Others(q, t)
             r == Compacted(q, stay)
  <2>1. \A j \in stay : j \in Nat /\ 1 <= j /\ j <= Len(q)
    BY DEF Others
  <2>2. \A i : i \in stay <=> i \in 1 .. Len(q) /\ q[i] # t
    BY DEF Others
  <2> HIDE DEF stay
  <2>3. /\ r \in Seq(Tid) /\ Len(r) <= Len(q)
        /\ \A j \in 1 .. Len(r) : \E i \in stay : r[j] = q[i]
        /\ \A i \in stay : \E j \in 1 .. Len(r) : r[j] = q[i]
        /\ (\A i, j \in stay : q[i] = q[j] => i = j)
             => \A i, j \in 1 .. Len(r) : r[i] = r[j] => i = j
    BY <2>1, CompactedSeq
  <2>4. Purge(q, t) = r
    BY <1>2 DEF Purge, stay
  <2> HIDE DEF r
  <2>5. DOMAIN r = 1 .. Len(r) /\ DOMAIN q = 1 .. Len(q)
    BY <2>3
  <2>6. Queued(r) \subseteq Queued(q)
    BY <2>2, <2>3, <2>5 DEF Queued
  <2>7. ASSUME NEW u \in Queued(q), u # t
        PROVE  u \in Queued(r)
    <3>1. PICK i \in 1 .. Len(q) : q[i] = u
      BY <2>5 DEF Queued
    <3>2. i \in stay
      BY <2>2, <2>7, <3>1
    <3>3. PICK j \in 1 .. Len(r) : r[j] = q[i]
      BY <2>3, <3>2
    <3> QED
      BY <2>5, <3>1, <3>3 DEF Queued
  <2> QED
    BY <1>2, <2>2, <2>3, <2>4, <2>5, <2>6, <2>7
<1> QED
  BY <1>1, <1>2

-----------------------------------------------------------------------------
(* Types *)

LEMMA SemType == SemInit => SemTypeOK
BY SemAssumption DEF SemInit, SemTypeOK

\* What the types say of one semaphore
LEMMA SemAt ==
  ASSUME SemTypeOK, NEW s \in Sem
  PROVE  /\ sems[s] \in [in_use : BOOLEAN, count : Nat, waiters : Seq(Tid)]
         /\ sems[s].in_use \in BOOLEAN /\ sems[s].count \in Nat
         /\ sems[s].waiters \in Seq(Tid) /\ Len(sems[s].waiters) <= SEM_MAX_WAITERS
         /\ Waiters(s) \subseteq Tid
BY QueuedAt DEF SemTypeOK, Waiters

\* A step changes one semaphore, s: to b, n and the queue q.
Changed(s, b, n, q) ==
  /\ sems' \in [Sem -> [in_use : BOOLEAN, count : Nat, waiters : Seq(Tid)]]
  /\ sems'[s].in_use = b /\ sems'[s].count = n /\ sems'[s].waiters = q
  /\ \A u \in Sem : u # s => sems'[u] = sems[u]

LEMMA ChangedSem ==
  ASSUME SemTypeOK, NEW s \in Sem, NEW b \in BOOLEAN, NEW n \in Nat, NEW q \in Seq(Tid),
         \/ sems' = [sems EXCEPT ![s] = [in_use |-> b, count |-> n, waiters |-> q]]
         \/ sems' = [sems EXCEPT ![s].count = n] /\ b = sems[s].in_use /\ q = sems[s].waiters
         \/ sems' = [sems EXCEPT ![s].waiters = q] /\ b = sems[s].in_use /\ n = sems[s].count
         \/ sems' = [sems EXCEPT ![s].waiters = q, ![s].count = n] /\ b = sems[s].in_use
         \/ sems' = [sems EXCEPT ![s].in_use = b, ![s].waiters = q] /\ n = sems[s].count
  PROVE  Changed(s, b, n, q)
<1> DEFINE B == BOOLEAN
           C == Nat
           W == Seq(Tid)
<1>1. sems \in [Sem -> [in_use : B, count : C, waiters : W]] /\ b \in B /\ n \in C /\ q \in W
  BY DEF SemTypeOK
<1> HIDE DEF B, C, W
<1>2. /\ sems' \in [Sem -> [in_use : B, count : C, waiters : W]]
      /\ sems'[s].in_use = b /\ sems'[s].count = n /\ sems'[s].waiters = q
      /\ \A u \in Sem : u # s => sems'[u] = sems[u]
  BY <1>1
<1> QED
  BY <1>2 DEF Changed, B, C, W

LEMMA ChangedType ==
  ASSUME SemTypeOK, NEW s \in Sem, NEW b, NEW n, NEW q \in Seq(Tid),
         Len(q) <= SEM_MAX_WAITERS, Changed(s, b, n, q)
  PROVE  /\ \A u \in Sem : Len(sems'[u].waiters) <= SEM_MAX_WAITERS
         /\ \A u \in Sem : u # s => Waiters(u)' = Waiters(u)
         /\ Waiters(s)' = Queued(q)
BY DEF Changed, SemTypeOK, Waiters

\* What changes of the history
LEMMA OweType ==
  ASSUME SemTypeOK, NEW new, Owe(new), \A s \in Sem : owed # None /\ s \in DOMAIN new => new[s] \in Int
  PROVE  /\ owed' = None \/ owed' \in [Sem -> Int]
         /\ owed' # None =>
              /\ owed # None
              /\ \A s \in Sem : owed'[s] = IF s \in DOMAIN new THEN new[s] ELSE owed[s]
<1>1. CASE owed = None
  BY <1>1 DEF Owe
<1>2. CASE owed # None
  BY <1>2 DEF Owe, SemTypeOK
<1> QED
  BY <1>1, <1>2

\* Woken threads are finitely many.
LEMMA WokenFinite == \A s : IsFiniteSet(Woken(s)) /\ Cardinality(Woken(s)) \in Nat
<1> TAKE s
<1>1. Woken(s) \subseteq Tid
  BY DEF Woken
<1> QED
  BY <1>1, SemAssumption, FS_Subset, FS_CardinalityType

-----------------------------------------------------------------------------
(* Steps *)

LEMMA CreateStep ==
  ASSUME SemInv, NEW t \in Tid, NEW s \in Sem, sem_create(t, s)
  PROVE  SemInv'
<1> USE DEF SemInv, Parks
<1>1. PICK n \in Initial :
        /\ sems' = [sems EXCEPT ![s] = [in_use |-> TRUE, count |-> n, waiters |-> <<>>]]
        /\ Owe([u \in {s} |-> n])
  BY DEF sem_create
<1>2. /\ ~sems[s].in_use
      /\ tstate' = tstate /\ on' = on /\ pending' = pending /\ drain' = drain
  BY DEF sem_create
<1>3. n \in Nat /\ <<>> \in Seq(Tid) /\ Len(<<>>) <= SEM_MAX_WAITERS
  BY SemAssumption
<1>4. /\ sems' \in [Sem -> [in_use : BOOLEAN, count : Nat, waiters : Seq(Tid)]]
      /\ \A u \in Sem : Len(sems'[u].waiters) <= SEM_MAX_WAITERS
      /\ sems'[s].in_use = TRUE /\ sems'[s].count = n /\ sems'[s].waiters = <<>>
      /\ \A u \in Sem : u # s => sems'[u] = sems[u] /\ Waiters(u)' = Waiters(u)
      /\ Waiters(s)' = {}
  <2>1. Queued(<<>>) = {}
    BY DEF Queued
  <2>2. Changed(s, TRUE, n, <<>>)
    BY <1>1, <1>3, ChangedSem
  <2> QED
    BY <1>3, <2>1, <2>2, ChangedType DEF Changed
<1>5. /\ owed' = None \/ owed' \in [Sem -> Int]
      /\ owed' # None => /\ owed # None
                         /\ \A u \in Sem : owed'[u] = IF u = s THEN n ELSE owed[u]
  <2> DEFINE new == [u \in {s} |-> n]
  <2>1. DOMAIN new = {s} /\ new[s] = n
    OBVIOUS
  <2>2. \A u \in Sem : owed # None /\ u \in DOMAIN new => new[u] \in Int
    BY <1>3, <2>1
  <2>3. Owe(new)
    BY <1>1
  <2> HIDE DEF new
  <2> QED
    BY <2>1, <2>2, <2>3, OweType
<1>6. SemTypeOK'
  BY <1>2, <1>4, <1>5 DEF SemTypeOK
<1>7. \A u \in Tid : tstate[u] = "BLOCKED" => on[u] # s
  BY <1>2 DEF NoneForgotten
<1>8. Parks'
  <2>1. NoneForgotten'
    BY <1>2, <1>4, <1>7 DEF NoneForgotten
  <2>2. NoIdleToken'
    BY <1>2, <1>4, <1>7 DEF NoIdleToken
  <2> QED
    BY <1>2, <2>1, <2>2 DEF Gone, Alive
<1>9. ASSUME owed' # None
      PROVE  Clean'
  <2>1. Clean
    BY <1>5, <1>9
  <2>2. \A u \in Tid : on[u] # s
    BY <1>2, <2>1 DEF Clean, Open
  <2>3. Open' /\ Honest' /\ NoTwice'
    <3>1. Open'
      BY <1>2, <1>4, <2>1, <2>2 DEF Clean, Open
    <3>2. Honest'
      BY <1>2, <1>4, <2>1, <2>2 DEF Clean, Honest, Alive
    <3>3. NoTwice'
      BY <1>2, <1>4, <2>1, <2>2 DEF Clean, NoTwice
    <3> QED
      BY <3>1, <3>2, <3>3
  <2>4. Woken(s)' = {}
    BY <1>2, <2>2 DEF Woken
  <2>5. \A u \in Sem : u # s => Woken(u)' = Woken(u)
    BY <1>2, <1>4 DEF Woken
  <2>6. Cardinality({}) = 0
    BY FS_EmptySet
  <2> HIDE DEF Clean
  <2>7. TokensConserved'
    <3> SUFFICES ASSUME NEW u \in Sem, sems'[u].in_use
                 PROVE  owed'[u] = sems'[u].count + Cardinality(Woken(u)')
      BY DEF TokensConserved
    <3>1. CASE u = s
      <4>1. Cardinality(Woken(u)') = 0
        BY <2>4, <2>6, <3>1
      <4> QED
        BY <1>3, <1>4, <1>5, <1>9, <3>1, <4>1
    <3>2. CASE u # s
      BY <1>4, <1>5, <1>9, <2>1, <2>5, <3>2 DEF Clean, TokensConserved
    <3> QED
      BY <3>1, <3>2
  <2> QED
    BY <2>3, <2>7 DEF Clean
<1> QED
  BY <1>6, <1>8, <1>9

\* A token is taken from the count.
LEMMA TakeStep ==
  ASSUME SemInv, NEW t \in Tid, NEW s \in Sem, sem_wait_Take(t, s)
  PROVE  SemInv'
<1> USE DEF SemInv, Parks
<1> DEFINE n == sems[s].count - 1
           q == sems[s].waiters
<1>1. /\ sems[s].in_use /\ sems[s].count > 0
      /\ sems' = [sems EXCEPT ![s].count = @ - 1]
      /\ Owe([u \in {s} |-> owed[u] - 1])
      /\ tstate' = tstate /\ on' = on /\ pending' = pending /\ drain' = drain
  BY DEF sem_wait_Take
<1>2. n \in Nat /\ q \in Seq(Tid) /\ Len(q) <= SEM_MAX_WAITERS
  BY <1>1, SemAt
<1>3. Changed(s, TRUE, n, q)
  BY <1>1, <1>2, ChangedSem
<1> HIDE DEF n, q
<1>4. /\ sems' \in [Sem -> [in_use : BOOLEAN, count : Nat, waiters : Seq(Tid)]]
      /\ \A u \in Sem : Len(sems'[u].waiters) <= SEM_MAX_WAITERS
      /\ sems'[s].in_use = TRUE /\ sems'[s].count = n /\ sems'[s].waiters = q
      /\ \A u \in Sem : u # s => sems'[u] = sems[u] /\ Waiters(u)' = Waiters(u)
      /\ Waiters(s)' = Queued(q)
  BY <1>2, <1>3, ChangedType DEF Changed
<1>5. /\ owed' = None \/ owed' \in [Sem -> Int]
      /\ owed' # None => /\ owed # None
                         /\ \A u \in Sem : owed'[u] = IF u = s THEN owed[s] - 1 ELSE owed[u]
  <2> DEFINE new == [u \in {s} |-> owed[u] - 1]
  <2>1. DOMAIN new = {s} /\ new[s] = owed[s] - 1
    OBVIOUS
  <2>2. \A u \in Sem : owed # None /\ u \in DOMAIN new => new[u] \in Int
    BY <2>1 DEF SemTypeOK
  <2>3. Owe(new)
    BY <1>1
  <2> HIDE DEF new
  <2> QED
    BY <2>1, <2>2, <2>3, OweType
<1>6. SemTypeOK'
  BY <1>1, <1>4, <1>5 DEF SemTypeOK
<1>7. \A u \in Sem : /\ Waiters(u)' = Waiters(u) /\ sems'[u].waiters = sems[u].waiters
                     /\ sems'[u].in_use = sems[u].in_use
                     /\ Woken(u)' = Woken(u)
  <2>1. \A u \in Sem : /\ Waiters(u)' = Waiters(u) /\ sems'[u].waiters = sems[u].waiters
                       /\ sems'[u].in_use = sems[u].in_use
    BY <1>1, <1>4 DEF q, Waiters
  <2> QED
    BY <1>1, <2>1 DEF Woken
<1>8. Parks'
  <2>1. NoneForgotten'
    BY <1>1, <1>7 DEF NoneForgotten
  <2>2. NoIdleToken'
    BY <1>1, <1>4 DEF NoIdleToken
  <2> QED
    BY <1>1, <2>1, <2>2 DEF Gone, Alive
<1>9. ASSUME owed' # None
      PROVE  Clean'
  <2>1. Clean
    BY <1>5, <1>9
  <2>2. Open' /\ Honest' /\ NoTwice'
    BY <1>1, <1>7, <2>1 DEF Clean, Open, Honest, NoTwice, Alive
  <2>3. TokensConserved'
    <3> SUFFICES ASSUME NEW u \in Sem, sems'[u].in_use
                 PROVE  owed'[u] = sems'[u].count + Cardinality(Woken(u)')
      BY DEF TokensConserved
    <3>1. owed[u] = sems[u].count + Cardinality(Woken(u))
      BY <1>5, <1>7, <1>9, <2>1 DEF Clean, TokensConserved
    <3>2. sems[u].count \in Nat /\ Cardinality(Woken(u)) \in Nat
      BY SemAt, WokenFinite
    <3>3. Cardinality(Woken(u)') = Cardinality(Woken(u))
      BY <1>7
    <3>4. owed[u] \in Int /\ owed[s] \in Int
      BY <1>5, <1>9 DEF SemTypeOK
    <3>5. CASE u = s
      <4>1. owed'[u] = owed[u] - 1 /\ sems'[u].count = sems[u].count - 1
        BY <1>4, <1>5, <1>9, <3>5 DEF n
      <4> QED
        BY <3>1, <3>2, <3>3, <3>4, <4>1
    <3>6. CASE u # s
      <4>1. owed'[u] = owed[u] /\ sems'[u].count = sems[u].count
        BY <1>4, <1>5, <1>9, <3>6
      <4> QED
        BY <3>1, <3>3, <4>1
    <3> QED
      BY <3>5, <3>6
  <2> QED
    BY <2>2, <2>3 DEF Clean
<1> QED
  BY <1>6, <1>8, <1>9

\* A thread parks: nobody lists it yet.
LEMMA ParkStep ==
  ASSUME SemInv, NEW t \in Tid, NEW s \in Sem, sem_wait_Park(t, s)
  PROVE  SemInv'
<1> USE DEF SemInv, Parks
<1> DEFINE old == sems[s].waiters
           q == Append(old, t)
<1>1. /\ sems[s].in_use /\ sems[s].count = 0 /\ Len(old) < SEM_MAX_WAITERS
      /\ sems' = [sems EXCEPT ![s].waiters = q]
      /\ tstate[t] = "READY" /\ on[t] = None
      /\ tstate' = [tstate EXCEPT ![t] = "BLOCKED"] /\ on' = [on EXCEPT ![t] = s]
      /\ pending' = pending /\ drain' = drain /\ owed' = owed
  BY DEF sem_wait_Park, Runs
<1>2. /\ old \in Seq(Tid) /\ sems[s].count \in Nat
      /\ q \in Seq(Tid) /\ Len(q) = Len(old) + 1 /\ Len(old) \in Nat
      /\ q[Len(old) + 1] = t /\ \A i \in 1 .. Len(old) : q[i] = old[i]
  BY SemAt
<1>3. Len(q) <= SEM_MAX_WAITERS
  BY <1>1, <1>2, SemAssumption
<1>4. Queued(q) = Waiters(s) \cup {t}
  <2> HIDE DEF old, q
  <2>1. \A u : u \in Queued(q) <=> \E i \in 1 .. Len(q) : q[i] = u
    BY <1>2, QueuedAt
  <2>2. \A u : u \in Waiters(s) <=> \E i \in 1 .. Len(old) : old[i] = u
    BY <1>2, QueuedAt DEF Waiters, old
  <2>3. \A i \in 1 .. Len(q) : i \in 1 .. Len(old) \/ i = Len(old) + 1
    BY <1>2
  <2>4. Len(old) + 1 \in 1 .. Len(q) /\ \A i \in 1 .. Len(old) : i \in 1 .. Len(q)
    BY <1>2
  <2>5. \A u : u \in Queued(q) => u \in Waiters(s) \/ u = t
    BY <1>2, <2>1, <2>2, <2>3
  <2>6. \A u : u \in Waiters(s) \/ u = t => u \in Queued(q)
    BY <1>2, <2>1, <2>2, <2>4
  <2> QED
    BY <2>5, <2>6
<1>5. /\ sems' \in [Sem -> [in_use : BOOLEAN, count : Nat, waiters : Seq(Tid)]]
      /\ \A u \in Sem : Len(sems'[u].waiters) <= SEM_MAX_WAITERS
      /\ sems'[s].in_use = TRUE /\ sems'[s].count = 0 /\ sems'[s].waiters = q
      /\ \A u \in Sem : u # s => sems'[u] = sems[u] /\ Waiters(u)' = Waiters(u)
      /\ Waiters(s)' = Waiters(s) \cup {t}
  <2>1. Changed(s, TRUE, 0, q)
    <3> HIDE DEF old, q
    <3> QED
      BY <1>1, <1>2, ChangedSem
  <2> HIDE DEF old, q
  <2>2. /\ \A u \in Sem : Len(sems'[u].waiters) <= SEM_MAX_WAITERS
        /\ \A u \in Sem : u # s => Waiters(u)' = Waiters(u)
        /\ Waiters(s)' = Queued(q)
    BY <1>2, <1>3, <2>1, ChangedType
  <2> QED
    BY <1>4, <2>1, <2>2 DEF Changed
<1> HIDE DEF q
<1>6. /\ tstate' \in [Tid -> {"READY", "BLOCKED", "DEAD"}] /\ on' \in [Tid -> Sem \cup {None}]
      /\ tstate'[t] = "BLOCKED" /\ on'[t] = s
      /\ \A u \in Tid : u # t => tstate'[u] = tstate[u] /\ on'[u] = on[u]
  BY <1>1 DEF SemTypeOK
<1>7. SemTypeOK'
  BY <1>1, <1>5, <1>6 DEF SemTypeOK
<1>8. Parks'
  <2>1. NoneForgotten'
    <3> SUFFICES ASSUME NEW u \in Tid, tstate'[u] = "BLOCKED"
                 PROVE  on'[u] \in Sem /\ sems'[on'[u]].in_use
                        /\ u \in Queued(sems'[on'[u]].waiters)
      BY DEF NoneForgotten, Waiters
    <3>1. CASE u = t
      <4>1. on'[u] = s
        BY <1>6, <3>1
      <4>2. t \in Queued(sems'[s].waiters)
        BY <1>5 DEF Waiters
      <4> QED
        BY <1>5, <3>1, <4>1, <4>2
    <3>2. CASE u # t
      <4>1. on[u] \in Sem /\ sems[on[u]].in_use /\ u \in Waiters(on[u]) /\ on'[u] = on[u]
        BY <1>6, <3>2 DEF NoneForgotten
      <4>2. \A v \in Sem : v \in Sem /\ sems[v].in_use /\ u \in Waiters(v)
                             => sems'[v].in_use /\ u \in Queued(sems'[v].waiters)
        BY <1>5 DEF Waiters
      <4> QED
        BY <4>1, <4>2
    <3> QED
      BY <3>1, <3>2
  <2>2. NoIdleToken'
    BY <1>5, <1>6 DEF NoIdleToken
  <2> QED
    BY <1>1, <1>6, <2>1, <2>2 DEF Gone, Alive
<1>9. ASSUME owed' # None
      PROVE  Clean'
  <2>1. Clean
    BY <1>1, <1>9
  <2>2. \A u \in Sem : t \notin Waiters(u)
    <3>1. Alive(t) /\ on[t] \notin Sem
      BY <1>1, SemAssumption DEF Alive
    <3> QED
      BY <2>1, <3>1 DEF Clean, Honest
  <2>3. Open'
    BY <1>1, <1>5, <1>6, <2>1 DEF Clean, Open
  <2>4. Honest'
    <3> SUFFICES ASSUME NEW v \in Sem, NEW u \in Tid, u \in Waiters(v)', tstate'[u] # "DEAD"
                 PROVE  tstate'[u] = "BLOCKED" /\ on'[u] = v
      BY DEF Honest, Alive
    <3>1. CASE u = t
      <4>1. v = s
        BY <1>5, <2>2, <3>1
      <4> QED
        BY <1>6, <3>1, <4>1
    <3>2. CASE u # t
      <4>1. \A x \in Sem : u \in Waiters(x)' => u \in Waiters(x)
        BY <1>5, <3>2
      <4>2. u \in Waiters(v) /\ Alive(u)
        BY <1>6, <3>2, <4>1 DEF Alive
      <4> QED
        BY <1>6, <2>1, <3>2, <4>2 DEF Clean, Honest
    <3> QED
      BY <3>1, <3>2
  <2>5. NoTwice'
    <3>1. \A i, j \in DOMAIN old : old[i] = old[j] => i = j
      BY <2>1 DEF Clean, NoTwice
    <3>2. \A i \in 1 .. Len(old) : old[i] # t
      BY <1>2, <2>2, QueuedAt DEF Waiters
    <3>3. \A i, j \in 1 .. Len(q) : q[i] = q[j] => i = j
      <4>1. DOMAIN old = 1 .. Len(old)
        BY <1>2
      <4>2. \A i \in 1 .. Len(q) : i \in 1 .. Len(old) \/ i = Len(old) + 1
        BY <1>2 DEF q
      <4> HIDE DEF old
      <4> QED
        BY <1>2, <3>1, <3>2, <4>1, <4>2 DEF q
    <3>4. DOMAIN q = 1 .. Len(q)
      BY <1>2 DEF q
    <3> QED
      BY <1>5, <2>1, <3>3, <3>4 DEF Clean, NoTwice
  <2>6. \A u \in Sem : Woken(u)' = Woken(u)
    <3> TAKE u \in Sem
    <3>1. t \notin Woken(u) /\ t \notin Woken(u)'
      BY <1>1, <1>6, SemAssumption DEF Woken
    <3>2. \A x \in Tid : x # t => (x \in Waiters(u)' <=> x \in Waiters(u))
      BY <1>5
    <3>3. \A x : x \in Woken(u)' <=> x \in Woken(u)
      BY <1>6, <3>1, <3>2 DEF Woken
    <3> QED
      BY <3>3
  <2>7. TokensConserved'
    <3> SUFFICES ASSUME NEW u \in Sem, sems'[u].in_use
                 PROVE  owed'[u] = sems'[u].count + Cardinality(Woken(u)')
      BY DEF TokensConserved
    <3>1. owed[u] = sems[u].count + Cardinality(Woken(u))
      BY <1>1, <1>5, <1>9, <2>1 DEF Clean, TokensConserved
    <3>2. Cardinality(Woken(u)') = Cardinality(Woken(u))
      BY <2>6
    <3>3. sems'[u].count = sems[u].count
      BY <1>1, <1>5
    <3> QED
      BY <1>1, <3>1, <3>2, <3>3
  <2> QED
    BY <2>3, <2>4, <2>5, <2>7 DEF Clean
<1> QED
  BY <1>7, <1>8, <1>9

\* A woken thread returns, and takes its token along.
LEMMA ReturnStep ==
  ASSUME SemInv, NEW t \in Tid, sem_wait_Return(t)
  PROVE  SemInv'
<1> USE DEF SemInv, Parks
<1>1. /\ on[t] # None /\ tstate[t] = "READY" /\ on' = [on EXCEPT ![t] = None]
      /\ Owe([u \in {on[t]} |-> owed[u] - 1])
      /\ tstate' = tstate /\ sems' = sems /\ pending' = pending /\ drain' = drain
  BY DEF sem_wait_Return
<1>2. PICK s \in Sem : s = on[t]
  BY <1>1 DEF SemTypeOK
<1>3. /\ on' \in [Tid -> Sem \cup {None}] /\ on'[t] = None
      /\ \A u \in Tid : u # t => on'[u] = on[u]
      /\ \A u : Waiters(u)' = Waiters(u)
  BY <1>1 DEF SemTypeOK, Waiters
<1>4. /\ owed' = None \/ owed' \in [Sem -> Int]
      /\ owed' # None => /\ owed # None
                         /\ \A u \in Sem : owed'[u] = IF u = s THEN owed[s] - 1 ELSE owed[u]
  <2> DEFINE new == [u \in {s} |-> owed[u] - 1]
  <2>1. DOMAIN new = {s} /\ new[s] = owed[s] - 1
    OBVIOUS
  <2>2. \A u \in Sem : owed # None /\ u \in DOMAIN new => new[u] \in Int
    BY <2>1 DEF SemTypeOK
  <2>3. Owe(new)
    BY <1>1, <1>2
  <2> HIDE DEF new
  <2> QED
    BY <2>1, <2>2, <2>3, OweType
<1>5. SemTypeOK'
  BY <1>1, <1>3, <1>4 DEF SemTypeOK
<1>6. Parks'
  <2>1. NoneForgotten'
    BY <1>1, <1>3 DEF NoneForgotten, Waiters
  <2>2. NoIdleToken'
    BY <1>1, <1>3 DEF NoIdleToken
  <2>3. Gone'
    BY <1>1, <1>3 DEF Gone, Alive
  <2> QED
    BY <2>1, <2>2, <2>3
<1>7. ASSUME owed' # None
      PROVE  Clean'
  <2>1. Clean
    BY <1>4, <1>7
  <2>2. \A u \in Sem : t \notin Waiters(u)
    BY <1>1, <2>1 DEF Clean, Honest, Alive
  <2>3. Open'
    BY <1>1, <1>3, <2>1, SemAssumption DEF Clean, Open
  <2>4. Honest'
    BY <1>1, <1>3, <2>1, <2>2 DEF Clean, Honest, Alive
  <2>5. NoTwice'
    BY <1>1, <2>1 DEF Clean, NoTwice
  <2>6. \A u \in Sem : u # s => Woken(u)' = Woken(u)
    <3> TAKE u \in Sem
    <3> HAVE u # s
    <3>1. t \notin Woken(u) /\ t \notin Woken(u)'
      BY <1>2, <1>3, SemAssumption DEF Woken
    <3>2. \A x : x \in Woken(u)' <=> x \in Woken(u)
      BY <1>1, <1>3, <3>1 DEF Woken
    <3> QED
      BY <3>2
  <2>7. t \in Woken(s) /\ Woken(s)' = Woken(s) \ {t}
    <3>1. t \in Woken(s) /\ t \notin Woken(s)'
      BY <1>1, <1>2, <1>3, <2>2, SemAssumption DEF Woken
    <3>2. \A x : x # t => (x \in Woken(s)' <=> x \in Woken(s))
      BY <1>1, <1>3 DEF Woken
    <3> QED
      BY <3>1, <3>2
  <2>8. Cardinality(Woken(s)') = Cardinality(Woken(s)) - 1
    BY <2>7, WokenFinite, OneLess
  <2>9. TokensConserved'
    <3> SUFFICES ASSUME NEW u \in Sem, sems'[u].in_use
                 PROVE  owed'[u] = sems'[u].count + Cardinality(Woken(u)')
      BY DEF TokensConserved
    <3>1. owed[u] = sems[u].count + Cardinality(Woken(u))
      BY <1>1, <1>4, <1>7, <2>1 DEF Clean, TokensConserved
    <3>2. CASE u # s
      <4>1. Cardinality(Woken(u)') = Cardinality(Woken(u))
        BY <2>6, <3>2
      <4> QED
        BY <1>1, <1>4, <1>7, <3>1, <3>2, <4>1
    <3>3. CASE u = s
      <4>1. Cardinality(Woken(u)') = Cardinality(Woken(u)) - 1
        BY <2>8, <3>3
      <4>2. Cardinality(Woken(u)) \in Nat /\ sems[u].count \in Nat
        BY WokenFinite, SemAt
      <4> QED
        BY <1>1, <1>4, <1>7, <3>1, <3>3, <4>1, <4>2
    <3> QED
      BY <3>2, <3>3
  <2> QED
    BY <2>3, <2>4, <2>5, <2>9 DEF Clean
<1> QED
  BY <1>5, <1>6, <1>7

\* A signal ends a park and leaves the entry: from here on the history says nothing.
LEMMA SignalStep ==
  ASSUME SemInv, NEW t \in Tid, SemSignal(t)
  PROVE  SemInv'
<1> USE DEF SemInv, Parks
<1>1. /\ tstate[t] = "BLOCKED" /\ tstate' = [tstate EXCEPT ![t] = "READY"] /\ owed' = None
      /\ sems' = sems /\ on' = on /\ pending' = pending /\ drain' = drain
  BY DEF SemSignal, Spoil
<1>2. /\ tstate' \in [Tid -> {"READY", "BLOCKED", "DEAD"}] /\ tstate'[t] = "READY"
      /\ \A u \in Tid : u # t => tstate'[u] = tstate[u]
  BY <1>1 DEF SemTypeOK
<1>3. SemTypeOK'
  BY <1>1, <1>2 DEF SemTypeOK
<1>4. NoneForgotten'
  BY <1>1, <1>2 DEF NoneForgotten, Waiters
<1>5. NoIdleToken' /\ Gone'
  BY <1>1, <1>2 DEF NoIdleToken, Gone, Alive
<1> QED
  BY <1>1, <1>3, <1>4, <1>5

\* A thread dies: what it was woken for is gone with it.
LEMMA KillStep ==
  ASSUME SemInv, NEW t \in Tid, Kill(t)
  PROVE  SemInv'
<1> USE DEF SemInv, Parks
<1> DEFINE hit == {s \in Sem : t \in Woken(s)}
           new == [s \in hit |-> owed[s] - 1]
<1>1. /\ tstate' = [tstate EXCEPT ![t] = "DEAD"] /\ on' = [on EXCEPT ![t] = None]
      /\ pending' = pending \cup {t} /\ Owe(new)
      /\ sems' = sems /\ drain' = drain
  BY DEF Kill
<1>2. /\ on' \in [Tid -> Sem \cup {None}] /\ on'[t] = None
      /\ tstate' \in [Tid -> {"READY", "BLOCKED", "DEAD"}] /\ tstate'[t] = "DEAD"
      /\ \A u \in Tid : u # t => on'[u] = on[u] /\ tstate'[u] = tstate[u]
      /\ \A u : Waiters(u)' = Waiters(u)
  BY <1>1 DEF SemTypeOK, Waiters
<1>3. /\ owed' = None \/ owed' \in [Sem -> Int]
      /\ owed' # None => /\ owed # None
                         /\ \A u \in Sem : owed'[u] = IF t \in Woken(u) THEN owed[u] - 1 ELSE owed[u]
  <2>1. DOMAIN new = hit /\ \A u \in hit : new[u] = owed[u] - 1
    OBVIOUS
  <2>2. \A u \in Sem : u \in hit <=> t \in Woken(u)
    OBVIOUS
  <2> HIDE DEF hit, new
  <2>3. \A u \in Sem : owed # None /\ u \in DOMAIN new => new[u] \in Int
    BY <2>1 DEF SemTypeOK
  <2> QED
    BY <1>1, <2>1, <2>2, <2>3, OweType
<1>4. SemTypeOK'
  BY <1>1, <1>2, <1>3 DEF SemTypeOK
<1>5. Parks'
  <2>1. NoneForgotten'
    BY <1>1, <1>2 DEF NoneForgotten, Waiters
  <2>2. NoIdleToken'
    BY <1>1, <1>2 DEF NoIdleToken
  <2>3. Gone'
    BY <1>1, <1>2 DEF Gone, Alive
  <2> QED
    BY <2>1, <2>2, <2>3
<1>6. ASSUME owed' # None
      PROVE  Clean'
  <2>1. Clean
    BY <1>3, <1>6
  <2>2. Open'
    BY <1>1, <1>2, <2>1, SemAssumption DEF Clean, Open
  <2>3. Honest'
    BY <1>1, <1>2, <2>1 DEF Clean, Honest, Alive
  <2>4. NoTwice'
    BY <1>1, <2>1 DEF Clean, NoTwice
  <2>5. \A u \in Sem : Woken(u)' = Woken(u) \ {t}
    <3> TAKE u \in Sem
    <3>1. t \notin Woken(u)'
      BY <1>2, SemAssumption DEF Woken
    <3>2. \A x : x # t => (x \in Woken(u)' <=> x \in Woken(u))
      BY <1>1, <1>2 DEF Woken
    <3> QED
      BY <3>1, <3>2
  <2>6. TokensConserved'
    <3> SUFFICES ASSUME NEW u \in Sem, sems'[u].in_use
                 PROVE  owed'[u] = sems'[u].count + Cardinality(Woken(u)')
      BY DEF TokensConserved
    <3>1. owed[u] = sems[u].count + Cardinality(Woken(u))
      BY <1>1, <1>3, <1>6, <2>1 DEF Clean, TokensConserved
    <3>2. Woken(u)' = Woken(u) \ {t}
      BY <2>5
    <3>3. CASE t \notin Woken(u)
      <4>1. Woken(u)' = Woken(u)
        BY <3>2, <3>3
      <4>2. Cardinality(Woken(u)') = Cardinality(Woken(u))
        BY <4>1
      <4> QED
        BY <1>1, <1>3, <1>6, <3>1, <3>3, <4>2
    <3>4. CASE t \in Woken(u)
      <4>1. Cardinality(Woken(u)') = Cardinality(Woken(u)) - 1
        BY <3>2, <3>4, WokenFinite, OneLess
      <4>2. Cardinality(Woken(u)) \in Nat /\ sems[u].count \in Nat
        BY WokenFinite, SemAt
      <4> QED
        BY <1>1, <1>3, <1>6, <3>1, <3>4, <4>1, <4>2
    <3> QED
      BY <3>3, <3>4
  <2> QED
    BY <2>2, <2>3, <2>4, <2>6 DEF Clean
<1> QED
  BY <1>4, <1>5, <1>6

\* A slot is given to a new thread.
LEMMA ReuseStep ==
  ASSUME SemInv, NEW t \in Tid, Reuse(t)
  PROVE  SemInv'
<1> USE DEF SemInv, Parks
<1>1. /\ ~Alive(t) /\ tstate' = [tstate EXCEPT ![t] = "READY"]
      /\ sems' = sems /\ on' = on /\ pending' = pending /\ drain' = drain
      /\ owed' = owed \/ owed' = None
      /\ owed' # None => owed' = owed /\ \A s \in Sem : t \notin Waiters(s)
  BY DEF Reuse, Spoil
<1>2. /\ tstate' \in [Tid -> {"READY", "BLOCKED", "DEAD"}] /\ tstate'[t] = "READY" /\ on[t] = None
      /\ \A u \in Tid : u # t => tstate'[u] = tstate[u]
      /\ \A u : Waiters(u)' = Waiters(u)
  BY <1>1 DEF SemTypeOK, Waiters, Gone
<1>3. SemTypeOK'
  BY <1>1, <1>2 DEF SemTypeOK
<1>4. NoneForgotten'
  BY <1>1, <1>2 DEF NoneForgotten, Waiters
<1>5. NoIdleToken' /\ Gone'
  BY <1>1, <1>2 DEF NoIdleToken, Gone, Alive
<1>6. ASSUME owed' # None
      PROVE  Clean'
  <2>1. Clean /\ owed' = owed /\ \A s \in Sem : t \notin Waiters(s)
    BY <1>1, <1>6
  <2>2. Open' /\ NoTwice'
    BY <1>1, <2>1 DEF Clean, Open, NoTwice
  <2>3. Honest'
    BY <1>1, <1>2, <2>1 DEF Clean, Honest, Alive
  <2>4. \A u \in Sem : Woken(u)' = Woken(u)
    <3> TAKE u \in Sem
    <3>1. t \notin Woken(u)' /\ t \notin Woken(u)
      BY <1>1, <1>2, SemAssumption DEF Woken
    <3>2. \A x : x # t => (x \in Woken(u)' <=> x \in Woken(u))
      BY <1>1, <1>2 DEF Woken
    <3> QED
      BY <3>1, <3>2
  <2>5. TokensConserved'
    <3> SUFFICES ASSUME NEW u \in Sem, sems'[u].in_use
                 PROVE  owed'[u] = sems'[u].count + Cardinality(Woken(u)')
      BY DEF TokensConserved
    <3>1. owed[u] = sems[u].count + Cardinality(Woken(u))
      BY <1>1, <1>6, <2>1 DEF Clean, TokensConserved
    <3>2. Cardinality(Woken(u)') = Cardinality(Woken(u))
      BY <2>4
    <3> QED
      BY <1>1, <2>1, <3>1, <3>2
  <2> QED
    BY <2>2, <2>3, <2>5 DEF Clean
<1> QED
  BY <1>3, <1>4, <1>5, <1>6

\* A purge takes entries of a dead thread only.
LEMMA PurgeStep ==
  ASSUME SemInv, NEW t \in Tid, DrainPurge(t)
  PROVE  SemInv'
<1> USE DEF SemInv, Parks
<1> DEFINE left(s) == IF sems[s].in_use THEN Purge(sems[s].waiters, t) ELSE sems[s].waiters
<1>1. /\ sems' = [s \in Sem |-> [sems[s] EXCEPT !.waiters = left(s)]]
      /\ drain' = [at |-> IF drain.tids = {t} THEN "idle" ELSE "purge", tids |-> drain.tids \ {t}]
      /\ tstate' = tstate /\ on' = on /\ pending' = pending /\ owed' = owed
  BY DEF DrainPurge
<1>2. ASSUME NEW s \in Sem
      PROVE  /\ left(s) \in Seq(Tid) /\ Len(left(s)) <= SEM_MAX_WAITERS
             /\ Queued(left(s)) \subseteq Waiters(s)
             /\ \A u \in Tid : u # t \/ Alive(t) => (u \in Waiters(s) <=> u \in Queued(left(s)))
             /\ (\A i, j \in DOMAIN sems[s].waiters : sems[s].waiters[i] = sems[s].waiters[j] => i = j)
                  => \A i, j \in DOMAIN left(s) : left(s)[i] = left(s)[j] => i = j
  <2> DEFINE q == sems[s].waiters
  <2>1. q \in Seq(Tid) /\ Len(q) <= SEM_MAX_WAITERS /\ Len(q) \in Nat /\ Waiters(s) = Queued(q)
    BY SemAt DEF Waiters
  <2>2. CASE ~sems[s].in_use
    BY <2>1, <2>2
  <2>3. CASE sems[s].in_use
    <3> HIDE DEF q
    <3>1. left(s) = Purge(q, t)
      BY <2>3 DEF q
    <3> HIDE DEF left
    <3>2. /\ Purge(q, t) \in Seq(Tid) /\ Len(Purge(q, t)) <= Len(q)
          /\ Queued(Purge(q, t)) \subseteq Queued(q)
          /\ \A u \in Queued(q) : u # t \/ Alive(t) => u \in Queued(Purge(q, t))
          /\ (\A i, j \in DOMAIN q : q[i] = q[j] => i = j)
               => \A i, j \in DOMAIN Purge(q, t) : Purge(q, t)[i] = Purge(q, t)[j] => i = j
      BY <2>1, PurgedQueue
    <3>3. Len(Purge(q, t)) <= SEM_MAX_WAITERS
      BY <2>1, <3>2, SemAssumption
    <3> QED
      BY <2>1, <3>1, <3>2, <3>3 DEF q
  <2> QED
    BY <2>2, <2>3
<1> HIDE DEF left
<1>3. /\ sems' \in [Sem -> [in_use : BOOLEAN, count : Nat, waiters : Seq(Tid)]]
      /\ \A s \in Sem : /\ sems'[s].in_use = sems[s].in_use /\ sems'[s].count = sems[s].count
                        /\ sems'[s].waiters = left(s)
  <2> DEFINE B == BOOLEAN
             C == Nat
             W == Seq(Tid)
  <2>1. sems \in [Sem -> [in_use : B, count : C, waiters : W]]
    BY DEF SemTypeOK
  <2>2. \A s \in Sem : left(s) \in W
    BY <1>2
  <2> HIDE DEF B, C, W
  <2>3. /\ sems' \in [Sem -> [in_use : B, count : C, waiters : W]]
        /\ \A s \in Sem : /\ sems'[s].in_use = sems[s].in_use /\ sems'[s].count = sems[s].count
                          /\ sems'[s].waiters = left(s)
    BY <1>1, <2>1, <2>2
  <2> QED
    BY <2>3 DEF B, C, W
<1>4. SemTypeOK'
  <2>1. drain' \in [at : {"idle", "read", "purge"}, tids : SUBSET Tid]
    BY <1>1 DEF SemTypeOK
  <2> QED
    BY <1>1, <1>2, <1>3, <2>1 DEF SemTypeOK
<1>5. \A s \in Sem : \A u \in Tid : u # t \/ Alive(t) => (u \in Waiters(s) <=> u \in Waiters(s)')
  BY <1>2, <1>3 DEF Waiters
<1>6. Parks'
  <2>1. NoneForgotten'
    <3> SUFFICES ASSUME NEW u \in Tid, tstate[u] = "BLOCKED"
                 PROVE  /\ on[u] \in Sem /\ sems'[on[u]].in_use
                        /\ u \in Queued(sems'[on[u]].waiters)
      BY <1>1 DEF NoneForgotten, Waiters
    <3>1. on[u] \in Sem /\ sems[on[u]].in_use /\ u \in Waiters(on[u])
      BY DEF NoneForgotten
    <3>2. u # t \/ Alive(t)
      BY DEF Alive
    <3> QED
      BY <1>3, <1>5, <3>1, <3>2 DEF Waiters
  <2>2. NoIdleToken'
    BY <1>1, <1>3 DEF NoIdleToken
  <2> QED
    BY <1>1, <2>1, <2>2 DEF Gone, Alive
<1>7. ASSUME owed' # None
      PROVE  Clean'
  <2>1. Clean
    BY <1>1, <1>7
  <2>2. Open'
    BY <1>1, <1>3, <2>1 DEF Clean, Open
  <2>3. Honest'
    BY <1>1, <1>2, <1>3, <2>1 DEF Clean, Honest, Alive, Waiters
  <2>4. NoTwice'
    BY <1>2, <1>3, <2>1 DEF Clean, NoTwice
  <2>5. \A u \in Sem : Woken(u)' = Woken(u)
    <3> TAKE u \in Sem
    <3>1. \A x : x \in Woken(u)' <=> x \in Woken(u)
      BY <1>1, <1>5 DEF Woken, Alive
    <3> QED
      BY <3>1
  <2>6. TokensConserved'
    <3> SUFFICES ASSUME NEW u \in Sem, sems'[u].in_use
                 PROVE  owed'[u] = sems'[u].count + Cardinality(Woken(u)')
      BY DEF TokensConserved
    <3>1. owed[u] = sems[u].count + Cardinality(Woken(u))
      BY <1>1, <1>3, <1>7, <2>1 DEF Clean, TokensConserved
    <3>2. Cardinality(Woken(u)') = Cardinality(Woken(u))
      BY <2>5
    <3> QED
      BY <1>1, <1>3, <3>1, <3>2
  <2> QED
    BY <2>2, <2>3, <2>4, <2>6 DEF Clean
<1> QED
  BY <1>4, <1>6, <1>7

\* sem_destroy wakes all its waiters.
LEMMA DestroyStep ==
  ASSUME SemInv, NEW t \in Tid, NEW s \in Sem, sem_destroy(t, s)
  PROVE  SemInv'
<1> USE DEF SemInv, Parks
<1>1. /\ sems[s].in_use
      /\ sems' = [sems EXCEPT ![s].in_use = FALSE, ![s].waiters = <<>>]
      /\ tstate' = Readied(Waiters(s)) /\ on' = on /\ pending' = pending /\ drain' = drain
      /\ owed' = owed \/ owed' = None
      /\ owed' # None => owed' = owed /\ \A u \in Tid : on[u] # s
  BY DEF sem_destroy, Spoil
<1>2. /\ sems' \in [Sem -> [in_use : BOOLEAN, count : Nat, waiters : Seq(Tid)]]
      /\ \A u \in Sem : Len(sems'[u].waiters) <= SEM_MAX_WAITERS
      /\ sems'[s].in_use = FALSE /\ sems'[s].count = sems[s].count /\ sems'[s].waiters = <<>>
      /\ \A u \in Sem : u # s => sems'[u] = sems[u] /\ Waiters(u)' = Waiters(u)
      /\ Waiters(s)' = {}
  <2> DEFINE n == sems[s].count
  <2>1. n \in Nat /\ <<>> \in Seq(Tid) /\ Len(<<>>) <= SEM_MAX_WAITERS /\ FALSE \in BOOLEAN
    BY SemAt, SemAssumption
  <2>2. Queued(<<>>) = {}
    BY DEF Queued
  <2>3. n = sems[s].count
    OBVIOUS
  <2> HIDE DEF n
  <2>4. Changed(s, FALSE, n, <<>>)
    BY <1>1, <2>1, <2>3, ChangedSem
  <2>5. /\ \A u \in Sem : Len(sems'[u].waiters) <= SEM_MAX_WAITERS
        /\ \A u \in Sem : u # s => Waiters(u)' = Waiters(u)
        /\ Waiters(s)' = Queued(<<>>)
    BY <2>1, <2>4, ChangedType
  <2> QED
    BY <2>2, <2>3, <2>4, <2>5 DEF Changed
<1>3. /\ tstate' \in [Tid -> {"READY", "BLOCKED", "DEAD"}]
      /\ \A u \in Tid : tstate'[u] = IF u \in Waiters(s) /\ Alive(u) THEN "READY" ELSE tstate[u]
  BY <1>1 DEF Readied, SemTypeOK
<1>4. SemTypeOK'
  BY <1>1, <1>2, <1>3 DEF SemTypeOK
<1>5. \A u \in Tid : tstate'[u] = "BLOCKED" => tstate[u] = "BLOCKED" /\ u \notin Waiters(s) /\ on[u] # s
  BY <1>3 DEF NoneForgotten, Alive
<1>6. Parks'
  <2>1. NoneForgotten'
    <3> SUFFICES ASSUME NEW u \in Tid, tstate'[u] = "BLOCKED"
                 PROVE  /\ on[u] \in Sem /\ sems'[on[u]].in_use
                        /\ u \in Queued(sems'[on[u]].waiters)
      BY <1>1 DEF NoneForgotten, Waiters
    <3>1. on[u] \in Sem /\ sems[on[u]].in_use /\ u \in Waiters(on[u]) /\ on[u] # s
      BY <1>5 DEF NoneForgotten
    <3> QED
      BY <1>2, <3>1 DEF Waiters
  <2>2. NoIdleToken'
    BY <1>1, <1>2, <1>5 DEF NoIdleToken
  <2>3. Gone'
    BY <1>1, <1>3 DEF Gone, Alive
  <2> QED
    BY <2>1, <2>2, <2>3
<1>7. ASSUME owed' # None
      PROVE  Clean'
  <2>1. Clean /\ owed' = owed /\ \A u \in Tid : on[u] # s
    BY <1>1, <1>7
  <2>2. \A u \in Tid : tstate'[u] = tstate[u]
    BY <1>3, <2>1 DEF Clean, Honest
  <2>3. Open'
    BY <1>1, <1>2, <2>1 DEF Clean, Open
  <2>4. Honest'
    BY <1>1, <1>2, <2>1, <2>2 DEF Clean, Honest, Alive
  <2>5. NoTwice'
    <3>1. \A i \in DOMAIN sems'[s].waiters : FALSE
      BY <1>2
    <3> QED
      BY <1>2, <2>1, <3>1 DEF Clean, NoTwice
  <2>6. \A u \in Sem : u # s => Woken(u)' = Woken(u)
    <3> TAKE u \in Sem
    <3> HAVE u # s
    <3>1. \A x : x \in Woken(u)' <=> x \in Woken(u)
      BY <1>1, <1>2, <2>2 DEF Woken
    <3> QED
      BY <3>1
  <2>7. TokensConserved'
    <3> SUFFICES ASSUME NEW u \in Sem, sems'[u].in_use
                 PROVE  owed'[u] = sems'[u].count + Cardinality(Woken(u)')
      BY DEF TokensConserved
    <3>1. u # s
      BY <1>2
    <3>2. owed[u] = sems[u].count + Cardinality(Woken(u))
      BY <1>1, <1>2, <1>7, <2>1, <3>1 DEF Clean, TokensConserved
    <3>3. Cardinality(Woken(u)') = Cardinality(Woken(u))
      BY <2>6, <3>1
    <3> QED
      BY <1>2, <2>1, <3>1, <3>2, <3>3
  <2> QED
    BY <2>3, <2>4, <2>5, <2>7 DEF Clean
<1> QED
  BY <1>4, <1>6, <1>7

\* sem_post wakes the first live waiter, or counts the token.
LEMMA PostStep ==
  ASSUME SemInv, NEW t \in Tid, NEW s \in Sem, sem_post(t, s)
  PROVE  SemInv'
<1> USE DEF SemInv, Parks
<1> DEFINE q == sems[s].waiters
           w == wake_one(q)
           r == After(q, w)
           n == IF w = {} THEN sems[s].count + 1 ELSE sems[s].count
           woke == {q[i] : i \in w}
<1>1. /\ sems[s].in_use
      /\ sems' = [sems EXCEPT ![s].waiters = r, ![s].count = n]
      /\ tstate' = Readied(woke)
      /\ Owe([u \in {s} |-> owed[u] + 1])
      /\ on' = on /\ pending' = pending /\ drain' = drain
  BY DEF sem_post
<1>2. /\ q \in Seq(Tid) /\ Len(q) <= SEM_MAX_WAITERS /\ Len(q) \in Nat
      /\ sems[s].count \in Nat /\ Waiters(s) = Queued(q)
      /\ \A u : u \in Waiters(s) <=> \E i \in 1 .. Len(q) : q[i] = u
      /\ DOMAIN q = 1 .. Len(q)
  <2>1. q \in Seq(Tid) /\ Len(q) <= SEM_MAX_WAITERS /\ sems[s].count \in Nat /\ Waiters(s) = Queued(q)
    BY SemAt DEF Waiters
  <2> HIDE DEF q
  <2> QED
    BY <2>1, QueuedAt
\* Nobody is woken, or one live thread is and the dead before it are dropped.
<1>3. /\ r \in Seq(Tid) /\ Len(r) <= Len(q) /\ Len(r) \in Nat /\ DOMAIN r = 1 .. Len(r)
      /\ \/ w = {} /\ r = <<>> /\ \A i \in 1 .. Len(q) : ~Alive(q[i])
         \/ \E m \in 1 .. Len(q) :
              /\ w = {m} /\ Alive(q[m]) /\ \A i \in 1 .. Len(q) : i < m => ~Alive(q[i])
              /\ Len(r) = Len(q) - m /\ \A j \in 1 .. Len(q) - m : r[j] = q[m + j]
  <2>1. \/ /\ w = {} /\ r = <<>>
           /\ \A i \in 1 .. Len(q) : ~Alive(q[i])
        \/ \E m \in 1 .. Len(q) :
             /\ w = {m} /\ Alive(q[m])
             /\ \A i \in 1 .. Len(q) : i < m => ~Alive(q[i])
             /\ r \in Seq(Tid)
             /\ Len(r) = Len(q) - m
             /\ \A j \in 1 .. Len(q) - m : r[j] = q[m + j]
    <3> HIDE DEF q
    <3> QED
      BY <1>2, WakeOne
  <2> HIDE DEF r, w, q
  <2>2. CASE w = {} /\ r = <<>> /\ \A i \in 1 .. Len(q) : ~Alive(q[i])
    <3>1. r \in Seq(Tid) /\ Len(r) = 0 /\ DOMAIN r = 1 .. Len(r)
      BY <2>2
    <3>2. Len(r) \in Nat /\ Len(r) <= Len(q)
      BY <1>2, <3>1
    <3> QED
      BY <2>2, <3>1, <3>2
  <2>3. CASE ~(w = {} /\ r = <<>> /\ \A i \in 1 .. Len(q) : ~Alive(q[i]))
    <3>1. PICK m \in 1 .. Len(q) :
             /\ w = {m} /\ Alive(q[m])
             /\ \A i \in 1 .. Len(q) : i < m => ~Alive(q[i])
             /\ r \in Seq(Tid)
             /\ Len(r) = Len(q) - m
             /\ \A j \in 1 .. Len(q) - m : r[j] = q[m + j]
      BY <2>1, <2>3
    <3>2. Len(r) \in Nat /\ DOMAIN r = 1 .. Len(r)
      BY <3>1
    <3>3. Len(r) <= Len(q)
      BY <1>2, <3>1
    <3> QED
      BY <3>1, <3>2, <3>3
  <2> QED
    BY <2>2, <2>3
\* What stays listed is listed before.
<1>4. \A u : u \in Queued(r) => u \in Waiters(s)
  <2> HIDE DEF q, w, r
  <2>1. CASE r = <<>>
    BY <2>1 DEF Queued
  <2>2. CASE r # <<>>
    <3>1. PICK m \in 1 .. Len(q) : Len(r) = Len(q) - m /\ \A j \in 1 .. Len(q) - m : r[j] = q[m + j]
      BY <1>3, <2>2
    <3>2. \A j \in 1 .. Len(r) : m + j \in 1 .. Len(q) /\ r[j] = q[m + j]
      BY <1>2, <3>1
    <3>3. \A u : u \in Queued(r) => \E j \in 1 .. Len(r) : r[j] = u
      BY <1>3, QueuedAt
    <3> QED
      BY <1>2, <3>2, <3>3
  <2> QED
    BY <2>1, <2>2
\* Who is alive and not woken stays listed.
<1>5. \A u : u \in Waiters(s) /\ Alive(u) /\ u \notin woke => u \in Queued(r)
  <2> SUFFICES ASSUME NEW u, u \in Waiters(s), Alive(u), u \notin woke
               PROVE  u \in Queued(r)
    OBVIOUS
  <2> HIDE DEF q, w, r
  <2>1. PICK i \in 1 .. Len(q) : q[i] = u
    BY <1>2
  <2>2. PICK m \in 1 .. Len(q) : /\ w = {m} /\ \A j \in 1 .. Len(q) : j < m => ~Alive(q[j])
                                 /\ Len(r) = Len(q) - m /\ \A j \in 1 .. Len(q) - m : r[j] = q[m + j]
    BY <1>3, <2>1
  <2>3. i > m
    <3>1. i # m
      BY <2>1, <2>2
    <3>2. ~(i < m)
      <4>1. i < m => ~Alive(q[i])
        BY <2>2, Zenon
      <4> QED
        BY <2>1, <4>1
    <3>3. i \in Int /\ m \in Int
      BY <1>2
    <3> QED
      BY <3>1, <3>2, <3>3
  <2>4. i - m \in 1 .. Len(r) /\ m + (i - m) = i
    BY <1>2, <2>2, <2>3
  <2>5. r[i - m] = u
    BY <2>1, <2>2, <2>4
  <2> QED
    BY <1>3, <2>4, <2>5 DEF Queued
<1>6. /\ sems' \in [Sem -> [in_use : BOOLEAN, count : Nat, waiters : Seq(Tid)]]
      /\ \A u \in Sem : Len(sems'[u].waiters) <= SEM_MAX_WAITERS
      /\ sems'[s].in_use = TRUE /\ sems'[s].count = n /\ sems'[s].waiters = r
      /\ \A u \in Sem : u # s => sems'[u] = sems[u] /\ Waiters(u)' = Waiters(u)
      /\ Waiters(s)' = Queued(r)
  <2>1. n \in Nat
    BY <1>2
  <2>2. Len(r) <= SEM_MAX_WAITERS
    <3> HIDE DEF q, w, r
    <3> QED
      BY <1>2, <1>3, SemAssumption
  <2> HIDE DEF q, w, r, n
  <2>3. Changed(s, TRUE, n, r)
    BY <1>1, <1>3, <2>1, ChangedSem
  <2>4. /\ \A u \in Sem : Len(sems'[u].waiters) <= SEM_MAX_WAITERS
        /\ \A u \in Sem : u # s => Waiters(u)' = Waiters(u)
        /\ Waiters(s)' = Queued(r)
    BY <1>3, <2>2, <2>3, ChangedType
  <2> QED
    BY <2>3, <2>4 DEF Changed
<1>7. /\ owed' = None \/ owed' \in [Sem -> Int]
      /\ owed' # None => /\ owed # None
                         /\ \A u \in Sem : owed'[u] = IF u = s THEN owed[s] + 1 ELSE owed[u]
  <2> DEFINE new == [u \in {s} |-> owed[u] + 1]
  <2>1. DOMAIN new = {s} /\ new[s] = owed[s] + 1
    OBVIOUS
  <2>2. \A u \in Sem : owed # None /\ u \in DOMAIN new => new[u] \in Int
    BY <2>1 DEF SemTypeOK
  <2>3. Owe(new)
    BY <1>1
  <2> HIDE DEF new
  <2> QED
    BY <2>1, <2>2, <2>3, OweType
<1>8. /\ woke \subseteq Waiters(s) /\ \A u \in woke : Alive(u)
      /\ w # {} => \E u \in Tid : woke = {u}
      /\ w = {} => woke = {} /\ \A u \in Waiters(s) : ~Alive(u)
  <2> HIDE DEF r
  <2>1. CASE w = {}
    <3> HIDE DEF q, w
    <3> QED
      BY <1>2, <1>3, <2>1
  <2>2. CASE w # {}
    <3> HIDE DEF q, w
    <3>1. PICK m \in 1 .. Len(q) : w = {m} /\ Alive(q[m])
      BY <1>3, <2>2
    <3>2. woke = {q[m]} /\ q[m] \in Tid
      BY <1>2, <3>1
    <3> HIDE DEF woke
    <3> QED
      BY <1>2, <2>2, <3>1, <3>2
  <2> QED
    BY <2>1, <2>2
<1> HIDE DEF q, r, w, woke
<1>9. /\ tstate' \in [Tid -> {"READY", "BLOCKED", "DEAD"}]
      /\ \A u \in Tid : tstate'[u] = IF u \in woke THEN "READY" ELSE tstate[u]
  BY <1>1, <1>8 DEF Readied, SemTypeOK
<1>10. SemTypeOK'
  BY <1>1, <1>6, <1>7, <1>9 DEF SemTypeOK
<1>11. Parks'
  <2>1. NoneForgotten'
    <3> SUFFICES ASSUME NEW u \in Tid, tstate'[u] = "BLOCKED"
                 PROVE  /\ on[u] \in Sem /\ sems'[on[u]].in_use
                        /\ u \in Queued(sems'[on[u]].waiters)
      BY <1>1 DEF NoneForgotten, Waiters
    <3>1. u \notin woke /\ tstate[u] = "BLOCKED"
      BY <1>9
    <3>2. on[u] \in Sem /\ sems[on[u]].in_use /\ u \in Waiters(on[u])
      BY <3>1 DEF NoneForgotten
    <3>3. CASE on[u] = s
      <4>1. u \in Queued(r)
        BY <1>5, <3>1, <3>2, <3>3 DEF Alive
      <4> QED
        BY <1>6, <3>2, <3>3, <4>1
    <3>4. CASE on[u] # s
      BY <1>6, <3>2, <3>4 DEF Waiters
    <3> QED
      BY <3>3, <3>4
  <2>2. NoIdleToken'
    <3> SUFFICES ASSUME NEW v \in Sem, NEW u \in Tid,
                        sems'[v].count > 0, tstate'[u] = "BLOCKED", on[u] = v
                 PROVE  FALSE
      BY <1>1 DEF NoIdleToken
    <3>1. u \notin woke /\ tstate[u] = "BLOCKED"
      BY <1>9
    <3>2. u \in Waiters(v) /\ ~(sems[v].count > 0)
      BY <3>1 DEF NoneForgotten, NoIdleToken
    <3>3. v = s
      BY <1>6, <3>2
    <3>4. w = {}
      BY <1>6, <3>2, <3>3
    <3> QED
      BY <1>8, <3>1, <3>2, <3>3, <3>4 DEF Alive
  <2>3. Gone'
    BY <1>1, <1>8, <1>9 DEF Gone, Alive
  <2> QED
    BY <2>1, <2>2, <2>3
<1>12. ASSUME owed' # None
       PROVE  Clean'
  <2>1. Clean
    BY <1>7, <1>12
  <2>2. \A u \in woke : u \in Tid /\ tstate[u] = "BLOCKED" /\ on[u] = s
    <3>1. woke \subseteq Tid
      BY <1>8, SemAt
    <3> QED
      BY <1>8, <2>1, <3>1 DEF Clean, Honest
  \* Each live thread is listed once, so the woken one is not listed any more.
  <2>3. \A u \in woke : u \notin Queued(r)
    <3> SUFFICES ASSUME NEW u \in woke, u \in Queued(r)
                 PROVE  FALSE
      OBVIOUS
    <3>1. \A i, j \in 1 .. Len(q) : q[i] = q[j] => i = j
      BY <1>2, <2>1 DEF Clean, NoTwice, q
    <3>2. PICK m \in 1 .. Len(q) : /\ w = {m} /\ Len(r) = Len(q) - m
                                   /\ \A j \in 1 .. Len(q) - m : r[j] = q[m + j]
      BY <1>3 DEF woke
    <3>3. u = q[m]
      BY <3>2 DEF woke
    <3>4. PICK j \in 1 .. Len(r) : r[j] = u
      BY <1>3 DEF Queued
    <3>5. m + j \in 1 .. Len(q) /\ m + j # m /\ r[j] = q[m + j]
      BY <1>2, <3>2, <3>4
    <3> QED
      BY <3>1, <3>2, <3>3, <3>4, <3>5
  <2>4. Open'
    BY <1>1, <1>6, <2>1 DEF Clean, Open
  <2>5. Honest'
    <3> SUFFICES ASSUME NEW v \in Sem, NEW u \in Tid, u \in Waiters(v)', tstate'[u] # "DEAD"
                 PROVE  tstate'[u] = "BLOCKED" /\ on[u] = v
      BY <1>1 DEF Honest, Alive
    <3>1. u \in Waiters(v)
      BY <1>4, <1>6
    <3>2. Alive(u)
      BY <1>8, <1>9 DEF Alive
    <3>3. tstate[u] = "BLOCKED" /\ on[u] = v
      BY <2>1, <3>1, <3>2 DEF Clean, Honest
    <3>4. u \notin woke
      BY <1>6, <2>2, <2>3, <3>3
    <3> QED
      BY <1>9, <3>3, <3>4
  <2>6. NoTwice'
    <3>1. \A i, j \in 1 .. Len(q) : q[i] = q[j] => i = j
      BY <1>2, <2>1 DEF Clean, NoTwice, q
    <3>2. ASSUME NEW i \in 1 .. Len(r), NEW j \in 1 .. Len(r), r[i] = r[j]
          PROVE  i = j
      <4>1. r # <<>>
        BY <3>2
      <4>2. PICK m \in 1 .. Len(q) : /\ Len(r) = Len(q) - m
                                     /\ \A k \in 1 .. Len(q) - m : r[k] = q[m + k]
        BY <1>3, <4>1
      <4>3. m + i \in 1 .. Len(q) /\ m + j \in 1 .. Len(q) /\ q[m + i] = q[m + j]
        BY <1>2, <3>2, <4>2
      <4>4. m + i = m + j
        BY <3>1, <4>3
      <4> QED
        BY <4>2, <4>4
    <3>3. \A i, j \in DOMAIN r : r[i] = r[j] => i = j
      BY <1>3, <3>2
    <3>4. \A v \in Sem : v # s => \A i, j \in DOMAIN sems[v].waiters :
             sems[v].waiters[i] = sems[v].waiters[j] => i = j
      BY <2>1 DEF Clean, NoTwice
    <3> SUFFICES ASSUME NEW v \in Sem
                 PROVE  \A i, j \in DOMAIN sems'[v].waiters :
                          sems'[v].waiters[i] = sems'[v].waiters[j] => i = j
      BY DEF NoTwice
    <3>5. CASE v = s
      BY <1>6, <3>3, <3>5
    <3>6. CASE v # s
      BY <1>6, <3>4, <3>6
    <3> QED
      BY <3>5, <3>6
  <2>7. \A u \in Sem : u # s => Woken(u)' = Woken(u)
    <3> TAKE u \in Sem
    <3> HAVE u # s
    <3>1. \A x : x \in Woken(u)' <=> x \in Woken(u)
      BY <1>1, <1>6, <1>9, <2>2 DEF Woken
    <3> QED
      BY <3>1
  <2>8. Woken(s)' = Woken(s) \cup woke /\ \A u \in woke : u \notin Woken(s)
    <3>1. \A u \in woke : u \in Woken(s)' /\ u \notin Woken(s)
      BY <1>1, <1>6, <1>9, <2>2, <2>3 DEF Woken
    <3>2. \A u : u \notin woke => (u \in Woken(s)' <=> u \in Woken(s))
      BY <1>1, <1>4, <1>5, <1>6, <1>9 DEF Woken, Alive
    <3> QED
      BY <3>1, <3>2
  <2>9. Cardinality(Woken(s)') = IF w = {} THEN Cardinality(Woken(s)) ELSE Cardinality(Woken(s)) + 1
    <3>1. CASE w = {}
      <4>1. Woken(s)' = Woken(s)
        BY <1>8, <2>8, <3>1
      <4> QED
        BY <3>1, <4>1
    <3>2. CASE w # {}
      <4>1. PICK u \in Tid : woke = {u}
        BY <1>8, <3>2
      <4>2. Woken(s)' = Woken(s) \cup {u} /\ u \notin Woken(s)
        BY <2>8, <4>1
      <4>3. Cardinality(Woken(s)') = Cardinality(Woken(s)) + 1
        BY <4>2, WokenFinite, OneMore
      <4> QED
        BY <3>2, <4>3
    <3> QED
      BY <3>1, <3>2
  <2>10. TokensConserved'
    <3> SUFFICES ASSUME NEW u \in Sem, sems'[u].in_use
                 PROVE  owed'[u] = sems'[u].count + Cardinality(Woken(u)')
      BY DEF TokensConserved
    <3>1. owed[u] = sems[u].count + Cardinality(Woken(u))
      BY <1>1, <1>6, <1>7, <1>12, <2>1 DEF Clean, TokensConserved
    <3>2. CASE u # s
      <4>1. Cardinality(Woken(u)') = Cardinality(Woken(u))
        BY <2>7, <3>2
      <4> QED
        BY <1>6, <1>7, <1>12, <3>1, <3>2, <4>1
    <3>3. CASE u = s
      <4>1. Cardinality(Woken(u)') = IF w = {} THEN Cardinality(Woken(u)) ELSE Cardinality(Woken(u)) + 1
        BY <2>9, <3>3
      <4>2. Cardinality(Woken(u)) \in Nat /\ sems[u].count \in Nat
        BY WokenFinite, SemAt
      <4> QED
        BY <1>6, <1>7, <1>12, <3>1, <3>3, <4>1, <4>2
    <3> QED
      BY <3>2, <3>3
  <2> QED
    BY <2>4, <2>5, <2>6, <2>10 DEF Clean
<1> QED
  BY <1>10, <1>11, <1>12

-----------------------------------------------------------------------------
LEMMA SemInitially == SemInit => SemInv
<1> SUFFICES ASSUME SemInit
             PROVE  SemInv
  OBVIOUS
<1>1. /\ \A t \in Tid : tstate[t] = "READY" /\ on[t] = None
      /\ \A s \in Sem : ~sems[s].in_use /\ sems[s].count = 0 /\ sems[s].waiters = <<>>
  BY DEF SemInit
<1>2. \A s \in Sem : Waiters(s) = {}
  BY <1>1 DEF Waiters, Queued
<1>3. Parks
  BY <1>1 DEF Parks, NoneForgotten, NoIdleToken, Gone, Alive
<1>4. Open /\ Honest /\ TokensConserved
  BY <1>1, <1>2, SemAssumption DEF Open, Honest, TokensConserved
<1>5. NoTwice
  <2>1. \A s \in Sem : \A i \in DOMAIN sems[s].waiters : FALSE
    BY <1>1
  <2> QED
    BY <2>1 DEF NoTwice
<1> QED
  BY <1>3, <1>4, <1>5, SemType DEF SemInv, Clean

LEMMA DrainStep ==
  ASSUME SemInv, DrainRead \/ DrainClear
  PROVE  SemInv'
<1>1. /\ sems' = sems /\ on' = on /\ tstate' = tstate /\ owed' = owed
      /\ pending' \subseteq Tid /\ drain' \in [at : {"idle", "read", "purge"}, tids : SUBSET Tid]
  BY DEF DrainRead, DrainClear, SemInv, SemTypeOK
<1>2. \A s : Waiters(s)' = Waiters(s) /\ Woken(s)' = Woken(s)
  BY <1>1 DEF Waiters, Woken
<1>3. SemTypeOK'
  BY <1>1 DEF SemInv, SemTypeOK
<1>4. Parks'
  BY <1>1, <1>2 DEF SemInv, Parks, NoneForgotten, NoIdleToken, Gone, Alive, Waiters
<1>5. (owed # None => Clean)'
  <2>1. Open' = Open /\ NoTwice' = NoTwice
    BY <1>1 DEF Open, NoTwice
  <2>2. Honest' = Honest /\ TokensConserved' = TokensConserved
    BY <1>1, <1>2 DEF Honest, TokensConserved, Alive
  <2> QED
    BY <1>1, <2>1, <2>2 DEF SemInv, Clean
<1> QED
  BY <1>3, <1>4, <1>5 DEF SemInv

LEMMA SemStep ==
  ASSUME SemInv, [SemNext]_semVars
  PROVE  SemInv'
<1>1. CASE UNCHANGED semVars
  BY <1>1 DEF semVars, SemInv, SemTypeOK, Parks, NoneForgotten, NoIdleToken, Gone, Clean, Open,
              Honest, NoTwice, TokensConserved, Alive, Waiters, Woken
<1>2. CASE SemNext
  BY <1>2, CreateStep, DestroyStep, PostStep, TakeStep, ParkStep, ReturnStep, SignalStep,
     KillStep, ReuseStep, PurgeStep, DrainStep DEF SemNext
<1> QED
  BY <1>1, <1>2

LEMMA SemInvariant == SemSpec => []SemInv
<1>1. SemInv /\ [SemNext]_semVars => SemInv'
  BY SemStep
<1> QED
  BY <1>1, SemInitially, PTL DEF SemSpec

\* Semaphores and their queues keep their types, and a queue its bound.
THEOREM SemTypes == SemSpec => []SemTypeOK
<1>1. SemInv => SemTypeOK
  BY DEF SemInv
<1> QED
  BY <1>1, SemInvariant, PTL

\* "No wake path can reach an unlisted waiter": there is none.  Whatever signals, deaths, reused
\* slots, purges and destroyed semaphores do, sem_post and sem_destroy find every
\* parked thread in the queue of the semaphore it waits for.
THEOREM WaitersListed == SemSpec => []NoneForgotten
<1>1. SemInv => NoneForgotten
  BY DEF SemInv, Parks
<1> QED
  BY <1>1, SemInvariant, PTL

\* No thread is parked on a semaphore with a token.
THEOREM TokensUsed == SemSpec => []NoIdleToken
<1>1. SemInv => NoIdleToken
  BY DEF SemInv, Parks
<1> QED
  BY <1>1, SemInvariant, PTL

\* As long as waits end by posts and no listed slot is reused, every token posted
\* is counted, taken, or on its way to one thread: dead waiters make and swallow none.
THEOREM TokensKept == SemSpec => []TokensConserved
<1>1. SemInv => TokensConserved
  BY DEF SemInv, Clean, TokensConserved
<1> QED
  BY <1>1, SemInvariant, PTL

-----------------------------------------------------------------------------
(* Futexes *)

\* What the argument needs of the types.
Typed == /\ mem \in [Word -> Int]
         /\ pc \in [Thread -> PC]

\* The lock word is 1 while somebody is inside.
Held == \A t \in Thread : Inside(t) => mem["mu"] = 1

MutexInv == Typed /\ Held /\ OneInside

\* Where a step may take t without touching the lock word: not inside, unless
\* it was inside before.
Moves(t, ps) == \E p \in ps : pc' = [pc EXCEPT ![t] = p]

Outside == {"lock", "spin", "fwait", "flock", "parked", "cwake", "uwake", "lwake", "done"}

-----------------------------------------------------------------------------
\* A thread that is outside moves on outside: the park, its return, the spin and
\* the wake after an unlock keep the mutex as it is.
LEMMA OutsideStep ==
  ASSUME MutexInv, NEW t \in Thread, mem' = mem, Moves(t, Outside)
  PROVE  MutexInv'
BY DEF MutexInv, Typed, Held, OneInside, Inside, Moves, Outside, PC

\* The holder goes from one place of its critical section to another and writes
\* at most a sequence counter: mct_cond_wait, _signal and _broadcast.
LEMMA InsideStep ==
  ASSUME MutexInv, NEW t \in Thread, Inside(t),
         mem' \in [Word -> Int], mem'["mu"] = mem["mu"], Moves(t, PC \ Outside)
  PROVE  MutexInv'
BY DEF MutexInv, Typed, Held, OneInside, Inside, Moves, Outside, PC

\* lock cmpxchgl: the thread that finds 0 finds nobody inside.
LEMMA LockStep ==
  ASSUME MutexInv, NEW t \in Thread, Lock(t)
  PROVE  MutexInv'
<1>1. mem' = [mem EXCEPT !["mu"] = 1] /\ mem' \in [Word -> Int] /\ mem'["mu"] = 1
  BY DEF Lock, MutexInv, Typed, Word
<1>2. CASE mem["mu"] = 0
  <2>1. pc' = [pc EXCEPT ![t] = "check"]
    BY <1>2 DEF Lock, Goto
  <2>2. \A u \in Thread : ~Inside(u)
    BY <1>2 DEF MutexInv, Held
  <2> QED
    BY <1>1, <2>1, <2>2 DEF MutexInv, Typed, Held, OneInside, Inside, PC
<1>3. CASE mem["mu"] # 0
  <2>1. pc' = [pc EXCEPT ![t] = "spin"]
    BY <1>3 DEF Lock, Goto
  <2> QED
    BY <1>1, <2>1 DEF MutexInv, Typed, Held, OneInside, Inside, PC
<1> QED
  BY <1>2, <1>3

\* m->lock = 0: the only thread inside leaves with the store.
LEMMA UnlockStep ==
  ASSUME MutexInv, NEW t \in Thread, Unlock(t)
  PROVE  MutexInv'
<1>1. mem' \in [Word -> Int]
  BY DEF Unlock, MutexInv, Typed, Word
<1>2. Inside(t) /\ Moves(t, {"cwake", "uwake", "lwake"})
  BY DEF Unlock, Running, Goto, Inside, Moves
<1>3. \A u \in Thread \ {t} : ~Inside(u)
  BY <1>2 DEF MutexInv, OneInside
<1> QED
  BY <1>1, <1>2, <1>3 DEF MutexInv, Typed, Held, OneInside, Inside, Moves, PC

\* The loops of conddemo and the wakes of its condition variables.
LEMMA HolderStep ==
  ASSUME MutexInv, NEW t \in Thread,
         Produce(t) \/ Consume(t) \/ CondSignal(t) \/ CondBroadcast(t) \/ CondRequeue(t)
  PROVE  MutexInv'
<1> USE DEF MutexInv, Typed, Word
<1>1. Inside(t)
  BY DEF Produce, Consume, CondSignal, CondBroadcast, CondRequeue, Running, Inside
<1>2. ASSUME NEW w \in {"not_full", "not_empty"}, CondWait(t, w)
      PROVE  MutexInv'
  <2>1. mem' = mem /\ Moves(t, PC \ Outside)
    BY <1>2 DEF CondWait, Goto, Moves, PC, Outside
  <2> QED
    BY <1>1, <2>1, InsideStep
<1>3. ASSUME NEW w \in {"not_full", "not_empty"},
             NEW p \in {"signal", "broadcast", "requeue"}, CondBump(t, w, p)
      PROVE  MutexInv'
  <2>1. mem' \in [Word -> Int] /\ mem'["mu"] = mem["mu"]
    BY <1>3 DEF CondBump
  <2>2. Moves(t, PC \ Outside)
    BY <1>3 DEF CondBump, Goto, Moves, PC, Outside
  <2> QED
    BY <1>1, <2>1, <2>2, InsideStep
<1>4. ASSUME NEW p \in {"unlock", "leave"}, Goto(t, p), mem' = mem
      PROVE  MutexInv'
  <2>1. Moves(t, PC \ Outside)
    BY <1>4 DEF Goto, Moves, PC, Outside
  <2> QED
    BY <1>1, <1>4, <2>1, InsideStep
<1>5. CASE Produce(t)
  BY <1>2, <1>3, <1>5 DEF Produce
<1>6. CASE Consume(t)
  BY <1>2, <1>3, <1>4, <1>6 DEF Consume
<1>7. CASE CondSignal(t)
  BY <1>3, <1>4, <1>7 DEF CondSignal
<1>8. CASE CondBroadcast(t)
  BY <1>4, <1>8 DEF CondBroadcast
<1>9. CASE CondRequeue(t)
  BY <1>4, <1>9 DEF CondRequeue
<1> QED
  BY <1>5, <1>6, <1>7, <1>8, <1>9

\* Every step of a program keeps the invariant.
LEMMA ProgramStep ==
  ASSUME MutexInv, NEW t \in Thread, Program(t)
  PROVE  MutexInv'
<1>1. CASE Spin(t) \/ UnlockWake(t) \/ FutexCheck(t) \/ FutexPark(t) \/ FutexReturn(t)
  <2>1. mem' = mem
    BY <1>1 DEF Spin, UnlockWake, FutexCheck, FutexPark, FutexReturn
  <2>2. Moves(t, Outside)
    BY <1>1 DEF Spin, UnlockWake, FutexCheck, FutexPark, FutexReturn, Return, Goto,
                Moves, Outside
  <2> QED
    BY <2>1, <2>2, OutsideStep
<1>2. CASE Lock(t)
  BY <1>2, LockStep
<1>3. CASE Unlock(t)
  BY <1>3, UnlockStep
<1>4. CASE Produce(t) \/ Consume(t) \/ CondSignal(t) \/ CondBroadcast(t) \/ CondRequeue(t)
  BY <1>4, HolderStep
<1> QED
  BY <1>1, <1>2, <1>3, <1>4 DEF Program

\* So does every other step: a signal, a tick and the sweep change who is parked.
LEMMA NextStep ==
  ASSUME MutexInv, [Next]_vars
  PROVE  MutexInv'
<1>1. ASSUME mem' = mem, pc' = pc
      PROVE  MutexInv'
  BY <1>1 DEF MutexInv, Typed, Held, OneInside, Inside
<1>2. CASE \E t \in Thread : Program(t)
  BY <1>2, ProgramStep
<1>3. CASE \E t \in Thread : Signal(t)
  BY <1>1, <1>3 DEF Signal
<1>4. CASE Tick
  BY <1>1, <1>4 DEF Tick
<1>5. CASE futex_sweep
  BY <1>1, <1>5 DEF futex_sweep
<1>6. CASE UNCHANGED vars
  BY <1>1, <1>6 DEF vars
<1> QED
  BY <1>2, <1>3, <1>4, <1>5, <1>6 DEF Next, QuietNext

\* Mutual exclusion of mct_mutex_lock and mct_mutex_unlock: whatever wakes,
\* time-outs, signals and requeues do, two threads are never inside at once.
THEOREM MutualExclusion == Spec => []OneInside
<1>1. Init => MutexInv
  BY DEF Init, MutexInv, Typed, Held, OneInside, Inside, PC
<1>2. MutexInv /\ [Next]_vars => MutexInv'
  BY NextStep
<1>3. MutexInv => OneInside
  BY DEF MutexInv
<1> QED
  BY <1>1, <1>2, <1>3, PTL DEF Spec

-----------------------------------------------------------------------------
(* Queues of entries *)

Waiter == [tid : Thread, left : Nat]
Queue(w) == futexes[w].waiters
Lists(w, t) == t \in Listed(Queue(w))

LEMMA ListedAt ==
  ASSUME NEW q \in Seq(Waiter)
  PROVE  /\ DOMAIN q = 1 .. Len(q) /\ Len(q) \in Nat
         /\ \A i \in 1 .. Len(q) : q[i] \in Waiter /\ q[i].tid \in Thread
         /\ Listed(q) \subseteq Thread
         /\ \A t : t \in Listed(q) <=> \E i \in 1 .. Len(q) : q[i].tid = t
<1>1. DOMAIN q = 1 .. Len(q) /\ Len(q) \in Nat /\ \A i \in 1 .. Len(q) : q[i] \in Waiter
  OBVIOUS
<1>2. \A i \in 1 .. Len(q) : q[i].tid \in Thread
  BY <1>1 DEF Waiter
<1> QED
  BY <1>1, <1>2 DEF Listed

\* A wake of n splits the queue: nobody is in neither part.
LEMMA SplitQueue ==
  ASSUME NEW q \in Seq(Waiter), NEW n \in Nat
  PROVE  /\ Firsts(q, n) \in Seq(Waiter) /\ Behind(q, n) \in Seq(Waiter)
         /\ Len(Firsts(q, n)) = IF n < Len(q) THEN n ELSE Len(q)
         /\ Len(Behind(q, n)) = IF n < Len(q) THEN Len(q) - n ELSE 0
         /\ Listed(q) = Listed(Firsts(q, n)) \cup Listed(Behind(q, n))
<1>1. Len(q) \in Nat
  OBVIOUS
<1>2. CASE n < Len(q)
  <2> DEFINE f == Firsts(q, n)
             b == Behind(q, n)
  <2>1. n <= Len(q)
    BY <1>1, <1>2
  <2>2. f = SubSeq(q, 1, n) /\ b = SubSeq(q, n + 1, Len(q))
    BY <1>2 DEF Firsts, Behind
  <2> HIDE DEF f, b
  <2>3. /\ f \in Seq(Waiter) /\ Len(f) = n /\ \A j \in 1 .. n : f[j] = q[j]
        /\ b \in Seq(Waiter) /\ Len(b) = Len(q) - n /\ \A j \in 1 .. Len(q) - n : b[j] = q[n + j]
    BY <2>1, <2>2, FrontSeq, RestSeq
  <2>4. \A t : t \in Listed(q) => t \in Listed(f) \/ t \in Listed(b)
    <3> TAKE t
    <3> HAVE t \in Listed(q)
    <3>1. PICK i \in 1 .. Len(q) : q[i].tid = t
      BY ListedAt
    <3>2. CASE i <= n
      <4>1. i \in 1 .. Len(f) /\ f[i] = q[i]
        BY <2>3, <3>2
      <4> QED
        BY <2>3, <3>1, <4>1, ListedAt
    <3>3. CASE ~(i <= n)
      <4>1. i - n \in 1 .. Len(q) - n /\ n + (i - n) = i
        BY <1>1, <3>3
      <4>2. i - n \in 1 .. Len(b) /\ b[i - n] = q[i]
        BY <2>3, <4>1
      <4> QED
        BY <2>3, <3>1, <4>2, ListedAt
    <3> QED
      BY <3>2, <3>3
  <2>5. \A t : t \in Listed(f) => t \in Listed(q)
    <3> TAKE t
    <3> HAVE t \in Listed(f)
    <3>1. PICK i \in 1 .. Len(f) : f[i].tid = t
      BY <2>3, ListedAt
    <3>2. i \in 1 .. Len(q) /\ q[i] = f[i]
      BY <1>1, <2>1, <2>3
    <3> QED
      BY <3>1, <3>2, ListedAt
  <2>6. \A t : t \in Listed(b) => t \in Listed(q)
    <3> TAKE t
    <3> HAVE t \in Listed(b)
    <3>1. PICK i \in 1 .. Len(b) : b[i].tid = t
      BY <2>3, ListedAt
    <3>2. n + i \in 1 .. Len(q) /\ q[n + i] = b[i]
      BY <1>1, <2>1, <2>3
    <3> QED
      BY <3>1, <3>2, ListedAt
  <2>7. Listed(q) = Listed(f) \cup Listed(b)
    BY <2>4, <2>5, <2>6
  <2> QED
    BY <1>2, <2>3, <2>7 DEF f, b
<1>3. CASE ~(n < Len(q))
  <2>1. Firsts(q, n) = SubSeq(q, 1, Len(q)) /\ SubSeq(q, 1, Len(q)) = q
    BY <1>3, SubSeqFull DEF Firsts
  <2>2. Behind(q, n) = <<>>
    <3>1. n + 1 \in Int /\ Len(q) \in Int /\ Len(q) < n + 1
      BY <1>1, <1>3
    <3> QED
      BY <3>1, SubSeqEmpty DEF Behind
  <2>3. Listed(<<>>) = {} /\ <<>> \in Seq(Waiter) /\ Len(<<>>) = 0
    BY DEF Listed
  <2>4. Firsts(q, n) = q
    BY <2>1
  <2>5. Listed(q) = Listed(Firsts(q, n)) \cup Listed(Behind(q, n))
    BY <2>2, <2>3, <2>4
  <2> QED
    BY <1>3, <2>2, <2>3, <2>4, <2>5
<1> QED
  BY <1>2, <1>3

-----------------------------------------------------------------------------
(* The table of futexes *)

\* What the table and the states keep of their types
TableOK ==
  /\ futexes \in [Word -> [in_use : BOOLEAN, waiters : Seq(Waiter)]]
  /\ \A w \in Word : Len(Queue(w)) <= MAX_WAITERS /\ (Queue(w) # <<>> => futexes[w].in_use)
  /\ Slots(futexes) <= MAX_FUTEX
  /\ state \in [Thread -> {"READY", "BLOCKED"}]

\* Who is parked after a step was parked before it, and whoever was listed for a
\* word and stays parked stays listed for it; nobody new is listed.
Drops == /\ \A t \in Thread : state'[t] = "BLOCKED" => state[t] = "BLOCKED"
         /\ \A w \in Word, t \in Thread : Lists(w, t) /\ state'[t] = "BLOCKED" => Lists(w, t)'
         /\ \A w \in Word, t \in Thread : Lists(w, t)' => Lists(w, t)

LEMMA TableAt ==
  ASSUME TableOK, NEW w \in Word
  PROVE  /\ Queue(w) \in Seq(Waiter) /\ futexes[w].in_use \in BOOLEAN
         /\ Len(Queue(w)) \in Nat /\ Len(Queue(w)) <= MAX_WAITERS
BY DEF TableOK, Queue

\* No entry more than before is in use, but for one that was allocated.
LEMMA SlotsBound ==
  ASSUME TableOK, NEW x \in Word, Allocable(x),
         \A w \in Word : futexes'[w].in_use => futexes[w].in_use \/ w = x
  PROVE  Slots(futexes') <= MAX_FUTEX
<1> DEFINE old == {w \in Word : futexes[w].in_use}
           new == {w \in Word : futexes'[w].in_use}
<1>1. IsFiniteSet(Word)
  <2>1. Word = {"mu"} \cup {"not_full"} \cup {"not_empty"}
    BY DEF Word
  <2> QED
    BY <2>1, FS_Singleton, FS_Union
<1>2. IsFiniteSet(old) /\ Cardinality(old) \in Nat /\ Cardinality(old) <= MAX_FUTEX
  <2>1. old \subseteq Word
    OBVIOUS
  <2>2. Cardinality(old) <= MAX_FUTEX
    BY DEF TableOK, Slots
  <2> HIDE DEF old
  <2> QED
    BY <1>1, <2>1, <2>2, FS_Subset, FS_CardinalityType
<1>3. new \subseteq old \cup {x}
  OBVIOUS
<1>4. CASE x \in old
  <2>1. new \subseteq old
    BY <1>3, <1>4
  <2> HIDE DEF old, new
  <2>2. Cardinality(new) <= Cardinality(old) /\ IsFiniteSet(new)
    BY <1>2, <2>1, FS_Subset
  <2>3. Cardinality(new) \in Nat
    BY <2>2, FS_CardinalityType
  <2>4. Cardinality(new) <= MAX_FUTEX
    BY <1>2, <2>2, <2>3, FutexAssumption
  <2> QED
    BY <2>4 DEF Slots, new
<1>5. CASE x \notin old
  <2>1. Cardinality(old) < MAX_FUTEX
    BY <1>5 DEF Allocable, Slots
  <2> HIDE DEF old, new
  <2>2. IsFiniteSet(old \cup {x}) /\ Cardinality(old \cup {x}) = Cardinality(old) + 1
    BY <1>2, <1>5, OneMore
  <2>3. Cardinality(new) <= Cardinality(old \cup {x}) /\ IsFiniteSet(new)
    BY <1>3, <2>2, FS_Subset
  <2>4. Cardinality(new) \in Nat
    BY <2>3, FS_CardinalityType
  <2>5. Cardinality(new) <= MAX_FUTEX
    BY <1>2, <2>1, <2>2, <2>3, <2>4, FutexAssumption
  <2> QED
    BY <2>5 DEF Slots, new
<1> QED
  BY <1>4, <1>5

LEMMA SlotsFewer ==
  ASSUME TableOK, \A w \in Word : futexes'[w].in_use => futexes[w].in_use
  PROVE  Slots(futexes') <= MAX_FUTEX
<1>1. CASE \E x \in Word : futexes[x].in_use
  BY <1>1, SlotsBound DEF Allocable
<1>2. CASE \A x \in Word : ~futexes[x].in_use
  <2>1. {w \in Word : futexes'[w].in_use} = {}
    BY <1>2
  <2>2. Cardinality({w \in Word : futexes'[w].in_use}) = 0
    BY <2>1, FS_EmptySet
  <2>3. Slots(futexes') = 0
    BY <2>2 DEF Slots
  <2> QED
    BY <2>3, FutexAssumption
<1> QED
  BY <1>1, <1>2

\* The threads in ts become READY.
LEMMA ReadyAt ==
  ASSUME TableOK, NEW ts, Ready(ts)
  PROVE  /\ state' \in [Thread -> {"READY", "BLOCKED"}]
         /\ \A t \in Thread : state'[t] = IF t \in ts THEN "READY" ELSE state[t]
BY DEF Ready, TableOK

\* futex_wake
LEMMA WakeTable ==
  ASSUME TableOK, NEW w \in Word, NEW n \in Nat, futex_wake(w, n)
  PROVE  /\ TableOK' /\ Drops
         /\ n > 0 /\ Queue(w) # <<>> => \E t \in Thread : Lists(w, t) /\ state'[t] = "READY"
<1> DEFINE q == Queue(w)
           f == Firsts(q, n)
           b == Behind(q, n)
<1>1. Ready(Listed(f)) /\ futexes' = [futexes EXCEPT ![w] = Holding(b)]
  BY DEF futex_wake, Queue
<1>2. q \in Seq(Waiter) /\ Len(q) \in Nat /\ Len(q) <= MAX_WAITERS
  BY TableAt
<1>3. /\ f \in Seq(Waiter) /\ b \in Seq(Waiter)
      /\ Len(f) = (IF n < Len(q) THEN n ELSE Len(q)) /\ Len(b) <= Len(q) /\ Len(b) \in Nat
      /\ Listed(q) = Listed(f) \cup Listed(b)
  <2> HIDE DEF q
  <2> QED
    BY <1>2, SplitQueue
<1> HIDE DEF f, b
<1>4. /\ futexes' \in [Word -> [in_use : BOOLEAN, waiters : Seq(Waiter)]]
      /\ Queue(w)' = b /\ futexes'[w].in_use = (b # <<>>)
      /\ \A v \in Word : v # w => futexes'[v] = futexes[v]
  <2> DEFINE E == [in_use : BOOLEAN, waiters : Seq(Waiter)]
  <2>1. Holding(b) \in E /\ Holding(b).waiters = b /\ Holding(b).in_use = (b # <<>>)
    BY <1>3 DEF Holding
  <2>2. futexes \in [Word -> E]
    BY DEF TableOK
  <2> HIDE DEF E
  <2>3. futexes' \in [Word -> E] /\ futexes'[w] = Holding(b)
        /\ \A v \in Word : v # w => futexes'[v] = futexes[v]
    BY <1>1, <2>1, <2>2
  <2> QED
    BY <2>1, <2>3 DEF E, Queue
<1>5. /\ state' \in [Thread -> {"READY", "BLOCKED"}]
      /\ \A t \in Thread : state'[t] = IF t \in Listed(f) THEN "READY" ELSE state[t]
  BY <1>1, ReadyAt
<1>6. Slots(futexes') <= MAX_FUTEX
  <2>1. b # <<>> => q # <<>>
    BY <1>2, <1>3
  <2>2. \A v \in Word : futexes'[v].in_use => futexes[v].in_use
    BY <1>4, <2>1 DEF TableOK
  <2> QED
    BY <2>2, SlotsFewer
<1>7. Len(b) <= MAX_WAITERS
  BY <1>2, <1>3, FutexAssumption
<1>8. TableOK'
  <2> HIDE DEF q
  <2>1. \A v \in Word : Len(Queue(v)') <= MAX_WAITERS /\ (Queue(v)' # <<>> => futexes'[v].in_use)
    BY <1>4, <1>7 DEF TableOK, Queue
  <2> QED
    BY <1>4, <1>5, <1>6, <2>1 DEF TableOK
<1>9. Drops
  <2>1. \A v \in Word, t \in Thread : v # w => (Lists(v, t)' <=> Lists(v, t))
    BY <1>4 DEF Lists, Queue
  <2>2. \A t \in Thread : Lists(w, t)' <=> t \in Listed(b)
    BY <1>4 DEF Lists
  <2>3. \A t \in Thread : Lists(w, t) <=> t \in Listed(f) \/ t \in Listed(b)
    BY <1>3 DEF Lists
  <2> QED
    BY <1>5, <2>1, <2>2, <2>3 DEF Drops
<1>10. ASSUME n > 0, q # <<>>
       PROVE  \E t \in Thread : Lists(w, t) /\ state'[t] = "READY"
  <2>1. Len(f) # 0 /\ Len(f) \in Nat
    BY <1>2, <1>3, <1>10
  <2>2. 1 \in 1 .. Len(f)
    BY <2>1
  <2>3. f[1].tid \in Thread /\ f[1].tid \in Listed(f)
    BY <1>3, <2>2, ListedAt
  <2> QED
    BY <1>3, <1>5, <2>3 DEF Lists
<1> QED
  BY <1>8, <1>9, <1>10

\* The sweep
LEMMA SweepTable ==
  ASSUME TableOK, futex_sweep
  PROVE  TableOK' /\ Drops
<1> DEFINE stay(w) == Late(w)
           r(w) == Compacted(Queue(w), Late(w))
<1>1. Ready(Swept(Word)) /\ futexes' = [w \in Word |-> Holding(r(w))]
  BY DEF futex_sweep, Queue
<1>2. ASSUME NEW w \in Word
      PROVE  /\ r(w) \in Seq(Waiter) /\ Len(r(w)) \in Nat /\ Len(r(w)) <= Len(Queue(w))
             /\ \A t : t \in Listed(r(w)) => Lists(w, t)
             /\ \A t : Lists(w, t) /\ t \notin Due(w) => t \in Listed(r(w))
  <2> DEFINE q == Queue(w)
             late == Late(w)
             c == Compacted(q, late)
  <2>1. q \in Seq(Waiter) /\ DOMAIN q = 1 .. Len(q) /\ Len(q) \in Nat
    BY TableAt
  <2>2. \A i : i \in late => i \in 1 .. Len(q)
    BY <2>1 DEF Late, Queue
  <2>3. \A i \in 1 .. Len(q) : i \notin late => q[i].tid \in Due(w)
    BY <2>1 DEF Due, Queue
  <2>4. \A t : Lists(w, t) <=> \E i \in 1 .. Len(q) : q[i].tid = t
    BY <2>1, ListedAt DEF Lists
  <2>5. \A j \in late : j \in Nat /\ 1 <= j /\ j <= Len(q)
    BY <2>2
  <2> HIDE DEF late, q
  <2>6. /\ c \in Seq(Waiter) /\ Len(c) <= Len(q)
        /\ \A j \in 1 .. Len(c) : \E i \in late : c[j] = q[i]
        /\ \A i \in late : \E j \in 1 .. Len(c) : c[j] = q[i]
    BY <2>1, <2>5, CompactedSeq
  <2> HIDE DEF c
  <2>7. Len(c) \in Nat /\ \A t : t \in Listed(c) <=> \E i \in 1 .. Len(c) : c[i].tid = t
    BY <2>6, ListedAt
  <2>8. ASSUME NEW t, t \in Listed(c)
        PROVE  Lists(w, t)
    <3>1. PICK j \in 1 .. Len(c) : c[j].tid = t
      BY <2>7, <2>8
    <3>2. PICK i \in late : c[j] = q[i]
      BY <2>6
    <3> QED
      BY <2>2, <2>4, <3>1, <3>2
  <2>9. \A t : Lists(w, t) /\ t \notin Due(w) => t \in Listed(c)
    BY <2>3, <2>4, <2>6, <2>7
  <2> QED
    BY <2>6, <2>7, <2>8, <2>9 DEF c, q, late
<1> HIDE DEF r
<1>3. /\ futexes' \in [Word -> [in_use : BOOLEAN, waiters : Seq(Waiter)]]
      /\ \A w \in Word : Queue(w)' = r(w) /\ futexes'[w].in_use = (r(w) # <<>>)
  <2> DEFINE E == [in_use : BOOLEAN, waiters : Seq(Waiter)]
  <2>1. \A w \in Word : /\ Holding(r(w)) \in E /\ Holding(r(w)).waiters = r(w)
                        /\ Holding(r(w)).in_use = (r(w) # <<>>)
    BY <1>2 DEF Holding
  <2> HIDE DEF E
  <2>2. futexes' \in [Word -> E] /\ \A w \in Word : futexes'[w] = Holding(r(w))
    BY <1>1, <2>1
  <2> QED
    BY <2>1, <2>2 DEF E, Queue
<1>4. /\ state' \in [Thread -> {"READY", "BLOCKED"}]
      /\ \A t \in Thread : state'[t] = IF t \in Swept(Word) THEN "READY" ELSE state[t]
  BY <1>1, ReadyAt
<1>5. \A w \in Word : r(w) # <<>> => Queue(w) # <<>>
  <2> SUFFICES ASSUME NEW w \in Word, r(w) # <<>>, Queue(w) = <<>>
               PROVE  FALSE
    OBVIOUS
  <2>1. r(w) \in Seq(Waiter) /\ Len(r(w)) \in Nat /\ Len(r(w)) <= 0
    BY <1>2
  <2> QED
    BY <2>1
<1>6. Slots(futexes') <= MAX_FUTEX
  <2>1. \A w \in Word : futexes'[w].in_use => futexes[w].in_use
    BY <1>3, <1>5 DEF TableOK
  <2> QED
    BY <2>1, SlotsFewer
<1>7. \A w \in Word : Len(r(w)) <= MAX_WAITERS
  <2> TAKE w \in Word
  <2>1. Len(Queue(w)) \in Nat /\ Len(Queue(w)) <= MAX_WAITERS
    BY TableAt
  <2>2. Len(r(w)) \in Nat /\ Len(r(w)) <= Len(Queue(w))
    BY <1>2
  <2> QED
    BY <2>1, <2>2, FutexAssumption
<1>8. TableOK'
  BY <1>3, <1>4, <1>6, <1>7 DEF TableOK
<1>9. Drops
  <2>1. \A w \in Word, t \in Thread : Lists(w, t)' <=> t \in Listed(r(w))
    BY <1>3 DEF Lists
  <2>2. \A w \in Word : Due(w) \subseteq Swept(Word)
    BY DEF Swept
  <2> QED
    BY <1>2, <1>4, <2>1, <2>2 DEF Drops
<1> QED
  BY <1>8, <1>9

\* Time passes: deadlines change, who is listed does not.
LEMMA TickTable ==
  ASSUME TableOK, Tick
  PROVE  TableOK' /\ Drops
<1> DEFINE r(w) == [i \in DOMAIN Queue(w) |-> Older(Queue(w)[i])]
<1>1. futexes' = [w \in Word |-> [futexes[w] EXCEPT !.waiters = r(w)]] /\ state' = state
  BY DEF Tick, Queue
<1>2. \A e \in Waiter : Older(e) \in Waiter /\ Older(e).tid = e.tid
  BY DEF Older, Waiter
<1>3. ASSUME NEW w \in Word
      PROVE  /\ r(w) \in Seq(Waiter) /\ Len(r(w)) = Len(Queue(w))
             /\ \A t : t \in Listed(r(w)) <=> Lists(w, t)
  <2> DEFINE q == Queue(w)
             c == [i \in DOMAIN q |-> Older(q[i])]
  <2>1. q \in Seq(Waiter) /\ DOMAIN q = 1 .. Len(q) /\ Len(q) \in Nat
        /\ \A i \in 1 .. Len(q) : q[i] \in Waiter
    <3>1. q \in Seq(Waiter)
      BY TableAt
    <3> HIDE DEF q
    <3> QED
      BY <3>1, ListedAt
  <2> HIDE DEF q
  <2>2. c \in Seq(Waiter) /\ Len(c) = Len(q) /\ \A i \in 1 .. Len(q) : c[i] = Older(q[i])
    BY <1>2, <2>1
  <2> HIDE DEF c
  <2>3. \A t : t \in Listed(c) <=> t \in Listed(q)
    BY <1>2, <2>1, <2>2, ListedAt
  <2> QED
    BY <2>2, <2>3 DEF c, q, Lists
<1> HIDE DEF r
<1>4. /\ futexes' \in [Word -> [in_use : BOOLEAN, waiters : Seq(Waiter)]]
      /\ \A w \in Word : Queue(w)' = r(w) /\ futexes'[w].in_use = futexes[w].in_use
  <2> DEFINE B == BOOLEAN
             W == Seq(Waiter)
  <2>1. futexes \in [Word -> [in_use : B, waiters : W]] /\ \A w \in Word : r(w) \in W
    BY <1>3 DEF TableOK
  <2> HIDE DEF B, W
  <2>2. /\ futexes' \in [Word -> [in_use : B, waiters : W]]
        /\ \A w \in Word : futexes'[w].waiters = r(w) /\ futexes'[w].in_use = futexes[w].in_use
    BY <1>1, <2>1
  <2> QED
    BY <2>2 DEF B, W, Queue
<1>5. Slots(futexes') <= MAX_FUTEX
  BY <1>4, SlotsFewer
<1>6. \A w \in Word : Len(Queue(w)') <= MAX_WAITERS /\ (Queue(w)' # <<>> => futexes'[w].in_use)
  <2> TAKE w \in Word
  <2>1. Queue(w) \in Seq(Waiter) /\ Len(Queue(w)) <= MAX_WAITERS
    BY TableAt
  <2>2. r(w) # <<>> => Queue(w) # <<>>
    BY <1>3, <2>1
  <2> QED
    BY <1>3, <1>4, <2>1, <2>2 DEF TableOK
<1>7. TableOK'
  BY <1>1, <1>4, <1>5, <1>6 DEF TableOK
<1>8. Drops
  BY <1>1, <1>3, <1>4 DEF Drops, Lists
<1> QED
  BY <1>7, <1>8

\* A handled signal
LEMMA SignalTable ==
  ASSUME TableOK, NEW t \in Thread, Signal(t)
  PROVE  TableOK' /\ Drops
<1>1. Ready({t}) /\ futexes' = futexes
  BY DEF Signal
<1>2. /\ state' \in [Thread -> {"READY", "BLOCKED"}]
      /\ \A u \in Thread : state'[u] = IF u \in {t} THEN "READY" ELSE state[u]
  BY <1>1, ReadyAt
<1> QED
  BY <1>1, <1>2 DEF TableOK, Drops, Lists, Queue

\* A park lists the caller where it waits, and takes nobody off.
LEMMA ParkTable ==
  ASSUME TableOK, NEW t \in Thread, NEW w \in Word, Room(w),
         futexes' = [futexes EXCEPT ![w] =
                       [in_use |-> TRUE, waiters |-> Append(@.waiters, Entry(t))]],
         state' = [state EXCEPT ![t] = "BLOCKED"]
  PROVE  /\ TableOK'
         /\ \A u \in Thread : state'[u] = IF u = t THEN "BLOCKED" ELSE state[u]
         /\ \A v \in Word, u \in Thread : Lists(v, u)' <=> Lists(v, u) \/ (v = w /\ u = t)
<1> DEFINE q == Queue(w)
           r == Append(q, Entry(t))
<1>1. futexes' = [futexes EXCEPT ![w] = [in_use |-> TRUE, waiters |-> r]]
  BY DEF Queue
<1>2. q \in Seq(Waiter) /\ Len(q) \in Nat /\ Len(q) < MAX_WAITERS
  BY TableAt DEF Room, Queue
<1>3. Entry(t) \in Waiter /\ Entry(t).tid = t
  BY FutexAssumption DEF Entry, Waiter
<1> HIDE DEF q
<1>4. /\ r \in Seq(Waiter) /\ Len(r) = Len(q) + 1 /\ r[Len(q) + 1] = Entry(t)
      /\ \A i \in 1 .. Len(q) : r[i] = q[i]
  BY <1>2, <1>3
<1> HIDE DEF r
<1>5. Len(r) <= MAX_WAITERS
  BY <1>2, <1>4, FutexAssumption
<1>6. /\ futexes' \in [Word -> [in_use : BOOLEAN, waiters : Seq(Waiter)]]
      /\ Queue(w)' = r /\ futexes'[w].in_use
      /\ \A v \in Word : v # w => futexes'[v] = futexes[v]
  <2> DEFINE E == [in_use : BOOLEAN, waiters : Seq(Waiter)]
             e == [in_use |-> TRUE, waiters |-> r]
  <2>1. e \in E /\ e.waiters = r /\ e.in_use
    BY <1>4
  <2>2. futexes \in [Word -> E] /\ futexes' = [futexes EXCEPT ![w] = e]
    BY <1>1 DEF TableOK
  <2> HIDE DEF E, e
  <2>3. futexes' \in [Word -> E] /\ futexes'[w] = e
        /\ \A v \in Word : v # w => futexes'[v] = futexes[v]
    BY <2>1, <2>2
  <2> QED
    BY <2>1, <2>3 DEF E, Queue
<1>7. Slots(futexes') <= MAX_FUTEX
  BY <1>6, SlotsBound DEF Room
<1>8. TableOK'
  BY <1>5, <1>6, <1>7 DEF TableOK, Queue
<1>9. \A u : u \in Listed(r) <=> u \in Listed(q) \/ u = t
  <2>1. \A u : u \in Listed(r) <=> \E i \in 1 .. Len(r) : r[i].tid = u
    BY <1>4, ListedAt
  <2>2. \A u : u \in Listed(q) <=> \E i \in 1 .. Len(q) : q[i].tid = u
    BY <1>2, ListedAt
  <2>3. \A i \in 1 .. Len(r) : i \in 1 .. Len(q) \/ i = Len(q) + 1
    BY <1>2, <1>4
  <2>4. Len(q) + 1 \in 1 .. Len(r) /\ \A i \in 1 .. Len(q) : i \in 1 .. Len(r)
    BY <1>2, <1>4
  <2>5. \A u : u \in Listed(r) => u \in Listed(q) \/ u = t
    BY <1>3, <1>4, <2>1, <2>2, <2>3
  <2>6. \A u : u \in Listed(q) \/ u = t => u \in Listed(r)
    BY <1>3, <1>4, <2>1, <2>2, <2>4
  <2> QED
    BY <2>5, <2>6
<1>10. \A v \in Word, u \in Thread : Lists(v, u)' <=> Lists(v, u) \/ (v = w /\ u = t)
  BY <1>6, <1>9 DEF Lists, Queue, q
<1> QED
  BY <1>8, <1>10 DEF TableOK

\* The queue of two queues
LEMMA JoinedQueue ==
  ASSUME NEW a \in Seq(Waiter), NEW b \in Seq(Waiter)
  PROVE  /\ a \o b \in Seq(Waiter) /\ Len(a \o b) = Len(a) + Len(b)
         /\ \A t : t \in Listed(a \o b) <=> t \in Listed(a) \/ t \in Listed(b)
<1> DEFINE c == a \o b
<1>1. Len(a) \in Nat /\ Len(b) \in Nat
  OBVIOUS
<1>2. /\ c \in Seq(Waiter) /\ Len(c) = Len(a) + Len(b)
      /\ \A i \in 1 .. Len(a) : c[i] = a[i]
      /\ \A i \in 1 .. Len(b) : c[Len(a) + i] = b[i]
  OBVIOUS
<1> HIDE DEF c
<1>3. \A i \in 1 .. Len(c) : i \in 1 .. Len(a)
         \/ (i - Len(a) \in 1 .. Len(b) /\ Len(a) + (i - Len(a)) = i)
  BY <1>1, <1>2
<1>4. /\ \A i \in 1 .. Len(a) : i \in 1 .. Len(c)
      /\ \A i \in 1 .. Len(b) : Len(a) + i \in 1 .. Len(c)
  BY <1>1, <1>2
<1>5. \A t : t \in Listed(c) <=> \E i \in 1 .. Len(c) : c[i].tid = t
  BY <1>2, ListedAt
<1>6. /\ \A t : t \in Listed(a) <=> \E i \in 1 .. Len(a) : a[i].tid = t
      /\ \A t : t \in Listed(b) <=> \E i \in 1 .. Len(b) : b[i].tid = t
  BY ListedAt
<1>7. \A t : t \in Listed(a) => t \in Listed(c)
  BY <1>2, <1>4, <1>5, <1>6
<1>8. \A t : t \in Listed(b) => t \in Listed(c)
  BY <1>2, <1>4, <1>5, <1>6
<1>9. \A t : t \in Listed(c) => t \in Listed(a) \/ t \in Listed(b)
  <2> SUFFICES ASSUME NEW t, t \in Listed(c)
               PROVE  t \in Listed(a) \/ t \in Listed(b)
    OBVIOUS
  <2>1. PICK i \in 1 .. Len(c) : c[i].tid = t
    BY <1>5
  <2>2. CASE i \in 1 .. Len(a)
    BY <1>2, <1>6, <2>1, <2>2
  <2>3. CASE i - Len(a) \in 1 .. Len(b) /\ Len(a) + (i - Len(a)) = i
    <3>1. b[i - Len(a)] = c[i]
      BY <1>2, <2>3
    <3> QED
      BY <1>6, <2>1, <2>3, <3>1
  <2> QED
    BY <1>3, <2>2, <2>3
<1> QED
  BY <1>2, <1>7, <1>8, <1>9 DEF c

\* futex_requeue moves entries to the mutex and drops only the one it wakes.
LEMMA RequeueTable ==
  ASSUME TableOK, NEW w \in Word, w # "mu", NEW exp, futex_requeue(w, exp)
  PROVE  /\ TableOK'
         /\ \A t \in Thread : state'[t] = "BLOCKED" => state[t] = "BLOCKED"
         /\ \A v \in Word, t \in Thread :
              Lists(v, t) /\ state'[t] = "BLOCKED" => Lists(v, t)' \/ Lists("mu", t)'
         /\ \A v \in Word, t \in Thread : v # "mu" /\ Lists(v, t)' => Lists(v, t)
<1>1. CASE UNCHANGED <<futexes, state>>
  BY <1>1 DEF TableOK, Lists, Queue
<1>2. CASE ~UNCHANGED <<futexes, state>>
  <2> DEFINE q == Queue(w)
             m == Queue("mu")
             first == Firsts(q, 1)
             rest == Behind(q, 1)
             room == MAX_WAITERS - Len(m)
             moved == Firsts(rest, room)
             left == Behind(rest, room)
             joined == m \o moved
  <2>1. /\ Allocable("mu") /\ Ready(Listed(first))
        /\ futexes' = [futexes EXCEPT ![w] = Holding(left),
                                      !["mu"] = [in_use |-> TRUE, waiters |-> joined]]
    BY <1>2 DEF futex_requeue, Queue
  <2>2. /\ q \in Seq(Waiter) /\ Len(q) \in Nat /\ Len(q) <= MAX_WAITERS
        /\ m \in Seq(Waiter) /\ Len(m) \in Nat /\ Len(m) <= MAX_WAITERS
    BY TableAt DEF Word
  <2> HIDE DEF q, m
  <2>3. room \in Nat
    BY <2>2, FutexAssumption
  <2>4. /\ first \in Seq(Waiter) /\ rest \in Seq(Waiter) /\ Len(rest) \in Nat /\ Len(rest) <= Len(q)
        /\ Listed(q) = Listed(first) \cup Listed(rest)
    BY <2>2, SplitQueue
  <2> HIDE DEF first, rest, room
  <2>5. /\ moved \in Seq(Waiter) /\ Len(moved) \in Nat /\ Len(moved) <= room
        /\ left \in Seq(Waiter) /\ Len(left) \in Nat /\ Len(left) <= Len(rest)
        /\ Listed(rest) = Listed(moved) \cup Listed(left)
    BY <2>3, <2>4, SplitQueue
  <2> HIDE DEF moved, left
  <2>6. /\ joined \in Seq(Waiter) /\ Len(joined) = Len(m) + Len(moved)
        /\ \A t : t \in Listed(joined) <=> t \in Listed(m) \/ t \in Listed(moved)
    BY <2>2, <2>5, JoinedQueue
  <2> HIDE DEF joined
  <2>7. /\ futexes' \in [Word -> [in_use : BOOLEAN, waiters : Seq(Waiter)]]
        /\ Queue(w)' = left /\ futexes'[w].in_use = (left # <<>>)
        /\ Queue("mu")' = joined /\ futexes'["mu"].in_use
        /\ \A v \in Word : v # w /\ v # "mu" => futexes'[v] = futexes[v]
    <3> DEFINE E == [in_use : BOOLEAN, waiters : Seq(Waiter)]
               e == [in_use |-> TRUE, waiters |-> joined]
    <3>1. e \in E /\ e.waiters = joined /\ e.in_use
      BY <2>6
    <3>2. Holding(left) \in E /\ Holding(left).waiters = left /\ Holding(left).in_use = (left # <<>>)
      BY <2>5 DEF Holding
    <3>3. futexes \in [Word -> E] /\ futexes' = [futexes EXCEPT ![w] = Holding(left), !["mu"] = e]
      BY <2>1 DEF TableOK
    <3>4. "mu" \in Word
      BY DEF Word
    <3> HIDE DEF E, e
    <3>5. futexes' \in [Word -> E] /\ futexes'[w] = Holding(left) /\ futexes'["mu"] = e
          /\ \A v \in Word : v # w /\ v # "mu" => futexes'[v] = futexes[v]
      BY <3>1, <3>2, <3>3, <3>4
    <3> QED
      BY <3>1, <3>2, <3>5 DEF E, Queue
  <2>8. /\ state' \in [Thread -> {"READY", "BLOCKED"}]
        /\ \A t \in Thread : state'[t] = IF t \in Listed(first) THEN "READY" ELSE state[t]
    BY <2>1, ReadyAt
  <2>9. left # <<>> => q # <<>>
    BY <2>2, <2>4, <2>5
  <2>10. Slots(futexes') <= MAX_FUTEX
    <3>1. \A v \in Word : futexes'[v].in_use => futexes[v].in_use \/ v = "mu"
      BY <2>7, <2>9 DEF TableOK, q
    <3> QED
      BY <2>1, <3>1, SlotsBound DEF Word
  <2>11. Len(left) <= MAX_WAITERS /\ Len(joined) <= MAX_WAITERS
    BY <2>2, <2>4, <2>5, <2>6, FutexAssumption DEF room
  <2>12. TableOK'
    <3>1. \A v \in Word : Len(Queue(v)') <= MAX_WAITERS /\ (Queue(v)' # <<>> => futexes'[v].in_use)
      BY <2>7, <2>11 DEF TableOK, Queue
    <3> QED
      BY <2>7, <2>8, <2>10, <3>1 DEF TableOK
  <2>13. /\ \A v \in Word, t \in Thread : v # w /\ v # "mu" => (Lists(v, t)' <=> Lists(v, t))
         /\ \A t \in Thread : Lists(w, t)' <=> t \in Listed(left)
         /\ \A t \in Thread : Lists("mu", t)' <=> t \in Listed(m) \/ t \in Listed(moved)
         /\ \A t \in Thread : Lists(w, t) <=> t \in Listed(first) \/ t \in Listed(moved) \/ t \in Listed(left)
         /\ \A t \in Thread : Lists("mu", t) <=> t \in Listed(m)
    BY <2>4, <2>5, <2>6, <2>7 DEF Lists, Queue, q, m
  <2>14. \A v \in Word, t \in Thread :
              Lists(v, t) /\ state'[t] = "BLOCKED" => Lists(v, t)' \/ Lists("mu", t)'
    BY <2>8, <2>13
  <2>15. \A v \in Word, t \in Thread : v # "mu" /\ Lists(v, t)' => Lists(v, t)
    BY <2>13
  <2> QED
    BY <2>8, <2>12, <2>14, <2>15
<1> QED
  BY <1>1, <1>2

-----------------------------------------------------------------------------
(* The control of the program: what holds whoever is listed and woken *)

CtrlTypes ==
  /\ mem \in [Word -> Nat] /\ mem["mu"] \in {0, 1}
  /\ pc \in [Thread -> PC] /\ word \in [Thread -> Word] /\ expected \in [Thread -> Nat]
  /\ made \in [Producers -> 0 .. Items] /\ count \in Nat /\ consumed \in Nat

\* A producer between two rounds has items left to make.
Rounds(t) == t \in Producers /\ pc[t] \notin {"signal", "unlock", "uwake", "done"}
               => made[t] < Items

\* Producers wait for a slot and signal an item; the last item is announced by a
\* consumer.
Words(t) ==
  /\ t \in Producers =>
       /\ pc[t] \in {"cunlock", "cwake", "fwait", "flock", "parked"} => word[t] # "not_empty"
       /\ pc[t] = "signal" => word[t] = "not_empty"
  /\ pc[t] \in {"broadcast", "requeue"} => t \in Consumers /\ word[t] = "not_empty"

\* Consumers announce the end, and leave, when everything is consumed.
AllTaken(t) ==
  t \in Consumers /\ pc[t] \in {"done", "leave", "lwake", "broadcast", "requeue"}
    => consumed = TOTAL_ITEMS

\* A consumer that is about to park has seen the counter after the last item that
\* is gone by now: if the counter has not moved, nothing was made.
Snapshot(t) ==
  t \in Consumers /\ pc[t] \in {"cunlock", "cwake", "fwait", "flock"} /\ word[t] = "not_empty"
    => expected[t] <= mem["not_empty"] /\ (expected[t] = mem["not_empty"] => count = 0)

Local(t) == Rounds(t) /\ Words(t) /\ AllTaken(t) /\ Snapshot(t)

\* The items made, by producer and number
Made == {x \in Producers \X (1 .. Items) : x[2] <= made[x[1]]}

\* Items are in the buffer or consumed, none twice.
Counts == count + consumed = Cardinality(Made)

CtrlInv == CtrlTypes /\ Counts /\ \A t \in Thread : Local(t)

LEMMA TotalType == TOTAL_ITEMS \in Nat /\ IsFiniteSet(Producers) /\ Cardinality(Producers) \in Nat
<1>1. IsFiniteSet(Producers)
  <2>1. Producers \subseteq Thread
    BY DEF Thread
  <2> QED
    BY <2>1, FutexAssumption, FS_Subset
<1>2. Cardinality(Producers) \in Nat
  BY <1>1, FS_CardinalityType
<1> QED
  BY <1>1, <1>2, FutexAssumption DEF TOTAL_ITEMS

LEMMA MadeBound == IsFiniteSet(Made) /\ Cardinality(Made) \in Nat /\ Cardinality(Made) <= TOTAL_ITEMS
<1> DEFINE all == Producers \X (1 .. Items)
<1>1. IsFiniteSet(1 .. Items) /\ Cardinality(1 .. Items) = Items
  <2>1. 1 \in Int /\ Items \in Int /\ 1 <= Items /\ Items - 1 + 1 = Items
    BY FutexAssumption
  <2> QED
    BY <2>1, FS_Interval
<1>2. IsFiniteSet(all) /\ Cardinality(all) = Cardinality(Producers) * Cardinality(1 .. Items)
  BY <1>1, TotalType, FS_Product
<1>3. Cardinality(all) = TOTAL_ITEMS
  <2>1. Cardinality(Producers) * Items = Items * Cardinality(Producers)
    BY TotalType, FutexAssumption
  <2> QED
    BY <1>1, <1>2, <2>1 DEF TOTAL_ITEMS
<1>4. Made \subseteq all
  BY DEF Made
<1> HIDE DEF all
<1> QED
  BY <1>2, <1>3, <1>4, FS_Subset, FS_CardinalityType

\* An item in the buffer is not consumed yet.
LEMMA NotAllTaken ==
  ASSUME CtrlInv
  PROVE  count > 0 => consumed < TOTAL_ITEMS
<1>1. count \in Nat /\ consumed \in Nat /\ count + consumed = Cardinality(Made)
  BY DEF CtrlInv, CtrlTypes, Counts
<1>2. Cardinality(Made) \in Nat /\ Cardinality(Made) <= TOTAL_ITEMS /\ TOTAL_ITEMS \in Nat
  BY MadeBound, TotalType
<1> HIDE DEF TOTAL_ITEMS
<1> QED
  BY <1>1, <1>2

\* A thread goes on without touching items, or the counter of not_empty.
LEMMA QuietCtrl ==
  ASSUME CtrlInv, NEW t \in Thread, NEW p \in PC, Goto(t, p),
         mem' \in [Word -> Nat], mem'["mu"] \in {0, 1}, mem'["not_empty"] = mem["not_empty"],
         word' \in [Thread -> Word], expected' \in [Thread -> Nat],
         \A u \in Thread : u # t => word'[u] = word[u] /\ expected'[u] = expected[u],
         made' = made, count' = count, consumed' = consumed, Local(t)'
  PROVE  CtrlInv'
<1>1. /\ pc' \in [Thread -> PC] /\ pc'[t] = p
      /\ \A u \in Thread : u # t => pc'[u] = pc[u]
  BY DEF Goto, CtrlInv, CtrlTypes
<1>2. CtrlTypes'
  BY <1>1 DEF CtrlInv, CtrlTypes
<1>3. Counts'
  BY DEF CtrlInv, Counts, Made
<1>4. ASSUME NEW u \in Thread, u # t
      PROVE  Local(u)'
  <2>1. Local(u) /\ pc'[u] = pc[u] /\ word'[u] = word[u] /\ expected'[u] = expected[u]
    BY <1>1, <1>4 DEF CtrlInv
  <2> QED
    BY <2>1 DEF Local, Rounds, Words, AllTaken, Snapshot
<1> QED
  BY <1>2, <1>3, <1>4 DEF CtrlInv

\* The lock, the parks and the wakes
LEMMA WaitCtrl ==
  ASSUME CtrlInv, NEW t \in Thread,
         \/ Lock(t) \/ Spin(t) \/ Unlock(t) \/ UnlockWake(t)
         \/ FutexCheck(t) \/ FutexPark(t) \/ FutexReturn(t) \/ CondBroadcast(t) \/ CondRequeue(t)
  PROVE  CtrlInv'
<1> USE DEF CtrlInv, CtrlTypes, Word, PC
<1>1. CASE Lock(t)
  <2>1. PICK p \in {"check", "spin"} : Goto(t, p) /\ pc[t] = "lock"
    BY <1>1 DEF Lock, Running
  <2>2. /\ mem' = [mem EXCEPT !["mu"] = 1] /\ word' = word /\ expected' = expected /\ made' = made
        /\ count' = count /\ consumed' = consumed
    BY <1>1 DEF Lock
  <2>3. mem' \in [Word -> Nat] /\ mem'["mu"] = 1 /\ mem'["not_empty"] = mem["not_empty"]
    BY <2>2
  <2>4. pc'[t] = p
    BY <2>1 DEF Goto
  <2>5. Local(t)'
    BY <2>1, <2>2, <2>4 DEF Local, Rounds, Words, AllTaken, Snapshot
  <2> QED
    BY <2>1, <2>2, <2>3, <2>5, QuietCtrl
<1>2. CASE Spin(t)
  <2>1. PICK p \in {"fwait", "lock"} :
          /\ Goto(t, p) /\ pc[t] = "spin"
          /\ p = "fwait" => /\ word' = [word EXCEPT ![t] = "mu"] /\ expected' = [expected EXCEPT ![t] = 1]
          /\ p = "lock" => word' = word /\ expected' = expected
    BY <1>2 DEF Spin, Running
  <2>2. mem' = mem /\ made' = made /\ count' = count /\ consumed' = consumed
    BY <1>2 DEF Spin
  <2>3. /\ word' \in [Thread -> Word] /\ expected' \in [Thread -> Nat]
        /\ \A u \in Thread : u # t => word'[u] = word[u] /\ expected'[u] = expected[u]
        /\ p = "fwait" => word'[t] = "mu"
    BY <2>1
  <2>4. pc'[t] = p
    BY <2>1 DEF Goto
  <2>5. Local(t)'
    BY <2>1, <2>2, <2>3, <2>4 DEF Local, Rounds, Words, AllTaken, Snapshot
  <2> QED
    BY <2>1, <2>2, <2>3, <2>5, QuietCtrl
<1>3. CASE Unlock(t)
  <2>1. PICK p \in {"cwake", "uwake", "lwake"} :
          Goto(t, p) /\ pc[t] = (IF p = "cwake" THEN "cunlock" ELSE IF p = "uwake" THEN "unlock" ELSE "leave")
    BY <1>3 DEF Unlock, Running
  <2>2. /\ mem' = [mem EXCEPT !["mu"] = 0] /\ word' = word /\ expected' = expected /\ made' = made
        /\ count' = count /\ consumed' = consumed
    BY <1>3 DEF Unlock
  <2>3. mem' \in [Word -> Nat] /\ mem'["mu"] = 0 /\ mem'["not_empty"] = mem["not_empty"]
    BY <2>2
  <2>4. pc'[t] = p
    BY <2>1 DEF Goto
  <2>5. Local(t)'
    BY <2>1, <2>2, <2>3, <2>4 DEF Local, Rounds, Words, AllTaken, Snapshot
  <2> QED
    BY <2>1, <2>2, <2>3, <2>5, QuietCtrl
<1>4. CASE UnlockWake(t)
  <2>1. PICK p \in {"fwait", "done", "lock"} :
          /\ Goto(t, p)
          /\ p = "fwait" => pc[t] = "cwake"
          /\ p = "lock" => pc[t] = "uwake" /\ ~Finished(t)
          /\ p = "done" => \/ pc[t] = "uwake" /\ Finished(t)
                           \/ pc[t] = "lwake"
    BY <1>4 DEF UnlockWake, Running
  <2>2. /\ mem' = mem /\ word' = word /\ expected' = expected /\ made' = made
        /\ count' = count /\ consumed' = consumed
    BY <1>4 DEF UnlockWake
  <2>3. pc'[t] = p
    BY <2>1 DEF Goto
  <2>4. Rounds(t)'
    <3>1. t \in Producers => made[t] \in 0 .. Items
      OBVIOUS
    <3>2. p = "lock" /\ t \in Producers => made[t] < Items
      BY <2>1, <3>1, FutexAssumption DEF Finished
    <3> QED
      BY <2>1, <2>2, <2>3, <3>2 DEF Local, Rounds
  <2>5. AllTaken(t)'
    <3>1. t \in Consumers => ~Finished(t)
      BY FutexAssumption DEF Finished
    <3> QED
      BY <2>1, <2>2, <2>3, <3>1 DEF Local, AllTaken
  <2>6. Words(t)' /\ Snapshot(t)'
    BY <2>1, <2>2, <2>3 DEF Local, Words, Snapshot
  <2> QED
    BY <2>1, <2>2, <2>4, <2>5, <2>6, QuietCtrl DEF Local
<1>5. CASE FutexCheck(t) \/ FutexPark(t) \/ FutexReturn(t)
  <2>1. PICK p \in {"flock", "parked", "spin", "lock"} :
          Goto(t, p) /\ pc[t] \in {"fwait", "flock", "parked"}
    BY <1>5 DEF FutexCheck, FutexPark, FutexReturn, Return, Running
  <2>2. /\ mem' = mem /\ word' = word /\ expected' = expected /\ made' = made
        /\ count' = count /\ consumed' = consumed
    BY <1>5 DEF FutexCheck, FutexPark, FutexReturn
  <2>3. p = "flock" => pc[t] = "fwait"
    <3>1. pc'[t] = p
      BY <2>1 DEF Goto
    <3> QED
      BY <1>5, <3>1 DEF FutexCheck, FutexPark, FutexReturn, Return, Running, Goto
  <2>4. pc'[t] = p
    BY <2>1 DEF Goto
  <2>5. Local(t)'
    BY <2>1, <2>2, <2>3, <2>4 DEF Local, Rounds, Words, AllTaken, Snapshot
  <2> QED
    BY <2>1, <2>2, <2>5, QuietCtrl
<1>6. CASE CondBroadcast(t) \/ CondRequeue(t)
  <2>1. Goto(t, "unlock") /\ pc[t] \in {"broadcast", "requeue"}
    BY <1>6 DEF CondBroadcast, CondRequeue, Running
  <2>2. /\ mem' = mem /\ word' = word /\ expected' = expected /\ made' = made
        /\ count' = count /\ consumed' = consumed
    BY <1>6 DEF CondBroadcast, CondRequeue
  <2>3. pc'[t] = "unlock"
    BY <2>1 DEF Goto
  <2>4. Local(t)'
    BY <2>1, <2>2, <2>3 DEF Local, Rounds, Words, AllTaken, Snapshot
  <2> QED
    BY <2>1, <2>2, <2>4, QuietCtrl
<1> QED
  BY <1>1, <1>2, <1>3, <1>4, <1>5, <1>6

\* mct_cond_wait, by a producer for a slot or by a consumer for an item
LEMMA CondWaitCtrl ==
  ASSUME CtrlInv, NEW t \in Thread, NEW w \in {"not_full", "not_empty"},
         CondWait(t, w), pc[t] = "check", t \in Producers => w = "not_full",
         w = "not_empty" => count = 0
  PROVE  CtrlInv'
<1> USE DEF CtrlInv, CtrlTypes, Word, PC
<1>1. /\ word' = [word EXCEPT ![t] = w] /\ expected' = [expected EXCEPT ![t] = mem[w]]
      /\ Goto(t, "cunlock") /\ mem' = mem /\ made' = made /\ count' = count /\ consumed' = consumed
  BY DEF CondWait
<1>2. /\ word' \in [Thread -> Word] /\ expected' \in [Thread -> Nat]
      /\ word'[t] = w /\ expected'[t] = mem[w]
      /\ \A u \in Thread : u # t => word'[u] = word[u] /\ expected'[u] = expected[u]
  BY <1>1
<1>3. pc'[t] = "cunlock"
  BY <1>1 DEF Goto
<1>4. Rounds(t)' /\ Words(t)' /\ AllTaken(t)'
  BY <1>1, <1>2, <1>3 DEF Local, Rounds, Words, AllTaken
<1>5. Snapshot(t)'
  <2>1. mem[w] \in Nat
    OBVIOUS
  <2> QED
    BY <1>1, <1>2, <2>1 DEF Snapshot
<1> QED
  BY <1>1, <1>2, <1>4, <1>5, QuietCtrl DEF Local

LEMMA ProduceCtrl ==
  ASSUME CtrlInv, NEW t \in Thread, Produce(t)
  PROVE  CtrlInv'
<1> USE DEF CtrlTypes, Word, PC
<1>1. t \in Producers /\ pc[t] = "check" /\ t \notin Consumers
  BY FutexAssumption DEF Produce, Running
<1>2. CASE count = BUFFER_SIZE
  BY <1>1, <1>2, CondWaitCtrl DEF Produce
<1>3. CASE count # BUFFER_SIZE
  <2>1. /\ count' = count + 1 /\ made' = [made EXCEPT ![t] = @ + 1] /\ expected' = expected
        /\ consumed' = consumed /\ mem' = [mem EXCEPT !["not_empty"] = @ + 1]
        /\ word' = [word EXCEPT ![t] = "not_empty"] /\ pc' = [pc EXCEPT ![t] = "signal"]
    BY <1>3 DEF Produce, CondBump, Goto
  <2>2. made[t] < Items /\ made[t] \in 0 .. Items
    BY <1>1 DEF CtrlInv, Local, Rounds
  <2>3. made[t] + 1 \in 0 .. Items
    BY <2>2, FutexAssumption
  <2>4. CtrlTypes'
    BY <1>1, <2>1, <2>3 DEF CtrlInv
  <2>5. Counts'
    <3> DEFINE x == <<t, made[t] + 1>>
    <3>1. x \notin Made
      BY <2>2 DEF Made
    <3>2. Made' = Made \cup {x}
      <4>1. \A y \in Producers \X (1 .. Items) : y[2] <= made'[y[1]] <=> y[2] <= made[y[1]] \/ y = x
        <5> TAKE y \in Producers \X (1 .. Items)
        <5>1. y[1] \in Producers /\ y[2] \in 1 .. Items /\ y = <<y[1], y[2]>>
          OBVIOUS
        <5>2. CASE y[1] # t
          BY <2>1, <5>1, <5>2 DEF CtrlInv
        <5>3. CASE y[1] = t
          <6>1. made'[t] = made[t] + 1
            BY <1>1, <2>1 DEF CtrlInv
          <6>2. y[2] <= made[t] + 1 <=> y[2] <= made[t] \/ y[2] = made[t] + 1
            BY <2>2, <5>1
          <6> QED
            BY <5>1, <5>3, <6>1, <6>2
        <5> QED
          BY <5>2, <5>3
      <4>2. x \in Producers \X (1 .. Items)
        BY <1>1, <2>2, <2>3
      <4> QED
        BY <4>1, <4>2 DEF Made
    <3>3. Cardinality(Made') = Cardinality(Made) + 1
      <4> HIDE DEF x
      <4>1. IsFiniteSet(Made)
        BY MadeBound
      <4>2. Cardinality(Made \cup {x}) = Cardinality(Made) + 1
        BY <3>1, <4>1, OneMore
      <4> QED
        BY <3>2, <4>2
    <3>4. Cardinality(Made) \in Nat
      BY MadeBound
    <3> QED
      BY <2>1, <3>3, <3>4 DEF CtrlInv, Counts
  <2>6. Local(t)'
    BY <1>1, <2>1 DEF CtrlInv, Local, Rounds, Words, AllTaken, Snapshot
  <2>7. ASSUME NEW u \in Thread, u # t
        PROVE  Local(u)'
    <3>1. /\ Local(u) /\ pc'[u] = pc[u] /\ word'[u] = word[u] /\ expected'[u] = expected[u]
          /\ u \in Producers => made'[u] = made[u]
      BY <2>1, <2>7 DEF CtrlInv
    <3>2. Rounds(u)' /\ Words(u)' /\ AllTaken(u)'
      BY <2>1, <3>1 DEF Local, Rounds, Words, AllTaken
    <3>3. Snapshot(u)'
      <4>1. mem'["not_empty"] = mem["not_empty"] + 1 /\ mem["not_empty"] \in Nat /\ expected[u] \in Nat
        BY <2>1 DEF CtrlInv
      <4> QED
        BY <3>1, <4>1 DEF Local, Snapshot
    <3> QED
      BY <3>2, <3>3 DEF Local
  <2> QED
    BY <2>4, <2>5, <2>6, <2>7 DEF CtrlInv
<1> QED
  BY <1>2, <1>3

LEMMA ConsumeCtrl ==
  ASSUME CtrlInv, NEW t \in Thread, Consume(t)
  PROVE  CtrlInv'
<1> USE DEF CtrlTypes, Word, PC
<1>1. t \in Consumers /\ pc[t] = "check" /\ t \notin Producers
  BY FutexAssumption DEF Consume, Running
<1>2. CASE count = 0 /\ consumed < TOTAL_ITEMS
  BY <1>1, <1>2, CondWaitCtrl DEF Consume, CtrlInv
<1>3. CASE count = 0 /\ ~(consumed < TOTAL_ITEMS)
  <2>1. /\ consumed = TOTAL_ITEMS /\ Goto(t, "leave")
        /\ mem' = mem /\ word' = word /\ expected' = expected /\ made' = made
        /\ count' = count /\ consumed' = consumed
    BY <1>3 DEF Consume, CtrlInv
  <2>2. pc'[t] = "leave"
    BY <2>1 DEF Goto, CtrlInv
  <2>3. Local(t)'
    BY <1>1, <2>1, <2>2 DEF Local, Rounds, Words, AllTaken, Snapshot
  <2> QED
    BY <2>1, <2>3, QuietCtrl DEF CtrlInv
<1>4. CASE count # 0
  <2>1. /\ count > 0 /\ count' = count - 1 /\ consumed' = consumed + 1 /\ made' = made
        /\ expected' = expected /\ mem' = [mem EXCEPT !["not_full"] = @ + 1]
        /\ word' = [word EXCEPT ![t] = "not_full"] /\ pc' = [pc EXCEPT ![t] = "signal"]
    BY <1>4 DEF Consume, CondBump, Goto
  <2>2. CtrlTypes'
    BY <2>1 DEF CtrlInv
  <2>3. Counts'
    <3>1. count \in Nat /\ consumed \in Nat /\ Made' = Made
      BY <2>1 DEF CtrlInv, Made
    <3> QED
      BY <2>1, <3>1 DEF CtrlInv, Counts
  <2>4. consumed < TOTAL_ITEMS /\ consumed # TOTAL_ITEMS
    BY <2>1, NotAllTaken, TotalType DEF CtrlInv
  <2>5. Local(t)'
    BY <1>1, <2>1 DEF CtrlInv, Local, Rounds, Words, AllTaken, Snapshot
  <2>6. ASSUME NEW u \in Thread, u # t
        PROVE  Local(u)'
    <3>1. /\ Local(u) /\ pc'[u] = pc[u] /\ word'[u] = word[u] /\ expected'[u] = expected[u]
      BY <2>1, <2>6 DEF CtrlInv
    <3>2. Rounds(u)' /\ Words(u)' /\ AllTaken(u)'
      BY <2>1, <2>4, <3>1 DEF Local, Rounds, Words, AllTaken
    <3>3. Snapshot(u)'
      <4>1. mem'["not_empty"] = mem["not_empty"]
        BY <2>1 DEF CtrlInv
      <4> QED
        BY <2>1, <3>1, <4>1 DEF Local, Snapshot
    <3> QED
      BY <3>2, <3>3 DEF Local
  <2> QED
    BY <2>2, <2>3, <2>5, <2>6 DEF CtrlInv
<1> QED
  BY <1>2, <1>3, <1>4

LEMMA CondSignalCtrl ==
  ASSUME CtrlInv, NEW t \in Thread, CondSignal(t)
  PROVE  CtrlInv'
<1> USE DEF CtrlTypes, Word, PC
<1>1. /\ pc[t] = "signal" /\ expected' = expected /\ made' = made /\ count' = count
      /\ consumed' = consumed
  BY DEF CondSignal, Running
<1>2. CASE t \in Consumers /\ consumed = TOTAL_ITEMS
  <2>1. PICK p \in {"broadcast", "requeue"} : CondBump(t, "not_empty", p)
    BY <1>2 DEF CondSignal
  <2>2. /\ mem' = [mem EXCEPT !["not_empty"] = @ + 1]
        /\ word' = [word EXCEPT ![t] = "not_empty"] /\ pc' = [pc EXCEPT ![t] = p]
    BY <2>1 DEF CondBump, Goto
  <2>3. CtrlTypes'
    BY <1>1, <2>2 DEF CtrlInv
  <2>4. Counts'
    BY <1>1 DEF CtrlInv, Counts, Made
  <2>5. t \notin Producers
    BY <1>2, FutexAssumption
  <2>6. Local(t)'
    BY <1>1, <1>2, <2>2, <2>5 DEF CtrlInv, Local, Rounds, Words, AllTaken, Snapshot
  <2>7. ASSUME NEW u \in Thread, u # t
        PROVE  Local(u)'
    <3>1. /\ Local(u) /\ pc'[u] = pc[u] /\ word'[u] = word[u] /\ expected'[u] = expected[u]
      BY <1>1, <2>2, <2>7 DEF CtrlInv
    <3>2. Rounds(u)' /\ Words(u)' /\ AllTaken(u)'
      BY <1>1, <3>1 DEF Local, Rounds, Words, AllTaken
    <3>3. Snapshot(u)'
      <4>1. mem'["not_empty"] = mem["not_empty"] + 1 /\ mem["not_empty"] \in Nat /\ expected[u] \in Nat
        BY <2>2 DEF CtrlInv
      <4> QED
        BY <1>1, <3>1, <4>1 DEF Local, Snapshot
    <3> QED
      BY <3>2, <3>3 DEF Local
  <2> QED
    BY <2>3, <2>4, <2>6, <2>7 DEF CtrlInv
<1>3. CASE ~(t \in Consumers /\ consumed = TOTAL_ITEMS)
  <2>1. Goto(t, "unlock") /\ mem' = mem /\ word' = word
    BY <1>3 DEF CondSignal
  <2>2. pc'[t] = "unlock"
    BY <2>1 DEF Goto, CtrlInv
  <2>3. Local(t)'
    BY <1>1, <2>1, <2>2 DEF Local, Rounds, Words, AllTaken, Snapshot
  <2> QED
    BY <1>1, <2>1, <2>3, QuietCtrl DEF CtrlInv
<1> QED
  BY <1>2, <1>3

LEMMA CtrlStep ==
  ASSUME CtrlInv, [Next]_vars
  PROVE  CtrlInv'
<1>1. ASSUME UNCHANGED <<mem, pc, word, expected, made, count, consumed>>
      PROVE  CtrlInv'
  BY <1>1 DEF CtrlInv, CtrlTypes, Counts, Made, Local, Rounds, Words, AllTaken, Snapshot
<1>2. CASE \E t \in Thread : Program(t)
  BY <1>2, WaitCtrl, ProduceCtrl, ConsumeCtrl, CondSignalCtrl DEF Program
<1>3. CASE Tick \/ futex_sweep \/ \E t \in Thread : Signal(t)
  BY <1>1, <1>3 DEF Tick, futex_sweep, Signal
<1>4. CASE UNCHANGED vars
  BY <1>1, <1>4 DEF vars
<1> QED
  BY <1>2, <1>3, <1>4 DEF Next, QuietNext

-----------------------------------------------------------------------------
(* Who is parked, and where it is listed *)

Parked == \A t \in Thread : state[t] = "BLOCKED" => pc[t] = "parked"

\* Items are signalled to consumers.
Served == \A t \in Thread : Lists("not_empty", t) => t \in Consumers

\* Everybody who is parked is listed, up to the last item for the word waited for:
\* only the announcement of the end may requeue.
Listings ==
  /\ \A t \in Thread : state[t] = "BLOCKED" => \E w \in Word : Lists(w, t)
  /\ consumed < TOTAL_ITEMS => \A t \in Thread : state[t] = "BLOCKED" => Lists(word[t], t)

TableInv == TableOK /\ Parked /\ Served /\ Listings

FutexInv == CtrlInv /\ TableInv /\ NoLostSignal

\* A step that parks nobody and requeues nobody
LEMMA DropsStep ==
  ASSUME FutexInv, CtrlInv', TableOK', Drops, consumed' \in {consumed, consumed + 1},
         \A u \in Thread : state[u] = "BLOCKED" => pc'[u] = pc[u] /\ word'[u] = word[u]
  PROVE  TableInv'
<1> USE DEF FutexInv, TableInv
<1>1. \A u \in Thread : state'[u] = "BLOCKED" => state[u] = "BLOCKED" /\ pc'[u] = pc[u] /\ word'[u] = word[u]
  BY DEF Drops
<1>2. Parked'
  BY <1>1 DEF Parked
<1>3. Served'
  BY DEF Served, Drops, Word
<1>4. consumed' < TOTAL_ITEMS => consumed < TOTAL_ITEMS
  BY TotalType DEF CtrlInv, CtrlTypes
<1>5. \A u \in Thread : state'[u] = "BLOCKED" => \E w \in Word : Lists(w, u)'
  BY <1>1 DEF Listings, Drops
<1>6. ASSUME consumed' < TOTAL_ITEMS, NEW u \in Thread, state'[u] = "BLOCKED"
      PROVE  u \in Listed(futexes'[word'[u]].waiters)
  <2>1. Lists(word[u], u) /\ word'[u] = word[u]
    BY <1>1, <1>4, <1>6 DEF Listings
  <2>2. word[u] \in Word
    BY DEF CtrlInv, CtrlTypes
  <2>3. \A w \in Word : Lists(w, u) => u \in Listed(futexes'[w].waiters)
    BY <1>6 DEF Drops, Lists, Queue
  <2> QED
    BY <2>1, <2>2, <2>3
<1>7. Listings'
  BY <1>5, <1>6 DEF Listings, Lists, Queue
<1> QED
  BY <1>2, <1>3, <1>7

\* A consumer that is not parked for an item is there to take it.
LEMMA ConsumerMoves ==
  ASSUME CtrlInv', NEW t \in Consumers, ~(state'[t] = "BLOCKED" /\ word'[t] = "not_empty")
  PROVE  NoLostSignal'
<1> SUFFICES ASSUME count' > 0, pc'[t] = "done"
             PROVE  FALSE
  BY DEF NoLostSignal
<1>1. t \in Thread
  BY DEF Thread
<1>2. consumed' = TOTAL_ITEMS
  BY <1>1 DEF CtrlInv, Local, AllTaken
<1>3. (count > 0 => consumed < TOTAL_ITEMS)'
  BY NotAllTaken, PTL
<1> QED
  BY <1>2, <1>3, TotalType

\* A step of nobody, or of a producer that does not leave "signal".
LEMMA OthersKeep ==
  ASSUME NoLostSignal, count' = count,
         \A u \in Consumers : /\ pc'[u] = pc[u] /\ word'[u] = word[u]
                              /\ state'[u] = "BLOCKED" => state[u] = "BLOCKED",
         \A u \in Producers : pc[u] = "signal" => pc'[u] = "signal"
  PROVE  NoLostSignal'
BY DEF NoLostSignal

\* What a program does without a futex call leaves the table as it is.
LEMMA PlainStep ==
  ASSUME FutexInv, NEW t \in Thread,
         \/ Lock(t) \/ Spin(t) \/ Unlock(t) \/ FutexCheck(t) \/ FutexReturn(t)
         \/ Produce(t) \/ Consume(t)
  PROVE  FutexInv'
<1>1. CtrlInv'
  BY WaitCtrl, ProduceCtrl, ConsumeCtrl DEF FutexInv
<1>2. /\ state[t] = "READY" /\ futexes' = futexes /\ state' = state
      /\ consumed' \in {consumed, consumed + 1}
      /\ \E p \in PC : pc' = [pc EXCEPT ![t] = p]
      /\ \A u \in Thread : u # t => word'[u] = word[u]
  <2>1. state[t] = "READY" /\ futexes' = futexes /\ state' = state
    BY DEF Lock, Spin, Unlock, FutexCheck, FutexReturn, Produce, Consume, Running
  <2>2. consumed' \in {consumed, consumed + 1}
    BY DEF Lock, Spin, Unlock, FutexCheck, FutexReturn, Produce, Consume, CondWait
  <2>3. \A u \in Thread : u # t => word'[u] = word[u]
    BY DEF Lock, Spin, Unlock, FutexCheck, FutexReturn, Produce, Consume, CondWait, CondBump,
           FutexInv, CtrlInv, CtrlTypes
  <2>4. \E p \in PC : Goto(t, p)
    <3>1. CASE Lock(t) \/ Spin(t) \/ Unlock(t) \/ FutexCheck(t) \/ FutexReturn(t)
      BY <3>1 DEF Lock, Spin, Unlock, FutexCheck, FutexReturn, Return, Goto, PC
    <3>2. CASE Produce(t)
      BY <3>2 DEF Produce, CondWait, CondBump, PC
    <3>3. CASE Consume(t)
      BY <3>3 DEF Consume, CondWait, CondBump, PC
    <3> QED
      BY <3>1, <3>2, <3>3
  <2> QED
    BY <2>1, <2>2, <2>3, <2>4 DEF Goto
<1>3. \A u \in Thread : u # t => pc'[u] = pc[u]
  BY <1>2 DEF FutexInv, CtrlInv, CtrlTypes
<1>4. TableInv'
  <2>1. TableOK' /\ Drops
    BY <1>2 DEF FutexInv, TableInv, TableOK, Drops, Lists, Queue
  <2>2. \A u \in Thread : state[u] = "BLOCKED" => u # t
    BY <1>2
  <2> QED
    BY <1>1, <1>2, <1>3, <2>1, <2>2, DropsStep
<1>5. NoLostSignal'
  <2>1. CASE t \in Consumers
    BY <1>1, <1>2, <2>1, ConsumerMoves
  <2>2. CASE t \in Producers /\ count' # count
    <3>1. pc'[t] = "signal"
      BY <2>2 DEF Produce, Consume, CondWait, CondBump, Goto, Lock, Spin, Unlock, FutexCheck,
                  FutexReturn, FutexInv, CtrlInv, CtrlTypes
    <3> QED
      BY <2>2, <3>1 DEF NoLostSignal
  <2>3. CASE t \in Producers /\ count' = count
    <3>1. pc[t] # "signal"
      BY DEF Lock, Spin, Unlock, FutexCheck, FutexReturn, Produce, Consume, Running
    <3>2. \A u \in Consumers : u # t
      BY <2>3, FutexAssumption
    <3> QED
      BY <1>2, <1>3, <2>3, <3>1, <3>2, OthersKeep DEF FutexInv, Thread
  <2> QED
    BY <2>1, <2>2, <2>3 DEF Thread
<1> QED
  BY <1>1, <1>4, <1>5 DEF FutexInv

\* Time, the sweep and signals end parks.
LEMMA KernelStep ==
  ASSUME FutexInv, Tick \/ futex_sweep \/ \E t \in Thread : Signal(t)
  PROVE  FutexInv'
<1>1. TableOK' /\ Drops
  BY TickTable, SweepTable, SignalTable DEF FutexInv, TableInv
<1>2. UNCHANGED <<mem, pc, word, expected, made, count, consumed>>
  BY DEF Tick, futex_sweep, Signal
<1>3. CtrlInv'
  BY <1>2, CtrlStep DEF FutexInv, Next, QuietNext
<1>4. TableInv'
  BY <1>1, <1>2, <1>3, DropsStep
<1>5. NoLostSignal'
  BY <1>1, <1>2, OthersKeep DEF FutexInv, Drops, Thread
<1> QED
  BY <1>3, <1>4, <1>5 DEF FutexInv

\* The wake after an unlock, and a broadcast
LEMMA WakeStep ==
  ASSUME FutexInv, NEW t \in Thread, UnlockWake(t) \/ CondBroadcast(t)
  PROVE  FutexInv'
<1>1. CtrlInv'
  BY WaitCtrl DEF FutexInv
<1>2. /\ state[t] = "READY" /\ pc[t] # "signal" /\ word' = word /\ consumed' = consumed
      /\ count' = count
  BY DEF UnlockWake, CondBroadcast, Running
<1>3. \E p \in PC : pc' = [pc EXCEPT ![t] = p]
  BY DEF UnlockWake, CondBroadcast, Goto, PC
<1>4. \A u \in Thread : u # t => pc'[u] = pc[u]
  BY <1>3 DEF FutexInv, CtrlInv, CtrlTypes
<1>5. TableOK' /\ Drops
  <2>1. \E w \in Word, n \in Nat : futex_wake(w, n)
    <3>1. CASE UnlockWake(t)
      BY <3>1 DEF UnlockWake, Word
    <3>2. CASE CondBroadcast(t)
      <4>1. Cardinality(Thread) \in Nat
        BY FutexAssumption, FS_CardinalityType
      <4>2. word[t] \in Word
        BY DEF FutexInv, CtrlInv, CtrlTypes
      <4> QED
        BY <3>2, <4>1, <4>2 DEF CondBroadcast
    <3> QED
      BY <3>1, <3>2
  <2> QED
    BY <2>1, WakeTable DEF FutexInv, TableInv
<1>6. TableInv'
  BY <1>1, <1>2, <1>4, <1>5, DropsStep
<1>7. NoLostSignal'
  <2>1. CASE t \in Consumers
    BY <1>1, <1>2, <1>5, <2>1, ConsumerMoves DEF Drops
  <2>2. CASE t \in Producers
    <3>1. \A u \in Consumers : u # t
      BY <2>2, FutexAssumption
    <3> QED
      BY <1>2, <1>4, <1>5, <3>1, OthersKeep DEF FutexInv, Drops, Thread
  <2> QED
    BY <2>1, <2>2 DEF Thread
<1> QED
  BY <1>1, <1>6, <1>7 DEF FutexInv

\* mct_cond_signal: the producer of an item wakes a consumer, or all of them are
\* awake.
LEMMA CondSignalStep ==
  ASSUME FutexInv, NEW t \in Thread, CondSignal(t)
  PROVE  FutexInv'
<1>1. CtrlInv'
  BY CondSignalCtrl DEF FutexInv
<1>2. /\ state[t] = "READY" /\ pc[t] = "signal" /\ consumed' = consumed /\ count' = count
      /\ futex_wake(word[t], 1)
  BY DEF CondSignal, Running
<1>3. /\ \A u \in Thread : u # t => word'[u] = word[u]
      /\ \E p \in PC : pc' = [pc EXCEPT ![t] = p]
  BY DEF CondSignal, CondBump, Goto, PC, FutexInv, CtrlInv, CtrlTypes
<1>4. \A u \in Thread : u # t => pc'[u] = pc[u]
  BY <1>3 DEF FutexInv, CtrlInv, CtrlTypes
<1>5. word[t] \in Word
  BY DEF FutexInv, CtrlInv, CtrlTypes
<1>6. /\ TableOK' /\ Drops
      /\ Queue(word[t]) # <<>> => \E u \in Thread : Lists(word[t], u) /\ state'[u] = "READY"
  BY <1>2, <1>5, WakeTable DEF FutexInv, TableInv
<1>7. TableInv'
  BY <1>1, <1>2, <1>3, <1>4, <1>6, DropsStep
<1>8. NoLostSignal'
  <2>1. CASE t \in Consumers
    BY <1>1, <1>2, <1>6, <2>1, ConsumerMoves DEF Drops
  <2>2. CASE t \in Producers
    <3>1. word[t] = "not_empty"
      BY <1>2, <2>2 DEF FutexInv, CtrlInv, Local, Words
    <3>2. CASE Queue("not_empty") # <<>>
      <4>1. PICK u \in Thread : Lists("not_empty", u) /\ state'[u] = "READY"
        BY <1>6, <3>1, <3>2
      <4>2. u \in Consumers
        BY <4>1 DEF FutexInv, TableInv, Served
      <4> QED
        BY <1>1, <4>1, <4>2, ConsumerMoves
    <3>3. CASE Queue("not_empty") = <<>>
      <4>1. PICK u \in Consumers : TRUE
        BY FutexAssumption
      <4>2. u \in Thread /\ u # t
        BY <2>2, FutexAssumption DEF Thread
      <4>3. \A v : ~Lists("not_empty", v)
        BY <3>3 DEF Lists, Listed
      <4>4. count > 0 => ~(state[u] = "BLOCKED" /\ word[u] = "not_empty")
        <5>1. count > 0 => consumed < TOTAL_ITEMS
          BY NotAllTaken DEF FutexInv
        <5> QED
          BY <4>2, <4>3, <5>1 DEF FutexInv, TableInv, Listings
      <4>5. count > 0 => ~(state'[u] = "BLOCKED" /\ word'[u] = "not_empty")
        BY <1>3, <1>6, <4>2, <4>4 DEF Drops
      <4>6. ~(count' > 0) => NoLostSignal'
        BY DEF NoLostSignal
      <4> QED
        BY <1>1, <1>2, <4>5, <4>6, ConsumerMoves
    <3> QED
      BY <3>2, <3>3
  <2> QED
    BY <2>1, <2>2 DEF Thread
<1> QED
  BY <1>1, <1>7, <1>8 DEF FutexInv

\* The announcement of the end: nothing is left in the buffer.
LEMMA RequeueStep ==
  ASSUME FutexInv, NEW t \in Thread, CondRequeue(t)
  PROVE  FutexInv'
<1>1. CtrlInv'
  BY WaitCtrl DEF FutexInv
<1>2. /\ state[t] = "READY" /\ pc[t] = "requeue" /\ word' = word /\ consumed' = consumed
      /\ count' = count /\ pc' = [pc EXCEPT ![t] = "unlock"]
      /\ \E exp : futex_requeue(word[t], exp)
  BY DEF CondRequeue, Running, Goto
<1>3. t \in Consumers /\ word[t] = "not_empty" /\ consumed = TOTAL_ITEMS
  BY <1>2 DEF FutexInv, CtrlInv, Local, Words, AllTaken
<1>4. \A u \in Thread : u # t => pc'[u] = pc[u]
  BY <1>2 DEF FutexInv, CtrlInv, CtrlTypes
<1>5. /\ TableOK'
      /\ \A u \in Thread : state'[u] = "BLOCKED" => state[u] = "BLOCKED"
      /\ \A v \in Word, u \in Thread :
           Lists(v, u) /\ state'[u] = "BLOCKED" => Lists(v, u)' \/ Lists("mu", u)'
      /\ \A v \in Word, u \in Thread : v # "mu" /\ Lists(v, u)' => Lists(v, u)
  BY <1>2, <1>3, RequeueTable DEF FutexInv, TableInv, Word
<1>6. TableInv'
  <2>1. Parked'
    BY <1>2, <1>4, <1>5 DEF FutexInv, TableInv, Parked
  <2>2. Served'
    BY <1>5 DEF FutexInv, TableInv, Served, Word
  <2>3. \A u \in Thread : state'[u] = "BLOCKED" => \E w \in Word : Lists(w, u)'
    BY <1>5 DEF FutexInv, TableInv, Listings, Word
  <2>4. ~(consumed' < TOTAL_ITEMS)
    BY <1>2, <1>3, TotalType
  <2>5. Listings'
    BY <2>3, <2>4 DEF Listings
  <2> QED
    BY <1>5, <2>1, <2>2, <2>5 DEF TableInv
<1>7. NoLostSignal'
  BY <1>1, <1>2, <1>3, <1>5, ConsumerMoves
<1> QED
  BY <1>1, <1>6, <1>7 DEF FutexInv

\* The second look at the word: a consumer parks for an item only if there is none.
LEMMA ParkingStep ==
  ASSUME FutexInv, NEW t \in Thread, FutexPark(t)
  PROVE  FutexInv'
<1>1. CtrlInv'
  BY WaitCtrl DEF FutexInv
<1>2. /\ state[t] = "READY" /\ pc[t] = "flock" /\ word' = word /\ consumed' = consumed
      /\ count' = count /\ mem' = mem
  BY DEF FutexPark, Running
<1>3. CASE ~(Unchanged(t) /\ Room(word[t]))
  <2>1. futexes' = futexes /\ state' = state /\ \E p \in PC : pc' = [pc EXCEPT ![t] = p]
    BY <1>3 DEF FutexPark, Return, Goto, PC
  <2>2. \A u \in Thread : u # t => pc'[u] = pc[u]
    BY <2>1 DEF FutexInv, CtrlInv, CtrlTypes
  <2>3. TableInv'
    <3>1. TableOK' /\ Drops
      BY <2>1 DEF FutexInv, TableInv, TableOK, Drops, Lists, Queue
    <3>2. \A u \in Thread : state[u] = "BLOCKED" => u # t
      BY <1>2
    <3> QED
      BY <1>1, <1>2, <2>2, <3>1, <3>2, DropsStep
  <2>4. NoLostSignal'
    <3>1. CASE t \in Consumers
      BY <1>1, <1>2, <2>1, <3>1, ConsumerMoves
    <3>2. CASE t \in Producers
      <4>1. \A u \in Consumers : u # t
        BY <3>2, FutexAssumption
      <4> QED
        BY <1>2, <2>1, <2>2, <4>1, OthersKeep DEF FutexInv, Thread
    <3> QED
      BY <3>1, <3>2 DEF Thread
  <2> QED
    BY <1>1, <2>3, <2>4 DEF FutexInv
<1>4. CASE Unchanged(t) /\ Room(word[t])
  <2> DEFINE w == word[t]
  <2>1. w \in Word
    BY DEF FutexInv, CtrlInv, CtrlTypes
  <2>2. /\ futexes' = [futexes EXCEPT ![w] =
                         [in_use |-> TRUE, waiters |-> Append(@.waiters, Entry(t))]]
        /\ state' = [state EXCEPT ![t] = "BLOCKED"] /\ pc' = [pc EXCEPT ![t] = "parked"]
    BY <1>4 DEF FutexPark, Goto
  <2>3. Room(w)
    BY <1>4
  <2> HIDE DEF w
  <2>4. /\ TableOK'
        /\ \A u \in Thread : state'[u] = IF u = t THEN "BLOCKED" ELSE state[u]
        /\ \A v \in Word, u \in Thread : Lists(v, u)' <=> Lists(v, u) \/ (v = w /\ u = t)
    BY <2>1, <2>2, <2>3, ParkTable DEF FutexInv, TableInv
  <2>5. pc'[t] = "parked" /\ \A u \in Thread : u # t => pc'[u] = pc[u]
    BY <2>2 DEF FutexInv, CtrlInv, CtrlTypes
  <2>6. w = "not_empty" => t \in Consumers
    BY <1>2 DEF FutexInv, CtrlInv, Local, Words, Thread, w
  <2>7. TableInv'
    <3>1. Parked'
      BY <2>4, <2>5 DEF FutexInv, TableInv, Parked
    <3>2. Served'
      BY <2>4, <2>6 DEF FutexInv, TableInv, Served, Word
    <3>3. \A u \in Thread : state'[u] = "BLOCKED" => \E v \in Word : Lists(v, u)'
      BY <2>1, <2>4 DEF FutexInv, TableInv, Listings
    <3>4. ASSUME consumed' < TOTAL_ITEMS, NEW u \in Thread, state'[u] = "BLOCKED"
          PROVE  u \in Listed(futexes'[word'[u]].waiters)
      <4>1. word[u] \in Word /\ word'[u] = word[u]
        BY <1>2 DEF FutexInv, CtrlInv, CtrlTypes
      <4>2. u = t \/ Lists(word[u], u)
        BY <1>2, <2>4, <3>4 DEF FutexInv, TableInv, Listings
      <4>3. \A v \in Word : (v = w /\ u = t) \/ Lists(v, u) => u \in Listed(futexes'[v].waiters)
        BY <2>4 DEF Lists, Queue
      <4> QED
        BY <4>1, <4>2, <4>3 DEF w
    <3>5. Listings'
      BY <3>3, <3>4 DEF Listings, Lists, Queue
    <3> QED
      BY <2>4, <3>1, <3>2, <3>5 DEF TableInv
  <2>8. NoLostSignal'
    <3>1. CASE t \in Consumers /\ w = "not_empty"
      <4>1. count = 0
        BY <1>2, <1>4, <3>1 DEF Unchanged, FutexInv, CtrlInv, Local, Snapshot, w
      <4> QED
        BY <1>2, <4>1 DEF NoLostSignal
    <3>2. CASE t \in Consumers /\ w # "not_empty"
      BY <1>1, <1>2, <3>2, ConsumerMoves DEF w
    <3>3. CASE t \in Producers
      <4>1. \A u \in Consumers : u # t /\ u \in Thread
        BY <3>3, FutexAssumption DEF Thread
      <4>2. \A u \in Producers : pc[u] = "signal" => pc'[u] = "signal"
        BY <1>2, <2>5 DEF Thread
      <4> QED
        BY <1>2, <2>4, <2>5, <4>1, <4>2, OthersKeep DEF FutexInv
    <3> QED
      BY <3>1, <3>2, <3>3 DEF Thread
  <2> QED
    BY <1>1, <2>7, <2>8 DEF FutexInv
<1> QED
  BY <1>3, <1>4

-----------------------------------------------------------------------------
LEMMA FutexInitially == Init => FutexInv
<1> SUFFICES ASSUME Init
             PROVE  FutexInv
  OBVIOUS
<1>1. CtrlTypes
  BY FutexAssumption DEF Init, CtrlTypes, Word, PC
<1>2. \A t \in Thread : Local(t)
  BY FutexAssumption DEF Init, Local, Rounds, Words, AllTaken, Snapshot
<1>3. Counts
  <2>1. Made = {}
    BY FutexAssumption DEF Init, Made
  <2>2. Cardinality(Made) = 0
    BY <2>1, FS_EmptySet
  <2> QED
    BY <2>2 DEF Init, Counts
<1>4. /\ futexes \in [Word -> [in_use : BOOLEAN, waiters : Seq(Waiter)]]
      /\ \A w \in Word : Queue(w) = <<>> /\ ~futexes[w].in_use
  <2> DEFINE E == [in_use : BOOLEAN, waiters : Seq(Waiter)]
             e == Holding(<<>>)
  <2>1. e \in E /\ e.waiters = <<>> /\ ~e.in_use
    <3>1. e = [in_use |-> FALSE, waiters |-> <<>>]
      BY DEF Holding
    <3> HIDE DEF e
    <3> QED
      BY <3>1
  <2>2. futexes = [w \in Word |-> e]
    BY DEF Init
  <2> HIDE DEF E, e
  <2>3. futexes \in [Word -> E] /\ \A w \in Word : futexes[w] = e
    BY <2>1, <2>2
  <2> QED
    BY <2>1, <2>3 DEF E, Queue
<1>5. Slots(futexes) <= MAX_FUTEX
  <2>1. {w \in Word : futexes[w].in_use} = {}
    BY <1>4
  <2>2. Cardinality({w \in Word : futexes[w].in_use}) = 0
    BY <2>1, FS_EmptySet
  <2> QED
    BY <2>2, FutexAssumption DEF Slots
<1>6. TableOK
  <2>1. Len(<<>>) <= MAX_WAITERS
    BY FutexAssumption
  <2>2. state \in [Thread -> {"READY", "BLOCKED"}]
    BY DEF Init
  <2> QED
    BY <1>4, <1>5, <2>1, <2>2 DEF TableOK
<1>7. \A t \in Thread : state[t] = "READY"
  BY DEF Init
<1>8. Parked /\ Listings
  BY <1>7 DEF Parked, Listings
<1>9. Served
  <2>1. \A t : ~Lists("not_empty", t)
    BY <1>4 DEF Lists, Listed, Word
  <2> QED
    BY <2>1 DEF Served
<1>10. NoLostSignal
  BY DEF Init, NoLostSignal
<1> QED
  BY <1>1, <1>2, <1>3, <1>6, <1>8, <1>9, <1>10 DEF FutexInv, CtrlInv, TableInv

LEMMA FutexStep ==
  ASSUME FutexInv, [Next]_vars
  PROVE  FutexInv'
<1>1. CASE UNCHANGED vars
  BY <1>1 DEF vars, FutexInv, CtrlInv, CtrlTypes, Counts, Made, Local, Rounds, Words, AllTaken,
              Snapshot, TableInv, TableOK, Parked, Served, Listings, NoLostSignal, Lists, Queue
<1>2. CASE \E t \in Thread : Program(t)
  BY <1>2, PlainStep, WakeStep, ParkingStep, CondSignalStep, RequeueStep DEF Program
<1>3. CASE Tick \/ futex_sweep \/ \E t \in Thread : Signal(t)
  BY <1>3, KernelStep
<1> QED
  BY <1>1, <1>2, <1>3 DEF Next, QuietNext

LEMMA FutexInvariant == Spec => []FutexInv
<1>1. FutexInv /\ [Next]_vars => FutexInv'
  BY FutexStep
<1> QED
  BY <1>1, FutexInitially, PTL DEF Spec

\* Every variable keeps its type; the table and its queues keep their bounds.
THEOREM FutexTypes == Spec => []TypeOK
<1>1. FutexInv => TypeOK
  BY DEF FutexInv, CtrlInv, CtrlTypes, TableInv, TableOK, TypeOK, Queue, Waiter
<1> QED
  BY <1>1, FutexInvariant, PTL

\* Wakes, requeues and the sweep never take a parked thread off all queues: the
\* sweep reaches it.
THEOREM ParkedAreListed == Spec => []ParkedListed
<1>1. ASSUME FutexInv
      PROVE  ParkedListed
  <2> SUFFICES ASSUME NEW t \in Thread, state[t] = "BLOCKED"
               PROVE  \E w \in Word : \E i \in DOMAIN futexes[w].waiters :
                        futexes[w].waiters[i].tid = t /\ futexes[w].waiters[i].left >= 0
    BY DEF ParkedListed
  <2>1. PICK w \in Word : Lists(w, t)
    BY <1>1 DEF FutexInv, TableInv, Listings
  <2>2. Queue(w) \in Seq(Waiter)
    BY <1>1, TableAt DEF FutexInv, TableInv
  <2>3. PICK i \in 1 .. Len(Queue(w)) : Queue(w)[i].tid = t
    BY <2>1, <2>2, ListedAt DEF Lists
  <2>4. DOMAIN Queue(w) = 1 .. Len(Queue(w)) /\ Queue(w)[i] \in Waiter
    BY <2>2, ListedAt
  <2>5. Queue(w)[i].left >= 0
    BY <2>4 DEF Waiter
  <2> QED
    BY <2>3, <2>4, <2>5 DEF Queue
<1> QED
  BY <1>1, FutexInvariant, PTL

\* The condition variable loses no wake-up: while an item is in the buffer, a
\* consumer is there to take it or the item's producer is about to wake one,
\* whatever time-outs, signals, stale entries and full queues do.
THEOREM SignalsReach == Spec => []NoLostSignal
<1>1. FutexInv => NoLostSignal
  BY DEF FutexInv
<1> QED
  BY <1>1, FutexInvariant, PTL

-----------------------------------------------------------------------------
(* Both on one machine *)

\* Semaphores and futexes share sync_lock and nothing else: a call to one leaves the
\* other's tables as they are, so that both keep their types and bounds together.
THEOREM SyncTypes == SyncSpec => []SyncTypeOK
<1> DEFINE I == SemInv /\ FutexInv
<1>1. SyncInit => I
  BY SemInitially, FutexInitially DEF SyncInit
<1>2. I /\ [SyncNext]_<<part, semVars, vars>> => I'
  <2> SUFFICES ASSUME I, [SyncNext]_<<part, semVars, vars>> PROVE I'
    OBVIOUS
  <2>1. [SemNext]_semVars /\ [Next]_vars
    BY DEF SyncNext
  <2> QED
    BY <2>1, SemStep, FutexStep
<1>3. I => SyncTypeOK
  <2>1. SemInv => SemTypeOK
    BY DEF SemInv
  <2>2. FutexInv => TypeOK
    BY DEF FutexInv, CtrlInv, CtrlTypes, TableInv, TableOK, TypeOK, Queue, Waiter
  <2> QED
    BY <2>1, <2>2 DEF SyncTypeOK
<1> QED
  BY <1>1, <1>2, <1>3, PTL DEF SyncSpec
=============================================================================
