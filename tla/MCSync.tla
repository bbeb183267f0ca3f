------------------------------- MODULE MCSync -------------------------------
(* Small instances of the semaphores and of the futexes' bounded buffer,       *)
(* which share sync_lock and nothing else.  A behaviour uses one of them,      *)
(* chosen at the start; threads and semaphores are interchangeable.            *)
EXTENDS Sem, Futex, TLC

VARIABLE part \* the primitive in use

SyncInit == part \in {"sem", "futex"} /\ SemInit /\ Init

SyncNext ==
  /\ \/ part = "sem" /\ SemNext /\ UNCHANGED vars
     \/ part = "futex" /\ Next /\ UNCHANGED semVars
  /\ UNCHANGED part

SyncSpec == SyncInit /\ [][SyncNext]_<<part, semVars, vars>>

\* Queues, counts, words and states of both stay in their ranges.
SyncTypeOK == SemTypeOK /\ TypeOK

Perms == Permutations(Tid) \cup Permutations(Sem) \cup Permutations(Consumers)
=============================================================================
