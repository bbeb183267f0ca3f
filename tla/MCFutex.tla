------------------------------ MODULE MCFutex ------------------------------
(* Futex on small instances: consumers are interchangeable. *)
EXTENDS Futex, TLC

Perms == Permutations(Consumers)
=============================================================================
