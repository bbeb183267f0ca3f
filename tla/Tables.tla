------------------------------- MODULE Tables -------------------------------
(* What the tables of the kernel have in common: slots are numbers, and a     *)
(* search takes the first slot that fits.                                     *)
EXTENDS Integers

CONSTANTS Task, \* task slots
          None  \* no task, no key, no message, no entry

ASSUME TablesAssumption == Task \subseteq Nat /\ None \notin Int

\* The scan of a table from its first slot on, over the slots s that fit
First(s) == CHOOSE x \in s : \A y \in s : x <= y
=============================================================================
