------------------------------ MODULE MCSched ------------------------------
EXTENDS Sched
AnyChild == {Any}
Either == {Any, NCPU + 1}
=============================================================================
