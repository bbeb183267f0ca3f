------------------------------ MODULE Queues ------------------------------
(* The waiter queues of src/sys/sync.c are arrays that its loops compact; the *)
(* recency order of src/sys/blkcache.c loses entries in the same way.         *)
EXTENDS Integers, Sequences

\* The entries of q at the positions in `stay`, in their order.  It is SelectSeq by
\* position, as a function that proofs can expand.
Compacted(q, stay) ==
  LET kept[i \in 0 .. Len(q)] ==
        IF i = 0 THEN <<>>
        ELSE IF i \in stay THEN Append(kept[i - 1], q[i]) ELSE kept[i - 1]
  IN  kept[Len(q)]

\* Positions of q whose entries are not those of t
Others(q, t) == {i \in DOMAIN q : q[i] # t}
=============================================================================
