------------------------------ MODULE Channel ------------------------------
(* What a message queue promises its callers: a queue that exists holds a   *)
(* bounded first-in first-out sequence; a send that succeeds appends one     *)
(* message, a receive that succeeds takes the oldest, a call that fails      *)
(* changes nothing, and closing a queue drops what it holds.                 *)
EXTENDS Integers, Sequences

CONSTANTS Task, Qid, Type, Depth, None

VARIABLES chan, \* chan[q]: the messages of q, or None while there is no such queue
          ret   \* ret[t]: what the last call of t returned: 0 or -1 and a message

Result(rc, m) == [rc |-> rc, msg |-> m]

Init == /\ chan = [q \in Qid |-> None]
        /\ ret = [t \in Task |-> Result(None, None)]

Open(q)  == chan[q] = None /\ chan' = [chan EXCEPT ![q] = <<>>] /\ UNCHANGED ret
Close(q) == chan[q] # None /\ chan' = [chan EXCEPT ![q] = None] /\ UNCHANGED ret

Put(t, q, y) ==
  /\ chan[q] # None /\ Len(chan[q]) < Depth
  /\ chan' = [chan EXCEPT ![q] = Append(@, <<t, y>>)]
  /\ ret' = [ret EXCEPT ![t] = Result(0, None)]

Take(t, q) ==
  /\ chan[q] # None /\ chan[q] # <<>>
  /\ chan' = [chan EXCEPT ![q] = Tail(@)]
  /\ ret' = [ret EXCEPT ![t] = Result(0, Head(chan[q]))]

\* A call starts, or it fails.
Begin(t) == ret' = [ret EXCEPT ![t] = Result(None, None)] /\ UNCHANGED chan
Fail(t)  == ret' = [ret EXCEPT ![t] = Result(-1, None)]   /\ UNCHANGED chan

Next == \/ \E q \in Qid : Open(q) \/ Close(q)
        \/ \E t \in Task, q \in Qid : Take(t, q) \/ \E y \in Type : Put(t, q, y)
        \/ \E t \in Task : Begin(t) \/ Fail(t)

Spec == Init /\ [][Next]_<<chan, ret>>
=============================================================================
