----------------------------- MODULE IpcProofs -----------------------------
(***************************************************************************)
(* What programs pass data through: the message queues of src/sys/ipc.c,   *)
(* and the descriptors of src/sys/fd.c with their pipes and terminals.     *)
(*                                                                         *)
(* The queues implement Channel, for any number of tasks, queues and keys  *)
(* and for every depth of the ring.  The invariant is local to a queue and *)
(* to a task: the indices close the ring over the counted messages, and a  *)
(* waiting slot is set only while the queue is as the waiter found it.     *)
(*                                                                         *)
(* Of the descriptors, for any tables, pipes and terminals: every entry    *)
(* counts what refers to it, and a pipe or a terminal is in use exactly    *)
(* while one of its ends is open.  The two depend on each other: an end    *)
(* closes when its entry counts its last descriptor, and the entry says    *)
(* which pipe that is.  The invariant adds what keeps them together: an    *)
(* entry in use names what its type needs, one entry at most is the reader *)
(* of a pipe, the writer of it, or the master of a terminal, and a call    *)
(* that waits keeps the descriptor that it waits on.                       *)
(***************************************************************************)
EXTENDS Ipc, Fds, Lemmas

-----------------------------------------------------------------------------
(* The message queues                                                        *)

Queues == [key : Key \cup {None}, head : Ring, tail : Ring, count : 0 .. DEPTH,
           messages : [Ring -> Msg \cup {None}],
           waiting_send : Task \cup {None}, waiting_recv : Task \cup {None}]

\* The head is where the next message goes, count after the tail.
Closes(r) == r.head = (r.tail + r.count) % DEPTH

\* The waiting slots of WaitersJustified
Justified(r) == /\ r.waiting_recv # None => r.key # None /\ r.count = 0
                /\ r.waiting_send # None => r.key # None /\ r.count = DEPTH

\* A caller that waits knows what it waits for.
WaitsFor(c) == c.at \in {"asleep", "awake"} =>
                 c.q \in Qid /\ (c.op = "send" => c.y \in Type)

\* A queue in order; destroying one leaves its head and tail anywhere.
InOrder(r) == r \in Queues /\ (r.key # None => Closes(r)) /\ Justified(r)

CallTypes == [at : {"user", "asleep", "awake", "waking", "dead"},
              op : {None, "send", "receive"}, q : Qid \cup {None},
              y : Type \cup {None}, wake : Task \cup {None}]
RetTypes  == [rc : {0, -1, None}, msg : Msg \cup {None}]

GoodQueues == queues \in [Qid -> Queues] /\ \A q \in Qid : InOrder(queues[q])
GoodCalls  == call \in [Task -> CallTypes] /\ \A t \in Task : WaitsFor(call[t])

IpcInv == GoodQueues /\ GoodCalls /\ ret \in [Task -> RetTypes]

\* The messages of a queue r, oldest first
Held(r) == [i \in 1 .. r.count |-> r.messages[(r.tail + i - 1) % DEPTH]]

\* What Channel sees of a queue r
Chan(r) == IF r.key # None THEN Held(r) ELSE None

-----------------------------------------------------------------------------
(* The ring.                                                                 *)

\* An index goes round at most once.
Round(a) == IF a < DEPTH THEN a ELSE a - DEPTH

LEMMA Modulus == \A a \in 0 .. 2 * DEPTH - 1 : a % DEPTH = Round(a)
BY IpcAssumption DEF Round

LEMMA RoundIn ==
  ASSUME NEW a \in Ring, NEW k \in 0 .. DEPTH
  PROVE  Round(a + k) \in Ring /\ (a + k) % DEPTH = Round(a + k)
<1>1. a + k \in 0 .. 2 * DEPTH - 1
  BY IpcAssumption DEF Ring
<1>2. Round(a + k) \in Ring
  BY IpcAssumption DEF Ring, Round
<1> QED
  BY <1>1, <1>2, Modulus

LEMMA RoundApart ==
  ASSUME NEW a \in Ring, NEW k \in 0 .. DEPTH - 1, NEW i \in 0 .. k - 1
  PROVE  Round(a + i) # Round(a + k)
BY IpcAssumption DEF Ring, Round

LEMMA RoundAgain ==
  ASSUME NEW a \in Ring, NEW k \in 0 .. DEPTH - 1
  PROVE  Round(Round(a + 1) + k) = Round(a + (k + 1))
BY IpcAssumption DEF Ring, Round

LEMMA QueueTypes ==
  ASSUME NEW r \in Queues
  PROVE  /\ DEPTH \in Nat \ {0} /\ r.head \in Ring /\ r.tail \in Ring /\ 1 \in 0 .. DEPTH
         /\ r.count \in 0 .. DEPTH /\ r.count \in Nat /\ r.messages \in [Ring -> Msg \cup {None}]
BY IpcAssumption DEF Queues

LEMMA SequenceEqual ==
  ASSUME NEW S, NEW u \in Seq(S), NEW v \in Seq(S), Len(u) = Len(v),
         \A i \in 1 .. Len(u) : u[i] = v[i]
  PROVE  u = v
OBVIOUS

\* The messages of a queue as a sequence
LEMMA HeldIs ==
  ASSUME NEW r \in Queues
  PROVE  /\ Held(r) \in Seq(Msg \cup {None}) /\ Len(Held(r)) = r.count
         /\ \A i \in 1 .. r.count : Held(r)[i] = r.messages[Round(r.tail + (i - 1))]
<1>1. ASSUME NEW i \in 1 .. r.count
      PROVE  /\ (r.tail + i - 1) % DEPTH = Round(r.tail + (i - 1))
             /\ Round(r.tail + (i - 1)) \in Ring
  <2>1. i - 1 \in 0 .. DEPTH /\ r.tail + i - 1 = r.tail + (i - 1)
    BY QueueTypes DEF Ring
  <2> QED
    BY <2>1, QueueTypes, RoundIn
<1>2. \A i \in 1 .. r.count : /\ Held(r)[i] = r.messages[Round(r.tail + (i - 1))]
                              /\ Held(r)[i] \in Msg \cup {None}
  BY <1>1, QueueTypes DEF Held
<1>3. DOMAIN Held(r) = 1 .. r.count /\ Held(r) = [i \in 1 .. r.count |-> Held(r)[i]]
  BY DEF Held
<1>4. Held(r) \in Seq(Msg \cup {None}) /\ Len(Held(r)) = r.count
  <2> HIDE DEF Held
  <2>1. r.count \in Nat
    BY QueueTypes
  <2> QED
    BY <1>2, <1>3, <2>1
<1> QED
  BY <1>2, <1>4

LEMMA PushRing ==
  ASSUME NEW r \in Queues, r.count < DEPTH, Closes(r), NEW m \in Msg
  PROVE  /\ queue_push(r, m) \in Queues
         /\ Closes(queue_push(r, m))
         /\ Held(queue_push(r, m)) = Append(Held(r), m)
<1>1. PICK s : s = queue_push(r, m)
  OBVIOUS
<1>2. /\ s.head = Round(r.head + 1) /\ s.tail = r.tail /\ s.count = r.count + 1
      /\ s.messages = [r.messages EXCEPT ![r.head] = m]
  BY <1>1, QueueTypes, RoundIn DEF queue_push, Queues
<1>3. s \in Queues
  <2>1. (r.head + 1) % DEPTH \in Ring /\ r.count + 1 \in 0 .. DEPTH
    BY QueueTypes, RoundIn
  <2> QED
    BY <1>1, <2>1 DEF queue_push, Queues
<1>4. r.head = Round(r.tail + r.count)
  BY QueueTypes, RoundIn DEF Closes
<1>5. Closes(s)
  <2>1. /\ Round(Round(r.tail + r.count) + 1) = Round(r.tail + (r.count + 1))
        /\ r.count + 1 \in 0 .. DEPTH
    BY QueueTypes DEF Round, Ring
  <2> QED
    BY <1>2, <1>4, <2>1, QueueTypes, RoundIn DEF Closes
<1>6. ASSUME NEW i \in 1 .. r.count PROVE Held(s)[i] = Held(r)[i]
  <2>1. i - 1 \in 0 .. r.count - 1 /\ i \in 1 .. r.count + 1 /\ i - 1 \in 0 .. DEPTH
        /\ r.count \in 0 .. DEPTH - 1
    BY QueueTypes
  <2>2. Round(r.tail + (i - 1)) \in Ring /\ Round(r.tail + (i - 1)) # r.head
    BY <1>4, <2>1, QueueTypes, RoundIn, RoundApart
  <2>3. s.messages[Round(r.tail + (i - 1))] = r.messages[Round(r.tail + (i - 1))]
    BY <1>2, <2>2, QueueTypes
  <2> QED
    BY <1>2, <1>3, <2>1, <2>3, HeldIs
<1>7. Held(s)[r.count + 1] = m
  <2>1. r.count + 1 \in 1 .. s.count /\ (r.count + 1) - 1 = r.count
    BY <1>2, QueueTypes
  <2>2. Held(s)[r.count + 1] = s.messages[Round(r.tail + r.count)]
    BY <1>2, <1>3, <2>1, HeldIs
  <2>3. s.messages[r.head] = m
    BY <1>2, QueueTypes
  <2> QED
    BY <1>4, <2>2, <2>3
<1>8. Held(s) = Append(Held(r), m)
  <2>1. /\ Held(r) \in Seq(Msg \cup {None}) /\ Len(Held(r)) = r.count
        /\ Held(s) \in Seq(Msg \cup {None}) /\ Len(Held(s)) = r.count + 1
        /\ r.count \in Nat /\ m \in Msg \cup {None}
    BY <1>2, <1>3, HeldIs, QueueTypes
  <2>2. /\ Append(Held(r), m) \in Seq(Msg \cup {None})
        /\ Len(Append(Held(r), m)) = r.count + 1
        /\ \A i \in 1 .. r.count + 1 :
             Append(Held(r), m)[i] = IF i \in 1 .. r.count THEN Held(r)[i] ELSE m
    BY <2>1
  <2>3. \A i \in 1 .. r.count + 1 : Held(s)[i] = Append(Held(r), m)[i]
    BY <1>6, <1>7, <2>1, <2>2
  <2> QED
    BY <2>1, <2>2, <2>3, SequenceEqual
<1> QED
  BY <1>1, <1>3, <1>5, <1>8

LEMMA PopRing ==
  ASSUME NEW r \in Queues, r.count > 0, Closes(r)
  PROVE  /\ queue_pop(r) \in Queues
         /\ Closes(queue_pop(r))
         /\ Held(queue_pop(r)) = Tail(Held(r))
         /\ Held(r) # <<>> /\ Head(Held(r)) = r.messages[r.tail]
<1>1. PICK s : s = queue_pop(r)
  OBVIOUS
<1>2. /\ s.head = r.head /\ s.tail = Round(r.tail + 1) /\ s.count = r.count - 1
      /\ s.messages = r.messages
  BY <1>1, QueueTypes, RoundIn DEF queue_pop, Queues
<1>3. s \in Queues
  <2>1. (r.tail + 1) % DEPTH \in Ring /\ r.count - 1 \in 0 .. DEPTH
    BY QueueTypes, RoundIn
  <2> QED
    BY <1>1, <2>1 DEF queue_pop, Queues
<1>4. ASSUME NEW k \in 0 .. r.count - 1
      PROVE  Round(s.tail + k) = Round(r.tail + (k + 1))
  <2>1. k \in 0 .. DEPTH - 1
    BY QueueTypes
  <2> QED
    BY <1>2, <2>1, QueueTypes, RoundAgain
<1>5. Closes(s)
  <2>1. r.count - 1 \in 0 .. r.count - 1 /\ (r.count - 1) + 1 = r.count /\ r.count - 1 \in 0 .. DEPTH
    BY QueueTypes
  <2>2. s.head = Round(r.tail + r.count)
    BY <1>2, QueueTypes, RoundIn DEF Closes
  <2>3. Round(s.tail + s.count) = Round(r.tail + r.count)
    BY <1>2, <1>4, <2>1
  <2>4. s.tail \in Ring /\ s.count \in 0 .. DEPTH
    BY <1>3, QueueTypes
  <2> QED
    BY <2>2, <2>3, <2>4, RoundIn DEF Closes
<1>6. ASSUME NEW i \in 1 .. r.count - 1 PROVE Held(s)[i] = Held(r)[i + 1]
  <2>1. /\ i - 1 \in 0 .. r.count - 1 /\ (i - 1) + 1 = i /\ (i + 1) - 1 = i
        /\ i \in 1 .. s.count /\ i + 1 \in 1 .. r.count
    BY <1>2, QueueTypes
  <2>2. Round(s.tail + (i - 1)) = Round(r.tail + i)
    BY <1>4, <2>1
  <2>3. Held(s)[i] = r.messages[Round(s.tail + (i - 1))]
    BY <1>2, <1>3, <2>1, HeldIs
  <2>4. Held(r)[i + 1] = r.messages[Round(r.tail + i)]
    BY <2>1, HeldIs
  <2> QED
    BY <2>2, <2>3, <2>4
<1>7. /\ Held(r) \in Seq(Msg \cup {None}) /\ Len(Held(r)) = r.count
      /\ Held(s) \in Seq(Msg \cup {None}) /\ Len(Held(s)) = r.count - 1
      /\ r.count \in Nat \ {0}
  BY <1>2, <1>3, HeldIs, QueueTypes
<1>8. Held(s) = Tail(Held(r))
  <2>1. /\ Tail(Held(r)) \in Seq(Msg \cup {None}) /\ Len(Tail(Held(r))) = r.count - 1
        /\ \A i \in 1 .. r.count - 1 : Tail(Held(r))[i] = Held(r)[i + 1]
    BY <1>7
  <2> QED
    BY <1>6, <1>7, <2>1, SequenceEqual
<1>9. Held(r) # <<>> /\ Head(Held(r)) = r.messages[r.tail]
  <2>1. Round(r.tail + (1 - 1)) = r.tail /\ 1 \in 1 .. r.count
    BY <1>7, QueueTypes DEF Round, Ring
  <2>2. Held(r)[1] = r.messages[r.tail]
    BY <2>1, HeldIs
  <2> QED
    BY <1>7, <2>2
<1> QED
  BY <1>1, <1>3, <1>5, <1>8, <1>9

-----------------------------------------------------------------------------
(* The steps.  Each changes at most one queue and keeps it in order, and is  *)
(* a step of Channel or a stutter.                                           *)

\* The refinement mapping, queue by queue
Chans == [q \in Qid |-> Chan(queues[q])]

LEMMA ChanIs ==
  /\ [q \in Qid |-> IF Made(q) THEN Content(q) ELSE None] = Chans
  /\ [q \in Qid |-> IF Made(q) THEN Content(q) ELSE None]' = Chans'
BY DEF Chans, Chan, Made, Content, Held

LEMMA QueueStep ==
  ASSUME IpcInv, NEW q \in Qid, NEW s, InOrder(s), queues' = [queues EXCEPT ![q] = s]
  PROVE  GoodQueues' /\ Chans' = [Chans EXCEPT ![q] = Chan(s)]
<1>1. GoodQueues'
  BY DEF IpcInv, GoodQueues, InOrder
<1>2. \A p \in Qid : queues'[p] = IF p = q THEN s ELSE queues[p]
  BY DEF IpcInv, GoodQueues
<1>3. \A p \in Qid : Chan(queues[p])' = IF p = q THEN Chan(s) ELSE Chan(queues[p])
  <2> SUFFICES ASSUME NEW p \in Qid
               PROVE Chan(queues[p])' = IF p = q THEN Chan(s) ELSE Chan(queues[p])
    OBVIOUS
  <2>1. PICK r : r = queues'[p] /\ r = IF p = q THEN s ELSE queues[p]
    BY <1>2
  <2>2. Chan(queues[p])' = Chan(r)
    BY <2>1 DEF Chan, Held
  <2> QED
    BY <2>1, <2>2
<1> QED
  BY <1>1, <1>3 DEF Chans

LEMMA CallStep ==
  ASSUME IpcInv, NEW t \in Task, NEW c \in CallTypes, WaitsFor(c), call' = [call EXCEPT ![t] = c]
  PROVE  GoodCalls'
BY DEF IpcInv, GoodCalls

LEMMA UserCalls ==
  /\ User \in CallTypes /\ WaitsFor(User) /\ Dead \in CallTypes /\ WaitsFor(Dead)
  /\ \A w \in Task : /\ [User EXCEPT !.at = "waking", !.wake = w] \in CallTypes
                     /\ WaitsFor([User EXCEPT !.at = "waking", !.wake = w])
  /\ \A q \in Qid, y \in Type :
       LET c == [User EXCEPT !.at = "asleep", !.op = "send", !.q = q, !.y = y]
       IN  c \in CallTypes /\ WaitsFor(c)
  /\ \A q \in Qid :
       LET c == [User EXCEPT !.at = "asleep", !.op = "receive", !.q = q, !.y = None]
       IN  c \in CallTypes /\ WaitsFor(c)
BY DEF User, Dead, CallTypes, WaitsFor

LEMMA WakingStep ==
  ASSUME IpcInv, NEW t \in Task, NEW v \in RetTypes, NEW w \in Task \cup {None},
         ReturnWaking(t, v, w)
  PROVE  GoodCalls' /\ ret' \in [Task -> RetTypes] /\ ret' = [ret EXCEPT ![t] = v]
<1> DEFINE c == IF w = None THEN User ELSE [User EXCEPT !.at = "waking", !.wake = w]
<1>1. c \in CallTypes /\ WaitsFor(c)
  BY UserCalls
<1>2. call' = [call EXCEPT ![t] = c]
  BY DEF ReturnWaking
<1> HIDE DEF c
<1>3. GoodCalls'
  BY <1>1, <1>2, CallStep
<1> QED
  BY <1>3 DEF ReturnWaking, IpcInv

LEMMA SentStep ==
  ASSUME IpcInv, NEW t \in Task, NEW q \in Qid, NEW y \in Type, Sent(t, q, y)
  PROVE  IpcInv' /\ C!Put(t, q, y)
<1>1. PICK r \in Queues : r = queues[q] /\ InOrder(r) /\ r.key # None /\ r.count < DEPTH
  BY DEF IpcInv, GoodQueues, Sent, Made
<1>2. PICK p : p = queue_push(r, <<t, y>>)
  OBVIOUS
<1>3. p \in Queues /\ Closes(p) /\ Held(p) = Append(Held(r), <<t, y>>)
  BY <1>1, <1>2, PushRing DEF InOrder, Msg
<1>4. p.key = r.key /\ p.waiting_send = r.waiting_send /\ p.count > 0
  BY <1>1, <1>2 DEF queue_push, Queues
<1>5. PICK s : s = [p EXCEPT !.waiting_recv = None]
  OBVIOUS
<1>6. /\ s \in Queues /\ s.waiting_recv = None /\ s.waiting_send = r.waiting_send
      /\ s.key = r.key /\ s.head = p.head /\ s.tail = p.tail /\ s.count = p.count
      /\ s.messages = p.messages
  BY <1>3, <1>4, <1>5 DEF Queues
<1>7. InOrder(s) /\ Chan(s) = Append(Chan(r), <<t, y>>)
  <2>1. Closes(s) /\ Held(s) = Held(p)
    BY <1>3, <1>6 DEF Closes, Held
  <2>2. r.waiting_send = None
    BY <1>1, QueueTypes DEF InOrder, Justified
  <2> QED
    BY <1>1, <1>3, <1>6, <2>1, <2>2 DEF InOrder, Justified, Chan
<1>8. queues' = [queues EXCEPT ![q] = s]
  BY <1>1, <1>2, <1>5 DEF Sent
<1>9. GoodQueues' /\ Chans' = [Chans EXCEPT ![q] = Chan(s)]
  BY <1>7, <1>8, QueueStep
<1>10. /\ GoodCalls' /\ ret' \in [Task -> RetTypes]
       /\ ret' = [ret EXCEPT ![t] = Result(0, None)]
  <2>1. Result(0, None) \in RetTypes /\ r.waiting_recv \in Task \cup {None}
    BY DEF Result, RetTypes, Queues
  <2> QED
    BY <1>1, <2>1, WakingStep DEF Sent
<1>11. Chans[q] = Held(r) /\ Chans[q] # None /\ Len(Chans[q]) < DEPTH
  <2>1. Chans[q] = Held(r) /\ Len(Held(r)) < DEPTH
    BY <1>1, HeldIs DEF Chans, Chan
  <2>2. Held(r) # None
    BY <1>1, HeldIs, IpcAssumption DEF Msg
  <2> QED
    BY <2>1, <2>2
<1>12. C!Put(t, q, y)
  BY <1>1, <1>7, <1>9, <1>10, <1>11, ChanIs DEF C!Put, C!Result, Result, Chan
<1> QED
  BY <1>9, <1>10, <1>12 DEF IpcInv

LEMMA ReceivedStep ==
  ASSUME IpcInv, NEW t \in Task, NEW q \in Qid, Received(t, q)
  PROVE  IpcInv' /\ C!Take(t, q)
<1>1. PICK r \in Queues : r = queues[q] /\ InOrder(r) /\ r.key # None /\ r.count > 0
  BY DEF IpcInv, GoodQueues, Received, Made
<1>2. PICK p : p = queue_pop(r)
  OBVIOUS
<1>3. /\ p \in Queues /\ Closes(p) /\ Held(p) = Tail(Held(r))
      /\ Held(r) # <<>> /\ Head(Held(r)) = r.messages[r.tail]
  BY <1>1, <1>2, PopRing DEF InOrder
<1>4. p.key = r.key /\ p.waiting_recv = r.waiting_recv /\ p.count < DEPTH
  <2>1. r.count - 1 < DEPTH
    BY QueueTypes
  <2> QED
    BY <1>1, <1>2, <2>1 DEF queue_pop, Queues
<1>5. PICK s : s = [p EXCEPT !.waiting_send = None]
  OBVIOUS
<1>6. /\ s \in Queues /\ s.waiting_send = None /\ s.waiting_recv = r.waiting_recv
      /\ s.key = r.key /\ s.head = p.head /\ s.tail = p.tail /\ s.count = p.count
      /\ s.messages = p.messages
  BY <1>3, <1>4, <1>5 DEF Queues
<1>7. InOrder(s) /\ Chan(s) = Tail(Held(r))
  <2>1. Closes(s) /\ Held(s) = Held(p)
    BY <1>3, <1>6 DEF Closes, Held
  <2>2. r.waiting_recv = None
    BY <1>1, QueueTypes DEF InOrder, Justified
  <2> QED
    BY <1>1, <1>3, <1>6, <2>1, <2>2 DEF InOrder, Justified, Chan
<1>8. queues' = [queues EXCEPT ![q] = s]
  BY <1>1, <1>2, <1>5 DEF Received
<1>9. GoodQueues' /\ Chans' = [Chans EXCEPT ![q] = Chan(s)]
  BY <1>7, <1>8, QueueStep
<1>10. Chans[q] = Held(r) /\ Held(r) # None /\ Held(r) \in Seq(Msg \cup {None})
  BY <1>1, HeldIs, IpcAssumption DEF Chans, Chan, Msg
<1>11. PICK m : m = r.messages[r.tail]
  OBVIOUS
<1>12. /\ GoodCalls' /\ ret' \in [Task -> RetTypes]
       /\ ret' = [ret EXCEPT ![t] = Result(0, m)]
  <2>1. m \in Msg \cup {None} /\ r.waiting_send \in Task \cup {None}
    BY <1>11, QueueTypes DEF Queues
  <2>2. Result(0, m) \in RetTypes
    BY <2>1 DEF Result, RetTypes
  <2>3. ReturnWaking(t, Result(0, m), r.waiting_send)
    BY <1>1, <1>11 DEF Received
  <2> QED
    BY <2>1, <2>2, <2>3, WakingStep
<1>13. C!Take(t, q)
  <2>1. Head(Chans[q]) = m /\ Chans' = [Chans EXCEPT ![q] = Tail(Chans[q])]
    BY <1>3, <1>7, <1>9, <1>10, <1>11
  <2> QED
    BY <1>3, <1>10, <1>12, <2>1, ChanIs DEF C!Take, C!Result, Result
<1> QED
  BY <1>9, <1>12, <1>13 DEF IpcInv

\* The waiting slot changes, and no message.
LEMMA SlotStep ==
  ASSUME IpcInv, NEW q \in Qid, NEW w \in Task, Made(q),
         \/ queues' = [queues EXCEPT ![q].waiting_send = w] /\ queues[q].count >= DEPTH
         \/ queues' = [queues EXCEPT ![q].waiting_recv = w] /\ queues[q].count <= 0
  PROVE  GoodQueues' /\ Chans' = Chans
<1>1. PICK r \in Queues : r = queues[q] /\ InOrder(r) /\ r.key # None
  BY DEF IpcInv, GoodQueues, Made
<1>2. PICK s : /\ queues' = [queues EXCEPT ![q] = s]
               /\ \/ s = [r EXCEPT !.waiting_send = w] /\ r.count >= DEPTH
                  \/ s = [r EXCEPT !.waiting_recv = w] /\ r.count <= 0
  <2>1. CASE queues' = [queues EXCEPT ![q].waiting_send = w] /\ queues[q].count >= DEPTH
    <3>1. \E s : s = [r EXCEPT !.waiting_send = w]
      OBVIOUS
    <3> QED
      BY <1>1, <2>1, <3>1
  <2>2. CASE queues' = [queues EXCEPT ![q].waiting_recv = w] /\ queues[q].count <= 0
    <3>1. \E s : s = [r EXCEPT !.waiting_recv = w]
      OBVIOUS
    <3> QED
      BY <1>1, <2>2, <3>1
  <2> QED
    BY <2>1, <2>2
<1>3. /\ s \in Queues /\ s.key = r.key /\ s.head = r.head /\ s.tail = r.tail
      /\ s.count = r.count /\ s.messages = r.messages
      /\ s.waiting_send # None => r.waiting_send # None \/ r.count >= DEPTH
      /\ s.waiting_recv # None => r.waiting_recv # None \/ r.count <= 0
  BY <1>2 DEF Queues
<1>4. InOrder(s) /\ Chan(s) = Chan(r)
  <2>1. Closes(s) /\ Held(s) = Held(r)
    BY <1>1, <1>3 DEF InOrder, Closes, Held
  <2>2. Justified(s)
    BY <1>1, <1>3, QueueTypes DEF InOrder, Justified
  <2> QED
    BY <1>3, <2>1, <2>2 DEF InOrder, Chan
<1>5. GoodQueues' /\ Chans' = [Chans EXCEPT ![q] = Chan(s)]
  BY <1>2, <1>4, QueueStep
<1> QED
  BY <1>1, <1>4, <1>5 DEF Chans

LEMMA ParkStep ==
  ASSUME IpcInv, NEW t \in Task, NEW q \in Qid, NEW op, NEW y,
         op \in {"send", "receive"}, op = "send" => y \in Type, op # "send" => y = None,
         Park(t, op, q, y)
  PROVE  /\ GoodCalls' /\ ret' \in [Task -> RetTypes]
         /\ ret' = [ret EXCEPT ![t] = Result(None, None)]
<1>1. PICK c : c = [User EXCEPT !.at = "asleep", !.op = op, !.q = q, !.y = y]
  OBVIOUS
<1>2. c \in CallTypes /\ WaitsFor(c)
  BY <1>1, UserCalls
<1>3. GoodCalls'
  BY <1>1, <1>2, CallStep DEF Park
<1> QED
  BY <1>3 DEF Park, NoResult, Result, RetTypes, IpcInv

LEMMA SendParksStep ==
  ASSUME IpcInv, NEW t \in Task, NEW q \in Qid, NEW y \in Type, SendParks(t, q, y)
  PROVE  IpcInv' /\ C!Begin(t)
<1>1. GoodQueues' /\ Chans' = Chans
  BY SlotStep DEF SendParks
<1>2. /\ GoodCalls' /\ ret' \in [Task -> RetTypes]
      /\ ret' = [ret EXCEPT ![t] = Result(None, None)]
  <2>1. Park(t, "send", q, y)
    BY DEF SendParks
  <2> QED
    BY <2>1, ParkStep
<1> QED
  BY <1>1, <1>2, ChanIs DEF C!Begin, C!Result, Result, IpcInv

LEMMA ReceiveParksStep ==
  ASSUME IpcInv, NEW t \in Task, NEW q \in Qid, ReceiveParks(t, q)
  PROVE  IpcInv' /\ C!Begin(t)
<1>1. GoodQueues' /\ Chans' = Chans
  BY SlotStep DEF ReceiveParks
<1>2. /\ GoodCalls' /\ ret' \in [Task -> RetTypes]
      /\ ret' = [ret EXCEPT ![t] = Result(None, None)]
  BY ParkStep DEF ReceiveParks
<1> QED
  BY <1>1, <1>2, ChanIs DEF C!Begin, C!Result, Result, IpcInv

LEMMA KeptQueues ==
  ASSUME IpcInv, UNCHANGED queues
  PROVE  GoodQueues' /\ Chans' = Chans
BY DEF IpcInv, GoodQueues, Chans, Chan, Held

LEMMA FailStep ==
  ASSUME IpcInv, NEW t \in Task, Returns(t, Result(-1, None)), UNCHANGED queues
  PROVE  IpcInv' /\ C!Fail(t)
<1>1. GoodCalls'
  BY UserCalls, CallStep DEF Returns
<1>2. ret' \in [Task -> RetTypes] /\ ret' = [ret EXCEPT ![t] = Result(-1, None)]
  BY DEF Returns, Result, RetTypes, IpcInv
<1> QED
  BY <1>1, <1>2, KeptQueues, ChanIs DEF C!Fail, C!Result, Result, IpcInv

LEMMA CreateStep ==
  ASSUME IpcInv, NEW k \in Key, ipc_queue_create(k)
  PROVE  IpcInv' /\ \E q \in Qid : C!Open(q)
<1>1. PICK q \in Qid :
        /\ ~Made(q) /\ UNCHANGED <<call, ret>>
        /\ queues' = [queues EXCEPT ![q] = [Emptied(queues[q]) EXCEPT !.key = k, !.head = 0,
                                                                      !.tail = 0]]
  BY DEF ipc_queue_create
<1>2. PICK r \in Queues : r = queues[q] /\ r.key = None
  BY <1>1 DEF IpcInv, GoodQueues, Made
<1>3. PICK e : e = Emptied(r)
  OBVIOUS
<1>4. PICK s : s = [e EXCEPT !.key = k, !.head = 0, !.tail = 0]
  OBVIOUS
<1>5. 0 \in Ring /\ 0 \in 0 .. DEPTH
  BY IpcAssumption DEF Ring
<1>6. /\ s \in Queues /\ s.key = k /\ s.count = 0 /\ s.head = 0 /\ s.tail = 0
      /\ s.waiting_recv = None /\ s.waiting_send = None
  <2>1. e \in Queues /\ e.count = 0 /\ e.waiting_recv = None /\ e.waiting_send = None
    BY <1>3, <1>5 DEF Emptied, Queues
  <2> QED
    BY <1>4, <1>5, <2>1 DEF Queues
<1>7. InOrder(s) /\ Chan(s) = <<>>
  <2>1. Closes(s)
    <3>1. Round(0 + 0) = 0
      BY IpcAssumption DEF Round
    <3> QED
      BY <1>5, <1>6, <3>1, RoundIn DEF Closes
  <2>2. Held(s) = <<>>
    BY <1>6, HeldIs
  <2> QED
    BY <1>6, <2>1, <2>2, IpcAssumption DEF InOrder, Justified, Chan
<1>8. GoodQueues' /\ Chans' = [Chans EXCEPT ![q] = <<>>]
  <2>1. queues' = [queues EXCEPT ![q] = s]
    BY <1>1, <1>2, <1>3, <1>4
  <2>2. GoodQueues' /\ Chans' = [Chans EXCEPT ![q] = Chan(s)]
    BY <1>7, <2>1, QueueStep
  <2> QED
    BY <1>7, <2>2
<1>9. C!Open(q)
  BY <1>1, <1>2, <1>8, ChanIs DEF C!Open, Chans, Chan
<1> QED
  BY <1>1, <1>8, <1>9 DEF IpcInv, GoodCalls

LEMMA DestroyStep ==
  ASSUME IpcInv, NEW q \in Qid, ipc_queue_destroy(q)
  PROVE  IpcInv' /\ C!Close(q)
<1>1. PICK r \in Queues : r = queues[q] /\ r.key # None
  BY DEF ipc_queue_destroy, IpcInv, GoodQueues, Made
<1>2. PICK e : e = Emptied(r)
  OBVIOUS
<1>3. PICK s : s = [e EXCEPT !.key = None]
  OBVIOUS
<1>4. s \in Queues /\ s.key = None /\ s.waiting_recv = None /\ s.waiting_send = None
  <2>1. e \in Queues /\ e.waiting_recv = None /\ e.waiting_send = None
    <3>1. 0 \in 0 .. DEPTH
      BY IpcAssumption
    <3> QED
      BY <1>2, <3>1 DEF Emptied, Queues
  <2> QED
    BY <1>3, <2>1 DEF Queues
<1>5. InOrder(s) /\ Chan(s) = None
  BY <1>4 DEF InOrder, Justified, Chan
<1>6. GoodQueues' /\ Chans' = [Chans EXCEPT ![q] = None]
  BY <1>1, <1>2, <1>3, <1>5, QueueStep DEF ipc_queue_destroy
<1>7. Chans[q] # None
  BY <1>1, HeldIs, IpcAssumption DEF Chans, Chan, Msg
<1> QED
  BY <1>6, <1>7, ChanIs DEF ipc_queue_destroy, C!Close, IpcInv, GoodCalls

\* The calls of a program and the loop of a blocking one
LEMMA SendStep ==
  ASSUME IpcInv, NEW t \in Task, NEW q \in Qid, NEW y \in Type,
         ipc_send(t, q, y) \/ ipc_try_send(t, q, y)
  PROVE  IpcInv' /\ (C!Put(t, q, y) \/ C!Begin(t) \/ C!Fail(t))
BY SentStep, SendParksStep, FailStep DEF ipc_send, ipc_try_send, NoQueue

LEMMA ReceiveStep ==
  ASSUME IpcInv, NEW t \in Task, NEW q \in Qid, ipc_receive(t, q) \/ ipc_try_receive(t, q)
  PROVE  IpcInv' /\ (C!Take(t, q) \/ C!Begin(t) \/ C!Fail(t))
BY ReceivedStep, ReceiveParksStep, FailStep DEF ipc_receive, ipc_try_receive, NoQueue

\* What becomes of callers outside the sections under ipc_lock
LEMMA OutsideStep ==
  ASSUME IpcInv, NEW t \in Task, SleepEnds(t) \/ Wake(t) \/ Kill(t)
  PROVE  IpcInv' /\ UNCHANGED <<[q \in Qid |-> IF Made(q) THEN Content(q) ELSE None], ret>>
<1>1. UNCHANGED <<queues, ret>>
  BY DEF SleepEnds, Wake, Kill
<1>2. \A u \in Task, a \in {"asleep", "awake"} :
        call[u].at \in {"asleep", "awake"} =>
          [call[u] EXCEPT !.at = a] \in CallTypes /\ WaitsFor([call[u] EXCEPT !.at = a])
  <2> SUFFICES ASSUME NEW c \in CallTypes, WaitsFor(c), c.at \in {"asleep", "awake"},
                      NEW a \in {"asleep", "awake"}
               PROVE  [c EXCEPT !.at = a] \in CallTypes /\ WaitsFor([c EXCEPT !.at = a])
    BY DEF IpcInv, GoodCalls
  <2> QED
    BY DEF CallTypes, WaitsFor
<1>3. GoodCalls'
  <2>1. CASE SleepEnds(t)
    BY <2>1, <1>2, CallStep DEF SleepEnds
  <2>2. CASE Wake(t)
    <3>1. \A u \in Task : \/ call'[u] = User \/ call'[u] = call[u]
                          \/ /\ call[u].at = "asleep"
                             /\ call'[u] = [call[u] EXCEPT !.at = "awake"]
      BY <2>2 DEF Wake
    <3>2. \A u \in Task : call'[u] \in CallTypes /\ WaitsFor(call'[u])
      BY <1>2, <3>1, UserCalls DEF IpcInv, GoodCalls
    <3>3. call' = [u \in Task |-> call'[u]]
      BY <2>2 DEF Wake
    <3> QED
      BY <3>2, <3>3 DEF GoodCalls
  <2>3. CASE Kill(t)
    BY <2>3, UserCalls, CallStep DEF Kill
  <2> QED
    BY <2>1, <2>2, <2>3
<1> QED
  BY <1>1, <1>3, KeptQueues, ChanIs DEF IpcInv

LEMMA ReuseStep ==
  ASSUME IpcInv, NEW t \in Task, Reuse(t)
  PROVE  IpcInv' /\ C!Begin(t)
<1>1. GoodCalls'
  BY UserCalls, CallStep DEF Reuse, Returns
<1>2. ret' \in [Task -> RetTypes] /\ ret' = [ret EXCEPT ![t] = Result(None, None)]
  BY DEF Reuse, Returns, NoResult, Result, RetTypes, IpcInv
<1> QED
  BY <1>1, <1>2, KeptQueues, ChanIs DEF Reuse, C!Begin, C!Result, Result, IpcInv

LEMMA InitStep ==
  ASSUME IpcInit
  PROVE  IpcInv /\ C!Init
<1>1. 0 \in Ring /\ 0 \in 0 .. DEPTH
  BY IpcAssumption DEF Ring
<1>2. GoodQueues
  BY <1>1, IpcAssumption DEF IpcInit, GoodQueues, InOrder, Justified, Queues, Ring
<1>3. GoodCalls /\ ret \in [Task -> RetTypes]
  BY UserCalls DEF IpcInit, GoodCalls, RetTypes, NoResult, Result
<1>4. C!Init
  BY DEF IpcInit, C!Init, C!Result, NoResult, Result, Made
<1> QED
  BY <1>2, <1>3, <1>4 DEF IpcInv

LEMMA NextStep ==
  ASSUME IpcInv, [IpcNext]_ipcVars
  PROVE  /\ IpcInv'
         /\ \/ C!Next
            \/ UNCHANGED <<[q \in Qid |-> IF Made(q) THEN Content(q) ELSE None], ret>>
<1>1. CASE \E k \in Key : ipc_queue_create(k)
  BY <1>1, CreateStep DEF C!Next
<1>2. CASE \E q \in Qid : ipc_queue_destroy(q)
  BY <1>2, DestroyStep DEF C!Next
<1>3. ASSUME NEW t \in Task, NEW q \in Qid, IpcCall(t, q) PROVE IpcInv' /\ C!Next
  BY <1>3, SendStep, ReceiveStep DEF IpcCall, C!Next
<1>4. ASSUME NEW t \in Task, Retry(t) PROVE IpcInv' /\ C!Next
  <2>1. /\ call[t].q \in Qid
        /\ call[t].op = "send" => call[t].y \in Type
    BY <1>4 DEF Retry, IpcInv, GoodCalls, WaitsFor
  <2> QED
    BY <1>4, <2>1, SendStep, ReceiveStep DEF Retry, C!Next
<1>5. CASE \E t \in Task : SleepEnds(t) \/ Wake(t) \/ Kill(t)
  BY <1>5, OutsideStep
<1>6. CASE \E t \in Task : Reuse(t)
  BY <1>6, ReuseStep DEF C!Next
<1>7. CASE UNCHANGED ipcVars
  BY <1>7, KeptQueues, ChanIs DEF ipcVars, IpcInv, GoodCalls
<1> QED
  BY <1>1, <1>2, <1>3, <1>4, <1>5, <1>6, <1>7 DEF IpcNext

(* Every send, receive, creation and destruction of ipc.c is one step of the  *)
(* bounded queue it promises, and nothing else is: however callers sleep, are *)
(* woken, are killed and have their slots reused in between.                  *)
THEOREM QueuesAreChannels == IpcSpec => ImplementsChannel
<1>1. IpcInv /\ [IpcNext]_ipcVars =>
        IpcInv' /\ [C!Next]_<<[q \in Qid |-> IF Made(q) THEN Content(q) ELSE None], ret>>
  BY NextStep
<1> QED
  BY InitStep, <1>1, PTL DEF IpcSpec, ImplementsChannel, C!Spec

(* The slots ipc_send and ipc_receive take a task to wake from are never      *)
(* those of an earlier state of the queue.                                    *)
THEOREM WakesJustified == IpcSpec => []WaitersJustified
<1>1. IpcInv => WaitersJustified
  BY DEF IpcInv, GoodQueues, InOrder, Justified, WaitersJustified, Made
<1>2. IpcInv /\ [IpcNext]_ipcVars => IpcInv'
  BY NextStep
<1> QED
  BY InitStep, <1>1, <1>2, PTL DEF IpcSpec

(* Head, tail and count stay within the ring, and calls and results in their   *)
(* ranges.                                                                    *)
THEOREM IpcTypes == IpcSpec => []IpcTypeOK
<1>1. IpcInv => IpcTypeOK
  BY DEF IpcInv, GoodQueues, GoodCalls, Queues, CallTypes, RetTypes, IpcTypeOK
<1>2. IpcInv /\ [IpcNext]_ipcVars => IpcInv'
  BY NextStep
<1> QED
  BY InitStep, <1>1, <1>2, PTL DEF IpcSpec

-----------------------------------------------------------------------------
(* The descriptors                                                           *)

\* Each entry counts the descriptors that refer to it and is free when it has none.
Counts(g) ==
  /\ IsFiniteSet(Holders(g)) /\ gfds[g].ref_count = Cardinality(Holders(g))
  /\ gfds[g].in_use <=> gfds[g].ref_count # 0
Exact == \A g \in Gfd : Counts(g)

\* An entry in use refers to a pipe or a terminal as its type says.
Kind(e) == e.in_use =>
  /\ e.type # "none"
  /\ e.type \in {"read", "write"} => e.pipe_id \in Pipe
  /\ e.type \in {"master", "slave"} => e.pipe_id \in Pty
Kinds == \A g \in Gfd : Kind(gfds[g])

\* A free slot has no descriptors, and who waits has the one it waits on.
CallsOK == \A t \in Task :
  /\ at[t] = In("free") => fds[t] = NoFds
  /\ at[t].call \in {"read", "write"} =>
       at[t].fd \in Fd /\ fds[t][at[t].fd] # None /\ gfds[fds[t][at[t].fd]].type = at[t].call

Unique(S) == \A x, y \in S : x = y

PipeEnds(q, R, W) ==
  /\ q.in_use <=> R \cup W # {}
  /\ q.in_use => (q.closed_write <=> W = {})
  /\ Unique(R) /\ Unique(W)

PtyEnds(q, M, S) ==
  /\ q.in_use <=> M \cup S # {}
  /\ q.slave_count = Cardinality(S)
  /\ q.master <=> M # {}
  /\ Unique(M)

AllEnds == /\ \A p \in Pipe : PipeEnds(pipes[p], Ends("read", p), Ends("write", p))
           /\ \A p \in Pty : PtyEnds(ptys[p], Ends("master", p), Ends("slave", p))

FdsInv == FdsTypeOK /\ Exact /\ Kinds /\ CallsOK /\ AllEnds

-----------------------------------------------------------------------------
(* How many refer to an entry *)

Cells(table, g) == {j \in Fd : table[j] = g}

\* The indices of the tables are numbers, and None is none of them.
LEMMA Numbers ==
  /\ None \notin Int /\ Fd \subseteq Nat /\ Gfd \subseteq Nat /\ Pipe \subseteq Nat /\ Pty \subseteq Nat
  /\ None \notin Fd /\ None \notin Gfd /\ None \notin Pipe /\ None \notin Pty
BY TablesAssumption, FdsAssumption DEF Fd, Gfd, Pipe, Pty

\* Sets of descriptor numbers are finite.
LEMMA FdSets ==
  ASSUME NEW J \in SUBSET Fd
  PROVE  IsFiniteSet(J) /\ Cardinality(J) \in Nat
<1>1. IsFiniteSet(Fd)
  BY FS_Interval, FdsAssumption DEF Fd
<1> QED
  BY <1>1, FS_Subset, FS_CardinalityType

\* Sets of entries of the global table are finite.
LEMMA GfdSets ==
  ASSUME NEW G \in SUBSET Gfd
  PROVE  IsFiniteSet(G) /\ Cardinality(G) \in Nat
<1>1. IsFiniteSet(Gfd)
  BY FS_Interval, FdsAssumption DEF Gfd
<1> QED
  BY <1>1, FS_Subset, FS_CardinalityType

\* The descriptors of one task, as descriptors among all
LEMMA Pairs ==
  ASSUME NEW t, NEW J \in SUBSET Fd
  PROVE  IsFiniteSet({t} \X J) /\ Cardinality({t} \X J) = Cardinality(J)
<1>1. IsFiniteSet({t}) /\ Cardinality({t}) = 1
  BY FS_Singleton
<1>2. IsFiniteSet(J) /\ Cardinality(J) \in Nat
  BY FdSets
<1>3. IsFiniteSet({t} \X J) /\ Cardinality({t} \X J) = 1 * Cardinality(J)
  BY <1>1, <1>2, FS_Product
<1> QED
  BY <1>2, <1>3

\* A task gets another table: what it referred to loses its references, what it
\* refers to gains them.
LEMMA TableChanged ==
  ASSUME fds \in [Task -> [Fd -> Gfd \cup {None}]], NEW t \in Task,
         NEW table \in [Fd -> Gfd \cup {None}], fds' = [fds EXCEPT ![t] = table],
         NEW g \in Gfd, IsFiniteSet(Holders(g))
  PROVE  /\ IsFiniteSet(Holders(g))' /\ Cardinality(Holders(g)) \in Nat
         /\ Cardinality(Cells(fds[t], g)) \in Nat /\ Cardinality(Cells(table, g)) \in Nat
         /\ Cardinality(Cells(fds[t], g)) <= Cardinality(Holders(g))
         /\ Cardinality(Holders(g))' =
              Cardinality(Holders(g)) - Cardinality(Cells(fds[t], g)) + Cardinality(Cells(table, g))
<1> DEFINE H == Holders(g)
           old == {t} \X Cells(fds[t], g)
           new == {t} \X Cells(table, g)
           K == Holders(g)'
<1>1. /\ IsFiniteSet(old) /\ Cardinality(old) = Cardinality(Cells(fds[t], g))
      /\ IsFiniteSet(new) /\ Cardinality(new) = Cardinality(Cells(table, g))
  BY Pairs DEF Cells
<1>2. Cardinality(Cells(fds[t], g)) \in Nat /\ Cardinality(Cells(table, g)) \in Nat
  BY FdSets DEF Cells
<1>3. old \subseteq H
  BY DEF Cells, Holders
<1>4. K = (H \ old) \cup new
  <2>1. \A h \in Task \X Fd : h \in old <=> h[1] = t /\ fds[h[1]][h[2]] = g
    BY DEF Cells
  <2>2. \A h \in Task \X Fd : h \in new <=> h[1] = t /\ table[h[2]] = g
    BY DEF Cells
  <2>3. \A h \in Task \X Fd : h \in K <=> IF h[1] = t THEN table[h[2]] = g ELSE fds[h[1]][h[2]] = g
    BY DEF Holders
  <2>4. \A h \in Task \X Fd : h \in H <=> fds[h[1]][h[2]] = g
    BY DEF Holders
  <2>5. K \subseteq Task \X Fd /\ H \subseteq Task \X Fd /\ new \subseteq Task \X Fd
    BY DEF Holders, Cells
  <2> HIDE DEF K, H, old, new
  <2>6. \A h \in Task \X Fd : h \in K <=> (h \in H /\ h \notin old) \/ h \in new
    BY <2>1, <2>2, <2>3, <2>4
  <2> QED
    BY <2>5, <2>6
<1>5. (H \ old) \cap new = {}
  BY DEF Holders, Cells
<1>6. IsFiniteSet(H) 
  OBVIOUS
<1> HIDE DEF H, old, new, K
<1>7. /\ IsFiniteSet(H \ old) /\ Cardinality(H \ old) = Cardinality(H) - Cardinality(H \cap old)
      /\ Cardinality(H) \in Nat
  BY <1>6, FS_Difference, FS_CardinalityType
<1>8. Cardinality(H \cap old) = Cardinality(old)
  <2>1. H \cap old = old
    BY <1>3
  <2> QED
    BY <2>1
<1>9. /\ IsFiniteSet(K)
      /\ Cardinality(K) = Cardinality(H \ old) + Cardinality(new) - Cardinality((H \ old) \cap new)
  BY <1>1, <1>4, <1>7, FS_Union
<1>10. Cardinality((H \ old) \cap new) = 0
  BY <1>5, FS_EmptySet
<1>11. Cardinality(old) <= Cardinality(H)
  BY <1>3, <1>6, FS_Subset
<1>12. /\ Cardinality(K) =
            Cardinality(H) - Cardinality(Cells(fds[t], g)) + Cardinality(Cells(table, g))
       /\ Cardinality(Cells(fds[t], g)) <= Cardinality(H)
  <2> DEFINE h == Cardinality(H)
             o == Cardinality(Cells(fds[t], g))
             n == Cardinality(Cells(table, g))
             r == Cardinality(H \ old)
             k == Cardinality(K)
  <2>1. h \in Nat /\ o \in Nat /\ n \in Nat
    BY <1>2, <1>7
  <2>2. r = h - o /\ o <= h
    BY <1>1, <1>7, <1>8, <1>11
  <2>3. k = r + n - 0
    BY <1>1, <1>9, <1>10
  <2> HIDE DEF h, o, n, r, k
  <2>4. k = h - o + n
    BY <2>1, <2>2, <2>3
  <2> QED
    BY <2>2, <2>4 DEF h, o, n, r, k
<1> QED
  BY <1>2, <1>6, <1>7, <1>9, <1>12 DEF H, K

-----------------------------------------------------------------------------
(* Entries, pipes and terminals, field by field *)

FdEntry == [in_use : BOOLEAN, ref_count : Nat, pipe_id : Pipe \cup Pty \cup {None},
            type : {"none", "file", "read", "write", "master", "slave"}]
PipeOK == [in_use : BOOLEAN, bytes : 0 .. PIPE_BUF_SIZE - 1, closed_write : BOOLEAN]
PtyOK == [in_use : BOOLEAN, master : BOOLEAN, slave_count : Nat,
          m2s : 0 .. PTY_BUF_SIZE - 1, s2m : 0 .. PTY_BUF_SIZE - 1]

\* A field of an entry that changes leaves the entry well typed and the others
\* alone.
LEMMA EntryFields ==
  ASSUME NEW e \in FdEntry
  PROVE  /\ e.ref_count \in Nat
         /\ \A n \in Nat : LET d == [e EXCEPT !.ref_count = n]
                           IN  /\ d \in FdEntry /\ d.ref_count = n /\ d.in_use = e.in_use
                               /\ d.type = e.type /\ d.pipe_id = e.pipe_id
<1> DEFINE B == BOOLEAN
           D == [in_use : B, ref_count : Nat, pipe_id : Pipe \cup Pty \cup {None},
                 type : {"none", "file", "read", "write", "master", "slave"}]
<1>1. e \in D
  BY DEF FdEntry
<1> HIDE DEF B
<1>2. /\ e.ref_count \in Nat
      /\ \A n \in Nat : LET d == [e EXCEPT !.ref_count = n]
                        IN  /\ d \in D /\ d.ref_count = n /\ d.in_use = e.in_use
                            /\ d.type = e.type /\ d.pipe_id = e.pipe_id
  BY <1>1
<1> QED
  BY <1>2 DEF B, FdEntry

\* An entry that open, pipe or a terminal fills in is in use and counts one
\* descriptor.
LEMMA NewEntry ==
  ASSUME NEW type \in {"file", "read", "write", "master", "slave"},
         NEW id \in Pipe \cup Pty \cup {None}
  PROVE  /\ Entry(type, id) \in FdEntry /\ Entry(type, id).in_use
         /\ Entry(type, id).ref_count = 1
         /\ Entry(type, id).type = type /\ Entry(type, id).pipe_id = id
BY DEF Entry, FdEntry

\* The cleared entry is free and counts none.
LEMMA FreeEntry == NoEntry \in FdEntry /\ ~NoEntry.in_use /\ NoEntry.ref_count = 0
BY DEF NoEntry, Entry, FdEntry

\* The same of the fields of a pipe.
LEMMA PipeFields ==
  ASSUME NEW q \in PipeOK
  PROVE  /\ q.bytes \in 0 .. PIPE_BUF_SIZE - 1
         /\ \A b \in BOOLEAN : LET r == [q EXCEPT !.closed_write = b]
                               IN  r \in PipeOK /\ r.closed_write = b /\ r.in_use = q.in_use
         /\ \A n \in 0 .. PIPE_BUF_SIZE - 1 :
              LET r == [q EXCEPT !.bytes = n]
              IN  r \in PipeOK /\ r.closed_write = q.closed_write /\ r.in_use = q.in_use
<1> DEFINE B == BOOLEAN
           D == [in_use : B, bytes : 0 .. PIPE_BUF_SIZE - 1, closed_write : B]
<1>1. q \in D
  BY DEF PipeOK
<1> HIDE DEF B
<1>2. /\ q.bytes \in 0 .. PIPE_BUF_SIZE - 1
      /\ \A b \in B : LET r == [q EXCEPT !.closed_write = b]
                      IN  r \in D /\ r.closed_write = b /\ r.in_use = q.in_use
      /\ \A n \in 0 .. PIPE_BUF_SIZE - 1 :
           LET r == [q EXCEPT !.bytes = n]
           IN  r \in D /\ r.closed_write = q.closed_write /\ r.in_use = q.in_use
  BY <1>1
<1> QED
  BY <1>2 DEF B, PipeOK

\* The cleared pipe is free, and the pipe sys_pipe makes of it has both ends
\* open.
LEMMA FreePipe ==
  /\ NoPipe \in PipeOK /\ ~NoPipe.in_use
  /\ LET q == [NoPipe EXCEPT !.in_use = TRUE] IN q \in PipeOK /\ q.in_use /\ ~q.closed_write
<1>1. 0 \in 0 .. PIPE_BUF_SIZE - 1
  BY FdsAssumption
<1> QED
  BY <1>1 DEF NoPipe, PipeOK

\* The same of the fields of a terminal.
LEMMA PtyFields ==
  ASSUME NEW q \in PtyOK
  PROVE  /\ q.m2s \in 0 .. PTY_BUF_SIZE - 1 /\ q.s2m \in 0 .. PTY_BUF_SIZE - 1
         /\ q.slave_count \in Nat
         /\ \A n \in Nat :
              LET r == [q EXCEPT !.slave_count = n]
              IN  r \in PtyOK /\ r.slave_count = n /\ r.master = q.master /\ r.in_use = q.in_use
         /\ \A n \in 0 .. PTY_BUF_SIZE - 1 :
              LET r == [q EXCEPT !.m2s = n]
                  s == [q EXCEPT !.s2m = n]
              IN  /\ r \in PtyOK /\ r.slave_count = q.slave_count /\ r.master = q.master
                  /\ r.in_use = q.in_use
                  /\ s \in PtyOK /\ s.slave_count = q.slave_count /\ s.master = q.master
                  /\ s.in_use = q.in_use
<1> DEFINE B == BOOLEAN
           R == 0 .. PTY_BUF_SIZE - 1
           D == [in_use : B, master : B, slave_count : Nat, m2s : R, s2m : R]
<1>1. q \in D
  BY DEF PtyOK
<1> HIDE DEF B, R
<1>2. /\ q.m2s \in R /\ q.s2m \in R /\ q.slave_count \in Nat
  BY <1>1
<1>3. \A n \in Nat :
           LET r == [q EXCEPT !.slave_count = n]
           IN  r \in D /\ r.slave_count = n /\ r.master = q.master /\ r.in_use = q.in_use
  BY <1>1
<1>4. \A n \in R :
           LET r == [q EXCEPT !.m2s = n]
               s == [q EXCEPT !.s2m = n]
           IN  /\ r \in D /\ r.slave_count = q.slave_count /\ r.master = q.master
               /\ r.in_use = q.in_use
               /\ s \in D /\ s.slave_count = q.slave_count /\ s.master = q.master
               /\ s.in_use = q.in_use
  BY <1>1
<1> QED
  BY <1>2, <1>3, <1>4 DEF B, R, PtyOK

\* A terminal with another number of slave ends, its master end open or not.
LEMMA PtyEnd ==
  ASSUME NEW q \in PtyOK, NEW n \in Nat, NEW b \in BOOLEAN
  PROVE  LET r == [q EXCEPT !.slave_count = n, !.master = b]
         IN  r \in PtyOK /\ r.slave_count = n /\ r.master = b /\ r.in_use = q.in_use
<1> DEFINE B == BOOLEAN
           D == [in_use : B, master : B, slave_count : Nat, m2s : 0 .. PTY_BUF_SIZE - 1,
                 s2m : 0 .. PTY_BUF_SIZE - 1]
           r == [q EXCEPT !.slave_count = n, !.master = b]
<1>1. q \in D /\ b \in B
  BY DEF PtyOK
<1> HIDE DEF B
<1>2. r \in D /\ r.slave_count = n /\ r.master = b /\ r.in_use = q.in_use
  BY <1>1
<1> QED
  BY <1>2 DEF B, PtyOK

\* The cleared terminal is free, and the one sys_pty_alloc makes of it has a
\* master and no slave.
LEMMA FreePty ==
  /\ NoPty \in PtyOK /\ ~NoPty.in_use /\ ~NoPty.master /\ NoPty.slave_count = 0
  /\ LET q == [NoPty EXCEPT !.in_use = TRUE, !.master = TRUE]
     IN  q \in PtyOK /\ q.in_use /\ q.master /\ q.slave_count = 0
<1>1. 0 \in 0 .. PTY_BUF_SIZE - 1
  BY FdsAssumption
<1> QED
  BY <1>1 DEF NoPty, PtyOK

-----------------------------------------------------------------------------
(* What a release does *)

\* A pipe after the ends in gone have closed
LEMMA PipeCloses ==
  ASSUME NEW p \in Pipe, pipes[p] \in PipeOK, NEW gone,
         PipeEnds(pipes[p], Ends("read", p), Ends("write", p))
  PROVE  /\ PipeAfter(p, gone) \in PipeOK
         /\ PipeEnds(PipeAfter(p, gone), Ends("read", p) \ gone, Ends("write", p) \ gone)
<1> DEFINE R == Ends("read", p)
           W == Ends("write", p)
           q == pipes[p]
           closed == q.closed_write \/ W \cap gone # {}
           b == IF closed THEN TRUE ELSE FALSE
           r == [q EXCEPT !.closed_write = b]
           free == \/ W \cap gone # {} /\ R \subseteq gone
                   \/ R \cap gone # {} /\ closed
<1>1. PipeAfter(p, gone) = IF free THEN NoPipe ELSE r
  <2>1. b = closed
    BY PipeFields DEF PipeOK
  <2> QED
    BY <2>1 DEF PipeAfter
<1>2. /\ q.in_use <=> R \cup W # {}
      /\ q.in_use => (q.closed_write <=> W = {})
      /\ Unique(R) /\ Unique(W)
  BY DEF PipeEnds
<1>3. r \in PipeOK /\ (r.closed_write <=> closed) /\ r.in_use = q.in_use
  <2>1. b \in BOOLEAN
    OBVIOUS
  <2> HIDE DEF b
  <2>2. r \in PipeOK /\ r.closed_write = b /\ r.in_use = q.in_use
    BY <2>1, PipeFields
  <2> QED
    BY <2>2 DEF b
<1> HIDE DEF R, W, r
<1>4. Unique(R \ gone) /\ Unique(W \ gone)
  BY <1>2 DEF Unique
<1>5. /\ R \cap gone # {} => R \ gone = {}
      /\ W \cap gone # {} => W \ gone = {}
  BY <1>2 DEF Unique
<1>6. CASE free
  <2>1. R \ gone = {} /\ W \ gone = {}
    BY <1>2, <1>5, <1>6
  <2> QED
    BY <1>1, <1>4, <1>6, <2>1, FreePipe DEF PipeEnds, R, W
<1>7. CASE ~free
  <2>1. r.in_use <=> (R \ gone) \cup (W \ gone) # {}
    BY <1>2, <1>3, <1>5, <1>7
  <2>2. r.in_use => (r.closed_write <=> W \ gone = {})
    BY <1>2, <1>3, <1>5
  <2> QED
    BY <1>1, <1>3, <1>4, <1>7, <2>1, <2>2 DEF PipeEnds, R, W
<1> QED
  BY <1>6, <1>7

\* and a terminal
LEMMA PtyCloses ==
  ASSUME NEW p \in Pty, ptys[p] \in PtyOK, NEW gone,
         PtyEnds(ptys[p], Ends("master", p), Ends("slave", p))
  PROVE  /\ PtyAfter(p, gone) \in PtyOK
         /\ PtyEnds(PtyAfter(p, gone), Ends("master", p) \ gone, Ends("slave", p) \ gone)
<1> DEFINE M == Ends("master", p)
           S == Ends("slave", p)
           q == ptys[p]
           slaves == q.slave_count - Cardinality(S \cap gone)
           master == q.master /\ M \cap gone = {}
           b == IF master THEN TRUE ELSE FALSE
           r == [q EXCEPT !.slave_count = slaves, !.master = b]
           closes == (S \cup M) \cap gone # {}
<1>1. PtyAfter(p, gone) = IF closes /\ slaves <= 0 /\ ~master THEN NoPty ELSE r
  <2>1. b = master
    OBVIOUS
  <2> QED
    BY <2>1 DEF PtyAfter
<1>2. /\ q.in_use <=> M \cup S # {}
      /\ q.slave_count = Cardinality(S)
      /\ q.master <=> M # {}
      /\ Unique(M)
  BY DEF PtyEnds
<1>3. /\ IsFiniteSet(S) /\ IsFiniteSet(S \ gone) /\ Cardinality(S \ gone) \in Nat
      /\ Cardinality(S \ gone) = Cardinality(S) - Cardinality(S \cap gone)
  <2>1. S \in SUBSET Gfd /\ S \ gone \in SUBSET Gfd
    BY DEF Ends
  <2> QED
    BY <2>1, GfdSets, FS_Difference
<1>4. slaves = Cardinality(S \ gone) /\ slaves \in Nat /\ (slaves <= 0 <=> S \ gone = {})
  <2>1. slaves = Cardinality(S \ gone)
    BY <1>2, <1>3
  <2>2. Cardinality(S \ gone) = 0 <=> S \ gone = {}
    BY <1>3, FS_EmptySet
  <2> QED
    BY <1>3, <2>1, <2>2
<1>5. r \in PtyOK /\ r.slave_count = slaves /\ (r.master <=> master) /\ r.in_use = q.in_use
  <2> HIDE DEF slaves
  <2>1. CASE master
    <3>1. r = [q EXCEPT !.slave_count = slaves, !.master = TRUE]
      BY <2>1
    <3> DEFINE x == [q EXCEPT !.slave_count = slaves, !.master = TRUE]
    <3>2. x \in PtyOK /\ x.slave_count = slaves /\ x.master /\ x.in_use = q.in_use
      BY <1>4, PtyEnd
    <3> HIDE DEF r, b, master, x
    <3> QED
      BY <2>1, <3>1, <3>2 DEF x
  <2>2. CASE ~master
    <3>1. r = [q EXCEPT !.slave_count = slaves, !.master = FALSE]
      BY <2>2
    <3> DEFINE x == [q EXCEPT !.slave_count = slaves, !.master = FALSE]
    <3>2. x \in PtyOK /\ x.slave_count = slaves /\ ~x.master /\ x.in_use = q.in_use
      BY <1>4, PtyEnd
    <3> HIDE DEF r, b, master, x
    <3> QED
      BY <2>2, <3>1, <3>2 DEF x
  <2> QED
    BY <2>1, <2>2
<1> HIDE DEF M, S, r, slaves
<1>6. Unique(M \ gone) /\ (master <=> M \ gone # {})
  BY <1>2 DEF Unique
<1> HIDE DEF master
<1>7. CASE closes /\ slaves <= 0 /\ ~master
  <2>1. M \ gone = {} /\ S \ gone = {} /\ slaves = 0
    BY <1>4, <1>6, <1>7
  <2> QED
    BY <1>1, <1>4, <1>6, <1>7, <2>1, FreePty DEF PtyEnds, M, S
<1>8. CASE ~(closes /\ slaves <= 0 /\ ~master)
  <2>1. r.in_use <=> (M \ gone) \cup (S \ gone) # {}
    BY <1>2, <1>4, <1>5, <1>6, <1>8
  <2> QED
    BY <1>1, <1>4, <1>5, <1>6, <1>8, <2>1 DEF PtyEnds, M, S
<1> QED
  BY <1>7, <1>8

\* The entries after a call dropped what the descriptors js of t refer to
LEMMA DroppedRefs ==
  ASSUME FdsInv, NEW t \in Task, NEW js \in SUBSET Fd, NEW g \in Gfd
  PROVE  LET drop == Refs(t, js)
             e == GfdsAfter(drop)[g]
         IN  /\ drop[g] = Cardinality(js \cap Cells(fds[t], g))
             /\ drop[g] \in Nat /\ drop[g] <= gfds[g].ref_count
             /\ e \in FdEntry
             /\ e.ref_count = gfds[g].ref_count - drop[g]
             /\ e.in_use <=> e.ref_count # 0
             /\ g \in Gone(drop) <=> gfds[g].in_use /\ ~e.in_use
             /\ g \notin Gone(drop) =>
                  e.in_use = gfds[g].in_use /\ e.type = gfds[g].type /\ e.pipe_id = gfds[g].pipe_id
<1> DEFINE drop == Refs(t, js)
           e == GfdsAfter(drop)[g]
           c == js \cap Cells(fds[t], g)
           n == gfds[g].ref_count - drop[g]
<1>1. drop[g] = Cardinality(c)
  <2>1. {j \in js : fds[t][j] = g} = c
    BY DEF Cells
  <2> QED
    BY <2>1 DEF Refs
<1>2. gfds[g] \in FdEntry /\ gfds[g].ref_count \in Nat
  <2>1. gfds \in [Gfd -> FdEntry]
    BY DEF FdsInv, FdsTypeOK, FdEntry
  <2> QED
    BY <2>1, EntryFields
<1>3. Counts(g)
  BY DEF FdsInv, Exact
<1>4. Cardinality(c) \in Nat /\ Cardinality(c) <= Cardinality(Cells(fds[t], g))
  <2>1. Cells(fds[t], g) \in SUBSET Fd /\ c \in SUBSET Cells(fds[t], g) /\ c \in SUBSET Fd
    BY DEF Cells
  <2>2. IsFiniteSet(Cells(fds[t], g)) /\ Cardinality(c) \in Nat
    BY <2>1, FdSets
  <2> QED
    BY <2>1, <2>2, FS_Subset
<1>5. /\ Cardinality(Cells(fds[t], g)) <= Cardinality(Holders(g))
      /\ Cardinality(Cells(fds[t], g)) \in Nat
  <2>1. IsFiniteSet(Holders(g))
    BY <1>3 DEF Counts
  <2>2. Cells(fds[t], g) \in SUBSET Fd /\ {t} \X Cells(fds[t], g) \in SUBSET Holders(g)
    BY DEF Cells, Holders
  <2>3. /\ Cardinality({t} \X Cells(fds[t], g)) = Cardinality(Cells(fds[t], g))
        /\ Cardinality(Cells(fds[t], g)) \in Nat
    BY <2>2, Pairs, FdSets
  <2>4. Cardinality({t} \X Cells(fds[t], g)) <= Cardinality(Holders(g))
    BY <2>1, <2>2, FS_Subset
  <2> QED
    BY <2>3, <2>4
<1>6. drop[g] \in Nat /\ drop[g] <= gfds[g].ref_count
  BY <1>1, <1>2, <1>3, <1>4, <1>5 DEF Counts
<1>7. g \in Gone(drop) <=> gfds[g].in_use /\ drop[g] > 0 /\ gfds[g].ref_count = drop[g]
  BY DEF Gone
<1>8. e = IF g \in Gone(drop) THEN NoEntry ELSE [gfds[g] EXCEPT !.ref_count = n]
  BY DEF GfdsAfter
<1> HIDE DEF drop, e, c
<1>9. CASE g \in Gone(drop)
  BY <1>1, <1>2, <1>6, <1>7, <1>8, <1>9, FreeEntry DEF drop, e, c
<1>10. CASE g \notin Gone(drop)
  <2>1. n \in Nat
    BY <1>2, <1>6
  <2> HIDE DEF n
  <2>2. /\ e \in FdEntry /\ e.ref_count = n /\ e.in_use = gfds[g].in_use
        /\ e.type = gfds[g].type /\ e.pipe_id = gfds[g].pipe_id
    BY <1>2, <1>8, <1>10, <2>1, EntryFields
  <2>3. gfds[g].in_use <=> n # 0
    BY <1>2, <1>3, <1>6, <1>7, <1>10 DEF n, Counts
  <2> QED
    BY <1>1, <1>6, <1>10, <2>2, <2>3 DEF drop, e, c, n
<1> QED
  BY <1>9, <1>10 DEF drop, e, c

\* An entry somebody refers to is in use, and one that is not has no holders.
LEMMA FdHeld ==
  ASSUME NEW g \in Gfd, Counts(g)
  PROVE  /\ gfds[g].in_use <=> Holders(g) # {}
         /\ \A u \in Task, j \in Fd : fds[u][j] = g => gfds[g].in_use
<1>1. Cardinality(Holders(g)) = 0 <=> Holders(g) = {}
  BY FS_EmptySet DEF Counts
<1>2. gfds[g].in_use <=> Holders(g) # {}
  BY <1>1 DEF Counts
<1>3. ASSUME NEW u \in Task, NEW j \in Fd, fds[u][j] = g
      PROVE  Holders(g) # {}
  <2>1. <<u, j>> \in Holders(g)
    BY <1>3 DEF Holders
  <2> QED
    BY <2>1
<1> QED
  BY <1>2, <1>3

\* Counts that are exact after a step leave no descriptor on an entry that is
\* free.
LEMMA HeldAfter ==
  ASSUME NEW g \in Gfd, Counts(g)'
  PROVE  \A u \in Task, j \in Fd : fds'[u][j] = g => gfds'[g].in_use
<1>1. IsFiniteSet(Holders(g)') /\ gfds'[g].ref_count = Cardinality(Holders(g)')
      /\ (gfds'[g].in_use <=> gfds'[g].ref_count # 0)
  BY DEF Counts
<1>2. Cardinality(Holders(g)') = 0 <=> Holders(g)' = {}
  BY <1>1, FS_EmptySet
<1>3. ASSUME NEW u \in Task, NEW j \in Fd, fds'[u][j] = g
      PROVE  Holders(g)' # {}
  <2>1. <<u, j>> \in Holders(g)'
    BY <1>3 DEF Holders
  <2> QED
    BY <2>1
<1> QED
  BY <1>1, <1>2, <1>3

\* What the invariant says of everything but the calls under way
Core ==
  /\ gfds \in [Gfd -> FdEntry] /\ pipes \in [Pipe -> PipeOK] /\ ptys \in [Pty -> PtyOK]
  /\ fds \in [Task -> [Fd -> Gfd \cup {None}]]
  /\ Exact /\ Kinds /\ AllEnds

At == at \in [Task -> [call : {"free", "run", "read", "write"}, fd : Fd \cup {None}, left : Nat]]

\* The invariant in three parts: the tables, the calls' shapes, and what the
\* calls wait on.
LEMMA InvCore == FdsInv <=> Core /\ At /\ CallsOK
BY DEF FdsInv, FdsTypeOK, Core, At, FdEntry, PipeOK, PtyOK

\* A call of t that ends, whatever it did to the tables.
LEMMA CallEnds ==
  ASSUME FdsInv, Core', NEW t \in Task, NEW s \in {"free", "run"}, at' = [at EXCEPT ![t] = In(s)],
         NEW table, fds' = [fds EXCEPT ![t] = table], s = "free" => table = NoFds,
         \A g \in Gfd : gfds[g].in_use /\ gfds'[g].in_use => gfds'[g].type = gfds[g].type
  PROVE  FdsInv'
<1>1. Core /\ At /\ CallsOK
  BY InvCore
<1>2. In(s) \in [call : {"free", "run", "read", "write"}, fd : Fd \cup {None}, left : Nat]
      /\ In(s).call = s /\ (In(s) = In("free") => s = "free")
  BY DEF In
<1>3. At'
  BY <1>1, <1>2 DEF At
<1>4. ASSUME NEW u \in Task
      PROVE  /\ at'[u] = In("free") => fds'[u] = NoFds
             /\ at'[u].call \in {"read", "write"} =>
                  /\ at'[u].fd \in Fd /\ fds'[u][at'[u].fd] # None
                  /\ gfds'[fds'[u][at'[u].fd]].type = at'[u].call
  <2>1. CASE u = t
    <3>1. at'[u] = In(s) /\ fds'[u] = table
      BY <1>1, <2>1 DEF At, Core
    <3> QED
      BY <1>2, <3>1
  <2>2. CASE u # t
    <3>1. at'[u] = at[u] /\ fds'[u] = fds[u]
      BY <1>1, <2>2 DEF At, Core
    <3>2. ASSUME at[u].call \in {"read", "write"}
          PROVE  /\ at[u].fd \in Fd /\ fds[u][at[u].fd] # None
                 /\ gfds'[fds[u][at[u].fd]].type = at[u].call
      <4>1. /\ at[u].fd \in Fd /\ fds[u][at[u].fd] # None
            /\ gfds[fds[u][at[u].fd]].type = at[u].call
        BY <1>1, <3>2 DEF CallsOK
      <4>2. fds[u][at[u].fd] \in Gfd
        BY <1>1, <4>1 DEF Core
      <4>3. PICK g \in Gfd : g = fds[u][at[u].fd]
        BY <4>2
      <4>4. gfds[g].in_use
        BY <1>1, <4>1, <4>3, FdHeld DEF Core, Exact
      <4>5. Counts(g)'
        BY DEF Core, Exact
      <4>6. g = fds'[u][at[u].fd]
        BY <3>1, <4>3
      <4>7. gfds'[g].in_use
        BY <4>1, <4>5, <4>6, HeldAfter
      <4> QED
        BY <4>1, <4>3, <4>4, <4>7
    <3> QED
      BY <1>1, <3>1, <3>2 DEF CallsOK
  <2> QED
    BY <2>1, <2>2
<1>5. CallsOK'
  BY <1>4 DEF CallsOK, NoFds
<1>6. (Core /\ At /\ CallsOK)'
  BY <1>3, <1>5
<1>7. FdsInv' <=> (Core /\ At /\ CallsOK)'
  BY InvCore, PTL
<1> QED
  BY <1>6, <1>7

\* The descriptors js of t go, its table becomes another one, and k, unless None,
\* is referred to once more: ...
Drops(t, js, k, table) ==
  /\ Release(t, js, k) /\ table \in [Fd -> Gfd \cup {None}] /\ fds' = [fds EXCEPT ![t] = table]
  /\ k # None => Cardinality(js \cap Cells(fds[t], k)) < gfds[k].ref_count
  /\ \A g \in Gfd : Cardinality(Cells(table, g)) =
       Cardinality(Cells(fds[t], g)) - Cardinality(js \cap Cells(fds[t], g))
         + IF g = k THEN 1 ELSE 0

\* ... every count stays right, and the ends that have gone are closed.
LEMMA Releases ==
  ASSUME FdsInv, NEW t \in Task, NEW js \in SUBSET Fd, NEW k \in Gfd \cup {None}, NEW table,
         Drops(t, js, k, table)
  PROVE  /\ Core'
         /\ \A g \in Gfd : gfds'[g].in_use => gfds'[g].type = gfds[g].type
<1>0. /\ Release(t, js, k) /\ table \in [Fd -> Gfd \cup {None}] /\ fds' = [fds EXCEPT ![t] = table]
      /\ k # None => Cardinality(js \cap Cells(fds[t], k)) < gfds[k].ref_count
      /\ \A g \in Gfd : Cardinality(Cells(table, g)) =
           Cardinality(Cells(fds[t], g)) - Cardinality(js \cap Cells(fds[t], g))
             + IF g = k THEN 1 ELSE 0
  BY DEF Drops
<1> DEFINE drop == Refs(t, js)
           after == GfdsAfter(drop)
           gone == Gone(drop)
<1>1. Core
  BY InvCore
<1>2. \A g \in Gfd :
        /\ drop[g] = Cardinality(js \cap Cells(fds[t], g))
        /\ drop[g] \in Nat /\ drop[g] <= gfds[g].ref_count
        /\ after[g] \in FdEntry
        /\ after[g].ref_count = gfds[g].ref_count - drop[g]
        /\ after[g].in_use <=> after[g].ref_count # 0
        /\ g \in gone <=> gfds[g].in_use /\ ~after[g].in_use
        /\ g \notin gone =>
             /\ after[g].in_use = gfds[g].in_use /\ after[g].type = gfds[g].type
             /\ after[g].pipe_id = gfds[g].pipe_id
  BY DroppedRefs
<1>3. None \notin Gfd
  BY Numbers
<1>4. /\ gfds' = IF k = None THEN after ELSE [after EXCEPT ![k].ref_count = @ + 1]
      /\ pipes' = [p \in Pipe |-> PipeAfter(p, gone)]
      /\ ptys' = [p \in Pty |-> PtyAfter(p, gone)]
  BY <1>0 DEF Release
<1>5. after = [g \in Gfd |-> after[g]]
  BY DEF GfdsAfter
<1> HIDE DEF drop, after, gone
<1>6. \A g \in Gfd : gfds[g].ref_count \in Nat
  BY <1>1, EntryFields DEF Core
<1>7. ASSUME NEW g \in Gfd
      PROVE  /\ gfds'[g] \in FdEntry
             /\ gfds'[g].ref_count = gfds[g].ref_count - drop[g] + (IF g = k THEN 1 ELSE 0)
             /\ gfds'[g].in_use <=> gfds'[g].ref_count # 0
             /\ gfds'[g].in_use <=> gfds[g].in_use /\ g \notin gone
             /\ g \notin gone => gfds'[g].type = gfds[g].type /\ gfds'[g].pipe_id = gfds[g].pipe_id
  <2>1. CASE g = k
    <3>1. gfds'[g] = [after[g] EXCEPT !.ref_count = after[g].ref_count + 1]
      BY <1>3, <1>4, <1>5, <2>1
    <3>2. after[g].ref_count \in Nat /\ after[g].ref_count # 0 /\ after[g].ref_count + 1 \in Nat
          /\ after[g].ref_count + 1 # 0
      BY <1>0, <1>2, <1>3, <1>6, <2>1
    <3>3. after[g] \in FdEntry
      BY <1>2
    <3>4. /\ gfds'[g] \in FdEntry /\ gfds'[g].ref_count = after[g].ref_count + 1
          /\ gfds'[g].in_use = after[g].in_use
          /\ gfds'[g].type = after[g].type /\ gfds'[g].pipe_id = after[g].pipe_id
      BY <3>1, <3>2, <3>3, EntryFields
    <3>5. after[g].in_use /\ g \notin gone
      BY <1>2, <3>2
    <3> QED
      BY <1>2, <2>1, <3>2, <3>4, <3>5
  <2>2. CASE g # k
    <3>1. gfds'[g] = after[g]
      BY <1>3, <1>4, <1>5, <2>2
    <3>2. after[g].in_use <=> gfds[g].in_use /\ g \notin gone
      BY <1>2
    <3>3. /\ gfds'[g].ref_count = gfds[g].ref_count - drop[g] + (IF g = k THEN 1 ELSE 0)
          /\ gfds'[g] \in FdEntry /\ (gfds'[g].in_use <=> gfds'[g].ref_count # 0)
      <4>1. /\ after[g].ref_count = gfds[g].ref_count - drop[g]
            /\ after[g] \in FdEntry /\ (after[g].in_use <=> after[g].ref_count # 0)
        BY <1>2
      <4>2. gfds[g].ref_count - drop[g] + (IF g = k THEN 1 ELSE 0) = gfds[g].ref_count - drop[g]
        <5>1. gfds[g].ref_count \in Nat /\ drop[g] \in Nat
          BY <1>2, <1>6
        <5> QED
          BY <2>2, <5>1
      <4> QED
        BY <3>1, <4>1, <4>2
    <3> QED
      BY <1>2, <3>1, <3>2, <3>3
  <2> QED
    BY <2>1, <2>2
<1>8. gfds' \in [Gfd -> FdEntry]
  <2>1. gfds' = [g \in Gfd |-> gfds'[g]]
    BY <1>3, <1>4, <1>5
  <2> QED
    BY <1>7, <2>1
<1>9. fds' \in [Task -> [Fd -> Gfd \cup {None}]]
  BY <1>0, <1>1 DEF Core
<1>10. Exact'
  <2> SUFFICES ASSUME NEW g \in Gfd PROVE Counts(g)'
    BY DEF Exact
  <2>1. Counts(g)
    BY <1>1 DEF Core, Exact
  <2>2. /\ IsFiniteSet(Holders(g))' /\ Cardinality(Holders(g)) \in Nat
        /\ Cardinality(Cells(fds[t], g)) \in Nat /\ Cardinality(Cells(table, g)) \in Nat
        /\ Cardinality(Holders(g))' =
             Cardinality(Holders(g)) - Cardinality(Cells(fds[t], g)) + Cardinality(Cells(table, g))
    BY <1>0, <1>1, <2>1, TableChanged DEF Core, Counts
  <2>3. /\ drop[g] = Cardinality(js \cap Cells(fds[t], g)) /\ drop[g] \in Nat
        /\ gfds[g].ref_count = Cardinality(Holders(g))
    BY <1>2, <2>1 DEF Counts
  <2>4. Cardinality(Cells(table, g)) = Cardinality(Cells(fds[t], g)) - drop[g]
                                         + IF g = k THEN 1 ELSE 0
    BY <1>0, <2>3
  <2>5. gfds'[g].ref_count = Cardinality(Holders(g))'
    BY <1>7, <2>2, <2>3, <2>4
  <2> QED
    BY <1>7, <2>2, <2>5 DEF Counts
<1>11. Kinds'
  BY <1>1, <1>7 DEF Core, Kinds, Kind
<1>12. \A type, p : Ends(type, p)' = Ends(type, p) \ gone
  BY <1>7 DEF Ends
<1>13. /\ pipes' \in [Pipe -> PipeOK]
       /\ \A p \in Pipe : PipeEnds(pipes[p], Ends("read", p), Ends("write", p))'
  <2>1. ASSUME NEW p \in Pipe
        PROVE  /\ pipes'[p] \in PipeOK
               /\ PipeEnds(pipes'[p], Ends("read", p) \ gone, Ends("write", p) \ gone)
    BY <1>1, <1>4, PipeCloses DEF Core, AllEnds
  <2> QED
    BY <1>4, <1>12, <2>1
<1>14. /\ ptys' \in [Pty -> PtyOK]
       /\ \A p \in Pty : PtyEnds(ptys[p], Ends("master", p), Ends("slave", p))'
  <2>1. ASSUME NEW p \in Pty
        PROVE  /\ ptys'[p] \in PtyOK
               /\ PtyEnds(ptys'[p], Ends("master", p) \ gone, Ends("slave", p) \ gone)
    BY <1>1, <1>4, PtyCloses DEF Core, AllEnds
  <2> QED
    BY <1>4, <1>12, <2>1
<1>15. Core'
  BY <1>8, <1>9, <1>10, <1>11, <1>13, <1>14 DEF Core, AllEnds
<1> QED
  BY <1>7, <1>15

-----------------------------------------------------------------------------
(* What an allocation does *)

\* A scan finds a slot that fits, if there is one.
LEMMA FirstEntry ==
  ASSUME NEW S \in SUBSET Nat, S # {}
  PROVE  First(S) \in S
BY LeastOf DEF First

\* The entries N are taken, with one descriptor of t for each.
Taken(t, N, table) ==
  /\ gfds' \in [Gfd -> FdEntry] /\ \A g \in Gfd \ N : gfds'[g] = gfds[g]
  /\ \A g \in N : gfds'[g].in_use /\ gfds'[g].ref_count = 1 /\ Kind(gfds'[g])
  /\ table \in [Fd -> Gfd \cup {None}] /\ fds' = [fds EXCEPT ![t] = table]
  /\ \A g \in Gfd \ N : Cells(table, g) = Cells(fds[t], g)
  /\ \A g \in N : \E j : Cells(table, g) = {j}

\* Free entries of the global table, given each to one free descriptor of t:
\* the counts stay exact, and the ends of every pipe and terminal grow by the
\* new ones.
LEMMA Allocates ==
  ASSUME FdsInv, NEW t \in Task, NEW N \in SUBSET FreeGfds, NEW table, Taken(t, N, table)
  PROVE  /\ fds' \in [Task -> [Fd -> Gfd \cup {None}]]
         /\ Exact' /\ Kinds'
         /\ \A g \in Gfd : gfds[g].in_use /\ gfds'[g].in_use => gfds'[g].type = gfds[g].type
         /\ \A type, p : Ends(type, p)' =
              Ends(type, p) \cup {g \in N : gfds'[g].type = type /\ gfds'[g].pipe_id = p}
<1>0. /\ gfds' \in [Gfd -> FdEntry] /\ \A g \in Gfd \ N : gfds'[g] = gfds[g]
      /\ \A g \in N : gfds'[g].in_use /\ gfds'[g].ref_count = 1 /\ Kind(gfds'[g])
      /\ table \in [Fd -> Gfd \cup {None}] /\ fds' = [fds EXCEPT ![t] = table]
      /\ \A g \in Gfd \ N : Cells(table, g) = Cells(fds[t], g)
      /\ \A g \in N : \E j : Cells(table, g) = {j}
  BY DEF Taken
<1>1. Core
  BY InvCore
<1>2. fds' \in [Task -> [Fd -> Gfd \cup {None}]]
  BY <1>0, <1>1 DEF Core
<1>3. \A g \in N : g \in Gfd /\ ~gfds[g].in_use
  BY DEF FreeGfds
<1>4. ASSUME NEW g \in Gfd
      PROVE  Counts(g)'
  <2>1. Counts(g)
    BY <1>1 DEF Core, Exact
  <2>2. /\ IsFiniteSet(Holders(g))' /\ Cardinality(Holders(g)) \in Nat
        /\ Cardinality(Cells(fds[t], g)) \in Nat /\ Cardinality(Cells(table, g)) \in Nat
        /\ Cardinality(Cells(fds[t], g)) <= Cardinality(Holders(g))
        /\ Cardinality(Holders(g))' =
             Cardinality(Holders(g)) - Cardinality(Cells(fds[t], g)) + Cardinality(Cells(table, g))
    BY <1>0, <1>1, <2>1, TableChanged DEF Core, Counts
  <2>3. CASE g \in N
    <3>1. Cardinality(Holders(g)) = 0
      BY <1>3, <2>1, <2>3 DEF Counts
    <3>2. Cardinality(Cells(table, g)) = 1
      BY <1>0, <2>3, FS_Singleton
    <3>3. Cardinality(Holders(g))' = 1
      BY <2>2, <3>1, <3>2
    <3> QED
      BY <1>0, <2>2, <2>3, <3>3 DEF Counts
  <2>4. CASE g \notin N
    <3>1. Cardinality(Cells(table, g)) = Cardinality(Cells(fds[t], g)) /\ gfds'[g] = gfds[g]
      BY <1>0, <2>4
    <3>2. Cardinality(Holders(g))' = Cardinality(Holders(g))
      BY <2>2, <3>1
    <3> QED
      BY <2>1, <2>2, <3>1, <3>2 DEF Counts
  <2> QED
    BY <2>3, <2>4
<1>5. Exact'
  BY <1>4 DEF Exact
<1>6. Kinds'
  BY <1>0, <1>1, <1>3 DEF Core, Kinds
<1>7. \A g \in Gfd : gfds[g].in_use /\ gfds'[g].in_use => gfds'[g].type = gfds[g].type
  BY <1>0, <1>3
<1>8. ASSUME NEW type, NEW p
      PROVE  Ends(type, p)' =
               Ends(type, p) \cup {g \in N : gfds'[g].type = type /\ gfds'[g].pipe_id = p}
  BY <1>0, <1>3 DEF Ends
<1> QED
  BY <1>2, <1>5, <1>6, <1>7, <1>8

\* One entry is taken, ...
TakesOne(t, type, id) ==
  /\ FreeGfds # {} /\ FreeFds(t) # {} /\ Kind(Entry(type, id))
  /\ gfds' = [gfds EXCEPT ![First(FreeGfds)] = Entry(type, id)]
  /\ fds' = [fds EXCEPT ![t][First(FreeFds(t))] = First(FreeGfds)]

\* ... and what that gives.
TookOne(t, type, id) ==
  /\ gfds' \in [Gfd -> FdEntry] /\ fds' \in [Task -> [Fd -> Gfd \cup {None}]]
  /\ Exact' /\ Kinds'
  /\ \A g \in Gfd : gfds[g].in_use /\ gfds'[g].in_use => gfds'[g].type = gfds[g].type
  /\ First(FreeGfds) \in FreeGfds
  /\ \A s, p : Ends(s, p)' = Ends(s, p) \cup IF s = type /\ p = id THEN {First(FreeGfds)} ELSE {}
  /\ \E table : fds' = [fds EXCEPT ![t] = table]

\* The same of one entry, put at the first free descriptor.
LEMMA AllocatesOne ==
  ASSUME FdsInv, NEW t \in Task, NEW type \in {"file", "read", "write", "master", "slave"},
         NEW id \in Pipe \cup Pty \cup {None}, TakesOne(t, type, id)
  PROVE  TookOne(t, type, id)
<1>0. /\ FreeGfds # {} /\ FreeFds(t) # {} /\ Kind(Entry(type, id))
      /\ gfds' = [gfds EXCEPT ![First(FreeGfds)] = Entry(type, id)]
      /\ fds' = [fds EXCEPT ![t][First(FreeFds(t))] = First(FreeGfds)]
  BY DEF TakesOne
<1>1. Core
  BY InvCore
<1>2. First(FreeGfds) \in FreeGfds /\ First(FreeFds(t)) \in FreeFds(t)
  <2>1. FreeGfds \in SUBSET Nat /\ FreeFds(t) \in SUBSET Nat
    BY Numbers DEF FreeGfds, FreeFds
  <2> QED
    BY <1>0, <2>1, FirstEntry
<1>3. PICK f \in Gfd : f = First(FreeGfds) /\ f \in FreeGfds
  BY <1>2 DEF FreeGfds
<1>4. PICK j \in Fd : j = First(FreeFds(t)) /\ fds[t][j] = None
  BY <1>2 DEF FreeFds
<1> DEFINE table == [fds[t] EXCEPT ![j] = f]
           N == {f}
<1>5. None \notin Gfd
  BY Numbers
<1>6. fds[t] \in [Fd -> Gfd \cup {None}]
  BY <1>1 DEF Core
<1>7. table \in [Fd -> Gfd \cup {None}] /\ fds' = [fds EXCEPT ![t] = table]
  BY <1>0, <1>1, <1>3, <1>4, <1>6 DEF Core
<1>8. Counts(f)
  BY <1>1 DEF Core, Exact
<1>9. \A i \in Fd : fds[t][i] # f
  BY <1>3, <1>8, FdHeld DEF FreeGfds
<1>10. Cells(table, f) = {j}
  BY <1>6, <1>9 DEF Cells
<1>11. \A g \in Gfd \ N : Cells(table, g) = Cells(fds[t], g)
  BY <1>4, <1>5, <1>6 DEF Cells
<1>12. /\ gfds' \in [Gfd -> FdEntry] /\ \A g \in Gfd \ N : gfds'[g] = gfds[g]
       /\ gfds'[f] = Entry(type, id)
  BY <1>0, <1>1, <1>3, NewEntry DEF Core
<1> HIDE DEF table
<1>13. /\ fds' \in [Task -> [Fd -> Gfd \cup {None}]]
       /\ Exact' /\ Kinds'
       /\ \A g \in Gfd : gfds[g].in_use /\ gfds'[g].in_use => gfds'[g].type = gfds[g].type
       /\ \A s, p : Ends(s, p)' =
            Ends(s, p) \cup {g \in N : gfds'[g].type = s /\ gfds'[g].pipe_id = p}
  <2>1. \A g \in N : gfds'[g].in_use /\ gfds'[g].ref_count = 1 /\ Kind(gfds'[g])
    BY <1>0, <1>12, NewEntry
  <2>2. N \in SUBSET FreeGfds /\ \A g \in N : \E i : Cells(table, g) = {i}
    BY <1>3, <1>10
  <2> HIDE DEF N
  <2>3. Taken(t, N, table)
    BY <1>7, <1>11, <1>12, <2>1, <2>2 DEF Taken
  <2> QED
    BY <2>2, <2>3, Allocates
<1>14. gfds'[f].type = type /\ gfds'[f].pipe_id = id
  BY <1>12, NewEntry
<1>15. \A s, p : {g \in N : gfds'[g].type = s /\ gfds'[g].pipe_id = p} =
                   IF s = type /\ p = id THEN {f} ELSE {}
  BY <1>14
<1>16. \A s, p : Ends(s, p)' =
              Ends(s, p) \cup IF s = type /\ p = id THEN {First(FreeGfds)} ELSE {}
  BY <1>3, <1>13, <1>15
<1>17. \E x : fds' = [fds EXCEPT ![t] = x]
  BY <1>7
<1> HIDE DEF N
<1> QED
  BY <1>2, <1>12, <1>13, <1>16, <1>17 DEF TookOne

-----------------------------------------------------------------------------
(* The calls *)

\* A call that leaves its caller running, in the form CallEnds asks for
LEMMA CallReturns ==
  ASSUME FdsInv, Core', NEW t \in Task, Runs(t), at' = at,
         \E table : fds' = [fds EXCEPT ![t] = table],
         \A g \in Gfd : gfds[g].in_use /\ gfds'[g].in_use => gfds'[g].type = gfds[g].type
  PROVE  FdsInv'
<1>1. PICK table : fds' = [fds EXCEPT ![t] = table]
  OBVIOUS
<1>2. at' = [at EXCEPT ![t] = In("run")]
  BY InvCore DEF Runs, At
<1> DEFINE s == "run"
<1>3. s \in {"free", "run"} /\ (s = "free" => table = NoFds) /\ at' = [at EXCEPT ![t] = In(s)]
  BY <1>2
<1> HIDE DEF s
<1> QED
  BY <1>1, <1>3, CallEnds

\* sys_open adds a file, which is no end of anything.
LEMMA OpenInv ==
  ASSUME FdsInv, NEW t \in Task, do_sys_open(t)
  PROVE  FdsInv'
<1> DEFINE type == "file"
<1>1. /\ FreeGfds # {} /\ FreeFds(t) # {}
      /\ gfds' = [gfds EXCEPT ![First(FreeGfds)] = Entry(type, None)]
      /\ fds' = [fds EXCEPT ![t][First(FreeFds(t))] = First(FreeGfds)]
      /\ pipes' = pipes /\ ptys' = ptys /\ at' = at /\ Runs(t)
  BY DEF do_sys_open
<1>2. /\ type \in {"file", "read", "write", "master", "slave"}
      /\ None \in Pipe \cup Pty \cup {None} /\ Kind(Entry(type, None))
  BY NewEntry DEF Kind
<1>3. type \notin {"read", "write", "master", "slave"}
  OBVIOUS
<1> HIDE DEF type
<1>4. /\ gfds' \in [Gfd -> FdEntry] /\ fds' \in [Task -> [Fd -> Gfd \cup {None}]]
      /\ Exact' /\ Kinds'
      /\ \A g \in Gfd : gfds[g].in_use /\ gfds'[g].in_use => gfds'[g].type = gfds[g].type
      /\ \A s, p : Ends(s, p)' =
           Ends(s, p) \cup IF s = type /\ p = None THEN {First(FreeGfds)} ELSE {}
      /\ \E table : fds' = [fds EXCEPT ![t] = table]
  <2>1. TakesOne(t, type, None)
    BY <1>1, <1>2 DEF TakesOne
  <2>2. TookOne(t, type, None)
    BY <1>2, <2>1, AllocatesOne
  <2> QED
    BY <2>2 DEF TookOne
<1>5. \A s \in {"read", "write", "master", "slave"} : \A p : Ends(s, p)' = Ends(s, p)
  BY <1>3, <1>4
<1>6. Core'
  <2>1. AllEnds'
    BY <1>1, <1>5, InvCore DEF AllEnds, Core
  <2> QED
    BY <1>1, <1>4, <2>1, InvCore DEF Core
<1> QED
  BY <1>1, <1>4, <1>6, CallReturns

\* sys_pty_alloc makes a terminal and its one master end together.
LEMMA PtyAllocInv ==
  ASSUME FdsInv, NEW t \in Task, do_sys_pty_alloc(t)
  PROVE  FdsInv'
<1> DEFINE type == "master"
           id == First(FreePtys)
           f == First(FreeGfds)
           new == [NoPty EXCEPT !.in_use = TRUE, !.master = TRUE]
<1>1. /\ FreePtys # {} /\ FreeGfds # {} /\ FreeFds(t) # {}
      /\ ptys' = [ptys EXCEPT ![id] = new]
      /\ gfds' = [gfds EXCEPT ![f] = Entry(type, id)]
      /\ fds' = [fds EXCEPT ![t][First(FreeFds(t))] = f]
      /\ pipes' = pipes /\ at' = at /\ Runs(t)
  BY DEF do_sys_pty_alloc
<1>2. id \in Pty /\ ~ptys[id].in_use
  <2>1. FreePtys \in SUBSET Nat
    BY Numbers DEF FreePtys
  <2>2. id \in FreePtys
    BY <1>1, <2>1, FirstEntry
  <2> QED
    BY <2>2 DEF FreePtys
<1>3. /\ type \in {"file", "read", "write", "master", "slave"}
      /\ id \in Pipe \cup Pty \cup {None} /\ Kind(Entry(type, id))
  BY <1>2, NewEntry DEF Kind
<1>4. type \notin {"read", "write", "slave"} /\ type = "master"
  OBVIOUS
<1>5. /\ new \in PtyOK /\ new.in_use /\ new.master /\ new.slave_count = 0
  BY FreePty
<1> HIDE DEF type, id, new
<1>6. /\ gfds' \in [Gfd -> FdEntry] /\ fds' \in [Task -> [Fd -> Gfd \cup {None}]]
      /\ Exact' /\ Kinds'
      /\ \A g \in Gfd : gfds[g].in_use /\ gfds'[g].in_use => gfds'[g].type = gfds[g].type
      /\ \A s, p : Ends(s, p)' = Ends(s, p) \cup IF s = type /\ p = id THEN {f} ELSE {}
      /\ \E table : fds' = [fds EXCEPT ![t] = table]
  <2>1. TakesOne(t, type, id)
    BY <1>1, <1>3 DEF TakesOne
  <2>2. TookOne(t, type, id)
    BY <1>3, <2>1, AllocatesOne
  <2> QED
    BY <2>2 DEF TookOne
<1> HIDE DEF f
<1>7. /\ \A s \in {"read", "write", "slave"} : \A p : Ends(s, p)' = Ends(s, p)
      /\ \A p \in Pty : Ends("master", p)' = Ends("master", p) \cup IF p = id THEN {f} ELSE {}
  BY <1>4, <1>6
<1>8. Core /\ AllEnds
  BY InvCore DEF Core
<1>9. \A p \in Pipe : PipeEnds(pipes[p], Ends("read", p), Ends("write", p))'
  BY <1>1, <1>7, <1>8 DEF AllEnds
<1>10. ASSUME NEW p \in Pty
       PROVE  /\ ptys'[p] \in PtyOK
              /\ PtyEnds(ptys[p], Ends("master", p), Ends("slave", p))'
  <2>1. PtyEnds(ptys[p], Ends("master", p), Ends("slave", p)) /\ ptys[p] \in PtyOK
    BY <1>8 DEF AllEnds, Core
  <2>2. CASE p = id
    <3>1. Ends("master", p) = {} /\ Ends("slave", p) = {}
      BY <1>2, <2>1, <2>2 DEF PtyEnds
    <3>2. Ends("master", p)' = {f} /\ Ends("slave", p)' = {} /\ ptys'[p] = new
      BY <1>1, <1>7, <1>8, <2>2, <3>1 DEF Core
    <3>3. PtyEnds(new, {f}, {})
      BY <1>5, FS_EmptySet DEF PtyEnds, Unique
    <3> QED
      BY <1>5, <3>2, <3>3
  <2>3. CASE p # id
    <3>1. Ends("master", p)' = Ends("master", p) /\ Ends("slave", p)' = Ends("slave", p)
          /\ ptys'[p] = ptys[p]
      BY <1>1, <1>7, <1>8, <2>3 DEF Core
    <3> QED
      BY <2>1, <3>1
  <2> QED
    BY <2>2, <2>3
<1>11. Core'
  <2>1. AllEnds'
    BY <1>9, <1>10 DEF AllEnds
  <2>2. ptys' \in [Pty -> PtyOK] /\ pipes' \in [Pipe -> PipeOK]
    BY <1>1, <1>8, <1>10 DEF Core
  <2> QED
    BY <1>6, <2>1, <2>2 DEF Core
<1> QED
  BY <1>1, <1>6, <1>11, CallReturns

\* sys_pty_open adds a slave end to the terminal of the master descriptor j.
LEMMA PtyOpenInv ==
  ASSUME FdsInv, NEW t \in Task, NEW j \in Fd, do_sys_pty_open(t, j)
  PROVE  FdsInv'
<1> DEFINE type == "slave"
           m == gfds[fds[t][j]]
           id == m.pipe_id
           f == First(FreeGfds)
           new == [ptys[id] EXCEPT !.slave_count = @ + 1]
<1>1. /\ FreeGfds # {} /\ FreeFds(t) # {} /\ fds[t][j] # None
      /\ m.in_use /\ m.type = "master" /\ ptys[id].in_use
      /\ ptys' = [ptys EXCEPT ![id] = new]
      /\ gfds' = [gfds EXCEPT ![f] = Entry(type, id)]
      /\ fds' = [fds EXCEPT ![t][First(FreeFds(t))] = f]
      /\ pipes' = pipes /\ at' = at /\ Runs(t)
  BY DEF do_sys_pty_open
<1>2. Core /\ AllEnds
  BY InvCore DEF Core
<1>3. id \in Pty
  <2>1. fds[t][j] \in Gfd
    BY <1>1, <1>2 DEF Core
  <2> QED
    BY <1>1, <1>2, <2>1 DEF Core, Kinds, Kind
<1>4. /\ type \in {"file", "read", "write", "master", "slave"}
      /\ id \in Pipe \cup Pty \cup {None} /\ Kind(Entry(type, id))
  BY <1>3, NewEntry DEF Kind
<1>5. type \notin {"read", "write", "master"} /\ type = "slave"
  OBVIOUS
<1>6. /\ ptys[id] \in PtyOK /\ new \in PtyOK /\ new.in_use /\ new.master = ptys[id].master
      /\ new.slave_count = ptys[id].slave_count + 1
  <2>1. ptys[id] \in PtyOK
    BY <1>2, <1>3 DEF Core
  <2>2. PICK n : n = ptys[id].slave_count + 1
    OBVIOUS
  <2>3. n \in Nat
    BY <2>1, <2>2, PtyFields
  <2>4. LET q == [ptys[id] EXCEPT !.slave_count = n]
        IN  q \in PtyOK /\ q.slave_count = n /\ q.master = ptys[id].master /\ q.in_use = ptys[id].in_use
    BY <2>1, <2>3, PtyFields
  <2>5. new = [ptys[id] EXCEPT !.slave_count = n]
    BY <2>2
  <2> HIDE DEF id, new
  <2> QED
    BY <1>1, <2>1, <2>2, <2>4, <2>5
<1> HIDE DEF type, id, new
<1>7. /\ gfds' \in [Gfd -> FdEntry] /\ fds' \in [Task -> [Fd -> Gfd \cup {None}]]
      /\ Exact' /\ Kinds'
      /\ \A g \in Gfd : gfds[g].in_use /\ gfds'[g].in_use => gfds'[g].type = gfds[g].type
      /\ f \in FreeGfds
      /\ \A s, p : Ends(s, p)' = Ends(s, p) \cup IF s = type /\ p = id THEN {f} ELSE {}
      /\ \E table : fds' = [fds EXCEPT ![t] = table]
  <2>1. TakesOne(t, type, id)
    BY <1>1, <1>4 DEF TakesOne
  <2>2. TookOne(t, type, id)
    BY <1>4, <2>1, AllocatesOne
  <2> QED
    BY <2>2 DEF TookOne
<1> HIDE DEF f
<1>8. /\ \A s \in {"read", "write", "master"} : \A p : Ends(s, p)' = Ends(s, p)
      /\ \A p \in Pty : Ends("slave", p)' = Ends("slave", p) \cup IF p = id THEN {f} ELSE {}
  BY <1>5, <1>7
<1>9. \A p \in Pipe : PipeEnds(pipes[p], Ends("read", p), Ends("write", p))'
  BY <1>1, <1>2, <1>8 DEF AllEnds
<1>10. ASSUME NEW p \in Pty
       PROVE  /\ ptys'[p] \in PtyOK
              /\ PtyEnds(ptys[p], Ends("master", p), Ends("slave", p))'
  <2>1. PtyEnds(ptys[p], Ends("master", p), Ends("slave", p)) /\ ptys[p] \in PtyOK
    BY <1>2 DEF AllEnds, Core
  <2>2. CASE p = id
    <3> DEFINE S == Ends("slave", p)
               M == Ends("master", p)
    <3>1. f \notin S /\ S \in SUBSET Gfd
      BY <1>7 DEF FreeGfds, Ends
    <3>2. IsFiniteSet(S)
      BY <3>1, GfdSets
    <3>3. M' = M /\ S' = S \cup {f} /\ ptys'[p] = new
      BY <1>1, <1>2, <1>8, <2>2 DEF Core
    <3> HIDE DEF S, M
    <3>4. Cardinality(S \cup {f}) = Cardinality(S) + 1
      BY <3>1, <3>2, FS_AddElement
    <3>5. PtyEnds(new, M, S \cup {f})
      BY <1>1, <1>6, <2>1, <2>2, <3>4 DEF PtyEnds, S, M
    <3> QED
      BY <1>6, <3>3, <3>5 DEF S, M
  <2>3. CASE p # id
    <3>1. Ends("master", p)' = Ends("master", p) /\ Ends("slave", p)' = Ends("slave", p)
          /\ ptys'[p] = ptys[p]
      BY <1>1, <1>2, <1>8, <2>3 DEF Core
    <3> QED
      BY <2>1, <3>1
  <2> QED
    BY <2>2, <2>3
<1>11. Core'
  <2>1. AllEnds'
    BY <1>9, <1>10 DEF AllEnds
  <2>2. ptys' \in [Pty -> PtyOK] /\ pipes' \in [Pipe -> PipeOK]
    BY <1>1, <1>2, <1>10 DEF Core
  <2> QED
    BY <1>7, <2>1, <2>2 DEF Core
<1> QED
  BY <1>1, <1>7, <1>11, CallReturns

\* A set with two members or more has one left without any.
LEMMA TwoLeft ==
  ASSUME NEW S, IsFiniteSet(S), Cardinality(S) >= 2, NEW x
  PROVE  S # {} /\ S \ {x} # {}
<1>1. Cardinality(S) \in Nat
  BY FS_CardinalityType
<1>2. S # {}
  BY FS_EmptySet
<1>3. IsFiniteSet(S \ {x}) /\ Cardinality(S \ {x}) >= 1
  BY <1>1, FS_RemoveElement
<1>4. S \ {x} # {}
  BY <1>3, FS_EmptySet
<1> QED
  BY <1>2, <1>4

\* sys_pipe makes a pipe and its two ends together.
LEMMA PipeInv ==
  ASSUME FdsInv, NEW t \in Task, do_sys_pipe(t)
  PROVE  FdsInv'
<1> DEFINE p == First(FreePipes)
           r == First(FreeGfds)
           w == First(FreeGfds \ {r})
           j == First(FreeFds(t))
           k == First(FreeFds(t) \ {j})
           new == [NoPipe EXCEPT !.in_use = TRUE]
           table == [fds[t] EXCEPT ![j] = r, ![k] = w]
           N == {r, w}
<1>1. /\ FreePipes # {} /\ Cardinality(FreeGfds) >= 2 /\ Cardinality(FreeFds(t)) >= 2
      /\ pipes' = [pipes EXCEPT ![p] = new]
      /\ gfds' = [gfds EXCEPT ![r] = Entry("read", p), ![w] = Entry("write", p)]
      /\ fds' = [fds EXCEPT ![t][j] = r, ![t][k] = w]
      /\ ptys' = ptys /\ at' = at /\ Runs(t)
  BY DEF do_sys_pipe
<1>2. Core /\ AllEnds /\ Exact
  BY InvCore DEF Core
<1>3. p \in Pipe /\ ~pipes[p].in_use
  <2>1. FreePipes \in SUBSET Nat
    BY Numbers DEF FreePipes
  <2>2. p \in FreePipes
    BY <1>1, <2>1, FirstEntry
  <2> QED
    BY <2>2 DEF FreePipes
<1>4. r \in FreeGfds /\ w \in FreeGfds /\ r # w
  <2>1. FreeGfds \in SUBSET Nat /\ FreeGfds \ {r} \in SUBSET Nat /\ FreeGfds \in SUBSET Gfd
    BY Numbers DEF FreeGfds
  <2>2. IsFiniteSet(FreeGfds) /\ Cardinality(FreeGfds) \in Nat
    BY <2>1, GfdSets
  <2>3. FreeGfds # {} /\ FreeGfds \ {r} # {}
    BY <1>1, <2>2, TwoLeft
  <2> HIDE DEF r
  <2>4. First(FreeGfds \ {r}) \in FreeGfds \ {r}
    BY <2>1, <2>3, FirstEntry
  <2>5. First(FreeGfds) \in FreeGfds
    BY <2>1, <2>3, FirstEntry
  <2> QED
    BY <2>4, <2>5 DEF r
<1>5. j \in FreeFds(t) /\ k \in FreeFds(t) /\ j # k
  <2>1. FreeFds(t) \in SUBSET Nat /\ FreeFds(t) \ {j} \in SUBSET Nat /\ FreeFds(t) \in SUBSET Fd
    BY Numbers DEF FreeFds
  <2>2. IsFiniteSet(FreeFds(t)) /\ Cardinality(FreeFds(t)) \in Nat
    BY <2>1, FdSets
  <2>3. FreeFds(t) # {} /\ FreeFds(t) \ {j} # {}
    BY <1>1, <2>2, TwoLeft
  <2> HIDE DEF j
  <2>4. First(FreeFds(t) \ {j}) \in FreeFds(t) \ {j}
    BY <2>1, <2>3, FirstEntry
  <2>5. First(FreeFds(t)) \in FreeFds(t)
    BY <2>1, <2>3, FirstEntry
  <2> QED
    BY <2>4, <2>5 DEF j
<1>6. new \in PipeOK /\ new.in_use /\ ~new.closed_write
  BY FreePipe
<1> HIDE DEF p, new, r, w, j, k
<1>7. /\ r \in Gfd /\ w \in Gfd /\ ~gfds[r].in_use /\ ~gfds[w].in_use
      /\ j \in Fd /\ k \in Fd /\ fds[t][j] = None /\ fds[t][k] = None
  BY <1>4, <1>5 DEF FreeGfds, FreeFds
<1>8. \A i \in Fd : fds[t][i] # r /\ fds[t][i] # w
  BY <1>2, <1>7, FdHeld DEF Exact
<1>9. fds[t] \in [Fd -> Gfd \cup {None}] /\ None \notin Gfd
  BY <1>2, Numbers DEF Core
<1>10. table \in [Fd -> Gfd \cup {None}] /\ fds' = [fds EXCEPT ![t] = table]
  BY <1>1, <1>2, <1>5, <1>7, <1>9 DEF Core
<1>11. /\ Cells(table, r) = {j} /\ Cells(table, w) = {k}
       /\ \A g \in Gfd \ N : Cells(table, g) = Cells(fds[t], g)
  BY <1>4, <1>5, <1>7, <1>8, <1>9 DEF Cells
<1>12. /\ gfds' \in [Gfd -> FdEntry] /\ \A g \in Gfd \ N : gfds'[g] = gfds[g]
       /\ gfds'[r] = Entry("read", p) /\ gfds'[w] = Entry("write", p)
  <2>1. Entry("read", p) \in FdEntry /\ Entry("write", p) \in FdEntry
    BY <1>3, NewEntry
  <2> QED
    BY <1>1, <1>2, <1>4, <1>7, <2>1 DEF Core
<1>13. /\ gfds'[r].in_use /\ gfds'[r].ref_count = 1 /\ gfds'[r].type = "read" /\ gfds'[r].pipe_id = p
       /\ gfds'[w].in_use /\ gfds'[w].ref_count = 1 /\ gfds'[w].type = "write" /\ gfds'[w].pipe_id = p
  BY <1>3, <1>12, NewEntry
<1>14. /\ fds' \in [Task -> [Fd -> Gfd \cup {None}]]
       /\ Exact' /\ Kinds'
       /\ \A g \in Gfd : gfds[g].in_use /\ gfds'[g].in_use => gfds'[g].type = gfds[g].type
       /\ \A type, q : Ends(type, q)' =
            Ends(type, q) \cup {g \in N : gfds'[g].type = type /\ gfds'[g].pipe_id = q}
  <2>1. \A g \in N : gfds'[g].in_use /\ gfds'[g].ref_count = 1 /\ Kind(gfds'[g])
    BY <1>3, <1>13 DEF Kind
  <2>2. N \in SUBSET FreeGfds /\ \A g \in N : \E i : Cells(table, g) = {i}
    BY <1>4, <1>11
  <2> HIDE DEF N, table
  <2>3. Taken(t, N, table)
    BY <1>10, <1>11, <1>12, <2>1, <2>2 DEF Taken
  <2> QED
    BY <2>2, <2>3, Allocates
<1> HIDE DEF table
<1>15. /\ \A s \in {"master", "slave"} : \A q : Ends(s, q)' = Ends(s, q)
       /\ \A q \in Pipe :
                /\ Ends("read", q)' = Ends("read", q) \cup IF q = p THEN {r} ELSE {}
                /\ Ends("write", q)' = Ends("write", q) \cup IF q = p THEN {w} ELSE {}
  <2> DEFINE New(s, q) == {g \in N : gfds'[g].type = s /\ gfds'[g].pipe_id = q}
  <2>1. \A q : /\ New("read", q) = IF q = p THEN {r} ELSE {}
              /\ New("write", q) = IF q = p THEN {w} ELSE {}
    BY <1>4, <1>13
  <2>2. \A s \in {"master", "slave"} : \A q : New(s, q) = {}
    BY <1>13
  <2>3. \A s, q : Ends(s, q)' = Ends(s, q) \cup New(s, q)
    BY <1>14
  <2> HIDE DEF New
  <2>4. \A s \in {"master", "slave"} : \A q : Ends(s, q)' = Ends(s, q)
    BY <2>2, <2>3
  <2> QED
    BY <2>1, <2>3, <2>4
<1>16. ASSUME NEW q \in Pipe
       PROVE  /\ pipes'[q] \in PipeOK
              /\ PipeEnds(pipes[q], Ends("read", q), Ends("write", q))'
  <2>1. PipeEnds(pipes[q], Ends("read", q), Ends("write", q)) /\ pipes[q] \in PipeOK
    BY <1>2 DEF AllEnds, Core
  <2>2. CASE q = p
    <3>1. Ends("read", p) = {} /\ Ends("write", p) = {}
      BY <1>3, <2>1, <2>2 DEF PipeEnds
    <3>2. Ends("read", q)' = {r} /\ Ends("write", q)' = {w} /\ pipes'[q] = new
      <4>1. pipes'[q] = new
        BY <1>1, <1>2, <2>2 DEF Core
      <4> QED
        BY <1>15, <2>2, <3>1, <4>1
    <3>3. PipeEnds(new, {r}, {w})
      BY <1>6 DEF PipeEnds, Unique
    <3> QED
      BY <1>6, <3>2, <3>3
  <2>3. CASE q # p
    <3>1. Ends("read", q)' = Ends("read", q) /\ Ends("write", q)' = Ends("write", q)
          /\ pipes'[q] = pipes[q]
      <4>1. pipes'[q] = pipes[q]
        BY <1>1, <1>2, <2>3 DEF Core
      <4>2. Ends("read", q)' = Ends("read", q) /\ Ends("write", q)' = Ends("write", q)
        BY <1>15, <2>3
      <4> QED
        BY <4>1, <4>2
    <3> QED
      BY <2>1, <3>1
  <2> QED
    BY <2>2, <2>3
<1>17. Core'
  <2>1. \A q \in Pty : PtyEnds(ptys[q], Ends("master", q), Ends("slave", q))'
    BY <1>1, <1>2, <1>15 DEF AllEnds
  <2>2. AllEnds'
    BY <1>16, <2>1 DEF AllEnds
  <2>3. ptys' \in [Pty -> PtyOK] /\ pipes' \in [Pipe -> PipeOK]
    BY <1>1, <1>2, <1>16 DEF Core
  <2> QED
    BY <1>12, <1>14, <2>2, <2>3 DEF Core
<1>18. \E x : fds' = [fds EXCEPT ![t] = x]
  BY <1>10
<1> QED
  BY <1>1, <1>14, <1>17, <1>18, CallReturns

\* The descriptors of a table that refer to g, less some of them
LEMMA CellsLess ==
  ASSUME NEW table, NEW g, NEW js
  PROVE  LET T == Cells(table, g)
         IN  /\ Cardinality(T \ js) = Cardinality(T) - Cardinality(js \cap T)
             /\ Cardinality(T \ js) \in Nat /\ Cardinality(T) \in Nat
             /\ Cardinality(js \cap T) \in Nat
<1> DEFINE T == Cells(table, g)
<1>1. T \in SUBSET Fd /\ T \ js \in SUBSET Fd /\ js \cap T \in SUBSET Fd /\ js \cap T = T \cap js
  BY DEF Cells
<1> HIDE DEF T
<1>2. IsFiniteSet(T) /\ Cardinality(T \ js) \in Nat /\ Cardinality(T) \in Nat
      /\ Cardinality(js \cap T) \in Nat
  BY <1>1, FdSets
<1>3. Cardinality(T \ js) = Cardinality(T) - Cardinality(T \cap js)
  BY <1>2, FS_Difference
<1> QED
  BY <1>1, <1>2, <1>3 DEF T

\* sys_close takes one descriptor from its entry and closes the end with the
\* last one.
LEMMA CloseInv ==
  ASSUME FdsInv, NEW t \in Task, NEW j \in Fd, do_sys_close(t, j)
  PROVE  FdsInv'
<1> DEFINE table == [fds[t] EXCEPT ![j] = None]
           js == {j}
<1>1. /\ fds' = [fds EXCEPT ![t][j] = None]
      /\ Release(t, js, None) /\ at' = at /\ Runs(t)
  BY DEF do_sys_close
<1>2. Core /\ None \notin Gfd
  BY InvCore, Numbers
<1>3. fds[t] \in [Fd -> Gfd \cup {None}]
  BY <1>2 DEF Core
<1>4. table \in [Fd -> Gfd \cup {None}] /\ fds' = [fds EXCEPT ![t] = table]
  BY <1>1, <1>2, <1>3 DEF Core
<1>5. ASSUME NEW g \in Gfd
      PROVE  Cardinality(Cells(table, g)) =
               Cardinality(Cells(fds[t], g)) - Cardinality(js \cap Cells(fds[t], g))
                 + IF g = None THEN 1 ELSE 0
  <2>1. Cells(table, g) = Cells(fds[t], g) \ js
    BY <1>2, <1>3 DEF Cells
  <2> HIDE DEF js, table
  <2>2. Cardinality(Cells(table, g)) =
          Cardinality(Cells(fds[t], g)) - Cardinality(js \cap Cells(fds[t], g))
        /\ Cardinality(Cells(table, g)) \in Nat
    BY <2>1, CellsLess
  <2> QED
    BY <1>2, <2>2
<1> HIDE DEF table
<1>6. /\ Core'
      /\ \A g \in Gfd : gfds'[g].in_use => gfds'[g].type = gfds[g].type
  <2>1. Drops(t, js, None, table) /\ js \in SUBSET Fd
    BY <1>1, <1>4, <1>5 DEF Drops
  <2> HIDE DEF js
  <2> QED
    BY <2>1, Releases
<1> QED
  BY <1>1, <1>4, <1>6, CallReturns

\* sys_dup2 takes k from the entry it referred to and adds it to the entry of
\* j.
LEMMA Dup2Inv ==
  ASSUME FdsInv, NEW t \in Task, NEW j \in Fd, NEW k \in Fd, do_sys_dup2(t, j, k)
  PROVE  FdsInv'
<1> DEFINE g0 == fds[t][j]
           table == [fds[t] EXCEPT ![k] = g0]
           js == {k}
<1>1. /\ j # k /\ g0 # None /\ fds' = [fds EXCEPT ![t][k] = g0]
      /\ Release(t, js, g0) /\ at' = at /\ Runs(t)
  BY DEF do_sys_dup2
<1>2. Core /\ None \notin Gfd
  BY InvCore, Numbers
<1>3. fds[t] \in [Fd -> Gfd \cup {None}] /\ g0 \in Gfd
  BY <1>1, <1>2 DEF Core
<1>4. table \in [Fd -> Gfd \cup {None}] /\ fds' = [fds EXCEPT ![t] = table]
  BY <1>1, <1>2, <1>3 DEF Core
<1>5. ASSUME NEW g \in Gfd
      PROVE  Cardinality(Cells(table, g)) =
               Cardinality(Cells(fds[t], g)) - Cardinality(js \cap Cells(fds[t], g))
                 + IF g = g0 THEN 1 ELSE 0
  <2> DEFINE S == Cells(fds[t], g) \ js
  <2>1. Cells(table, g) = IF g = g0 THEN S \cup {k} ELSE S
    BY <1>3 DEF Cells
  <2>2. k \notin S /\ S \in SUBSET Fd
    BY DEF Cells
  <2>3. /\ Cardinality(S) = Cardinality(Cells(fds[t], g)) - Cardinality(js \cap Cells(fds[t], g))
        /\ Cardinality(S) \in Nat
    BY CellsLess
  <2> HIDE DEF S, js, table
  <2>4. Cardinality(S \cup {k}) = Cardinality(S) + 1
    BY <2>2, FdSets, FS_AddElement
  <2>5. CASE g = g0
    BY <2>1, <2>3, <2>4, <2>5
  <2>6. CASE g # g0
    <3>1. Cardinality(Cells(table, g)) = Cardinality(S)
      BY <2>1, <2>6
    <3> QED
      BY <2>3, <2>6, <3>1
  <2> QED
    BY <2>5, <2>6
<1>6. Cardinality(js \cap Cells(fds[t], g0)) < gfds[g0].ref_count
  <2> DEFINE T == {j, k} \cap Cells(fds[t], g0)
             U == js \cap Cells(fds[t], g0)
  <2>1. j \in T /\ j \notin U /\ U \subseteq T \ {j} /\ T \in SUBSET Fd
    BY <1>1 DEF Cells
  <2>2. Cardinality(T) <= gfds[g0].ref_count
    <3> DEFINE both == {j, k}
    <3>1. both \in SUBSET Fd
      OBVIOUS
    <3> HIDE DEF both, g0
    <3>2. /\ Refs(t, both)[g0] = Cardinality(both \cap Cells(fds[t], g0))
          /\ Refs(t, both)[g0] <= gfds[g0].ref_count
      BY <1>3, <3>1, DroppedRefs
    <3> QED
      BY <3>2 DEF both
  <2>3. gfds[g0].ref_count \in Nat
    BY <1>2, <1>3, EntryFields DEF Core
  <2> HIDE DEF T, U
  <2>4. IsFiniteSet(T) /\ Cardinality(T) \in Nat
    BY <2>1, FdSets
  <2>5. IsFiniteSet(T \ {j}) /\ Cardinality(T \ {j}) = Cardinality(T) - 1
    BY <2>1, <2>4, FS_RemoveElement
  <2>6. Cardinality(U) <= Cardinality(T \ {j}) /\ Cardinality(U) \in Nat
    BY <2>1, <2>5, FS_Subset, FS_CardinalityType
  <2>7. Cardinality(U) < gfds[g0].ref_count
    BY <2>2, <2>3, <2>4, <2>5, <2>6
  <2> QED
    BY <2>7 DEF U
<1>7. /\ Core'
      /\ \A g \in Gfd : gfds'[g].in_use => gfds'[g].type = gfds[g].type
  <2>1. Drops(t, js, g0, table) /\ js \in SUBSET Fd
    BY <1>1, <1>4, <1>5, <1>6 DEF Drops
  <2> HIDE DEF js, g0, table
  <2> QED
    BY <1>3, <2>1, Releases
<1> HIDE DEF table
<1> QED
  BY <1>1, <1>4, <1>7, CallReturns

\* A task that ends releases all its descriptors, several of one entry
\* included.
LEMMA ExitInv ==
  ASSUME FdsInv, NEW t \in Task, FdsExit(t)
  PROVE  FdsInv'
<1> DEFINE table == NoFds
           js == Fd
           s == "free"
<1>1. /\ fds' = [fds EXCEPT ![t] = table] /\ at' = [at EXCEPT ![t] = In(s)]
      /\ Release(t, js, None)
  BY DEF FdsExit
<1>2. Core /\ None \notin Gfd
  BY InvCore, Numbers
<1>3. table \in [Fd -> Gfd \cup {None}]
  BY DEF NoFds
<1>4. ASSUME NEW g \in Gfd
      PROVE  Cardinality(Cells(table, g)) =
               Cardinality(Cells(fds[t], g)) - Cardinality(js \cap Cells(fds[t], g))
                 + IF g = None THEN 1 ELSE 0
  <2>1. Cells(table, g) = {} /\ js \cap Cells(fds[t], g) = Cells(fds[t], g)
    BY <1>2 DEF Cells, NoFds
  <2>2. Cardinality(Cells(table, g)) = 0
    BY <2>1, FS_EmptySet
  <2>3. /\ Cardinality(Cells(fds[t], g)) \in Nat
        /\ Cardinality(js \cap Cells(fds[t], g)) = Cardinality(Cells(fds[t], g))
    BY <2>1, CellsLess
  <2> HIDE DEF table, js
  <2> QED
    BY <1>2, <2>2, <2>3
<1>5. /\ Core'
      /\ \A g \in Gfd : gfds'[g].in_use => gfds'[g].type = gfds[g].type
  <2>1. Drops(t, js, None, table) /\ js \in SUBSET Fd
    BY <1>1, <1>3, <1>4 DEF Drops
  <2> HIDE DEF js, table
  <2> QED
    BY <2>1, Releases
<1>6. s \in {"free", "run"} /\ (s = "free" => table = NoFds)
  OBVIOUS
<1> HIDE DEF s, table
<1> QED
  BY <1>1, <1>5, <1>6, CallEnds

\* A child that starts with the table `to` adds to every entry as many as the
\* table names it.
LEMMA ChildInv ==
  ASSUME FdsInv, NEW to \in [Fd -> Gfd \cup {None}], \A j \in Fd : to[j] # None => gfds[to[j]].in_use,
         Child(to)
  PROVE  FdsInv'
<1> DEFINE free == {v \in Task : at[v] = In("free")}
           n(g) == Cardinality({j \in Fd : to[j] = g})
           s == "run"
<1>1. /\ free # {} /\ fds' = [fds EXCEPT ![First(free)] = to]
      /\ at' = [at EXCEPT ![First(free)] = In(s)]
      /\ gfds' = [g \in Gfd |-> [gfds[g] EXCEPT !.ref_count = @ + n(g)]]
      /\ pipes' = pipes /\ ptys' = ptys
  BY DEF Child
<1>2. PICK u \in Task : u = First(free) /\ at[u] = In("free")
  <2>1. free \in SUBSET Nat
    BY TablesAssumption
  <2>2. First(free) \in free
    <3> HIDE DEF free
    <3> QED
      BY <1>1, <2>1, FirstEntry
  <2> QED
    BY <2>2
<1>3. Core /\ CallsOK /\ None \notin Gfd
  BY InvCore, Numbers
<1>4. fds[u] = NoFds /\ fds' = [fds EXCEPT ![u] = to] /\ at' = [at EXCEPT ![u] = In(s)]
  BY <1>1, <1>2, <1>3 DEF CallsOK
<1>5. ASSUME NEW g \in Gfd
      PROVE  /\ gfds'[g] \in FdEntry
             /\ gfds'[g].in_use = gfds[g].in_use /\ gfds'[g].type = gfds[g].type
             /\ gfds'[g].pipe_id = gfds[g].pipe_id
             /\ Counts(g)'
  <2>1. n(g) = Cardinality(Cells(to, g)) /\ Cells(to, g) \in SUBSET Fd
    BY DEF Cells
  <2>2. IsFiniteSet(Cells(to, g)) /\ n(g) \in Nat
    BY <2>1, FdSets
  <2>3. gfds'[g] = [gfds[g] EXCEPT !.ref_count = gfds[g].ref_count + n(g)]
    BY <1>1
  <2> HIDE DEF n
  <2>4. gfds[g] \in FdEntry /\ gfds[g].ref_count \in Nat /\ gfds[g].ref_count + n(g) \in Nat
    BY <1>3, <2>2, EntryFields DEF Core
  <2>5. /\ gfds'[g] \in FdEntry /\ gfds'[g].ref_count = gfds[g].ref_count + n(g)
        /\ gfds'[g].in_use = gfds[g].in_use /\ gfds'[g].type = gfds[g].type
        /\ gfds'[g].pipe_id = gfds[g].pipe_id
    BY <2>3, <2>4, EntryFields
  <2>6. Counts(g)
    BY <1>3 DEF Core, Exact
  <2>7. /\ IsFiniteSet(Holders(g))' /\ Cardinality(Holders(g)) \in Nat
        /\ Cardinality(Holders(g))' =
             Cardinality(Holders(g)) - Cardinality(Cells(fds[u], g)) + Cardinality(Cells(to, g))
    BY <1>3, <1>4, <2>6, TableChanged DEF Core, Counts
  <2>8. Cardinality(Cells(fds[u], g)) = 0
    <3>1. Cells(fds[u], g) = {}
      BY <1>3, <1>4 DEF Cells, NoFds
    <3> QED
      BY <3>1, FS_EmptySet
  <2>9. gfds'[g].ref_count = Cardinality(Holders(g))'
    BY <2>1, <2>2, <2>4, <2>5, <2>6, <2>7, <2>8 DEF Counts
  <2>10. gfds[g].in_use \/ n(g) = 0
    <3>1. ASSUME ~gfds[g].in_use
          PROVE  n(g) = 0
      <4>1. Cells(to, g) = {}
        BY <1>3, <3>1 DEF Cells
      <4> QED
        BY <2>1, <4>1, FS_EmptySet
    <3> QED
      BY <3>1
  <2>11. gfds'[g].in_use <=> gfds'[g].ref_count # 0
    BY <2>2, <2>4, <2>5, <2>6, <2>10 DEF Counts
  <2> QED
    BY <2>5, <2>7, <2>9, <2>11 DEF Counts
<1>6. gfds' \in [Gfd -> FdEntry]
  BY <1>1, <1>5
<1>7. fds' \in [Task -> [Fd -> Gfd \cup {None}]]
  BY <1>3, <1>4 DEF Core
<1>8. Exact' /\ Kinds'
  BY <1>3, <1>5 DEF Exact, Kinds, Kind, Core
<1>9. \A type, p : Ends(type, p)' = Ends(type, p)
  BY <1>5 DEF Ends
<1>10. Core'
  <2>1. AllEnds'
    BY <1>1, <1>3, <1>9 DEF AllEnds, Core
  <2> QED
    BY <1>1, <1>3, <1>6, <1>7, <1>8, <2>1 DEF Core
<1>11. /\ s \in {"free", "run"} /\ (s = "free" => to = NoFds)
       /\ \A g \in Gfd : gfds[g].in_use /\ gfds'[g].in_use => gfds'[g].type = gfds[g].type
  BY <1>5
<1> HIDE DEF s
<1> QED
  BY <1>4, <1>10, <1>11, CallEnds

\* What a child of task_fork_exec is wired to, its parent has open.
LEMMA RewiredOf ==
  ASSUME NEW table \in [Fd -> Gfd \cup {None}], NEW in \in Fd \cup {None}, NEW out \in Fd \cup {None}
  PROVE  /\ Rewired(table, in, out) \in [Fd -> Gfd \cup {None}]
         /\ \A j \in Fd : Rewired(table, in, out)[j] # None =>
              \E i \in Fd : table[i] = Rewired(table, in, out)[j]
<1> DEFINE one == IF in # None /\ table[in] # None THEN [table EXCEPT ![0] = table[in]] ELSE table
           two == IF out # None /\ one[out] # None THEN [one EXCEPT ![1] = one[out]] ELSE one
           From(x) == x \in Gfd \cup {None} /\ \E i \in Fd : table[i] = x
<1>1. one \in [Fd -> Gfd \cup {None}] /\ \A j \in Fd : From(one[j])
  BY DEF From
<1> HIDE DEF one, From
<1>2. two \in [Fd -> Gfd \cup {None}] /\ \A j \in Fd : From(two[j])
  BY <1>1
<1> HIDE DEF two
<1>3. Rewired(table, in, out) =
        [j \in Fd |-> IF (j = 0 /\ in # None) \/ (j = 1 /\ out # None) THEN two[j] ELSE None]
  BY DEF Rewired, one, two
<1> QED
  BY <1>2, <1>3 DEF From

\* fork gives the child the table of its parent; fork_exec rewires two
\* descriptors first.
LEMMA ForkInv ==
  ASSUME FdsInv, NEW t \in Task, NEW to,
         \/ FdsFork(t) /\ to = fds[t]
         \/ \E i, o \in Fd \cup {None} : task_fork_exec(t, i, o) /\ to = Rewired(fds[t], i, o)
  PROVE  FdsInv'
<1>1. Core
  BY InvCore
<1>2. fds[t] \in [Fd -> Gfd \cup {None}]
  BY <1>1 DEF Core
<1>3. \A j \in Fd : fds[t][j] # None => gfds[fds[t][j]].in_use
  BY <1>1, <1>2, FdHeld DEF Core, Exact
<1>4. Child(to)
  BY DEF FdsFork, task_fork_exec
<1>5. /\ to \in [Fd -> Gfd \cup {None}]
      /\ \A j \in Fd : to[j] # None => \E i \in Fd : fds[t][i] = to[j]
  <2>1. CASE to = fds[t]
    BY <1>2, <2>1
  <2>2. ASSUME NEW i \in Fd \cup {None}, NEW o \in Fd \cup {None}, to = Rewired(fds[t], i, o)
        PROVE  /\ to \in [Fd -> Gfd \cup {None}]
               /\ \A j \in Fd : to[j] # None => \E k \in Fd : fds[t][k] = to[j]
    <3> DEFINE table == fds[t]
               x == Rewired(table, i, o)
    <3>1. table \in [Fd -> Gfd \cup {None}] /\ to = x
      BY <1>2, <2>2
    <3> HIDE DEF table
    <3>2. x \in [Fd -> Gfd \cup {None}] /\ \A j \in Fd : x[j] # None => \E k \in Fd : table[k] = x[j]
      BY <3>1, RewiredOf
    <3> HIDE DEF x
    <3> QED
      BY <3>1, <3>2 DEF table
  <2> QED
    BY <2>1, <2>2
<1>6. \A j \in Fd : to[j] # None => gfds[to[j]].in_use
  BY <1>3, <1>5
<1> QED
  BY <1>4, <1>5, <1>6, ChildInv

\* A step on a pipe or terminal that opens and closes nothing
LEMMA Flows ==
  ASSUME FdsInv, gfds' = gfds, fds' = fds,
         pipes' \in [Pipe -> PipeOK], ptys' \in [Pty -> PtyOK],
         \A p \in Pipe : /\ pipes'[p].in_use = pipes[p].in_use
                         /\ pipes'[p].closed_write = pipes[p].closed_write,
         \A p \in Pty : /\ ptys'[p].in_use = ptys[p].in_use /\ ptys'[p].master = ptys[p].master
                        /\ ptys'[p].slave_count = ptys[p].slave_count
  PROVE  Core'
<1>1. Core
  BY InvCore
<1>2. \A type, p : Ends(type, p)' = Ends(type, p)
  BY DEF Ends
<1>3. \A g \in Gfd : Counts(g)' <=> Counts(g)
  BY DEF Counts, Holders
<1>4. Exact' /\ Kinds'
  BY <1>1, <1>3 DEF Core, Exact, Kinds, Kind
<1>5. AllEnds'
  BY <1>1, <1>2 DEF Core, AllEnds, PipeEnds, PtyEnds
<1> QED
  BY <1>1, <1>4, <1>5 DEF Core

\* A pipe holds more or fewer bytes.
LEMMA Poured ==
  ASSUME FdsInv, NEW p \in Pipe, NEW b \in 0 .. PIPE_BUF_SIZE - 1,
         pipes' = [pipes EXCEPT ![p].bytes = b], gfds' = gfds, ptys' = ptys, fds' = fds
  PROVE  Core'
<1>1. Core
  BY InvCore
<1>2. ASSUME NEW q \in Pipe
      PROVE  /\ pipes'[q] \in PipeOK /\ pipes'[q].in_use = pipes[q].in_use
             /\ pipes'[q].closed_write = pipes[q].closed_write
  <2>1. pipes[q] \in PipeOK
    BY <1>1 DEF Core
  <2>2. pipes'[q] = IF q = p THEN [pipes[q] EXCEPT !.bytes = b] ELSE pipes[q]
    BY <1>1 DEF Core
  <2> QED
    BY <2>1, <2>2, PipeFields
<1>3. pipes' \in [Pipe -> PipeOK]
  BY <1>1, <1>2 DEF Core
<1> QED
  BY <1>1, <1>2, <1>3, Flows DEF Core

\* What the loop of a pipe call of t on its descriptor j leaves
LEMMA Waited ==
  ASSUME FdsInv, Core', gfds' = gfds, fds' = fds, NEW t \in Task, NEW c \in {"read", "write"},
         NEW j \in Fd, NEW left \in Nat, fds[t][j] # None, gfds[fds[t][j]].type = c,
         at' = [at EXCEPT ![t] = In("run")] \/ at' = [at EXCEPT ![t] = Waiting(c, j, left)]
  PROVE  FdsInv'
<1>1. Core /\ At /\ CallsOK
  BY InvCore
<1> DEFINE w == Waiting(c, j, left)
           Call == [call : {"free", "run", "read", "write"}, fd : Fd \cup {None}, left : Nat]
<1>2. w \in Call /\ w.call = c /\ w.fd = j /\ w # In("free")
  BY DEF Waiting, In
<1>3. In("run") \in Call /\ In("run").call = "run" /\ In("run") # In("free")
  BY DEF In
<1>4. at \in [Task -> Call]
  BY <1>1 DEF At
<1> HIDE DEF w
<1>5. at' = [at EXCEPT ![t] = In("run")] \/ at' = [at EXCEPT ![t] = w]
  BY DEF w
<1>6. At'
  BY <1>2, <1>3, <1>4, <1>5 DEF At
<1>7. ASSUME NEW u \in Task
      PROVE  /\ at'[u] = In("free") => fds'[u] = NoFds
             /\ at'[u].call \in {"read", "write"} =>
                  /\ at'[u].fd \in Fd /\ fds'[u][at'[u].fd] # None
                  /\ gfds'[fds'[u][at'[u].fd]].type = at'[u].call
  <2>1. CASE u # t
    <3>1. at'[u] = at[u]
      BY <1>4, <1>5, <2>1
    <3> QED
      BY <1>1, <3>1 DEF CallsOK
  <2>2. CASE u = t
    <3>1. at'[u] = In("run") \/ at'[u] = w
      BY <1>4, <1>5, <2>2
    <3> QED
      BY <1>2, <1>3, <2>2, <3>1
  <2> QED
    BY <2>1, <2>2
<1>8. CallsOK'
  BY <1>7 DEF CallsOK, NoFds
<1>9. (Core /\ At /\ CallsOK)'
  BY <1>6, <1>8
<1>10. FdsInv' <=> (Core /\ At /\ CallsOK)'
  BY InvCore, PTL
<1> QED
  BY <1>9, <1>10

\* The entry that an open descriptor refers to
LEMMA OpenEntry ==
  ASSUME FdsInv, NEW t \in Task, NEW j \in Fd, fds[t][j] # None
  PROVE  /\ fds[t][j] \in Gfd /\ gfds[fds[t][j]].in_use
         /\ gfds[fds[t][j]].type \in {"read", "write"} => gfds[fds[t][j]].pipe_id \in Pipe
         /\ gfds[fds[t][j]].type \in {"master", "slave"} => gfds[fds[t][j]].pipe_id \in Pty
<1>1. Core
  BY InvCore
<1>2. PICK g \in Gfd : g = fds[t][j]
  BY <1>1 DEF Core
<1>3. gfds[g].in_use /\ Kind(gfds[g])
  BY <1>1, <1>2, FdHeld DEF Core, Exact, Kinds
<1> QED
  BY <1>2, <1>3 DEF Kind

\* The lesser of two numbers.
LEMMA LeastIs ==
  ASSUME NEW m \in Nat, NEW n \in Nat
  PROVE  Least(m, n) \in Nat /\ Least(m, n) <= m /\ Least(m, n) <= n
BY DEF Least

\* A read of a pipe takes bytes, or waits on the read end it holds.
LEMMA PipeReadInv ==
  ASSUME FdsInv, NEW t \in Task, NEW j \in Fd, NEW n \in Nat, fds[t][j] # None,
         gfds[fds[t][j]].type = "read", PipeRead(t, j, n)
  PROVE  FdsInv'
<1> DEFINE p == gfds[fds[t][j]].pipe_id
           k == Least(n, pipes[p].bytes)
           b == pipes[p].bytes - k
           c == "read"
<1>1. Core
  BY InvCore
<1>2. p \in Pipe /\ pipes[p] \in PipeOK
  BY <1>1, OpenEntry DEF Core
<1>3. /\ pipes' = [pipes EXCEPT ![p].bytes = b]
      /\ at' = [at EXCEPT ![t] = In("run")] \/ at' = [at EXCEPT ![t] = Waiting(c, j, n - k)]
      /\ gfds' = gfds /\ ptys' = ptys /\ fds' = fds
  BY DEF PipeRead
<1>4. k \in Nat /\ n - k \in Nat /\ b \in 0 .. PIPE_BUF_SIZE - 1
  <2>1. pipes[p].bytes \in 0 .. PIPE_BUF_SIZE - 1 /\ PIPE_BUF_SIZE \in Nat
    BY <1>2, PipeFields, FdsAssumption
  <2>3. pipes[p].bytes \in Nat
    BY <2>1
  <2>2. k \in Nat /\ k <= n /\ k <= pipes[p].bytes
    BY <2>3, LeastIs
  <2> HIDE DEF k, p
  <2> QED
    BY <2>1, <2>2
<1> HIDE DEF b, k, p
<1>5. Core'
  BY <1>1, <1>2, <1>3, <1>4, Poured
<1>6. c \in {"read", "write"} /\ gfds[fds[t][j]].type = c
  OBVIOUS
<1> HIDE DEF c
<1> QED
  BY <1>3, <1>4, <1>5, <1>6, Waited

\* A write to a pipe adds bytes, or waits on the write end it holds.
LEMMA PipeWriteInv ==
  ASSUME FdsInv, NEW t \in Task, NEW j \in Fd, NEW n \in Nat, fds[t][j] # None,
         gfds[fds[t][j]].type = "write", PipeWrite(t, j, n)
  PROVE  FdsInv'
<1> DEFINE p == gfds[fds[t][j]].pipe_id
           k == Least(n, PIPE_BUF_SIZE - 1 - pipes[p].bytes)
           b == pipes[p].bytes + k
           c == "write"
<1>1. Core
  BY InvCore
<1>2. p \in Pipe /\ pipes[p] \in PipeOK
  BY <1>1, OpenEntry DEF Core
<1>3. /\ pipes' = [pipes EXCEPT ![p].bytes = b]
      /\ at' = [at EXCEPT ![t] = In("run")] \/ at' = [at EXCEPT ![t] = Waiting(c, j, n - k)]
      /\ gfds' = gfds /\ ptys' = ptys /\ fds' = fds
  BY DEF PipeWrite
<1>4. k \in Nat /\ n - k \in Nat /\ b \in 0 .. PIPE_BUF_SIZE - 1
  <2>1. pipes[p].bytes \in 0 .. PIPE_BUF_SIZE - 1 /\ PIPE_BUF_SIZE \in Nat
    BY <1>2, PipeFields, FdsAssumption
  <2>2. PIPE_BUF_SIZE - 1 - pipes[p].bytes \in Nat
    BY <2>1
  <2>3. k \in Nat /\ k <= n /\ k <= PIPE_BUF_SIZE - 1 - pipes[p].bytes
    BY <2>2, LeastIs
  <2> HIDE DEF k, p
  <2> QED
    BY <2>1, <2>3
<1> HIDE DEF b, k, p
<1>5. Core'
  BY <1>1, <1>2, <1>3, <1>4, Poured
<1>6. c \in {"read", "write"} /\ gfds[fds[t][j]].type = c
  OBVIOUS
<1> HIDE DEF c
<1> QED
  BY <1>3, <1>4, <1>5, <1>6, Waited

\* A read or a write of a terminal moves bytes in one of its two rings.
LEMMA PtyMoveInv ==
  ASSUME FdsInv, NEW t \in Task, NEW j \in Fd, NEW n \in Nat, NEW reads \in BOOLEAN, Runs(t),
         fds[t][j] # None, gfds[fds[t][j]].type \in {"master", "slave"}, PtyMove(t, j, n, reads)
  PROVE  FdsInv'
<1> DEFINE g == gfds[fds[t][j]]
           p == g.pipe_id
           q == ptys[p]
           m2s == (g.type = "master") # reads
           full == IF m2s THEN q.m2s ELSE q.s2m
           after == IF reads THEN full - Least(n, full)
                    ELSE full + Least(n, PTY_BUF_SIZE - 1 - full)
           R == 0 .. PTY_BUF_SIZE - 1
           a == [q EXCEPT !.m2s = after]
           b == [q EXCEPT !.s2m = after]
<1>1. Core
  BY InvCore
<1>2. p \in Pty /\ q \in PtyOK
  BY <1>1, OpenEntry DEF Core
<1>3. /\ ptys' = [ptys EXCEPT ![p] = a] \/ ptys' = [ptys EXCEPT ![p] = b]
      /\ gfds' = gfds /\ pipes' = pipes /\ fds' = fds /\ at' = at
  <2>1. /\ ptys' = [ptys EXCEPT ![p] = IF m2s THEN [@ EXCEPT !.m2s = after]
                                       ELSE [@ EXCEPT !.s2m = after]]
        /\ gfds' = gfds /\ pipes' = pipes /\ fds' = fds /\ at' = at
    BY DEF PtyMove
  <2> HIDE DEF after, m2s, p
  <2> QED
    BY <2>1
<1>4. after \in R
  <2>1. full \in R
    BY <1>2, PtyFields
  <2> HIDE DEF full
  <2>2. full \in Nat /\ PTY_BUF_SIZE - 1 - full \in Nat
    BY <2>1, FdsAssumption
  <2>3. Least(n, full) \in Nat /\ Least(n, full) <= full
    BY <2>2, LeastIs
  <2>4. /\ Least(n, PTY_BUF_SIZE - 1 - full) \in Nat
        /\ Least(n, PTY_BUF_SIZE - 1 - full) <= PTY_BUF_SIZE - 1 - full
    BY <2>2, LeastIs
  <2> DEFINE x == Least(n, full)
             y == Least(n, PTY_BUF_SIZE - 1 - full)
  <2> HIDE DEF x, y
  <2>5. x \in Nat /\ x <= full /\ y \in Nat /\ y <= PTY_BUF_SIZE - 1 - full
    BY <2>3, <2>4 DEF x, y
  <2>6. full - x \in R /\ full + y \in R
    BY <2>1, <2>2, <2>5, FdsAssumption
  <2> QED
    BY <2>6 DEF x, y
<1> HIDE DEF after
<1>5. /\ a \in PtyOK /\ a.slave_count = q.slave_count /\ a.master = q.master /\ a.in_use = q.in_use
      /\ b \in PtyOK /\ b.slave_count = q.slave_count /\ b.master = q.master /\ b.in_use = q.in_use
  BY <1>2, <1>4, PtyFields
<1>6. ASSUME NEW u \in Pty
      PROVE  /\ ptys'[u] \in PtyOK /\ ptys'[u].in_use = ptys[u].in_use
             /\ ptys'[u].master = ptys[u].master /\ ptys'[u].slave_count = ptys[u].slave_count
  <2>1. ptys[u] \in PtyOK
    BY <1>1 DEF Core
  <2>2. CASE u = p
    <3>1. ptys'[u] = a \/ ptys'[u] = b
      BY <1>1, <1>3, <2>2 DEF Core
    <3> HIDE DEF a, b
    <3> QED
      BY <1>5, <2>2, <3>1
  <2>3. CASE u # p
    <3>1. ptys'[u] = ptys[u]
      BY <1>1, <1>3, <2>3 DEF Core
    <3> QED
      BY <2>1, <3>1
  <2> QED
    BY <2>2, <2>3
<1>7. ptys' \in [Pty -> PtyOK]
  BY <1>1, <1>3, <1>6 DEF Core
<1>8. Core'
  BY <1>1, <1>3, <1>6, <1>7, Flows DEF Core
<1>9. \E table : fds' = [fds EXCEPT ![t] = table]
  <2>1. fds' = [fds EXCEPT ![t] = fds[t]]
    BY <1>1, <1>3 DEF Core
  <2> QED
    BY <2>1
<1> QED
  BY <1>3, <1>8, <1>9, CallReturns

-----------------------------------------------------------------------------
(* Every call, and the results *)

\* Every call keeps the invariant.
LEMMA FdsStep ==
  ASSUME FdsInv, [FdsNext]_fdsVars
  PROVE  FdsInv'
<1>1. CASE UNCHANGED fdsVars
  <2>1. FdsTypeOK' /\ Kinds' /\ CallsOK'
    BY <1>1 DEF fdsVars, FdsInv, FdsTypeOK, Kinds, Kind, CallsOK, In, NoFds
  <2>2. \A g \in Gfd : Counts(g)' <=> Counts(g)
    BY <1>1 DEF fdsVars, Counts, Holders
  <2>3. \A type, p : Ends(type, p)' = Ends(type, p)
    BY <1>1 DEF fdsVars, Ends
  <2>4. AllEnds'
    BY <1>1, <2>3 DEF fdsVars, FdsInv, AllEnds
  <2> QED
    BY <2>1, <2>2, <2>4 DEF FdsInv, Exact
<1>2. ASSUME NEW t \in Task, SystemCall(t) \/ ResumeRead(t) \/ ResumeWrite(t) \/ FdsExit(t)
      PROVE  FdsInv'
  <2>1. CASE do_sys_open(t)
    BY <2>1, OpenInv
  <2>2. CASE do_sys_pipe(t)
    BY <2>2, PipeInv
  <2>3. CASE do_sys_pty_alloc(t)
    BY <2>3, PtyAllocInv
  <2>4. CASE FdsFork(t) \/ \E i, o \in Fd \cup {None} : task_fork_exec(t, i, o)
    <3>1. CASE FdsFork(t)
      BY <3>1, ForkInv
    <3>2. ASSUME NEW i \in Fd \cup {None}, NEW o \in Fd \cup {None}, task_fork_exec(t, i, o)
          PROVE  FdsInv'
      BY <3>2, ForkInv
    <3> QED
      BY <2>4, <3>1, <3>2
  <2>5. ASSUME NEW j \in Fd,
               \/ do_sys_close(t, j) \/ do_sys_pty_open(t, j)
               \/ \E k \in Fd : do_sys_dup2(t, j, k)
        PROVE  FdsInv'
    BY <2>5, CloseInv, PtyOpenInv, Dup2Inv
  <2>6. ASSUME NEW j \in Fd, NEW n \in Size, do_sys_read(t, j, n) \/ do_sys_write(t, j, n)
        PROVE  FdsInv'
    <3>1. n \in Nat /\ TRUE \in BOOLEAN /\ FALSE \in BOOLEAN
      BY FdsAssumption
    <3>2. CASE do_sys_read(t, j, n)
      <4>1. CASE gfds[fds[t][j]].type = "read" /\ PipeRead(t, j, n)
        BY <3>1, <3>2, <4>1, PipeReadInv DEF do_sys_read
      <4>2. CASE gfds[fds[t][j]].type \in {"master", "slave"} /\ PtyMove(t, j, n, TRUE)
        BY <3>1, <3>2, <4>2, PtyMoveInv DEF do_sys_read
      <4> QED
        BY <3>2, <4>1, <4>2 DEF do_sys_read
    <3>3. CASE do_sys_write(t, j, n)
      <4>1. CASE gfds[fds[t][j]].type = "write" /\ PipeWrite(t, j, n)
        BY <3>1, <3>3, <4>1, PipeWriteInv DEF do_sys_write
      <4>2. CASE gfds[fds[t][j]].type \in {"master", "slave"} /\ PtyMove(t, j, n, FALSE)
        BY <3>1, <3>3, <4>2, PtyMoveInv DEF do_sys_write
      <4> QED
        BY <3>3, <4>1, <4>2 DEF do_sys_write
    <3> QED
      BY <2>6, <3>2, <3>3
  <2>7. at[t].left \in Nat
    BY InvCore DEF At
  <2>8. CASE ResumeRead(t)
    <3>1. /\ at[t].fd \in Fd /\ fds[t][at[t].fd] # None
          /\ gfds[fds[t][at[t].fd]].type = "read"
      BY <2>8, InvCore DEF ResumeRead, CallsOK
    <3> QED
      BY <2>7, <2>8, <3>1, PipeReadInv DEF ResumeRead
  <2>9. CASE ResumeWrite(t)
    <3>1. /\ at[t].fd \in Fd /\ fds[t][at[t].fd] # None
          /\ gfds[fds[t][at[t].fd]].type = "write"
      BY <2>9, InvCore DEF ResumeWrite, CallsOK
    <3> QED
      BY <2>7, <2>9, <3>1, PipeWriteInv DEF ResumeWrite
  <2>10. CASE FdsExit(t)
    BY <2>10, ExitInv
  <2> QED
    BY <1>2, <2>1, <2>2, <2>3, <2>4, <2>5, <2>6, <2>8, <2>9, <2>10 DEF SystemCall
<1> QED
  BY <1>1, <1>2 DEF FdsNext

\* Nothing is open at boot.
LEMMA FdsStart == FdsInit => FdsInv
<1> SUFFICES ASSUME FdsInit PROVE FdsInv
  OBVIOUS
<1>1. /\ gfds = [g \in Gfd |-> NoEntry] /\ pipes = [p \in Pipe |-> NoPipe]
      /\ ptys = [p \in Pty |-> NoPty] /\ fds = [t \in Task |-> NoFds]
      /\ at = [t \in Task |-> In(IF t = Shell THEN "run" ELSE "free")]
  BY DEF FdsInit
<1>2. \A g \in Gfd : gfds[g] = NoEntry
  BY <1>1
<1>3. \A type, p : Ends(type, p) = {}
  BY <1>2, FreeEntry DEF Ends
<1>4. \A g \in Gfd : Counts(g)
  <2>1. \A g \in Gfd : Holders(g) = {}
    BY <1>1, Numbers DEF Holders, NoFds
  <2> QED
    BY <1>2, <2>1, FreeEntry, FS_EmptySet DEF Counts
<1>5. Kinds
  BY <1>2, FreeEntry DEF Kinds, Kind
<1>6. AllEnds
  <2>1. \A p \in Pipe : PipeEnds(NoPipe, {}, {})
    BY FreePipe DEF PipeEnds, Unique
  <2>2. \A p \in Pty : PtyEnds(NoPty, {}, {})
    BY FreePty, FS_EmptySet DEF PtyEnds, Unique
  <2> QED
    BY <1>1, <1>3, <2>1, <2>2 DEF AllEnds
<1>7. fds \in [Task -> [Fd -> Gfd \cup {None}]]
  BY <1>1 DEF NoFds
<1>8. Core
  BY <1>1, <1>2, <1>4, <1>5, <1>6, <1>7, FreeEntry, FreePipe, FreePty DEF Core, Exact
<1>9. At /\ CallsOK
  BY <1>1 DEF At, CallsOK, In, NoFds
<1> QED
  BY <1>8, <1>9, InvCore

\* The invariant, by induction on the steps.
LEMMA FdsInvariance == FdsSpec => []FdsInv
<1>1. FdsInit => FdsInv
  BY FdsStart
<1>2. FdsInv /\ [FdsNext]_fdsVars => FdsInv'
  BY FdsStep
<1> QED
  BY <1>1, <1>2, PTL DEF FdsSpec

\* Every entry, ring and counter of the tables keeps its type: whatever closes and
\* copies do, no count goes below zero and no ring holds more than its array.
THEOREM FdsTypes == FdsSpec => []FdsTypeOK
<1>1. FdsInv => FdsTypeOK
  BY DEF FdsInv
<1> QED
  BY <1>1, FdsInvariance, PTL

\* Over open, pipe, dup2, fork, rewired children, close and kills, an entry counts
\* what refers to it, and nothing refers to a free one.
THEOREM CountsExact == FdsSpec => []RefsExact
<1>1. FdsInv => RefsExact
  <2> SUFFICES ASSUME FdsInv, NEW g \in Gfd
               PROVE  IF gfds[g].in_use
                      THEN gfds[g].ref_count = Cardinality(Holders(g)) /\ Holders(g) # {}
                      ELSE Holders(g) = {}
    BY DEF RefsExact
  <2>1. Counts(g)
    BY DEF FdsInv, Exact
  <2>2. gfds[g].in_use <=> Holders(g) # {}
    BY <2>1, FdHeld
  <2> QED
    BY <2>1, <2>2 DEF Counts
<1> QED
  BY <1>1, FdsInvariance, PTL

\* A pipe or a terminal is in use exactly while one of its ends is open, and a
\* pipe is at its end of file exactly when no write end is.
THEOREM EndsCounted == FdsSpec => []EndsExact
<1>1. FdsInv => EndsExact
  <2> SUFFICES ASSUME FdsInv PROVE EndsExact
    OBVIOUS
  <2>1. AllEnds
    BY DEF FdsInv
  <2>2. ASSUME NEW S \in SUBSET Gfd, Unique(S)
        PROVE  Cardinality(S) <= 1
    <3>1. CASE S = {}
      BY <3>1, FS_EmptySet
    <3>2. CASE S # {}
      <4>1. PICK x : S = {x}
        BY <2>2, <3>2 DEF Unique
      <4>2. Cardinality({x}) = 1
        BY FS_Singleton
      <4> QED
        BY <4>1, <4>2
    <3> QED
      BY <3>1, <3>2
  <2>3. \A type, p : Ends(type, p) \in SUBSET Gfd
    BY DEF Ends
  <2>4. ASSUME NEW p \in Pipe
        PROVE  Cardinality(Ends("read", p)) <= 1 /\ Cardinality(Ends("write", p)) <= 1
    BY <2>1, <2>2, <2>3 DEF AllEnds, PipeEnds
  <2> QED
    BY <2>1, <2>4 DEF AllEnds, PipeEnds, PtyEnds, EndsExact
<1> QED
  BY <1>1, FdsInvariance, PTL
=============================================================================
