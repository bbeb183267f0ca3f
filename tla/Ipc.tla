-------------------------------- MODULE Ipc --------------------------------
(***************************************************************************)
(* The message queues of src/sys/ipc.c.                                    *)
(*                                                                         *)
(* A section under ipc_lock is one step.  A caller that cannot go on notes *)
(* itself in the queue's one waiting slot, drops the lock and sleeps for a *)
(* tick (task_sleep(1)); the caller that makes room or brings a message    *)
(* takes the slot under the lock and calls task_wake after dropping it.    *)
(* Tasks may be killed between two sections, and a slot of the task table  *)
(* is then given to a new task under the same number; ipc.c is not told.   *)
(***************************************************************************)
EXTENDS Tables, Sequences

CONSTANTS Sender,  \* those whose programs send
          Receiver,\* those whose programs receive
          Mortal,  \* those that may be killed
          Qid,     \* slots of queues[]
          Key,     \* keys programs pass to ipc_queue_create
          Type,    \* message types
          DEPTH    \* IPC_QUEUE_DEPTH

ASSUME IpcAssumption ==
  /\ DEPTH \in Nat \ {0}
  /\ Qid \subseteq Nat
  /\ Sender \cup Receiver \cup Mortal \subseteq Task
  /\ None \notin Key \cup Seq((Task \X Type) \cup {None})

VARIABLES
  queues,  \* queues[q]: key, ring and the two waiting slots
  call,    \* call[t]: where t stands in the kernel
  ret      \* ret[t]: what its last call returned to t

ipcVars == <<queues, call, ret>>

Msg  == Task \X Type          \* sender_tid and type
Ring == 0 .. DEPTH - 1
User == [at |-> "user", op |-> None, q |-> None, y |-> None, wake |-> None]
Dead == [User EXCEPT !.at = "dead"]

Made(q) == queues[q].key # None

\* The messages of q, oldest first.
Content(q) ==
  [i \in 1 .. queues[q].count |-> queues[q].messages[(queues[q].tail + i - 1) % DEPTH]]

-----------------------------------------------------------------------------
(* The sections under ipc_lock.  r is queues[q] before, the value after.     *)

\* Broken: the slot after the head is written.
queue_push_Ahead(r, m) ==
  [r EXCEPT !.messages[(r.head + 1) % DEPTH] = m, !.head = (@ + 1) % DEPTH, !.count = @ + 1]

queue_push(r, m) ==
  [r EXCEPT !.messages[r.head] = m, !.head = (@ + 1) % DEPTH, !.count = @ + 1]

\* Broken: the tail runs out of the ring.
queue_pop_NoWrap(r) == [r EXCEPT !.tail = @ + 1, !.count = @ - 1]

queue_pop(r) == [r EXCEPT !.tail = (@ + 1) % DEPTH, !.count = @ - 1]

\* A new or destroyed queue: destroying leaves head and tail alone.
Emptied(r) == [r EXCEPT !.count = 0, !.waiting_send = None, !.waiting_recv = None]

\* The first free slot; a key that exists already creates nothing.
ipc_queue_create(k) ==
  /\ \A q \in Qid : queues[q].key # k
  /\ \E q \in Qid :
       /\ ~Made(q) /\ \A p \in Qid : p < q => Made(p)
       /\ queues' = [queues EXCEPT ![q] = [Emptied(queues[q]) EXCEPT !.key = k, !.head = 0,
                                                                     !.tail = 0]]
  /\ UNCHANGED <<call, ret>>

ipc_queue_destroy(q) ==
  /\ Made(q)
  /\ queues' = [queues EXCEPT ![q] = [Emptied(queues[q]) EXCEPT !.key = None]]
  /\ UNCHANGED <<call, ret>>

\* What a call returns: 0 or -1, and the message of a receive.
Result(rc, m) == [rc |-> rc, msg |-> m]
NoResult == Result(None, None)

Returns(t, v) == /\ call' = [call EXCEPT ![t] = User]
                /\ ret' = [ret EXCEPT ![t] = v]

\* The call has its effect; its task_wake of w, if there is one, is still to come.
ReturnWaking(t, v, w) ==
  /\ call' = [call EXCEPT ![t] = IF w = None THEN User
                                 ELSE [User EXCEPT !.at = "waking", !.wake = w]]
  /\ ret' = [ret EXCEPT ![t] = v]

\* The caller sleeps for a tick and then tries again.
Park(t, op, q, y) ==
  /\ call' = [call EXCEPT ![t] = [User EXCEPT !.at = "asleep", !.op = op, !.q = q, !.y = y]]
  /\ ret' = [ret EXCEPT ![t] = NoResult]

\* Broken: the waiting slot keeps the receiver that is woken.
Sent_Keeps(t, q, y) ==
  /\ Made(q) /\ queues[q].count < DEPTH
  /\ queues' = [queues EXCEPT ![q] = queue_push(queues[q], <<t, y>>)]
  /\ ReturnWaking(t, Result(0, None), queues[q].waiting_recv)

\* ipc_send and ipc_try_send with room in the queue
Sent(t, q, y) ==
  /\ Made(q) /\ queues[q].count < DEPTH
  /\ queues' = [queues EXCEPT ![q] = [queue_push(queues[q], <<t, y>>)
                                        EXCEPT !.waiting_recv = None]]
  /\ ReturnWaking(t, Result(0, None), queues[q].waiting_recv)

\* ipc_receive and ipc_try_receive with a message to take
Received(t, q) ==
  /\ Made(q) /\ queues[q].count > 0
  /\ queues' = [queues EXCEPT ![q] = [queue_pop(queues[q]) EXCEPT !.waiting_send = None]]
  /\ ReturnWaking(t, Result(0, queues[q].messages[queues[q].tail]), queues[q].waiting_send)

SendParks(t, q, y) ==
  /\ Made(q) /\ queues[q].count >= DEPTH
  /\ queues' = [queues EXCEPT ![q].waiting_send = t]
  /\ Park(t, "send", q, y)

ReceiveParks(t, q) ==
  /\ Made(q) /\ queues[q].count <= 0
  /\ queues' = [queues EXCEPT ![q].waiting_recv = t]
  /\ Park(t, "receive", q, None)

\* No such queue (any more): -1.
NoQueue(t, q) == ~Made(q) /\ Returns(t, Result(-1, None)) /\ UNCHANGED queues

ipc_send(t, q, y) == Sent(t, q, y) \/ SendParks(t, q, y) \/ NoQueue(t, q)
ipc_receive(t, q) == Received(t, q) \/ ReceiveParks(t, q) \/ NoQueue(t, q)

ipc_try_send(t, q, y) ==
  \/ Sent(t, q, y)
  \/ (~Made(q) \/ queues[q].count >= DEPTH) /\ Returns(t, Result(-1, None)) /\ UNCHANGED queues
ipc_try_receive(t, q) ==
  \/ Received(t, q)
  \/ (~Made(q) \/ queues[q].count <= 0) /\ Returns(t, Result(-1, None)) /\ UNCHANGED queues

IpcCall(t, q) ==
  /\ call[t].at = "user"
  /\ \/ t \in Receiver /\ (ipc_receive(t, q) \/ ipc_try_receive(t, q))
     \/ t \in Sender /\ \E y \in Type : ipc_send(t, q, y) \/ ipc_try_send(t, q, y)

\* The loop of a blocking call, after its sleep
Retry(t) ==
  /\ call[t].at = "awake"
  /\ \/ call[t].op = "send" /\ ipc_send(t, call[t].q, call[t].y)
     \/ call[t].op = "receive" /\ ipc_receive(t, call[t].q)

\* Broken: the caller blocks, until somebody wakes it.
SleepEnds_Never(t) == FALSE /\ UNCHANGED ipcVars

\* task_sleep(1) ends with the tick
SleepEnds(t) ==
  /\ call[t].at = "asleep"
  /\ call' = [call EXCEPT ![t].at = "awake"]
  /\ UNCHANGED <<queues, ret>>

\* task_wake of the tid read under the lock, whoever bears it by now
Wake(t) ==
  /\ call[t].at = "waking"
  /\ LET w == call[t].wake
     IN  call' = [u \in Task |-> IF u = t THEN User
                                 ELSE IF u = w /\ call[u].at = "asleep"
                                      THEN [call[u] EXCEPT !.at = "awake"]
                                 ELSE call[u]]
  /\ UNCHANGED <<queues, ret>>

Kill(t)  == /\ t \in Mortal /\ call[t].at # "dead"
            /\ call' = [call EXCEPT ![t] = Dead]
            /\ UNCHANGED <<queues, ret>>
Reuse(t) == /\ call[t].at = "dead"
            /\ Returns(t, NoResult)
            /\ UNCHANGED queues

-----------------------------------------------------------------------------
IpcInit ==
  /\ queues = [q \in Qid |-> [key |-> None, head |-> 0, tail |-> 0, count |-> 0,
                              messages |-> [i \in Ring |-> None],
                              waiting_send |-> None, waiting_recv |-> None]]
  /\ call = [t \in Task |-> User]
  /\ ret = [t \in Task |-> NoResult]

IpcNext ==
  \/ \E k \in Key : ipc_queue_create(k)
  \/ \E q \in Qid : ipc_queue_destroy(q)
  \/ \E t \in Task : \/ \E q \in Qid : IpcCall(t, q)
                     \/ Retry(t) \/ SleepEnds(t) \/ Wake(t)
                     \/ Kill(t) \/ Reuse(t)

\* The timer ends every sleep, and the scheduler runs who is in the kernel.
IpcFairness == \A t \in Task : WF_ipcVars(SleepEnds(t) \/ Retry(t) \/ Wake(t))

IpcSpec == IpcInit /\ [][IpcNext]_ipcVars /\ IpcFairness

-----------------------------------------------------------------------------
(* Ring indices stay in the ring; a caller is in one of its sections or asleep.*)
IpcTypeOK ==
  /\ queues \in [Qid -> [key : Key \cup {None}, head : Ring, tail : Ring, count : 0 .. DEPTH,
                         messages : [Ring -> Msg \cup {None}],
                         waiting_send : Task \cup {None}, waiting_recv : Task \cup {None}]]
  /\ call \in [Task -> [at : {"user", "asleep", "awake", "waking", "dead"},
                        op : {None, "send", "receive"}, q : Qid \cup {None},
                        y : Type \cup {None}, wake : Task \cup {None}]]
  /\ ret \in [Task -> [rc : {0, -1, None}, msg : Msg \cup {None}]]

(* Only an empty queue has a receiver to wake, and only a full one a sender:  *)
(* whoever takes the slot in ipc_send or ipc_receive wakes a task that could  *)
(* not go on until this call, never one the slot has outlived its queue for.  *)
WaitersJustified ==
  \A q \in Qid : /\ queues[q].waiting_recv # None => Made(q) /\ queues[q].count = 0
                 /\ queues[q].waiting_send # None => Made(q) /\ queues[q].count = DEPTH

(* The ring, its indices and the calls that sleep between their tries promise *)
(* what an atomic bounded queue does: no message lost, doubled, reordered or  *)
(* delivered after the queue was destroyed, and no effect of a call that      *)
(* returns -1.                                                                *)
C == INSTANCE Channel WITH
       Depth <- DEPTH,
       chan <- [q \in Qid |-> IF Made(q) THEN Content(q) ELSE None]
ImplementsChannel == C!Spec

\* Somebody waits in ipc_send or ipc_receive on a queue that is ready or gone.
CouldGo(q, op) == \/ ~Made(q)
                  \/ op = "send" /\ queues[q].count < DEPTH
                  \/ op = "receive" /\ queues[q].count > 0
Stranded(q, op) ==
  CouldGo(q, op) /\ \E t \in Task : call[t].op = op /\ call[t].q = q

(* A second waiter overwrites the waiting slot of the first, which is then    *)
(* woken by nobody; still no queue stays ready, or gone, for ever while tasks *)
(* wait on it, because ipc_send and ipc_receive sleep only for a tick.        *)
NobodyStranded ==
  \A q \in Qid, op \in {"send", "receive"} : []<>~Stranded(q, op)
=============================================================================
