-------------------------------- MODULE Shm --------------------------------
(***************************************************************************)
(* The shared memory segments of src/sys/shm.c, with what fork, exec,      *)
(* threads and exits of src/sys/task.c do to attachments, on one core.     *)
(*                                                                         *)
(* Every section under shm_lock runs with interrupts off and is one step.  *)
(* A segment has one frame.  A task's attachments are the bits shm_bits;   *)
(* its mappings belong to its address space, which threads share.          *)
(***************************************************************************)
EXTENDS Tables, FiniteSets

CONSTANTS Proc,   \* task slots, and as many address spaces
          Main,   \* the task that is there from the start
          Seg,    \* slots of segments[]
          ShmKey, \* keys programs pass to shm_get
          Frame,  \* physical frames for segments
          PINNED  \* FRAME_PINNED, where frame_ref_count stops

ASSUME ShmAssumption ==
  /\ Main \in Proc /\ Proc \subseteq Nat /\ Seg \subseteq Nat /\ Frame \subseteq Nat
  /\ PINNED \in Nat \ {0} /\ IsFiniteSet(Proc)

VARIABLES
  segs,      \* segments[s]: key, frame, destroyed, attach_count
  refs,      \* frame_ref_count[f]
  space,     \* space[t]: tasks[t].page_dir, None for a free slot
  maps,      \* maps[d][s]: the frame mapped at the address of s in space d
  bits,      \* tasks[t].shm_bits
  inherited  \* history: a task with attachments has forked

shmVars == <<segs, refs, space, maps, bits, inherited>>

Live(t)  == space[t] # None
NoMaps   == [s \in Seg |-> None]
FreeSeg  == [key |-> None, frame |-> None, destroyed |-> FALSE, attach_count |-> 0]
Exists(s) == segs[s].key # None
Unused   == {d \in Proc : \A t \in Proc : space[t] # d}
Slots    == {t \in Proc : ~Live(t)}

\* One mapping more of each frame in fs.  At PINNED the count stays, and the frame
\* is never free again.
Mapped(r, fs) == [f \in Frame |-> IF f \in fs /\ r[f] < PINNED THEN r[f] + 1 ELSE r[f]]

\* frame_free of each frame in fs
Freed(r, fs) == [f \in Frame |-> IF f \in fs /\ r[f] \in 1 .. PINNED - 1 THEN r[f] - 1 ELSE r[f]]

-----------------------------------------------------------------------------
shm_get(t, k) ==
  /\ Live(t) /\ \A s \in Seg : segs[s].key # k
  /\ LET free == {f \in Frame : refs[f] = 0}
     IN  /\ free # {} /\ \E s \in Seg : ~Exists(s)
         /\ segs' = [segs EXCEPT ![First({s \in Seg : ~Exists(s)})] =
                       [FreeSeg EXCEPT !.key = k, !.frame = First(free)]]
         /\ refs' = [refs EXCEPT ![First(free)] = 1]
  /\ UNCHANGED <<space, maps, bits, inherited>>

\* Broken, as before Batch A: a second attach counts again.
shm_at_Again(t, s) ==
  /\ Live(t) /\ Exists(s)
  /\ maps' = [maps EXCEPT ![space[t]][s] = segs[s].frame]
  /\ refs' = Mapped(refs, {segs[s].frame})
  /\ segs' = [segs EXCEPT ![s].attach_count = @ + 1]
  /\ bits' = [bits EXCEPT ![t] = @ \cup {s}]
  /\ UNCHANGED <<space, inherited>>

\* A second attach of the same task returns the address and changes nothing.
shm_at(t, s) ==
  /\ Live(t) /\ Exists(s) /\ s \notin bits[t]
  /\ maps' = [maps EXCEPT ![space[t]][s] = segs[s].frame]
  /\ refs' = Mapped(refs, {segs[s].frame})
  /\ segs' = [segs EXCEPT ![s].attach_count = @ + 1]
  /\ bits' = [bits EXCEPT ![t] = @ \cup {s}]
  /\ UNCHANGED <<space, inherited>>

\* One attachment less; the last one of a destroyed segment takes it along.
Detached(g) == LET n == IF g.attach_count > 0 THEN g.attach_count - 1 ELSE 0
               IN  IF g.destroyed /\ n = 0 THEN FreeSeg ELSE [g EXCEPT !.attach_count = n]

\* Frames of the segments in ss that one attachment less frees
Reclaimed(ss) == {segs[s].frame : s \in {s \in ss : Exists(s) /\ Detached(segs[s]) = FreeSeg}}

\* Broken: any task may detach a segment it never attached.
shm_dt_Foreign(t, s) ==
  /\ Live(t) /\ Exists(s)
  /\ maps' = [maps EXCEPT ![space[t]][s] = None]
  /\ refs' = Freed(Freed(refs, IF maps[space[t]][s] # None THEN {segs[s].frame} ELSE {}),
                   Reclaimed({s}))
  /\ segs' = [segs EXCEPT ![s] = Detached(@)]
  /\ bits' = [bits EXCEPT ![t] = @ \ {s}]
  /\ UNCHANGED <<space, inherited>>

\* The mapping goes with one reference to the segment's frame, whatever was mapped.
shm_dt(t, s) ==
  /\ Live(t) /\ Exists(s) /\ s \in bits[t]
  /\ maps' = [maps EXCEPT ![space[t]][s] = None]
  /\ refs' = Freed(Freed(refs, IF maps[space[t]][s] # None THEN {segs[s].frame} ELSE {}),
                   Reclaimed({s}))
  /\ segs' = [segs EXCEPT ![s] = Detached(@)]
  /\ bits' = [bits EXCEPT ![t] = @ \ {s}]
  /\ UNCHANGED <<space, inherited>>

\* shm_ctl(IPC_RMID)
shm_ctl(t, s) ==
  /\ Live(t) /\ Exists(s)
  /\ LET now == segs[s].attach_count = 0
     IN  /\ segs' = [segs EXCEPT ![s] = IF now THEN FreeSeg ELSE [@ EXCEPT !.destroyed = TRUE]]
         /\ refs' = Freed(refs, IF now THEN {segs[s].frame} ELSE {})
  /\ UNCHANGED <<space, maps, bits, inherited>>

-----------------------------------------------------------------------------
\* vmm_free_address_space: the space d loses its mappings, and they their references
SpaceFreed(d, r) == Freed(r, {maps[d][s] : s \in Seg} \ {None})
Alone(t) == \A u \in Proc \ {t} : space[u] # space[t]

\* task_cleanup of an exit or a kill: shm_task_exit, then the space of the last sharer
ShmExit(t) ==
  /\ Live(t) /\ t # Main
  /\ segs' = [s \in Seg |-> IF s \in bits[t] /\ Exists(s) THEN Detached(segs[s]) ELSE segs[s]]
  /\ LET r == Freed(refs, Reclaimed(bits[t]))
     IN  refs' = IF Alone(t) THEN SpaceFreed(space[t], r) ELSE r
  /\ maps' = IF Alone(t) THEN [maps EXCEPT ![space[t]] = NoMaps] ELSE maps
  /\ bits' = [bits EXCEPT ![t] = {}]
  /\ space' = [space EXCEPT ![t] = None]
  /\ UNCHANGED inherited

\* vmm_clone_address_space keeps shared pages and counts them; shm_bits are copied,
\* attach_count is not raised.
task_fork(t) ==
  /\ Live(t) /\ Slots # {}
  /\ LET u == First(Slots)
         d == First(Unused)
     IN  /\ space' = [space EXCEPT ![u] = d]
         /\ maps' = [maps EXCEPT ![d] = maps[space[t]]]
         /\ bits' = [bits EXCEPT ![u] = bits[t]]
  /\ refs' = Mapped(refs, {maps[space[t]][s] : s \in Seg})
  /\ inherited' = (inherited \/ bits[t] # {})
  /\ UNCHANGED segs

\* thread_create_ex
thread_create(t) ==
  /\ Live(t) /\ Slots # {}
  /\ space' = [space EXCEPT ![First(Slots)] = space[t]]
  /\ bits' = [bits EXCEPT ![First(Slots)] = {}]
  /\ UNCHANGED <<segs, refs, maps, inherited>>

\* task_exec gives the task a new space and leaves shm_bits as they are.
task_exec(t) ==
  /\ Live(t)
  /\ LET d == First(Unused \cup (IF Alone(t) THEN {space[t]} ELSE {}))
     IN  /\ refs' = IF Alone(t) THEN SpaceFreed(space[t], refs) ELSE refs
         /\ maps' = IF Alone(t) THEN [maps EXCEPT ![space[t]] = NoMaps] ELSE maps
         /\ space' = [space EXCEPT ![t] = d]
  /\ UNCHANGED <<segs, bits, inherited>>

-----------------------------------------------------------------------------
ShmInit ==
  /\ segs = [s \in Seg |-> FreeSeg]
  /\ refs = [f \in Frame |-> 0]
  /\ space = [t \in Proc |-> IF t = Main THEN Main ELSE None]
  /\ maps = [d \in Proc |-> NoMaps]
  /\ bits = [t \in Proc |-> {}]
  /\ inherited = FALSE

ShmNext ==
  \E t \in Proc :
    \/ \E k \in ShmKey : shm_get(t, k)
    \/ \E s \in Seg : shm_at(t, s) \/ shm_dt(t, s) \/ shm_ctl(t, s)
    \/ task_fork(t) \/ thread_create(t) \/ task_exec(t) \/ ShmExit(t)

ShmSpec == ShmInit /\ [][ShmNext]_shmVars

-----------------------------------------------------------------------------
(* No more attachments are counted than there are tasks.                      *)
ShmTypeOK ==
  /\ segs \in [Seg -> [key : ShmKey \cup {None}, frame : Frame \cup {None}, destroyed : BOOLEAN,
                       attach_count : 0 .. Cardinality(Proc)]]
  /\ refs \in [Frame -> 0 .. PINNED]
  /\ space \in [Proc -> Proc \cup {None}]
  /\ maps \in [Proc -> [Seg -> Frame \cup {None}]]
  /\ bits \in [Proc -> SUBSET Seg] /\ inherited \in BOOLEAN

(* A segment marked destroyed is gone once no task has it attached any more,  *)
(* by detach or by death, through forks, threads and execs: destroyed slots   *)
(* are not used up (the double attach of Batch A, and shm_task_exit).         *)
SegmentReclaimed ==
  \A s \in Seg : Exists(s) /\ segs[s].destroyed => \E t \in Proc : Live(t) /\ s \in bits[t]

(* While no task with attachments forks, a frame somebody has mapped is not   *)
(* free, and is not the frame of another segment; nor is that of a segment.   *)
FramesApart ==
  ~inherited =>
    /\ \A s \in Seg : Exists(s) => refs[segs[s].frame] > 0
    /\ \A d \in Proc, s \in Seg : maps[d][s] # None =>
         /\ refs[maps[d][s]] > 0
         /\ \A q \in Seg : Exists(q) /\ segs[q].frame = maps[d][s] => q = s
    /\ \A s, q \in Seg : Exists(s) /\ Exists(q) /\ segs[s].frame = segs[q].frame => s = q
=============================================================================
