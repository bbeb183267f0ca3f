---------------------------- MODULE MemoryProofs ----------------------------
(***************************************************************************)
(* What address spaces own: the shared memory segments of src/sys/shm.c    *)
(* and the page directories of src/sys/task.c.                             *)
(*                                                                         *)
(* Of the segments, for any number of tasks, segments and frames: a        *)
(* destroyed segment goes with its last attachment, and as long as no task *)
(* with attachments forks, no frame is free or another segment's while     *)
(* somebody has it mapped.  The first needs the account of attachments: a  *)
(* segment counts no more than have it attached, and a destroyed one       *)
(* counts some.  For the second the count is exact, what an attached task  *)
(* has mapped is its segment's frame, and a frame counts its segment and   *)
(* every space that maps it.                                               *)
(*                                                                         *)
(* Of the page directories, for any number of cores, slots and directories *)
(* and any length of the deferred queue: each directory has owners of one  *)
(* kind, and a core walks none that is freed unless its task was killed    *)
(* while others shared it.  Neither property is inductive.  That a         *)
(* directory waits in the queue until its core has left it needs Walks,    *)
(* which says of every core where its CR3 comes from; that exec may free   *)
(* what nobody shared when it looked needs CoresOK, which says that this   *)
(* is still so.                                                            *)
(***************************************************************************)
EXTENDS Shm, PageDirs, Lemmas

-----------------------------------------------------------------------------
(* The shared memory segments                                                *)

Attachers(s) == {t \in Proc : Live(t) /\ s \in bits[t]}

\* What a slot of segments[] keeps to that n tasks have attached
SegSound(g, n) ==
  /\ g.key = None => g = FreeSeg
  /\ g.key # None => g.frame \in Frame
  /\ g.destroyed => g.attach_count > 0
  /\ g.attach_count <= n

Accounts == \A s \in Seg : SegSound(segs[s], Cardinality(Attachers(s)))

\* A space nobody has maps nothing.
Vacated == \A d \in Unused : maps[d] = NoMaps

\* Who is attached is counted, and maps the frame of the segment or nothing.
Attached ==
  /\ \A t \in Proc : ~Live(t) => bits[t] = {}
  /\ \A t \in Proc : \A s \in bits[t] :
       Exists(s) /\ maps[space[t]][s] \in {None, segs[s].frame}
  /\ \A s \in Seg : Exists(s) => segs[s].attach_count = Cardinality(Attachers(s))

\* A frame is one segment's, and mapped at the address of one.
Apart ==
  /\ \A s, q \in Seg : Exists(s) /\ Exists(q) /\ segs[s].frame = segs[q].frame => s = q
  /\ \A d \in Proc, s, q \in Seg :
       maps[d][s] # None /\ Exists(q) /\ segs[q].frame = maps[d][s] => q = s
  /\ \A d, e \in Proc, s, q \in Seg :
       maps[d][s] # None /\ maps[d][s] = maps[e][q] => s = q

\* Spaces that map a frame, and whether it is a segment's
Mappers(f) == {d \in Proc : \E s \in Seg : maps[d][s] = f}
FramesHeld(f) == \E s \in Seg : Exists(s) /\ segs[s].frame = f

\* n references to f are counted, or f is pinned.
Enough(r, f, n) == r[f] = PINNED \/ r[f] >= n

Referenced == \A f \in Frame : /\ Enough(refs, f, Cardinality(Mappers(f)))
                               /\ FramesHeld(f) => Enough(refs, f, Cardinality(Mappers(f)) + 1)

Tallied == ShmTypeOK /\ Accounts
Kept == Attached /\ Apart /\ Referenced
ShmInv == Tallied /\ Vacated /\ (~inherited => Kept)

-----------------------------------------------------------------------------
(* Slots and spaces *)

LEMMA NoneApart == None \notin Proc /\ None \notin Seg /\ None \notin Frame
<1>1. \A x \in Proc \cup Seg \cup Frame : x \in Int
  BY ShmAssumption
<1> QED
  BY <1>1, TablesAssumption

\* A scan finds a slot that fits, if there is one.
LEMMA FirstFits ==
  ASSUME NEW S \in SUBSET Nat, S # {}
  PROVE  First(S) \in S
BY LeastOf DEF First

\* Some space is unused if fewer tasks than there are spaces have one.
LEMMA SpaceLeft ==
  ASSUME NEW T \in SUBSET Proc, NEW x \in Proc, x \notin T,
         \A d \in Proc : d \in Unused \/ \E t \in T : space[t] = d
  PROVE  Unused # {}
<1>1. IsFiniteSet(Proc) /\ IsFiniteSet(T) /\ Cardinality(T) < Cardinality(Proc)
  <2>1. IsFiniteSet(Proc)
    BY ShmAssumption
  <2>2. IsFiniteSet(T) /\ Cardinality(T) <= Cardinality(Proc) /\ Cardinality(T) # Cardinality(Proc)
    BY <2>1, FS_Subset
  <2> QED
    BY <2>1, <2>2, FS_CardinalityType
<1>2. SUFFICES ASSUME Unused = {}
               PROVE  FALSE
  OBVIOUS
<1> DEFINE g == [d \in Proc |-> CHOOSE t \in T : space[t] = d]
<1>3. \A d \in Proc : g[d] \in T /\ space[g[d]] = d
  BY <1>2
<1>4. g \in [Proc -> T]
  BY <1>3
<1> HIDE DEF g
<1>5. PICK d, e \in Proc : d # e /\ g[d] = g[e]
  BY <1>1, <1>4, FS_PigeonHole
<1> QED
  BY <1>3, <1>5

\* task_fork finds a slot and a space for the child.
LEMMA ForkFinds ==
  ASSUME Slots # {}
  PROVE  /\ First(Slots) \in Proc /\ ~Live(First(Slots))
         /\ First(Unused) \in Proc /\ First(Unused) \in Unused
<1>1. Slots \in SUBSET Nat /\ Unused \in SUBSET Nat /\ Slots \subseteq Proc /\ Unused \subseteq Proc
  BY ShmAssumption DEF Slots, Unused
<1>2. First(Slots) \in Slots
  BY <1>1, FirstFits
<1>3. \A d \in Proc : d \in Unused \/ \E t \in Proc \ Slots : space[t] = d
  <2>1. None \notin Proc
    BY NoneApart
  <2> QED
    BY <2>1 DEF Unused, Slots, Live
<1>4. Unused # {}
  BY <1>1, <1>2, <1>3, SpaceLeft
<1>5. First(Unused) \in Unused
  BY <1>1, <1>4, FirstFits
<1> QED
  BY <1>1, <1>2, <1>5 DEF Slots

\* task_exec finds a space that nobody else has.
LEMMA ExecFinds ==
  ASSUME NEW t \in Proc, Live(t), space \in [Proc -> Proc \cup {None}]
  PROVE  LET d == First(Unused \cup (IF Alone(t) THEN {space[t]} ELSE {}))
         IN  d \in Proc /\ (d \in Unused \/ (Alone(t) /\ d = space[t]))
<1> DEFINE S == Unused \cup (IF Alone(t) THEN {space[t]} ELSE {})
<1>1. space[t] \in Proc
  BY DEF Live
<1>2. S \in SUBSET Nat /\ S \subseteq Proc
  BY <1>1, ShmAssumption DEF Unused
<1>3. S # {}
  <2>1. CASE Alone(t)
    BY <2>1
  <2>2. CASE ~Alone(t)
    <3>1. \A d \in Proc : d \in Unused \/ \E u \in Proc \ {t} : space[u] = d
      BY <2>2 DEF Alone, Unused
    <3>2. Unused # {}
      BY <3>1, SpaceLeft
    <3> QED
      BY <3>2
  <2> QED
    BY <2>1, <2>2
<1>4. First(S) \in S
  <2> HIDE DEF S
  <2> QED
    BY <1>2, <1>3, FirstFits
<1> QED
  BY <1>2, <1>4

-----------------------------------------------------------------------------
(* The account of attachments *)

SegRecord == [key : ShmKey \cup {None}, frame : Frame \cup {None}, destroyed : BOOLEAN,
              attach_count : 0 .. Cardinality(Proc)]

LEMMA Sizes ==
  /\ Cardinality(Proc) \in Nat
  /\ \A S \in SUBSET Proc : /\ IsFiniteSet(S) /\ Cardinality(S) \in Nat
                            /\ Cardinality(S) <= Cardinality(Proc)
<1>1. IsFiniteSet(Proc)
  BY ShmAssumption
<1>2. ASSUME NEW S \in SUBSET Proc
      PROVE  IsFiniteSet(S) /\ Cardinality(S) \in Nat /\ Cardinality(S) <= Cardinality(Proc)
  BY <1>1, FS_Subset, FS_CardinalityType
<1> QED
  BY <1>1, <1>2, FS_CardinalityType

\* The fields of a segment one at a time, as the slots change them
LEMMA SegFields ==
  ASSUME NEW g \in SegRecord
  PROVE  /\ g.key \in ShmKey \cup {None} /\ g.frame \in Frame \cup {None}
         /\ g.destroyed \in BOOLEAN
         /\ g.attach_count \in Nat /\ g.attach_count <= Cardinality(Proc)
         /\ \A n \in 0 .. Cardinality(Proc) :
              LET h == [g EXCEPT !.attach_count = n]
              IN  /\ h \in SegRecord /\ h.key = g.key /\ h.frame = g.frame
                  /\ h.destroyed = g.destroyed /\ h.attach_count = n
         /\ LET h == [g EXCEPT !.destroyed = TRUE]
            IN  /\ h \in SegRecord /\ h.key = g.key /\ h.frame = g.frame
                /\ h.attach_count = g.attach_count
<1> DEFINE B == BOOLEAN
           N == 0 .. Cardinality(Proc)
           T == TRUE
<1>1. g \in [key : ShmKey \cup {None}, frame : Frame \cup {None}, destroyed : B, attach_count : N]
  BY DEF SegRecord
<1>2. T \in B /\ \A n \in N : n \in Nat /\ n <= Cardinality(Proc)
  BY Sizes
<1> HIDE DEF B, N, T
<1>3. \A n \in N :
              LET h == [g EXCEPT !.attach_count = n]
              IN  /\ h \in [key : ShmKey \cup {None}, frame : Frame \cup {None}, destroyed : B,
                            attach_count : N]
                  /\ h.key = g.key /\ h.frame = g.frame
                  /\ h.destroyed = g.destroyed /\ h.attach_count = n
  BY <1>1
<1>4. \A x \in B : LET h == [g EXCEPT !.destroyed = x]
      IN  /\ h \in [key : ShmKey \cup {None}, frame : Frame \cup {None}, destroyed : B,
                            attach_count : N]
          /\ h.key = g.key /\ h.frame = g.frame
          /\ h.attach_count = g.attach_count
  BY <1>1
<1>5. g.key \in ShmKey \cup {None} /\ g.frame \in Frame \cup {None} /\ g.destroyed \in B
      /\ g.attach_count \in N
  BY <1>1
<1> QED
  BY <1>2, <1>3, <1>4, <1>5 DEF B, N, T, SegRecord

\* One task less has g attached, and the slot is as sound: what is left of it has
\* the frame it had, and one attachment less if the count was exact.
LEMMA DetachedSound ==
  ASSUME NEW g \in SegRecord, NEW n \in Nat, SegSound(g, n + 1), g.key # None
  PROVE  /\ Detached(g) \in SegRecord /\ SegSound(Detached(g), n)
         /\ \/ /\ Detached(g) = FreeSeg /\ FreeSeg.key = None
               /\ g.attach_count = n + 1 => n = 0
            \/ /\ Detached(g) # FreeSeg /\ Detached(g).key = g.key /\ Detached(g).frame = g.frame
               /\ g.attach_count = n + 1 => Detached(g).attach_count = n
<1> DEFINE m == IF g.attach_count > 0 THEN g.attach_count - 1 ELSE 0
           h == [g EXCEPT !.attach_count = m]
<1>1. g.attach_count \in Nat /\ g.attach_count <= Cardinality(Proc) /\ Cardinality(Proc) \in Nat
      /\ g.attach_count <= n + 1
  BY SegFields, Sizes DEF SegSound
<1>2. m \in 0 .. Cardinality(Proc) /\ m <= n /\ (g.attach_count = n + 1 => m = n)
      /\ (m # 0 => m > 0)
  BY <1>1
<1> HIDE DEF m
<1>3. h \in SegRecord /\ h.key = g.key /\ h.frame = g.frame /\ h.destroyed = g.destroyed
      /\ h.attach_count = m
  BY <1>2, SegFields
<1>4. Detached(g) = IF g.destroyed /\ m = 0 THEN FreeSeg ELSE h
  BY DEF Detached, m
<1>5. /\ FreeSeg \in SegRecord /\ FreeSeg.key = None /\ FreeSeg.attach_count = 0
      /\ ~FreeSeg.destroyed
  BY <1>1 DEF FreeSeg, SegRecord
<1> HIDE DEF h
<1>6. CASE g.destroyed /\ m = 0
  BY <1>2, <1>4, <1>5, <1>6 DEF SegSound
<1>7. CASE ~(g.destroyed /\ m = 0)
  <2>1. Detached(g) = h /\ h # FreeSeg
    BY <1>3, <1>4, <1>5, <1>7
  <2>2. SegSound(h, n)
    BY <1>2, <1>3, <1>7 DEF SegSound
  <2> QED
    BY <1>2, <1>3, <2>1, <2>2
<1> QED
  BY <1>6, <1>7

-----------------------------------------------------------------------------
(* The account of frames *)

LEMMA FreedRefs ==
  ASSUME NEW r \in [Frame -> 0 .. PINNED], NEW fs
  PROVE  /\ Freed(r, fs) \in [Frame -> 0 .. PINNED]
         /\ \A f \in Frame, n \in Nat :
              Enough(r, f, IF f \in fs THEN n + 1 ELSE n) => Enough(Freed(r, fs), f, n)
<1>1. PINNED \in Nat \ {0}
  BY ShmAssumption
<1> QED
  BY <1>1 DEF Freed, Enough

\* What two drops leave
LEMMA FreedTwice ==
  ASSUME NEW r \in [Frame -> 0 .. PINNED], NEW fs, NEW gs, NEW f \in Frame, NEW n \in Nat,
         Enough(r, f, n + (IF f \in fs THEN 1 ELSE 0) + (IF f \in gs THEN 1 ELSE 0))
  PROVE  Enough(Freed(Freed(r, fs), gs), f, n)
<1> DEFINE m == IF f \in gs THEN n + 1 ELSE n
           k == IF f \in fs THEN m + 1 ELSE m
<1>1. m \in Nat /\ k \in Nat /\ k = n + (IF f \in fs THEN 1 ELSE 0) + (IF f \in gs THEN 1 ELSE 0)
  OBVIOUS
<1>2. Enough(r, f, k)
  <2> HIDE DEF k
  <2> QED
    BY <1>1
<1>3. Freed(r, fs) \in [Frame -> 0 .. PINNED] /\ Enough(Freed(r, fs), f, m)
  <2> HIDE DEF m
  <2> QED
    BY <1>1, <1>2, FreedRefs
<1> QED
  BY <1>3, FreedRefs

LEMMA MappedRefs ==
  ASSUME NEW r \in [Frame -> 0 .. PINNED], NEW fs
  PROVE  /\ Mapped(r, fs) \in [Frame -> 0 .. PINNED]
         /\ \A f \in Frame, n \in Nat :
              Enough(r, f, n) => Enough(Mapped(r, fs), f, IF f \in fs THEN n + 1 ELSE n)
<1>1. PINNED \in Nat \ {0}
  BY ShmAssumption
<1> QED
  BY <1>1 DEF Mapped, Enough

LEMMA LessEnough ==
  ASSUME NEW r \in [Frame -> 0 .. PINNED], NEW f \in Frame, NEW m \in Nat, NEW n \in Nat,
         m <= n, Enough(r, f, n)
  PROVE  Enough(r, f, m)
<1>1. r[f] \in 0 .. PINNED /\ PINNED \in Nat
  BY ShmAssumption
<1> QED
  BY <1>1 DEF Enough

\* How many the members of one set of spaces or tasks are beside another's
LEMMA Fewer ==
  ASSUME NEW S \in SUBSET Proc, NEW T \in SUBSET Proc, NEW d \in Proc
  PROVE  /\ S \subseteq T => Cardinality(S) <= Cardinality(T)
         /\ S \subseteq T \cup {d} => Cardinality(S) <= Cardinality(T) + 1
         /\ S \subseteq T \ {d} /\ d \in T => Cardinality(S) + 1 <= Cardinality(T)
<1>1. IsFiniteSet(S) /\ IsFiniteSet(T) /\ Cardinality(S) \in Nat /\ Cardinality(T) \in Nat
  BY Sizes
<1>2. ASSUME S \subseteq T
      PROVE  Cardinality(S) <= Cardinality(T)
  BY <1>1, <1>2, FS_Subset
<1>3. ASSUME S \subseteq T \cup {d}
      PROVE  Cardinality(S) <= Cardinality(T) + 1
  <2>1. IsFiniteSet(T \cup {d}) /\ Cardinality(T \cup {d}) <= Cardinality(T) + 1
        /\ Cardinality(T \cup {d}) \in Nat
    <3>1. /\ IsFiniteSet(T \cup {d})
          /\ Cardinality(T \cup {d}) = IF d \in T THEN Cardinality(T) ELSE Cardinality(T) + 1
      BY <1>1, FS_AddElement
    <3> QED
      BY <1>1, <3>1
  <2>2. Cardinality(S) <= Cardinality(T \cup {d})
    BY <1>3, <2>1, FS_Subset
  <2> QED
    BY <1>1, <2>1, <2>2
<1>4. ASSUME S \subseteq T \ {d}, d \in T
      PROVE  Cardinality(S) + 1 <= Cardinality(T)
  <2>1. IsFiniteSet(T \ {d}) /\ Cardinality(T \ {d}) = Cardinality(T) - 1
    BY <1>1, <1>4, FS_RemoveElement
  <2>2. Cardinality(S) <= Cardinality(T \ {d})
    BY <1>4, <2>1, FS_Subset
  <2> QED
    BY <1>1, <2>1, <2>2
<1> QED
  BY <1>2, <1>3, <1>4

\* The spaces that map a frame, after s was mapped or unmapped in space d
LEMMA MapOne ==
  ASSUME maps \in [Proc -> [Seg -> Frame \cup {None}]], NEW d \in Proc, NEW s \in Seg,
         NEW g \in Frame, maps' = [maps EXCEPT ![d][s] = g], NEW f \in Frame
  PROVE  Cardinality(Mappers(f))' <= Cardinality(Mappers(f)) + IF f = g THEN 1 ELSE 0
<1>1. Mappers(f)' \subseteq Mappers(f) \cup {d} /\ (f # g => Mappers(f)' \subseteq Mappers(f))
  BY DEF Mappers
<1> DEFINE S == Mappers(f)'
           T == Mappers(f)
<1>2. S \in SUBSET Proc /\ T \in SUBSET Proc /\ Cardinality(Mappers(f))' = Cardinality(S)
  BY DEF Mappers
<1> HIDE DEF S, T
<1>4. Cardinality(S) \in Nat /\ Cardinality(T) \in Nat
  BY <1>2, Sizes
<1> QED
  BY <1>1, <1>2, <1>4, Fewer DEF S, T

LEMMA MapNone ==
  ASSUME maps \in [Proc -> [Seg -> Frame \cup {None}]], Apart, NEW d \in Proc, NEW s \in Seg,
         maps' = [maps EXCEPT ![d][s] = None], NEW f \in Frame
  PROVE  Cardinality(Mappers(f))' + (IF f = maps[d][s] THEN 1 ELSE 0) <= Cardinality(Mappers(f))
<1>1. None \notin Frame
  BY NoneApart
<1>2. Mappers(f)' \subseteq Mappers(f) /\ (f = maps[d][s] => d \in Mappers(f) /\ d \notin Mappers(f)')
  <2>1. Mappers(f)' \subseteq Mappers(f)
    BY <1>1 DEF Mappers
  <2>2. ASSUME f = maps[d][s]
        PROVE  d \in Mappers(f) /\ d \notin Mappers(f)'
    <3>1. \A q \in Seg : maps'[d][q] # f
      BY <1>1, <2>2 DEF Apart
    <3> QED
      BY <2>2, <3>1 DEF Mappers
  <2> QED
    BY <2>1, <2>2
<1> DEFINE S == Mappers(f)'
           T == Mappers(f)
<1>3. S \in SUBSET Proc /\ T \in SUBSET Proc /\ Cardinality(Mappers(f))' = Cardinality(S)
  BY DEF Mappers
<1> HIDE DEF S, T
<1>4. Cardinality(S) \in Nat /\ Cardinality(T) \in Nat
  BY <1>3, Sizes
<1> QED
  BY <1>2, <1>3, <1>4, Fewer DEF S, T

\* after space d was freed
LEMMA MapClear ==
  ASSUME maps \in [Proc -> [Seg -> Frame \cup {None}]], NEW d \in Proc,
         maps' = [maps EXCEPT ![d] = NoMaps], NEW f \in Frame
  PROVE  Cardinality(Mappers(f))' + (IF f \in {maps[d][s] : s \in Seg} THEN 1 ELSE 0)
           <= Cardinality(Mappers(f))
<1>1. None \notin Frame
  BY NoneApart
<1>2. /\ Mappers(f)' \subseteq Mappers(f) \ {d}
      /\ f \in {maps[d][s] : s \in Seg} => d \in Mappers(f)
  BY <1>1 DEF Mappers, NoMaps
<1> DEFINE S == Mappers(f)'
           T == Mappers(f)
<1>3. S \in SUBSET Proc /\ T \in SUBSET Proc /\ Cardinality(Mappers(f))' = Cardinality(S)
  BY DEF Mappers
<1> HIDE DEF S, T
<1>4. Cardinality(S) \in Nat /\ Cardinality(T) \in Nat
  BY <1>3, Sizes
<1> QED
  BY <1>2, <1>3, <1>4, Fewer DEF S, T

\* after space d became a copy of space e
LEMMA MapCopy ==
  ASSUME maps \in [Proc -> [Seg -> Frame \cup {None}]], NEW d \in Proc, NEW e \in Proc,
         maps' = [maps EXCEPT ![d] = maps[e]], NEW f \in Frame
  PROVE  Cardinality(Mappers(f))'
           <= Cardinality(Mappers(f)) + IF f \in {maps[e][s] : s \in Seg} THEN 1 ELSE 0
<1>1. /\ Mappers(f)' \subseteq Mappers(f) \cup {d}
      /\ f \notin {maps[e][s] : s \in Seg} => Mappers(f)' \subseteq Mappers(f)
  BY DEF Mappers
<1> DEFINE S == Mappers(f)'
           T == Mappers(f)
<1>2. S \in SUBSET Proc /\ T \in SUBSET Proc /\ Cardinality(Mappers(f))' = Cardinality(S)
  BY DEF Mappers
<1> HIDE DEF S, T
<1>4. Cardinality(S) \in Nat /\ Cardinality(T) \in Nat
  BY <1>2, Sizes
<1> QED
  BY <1>1, <1>2, <1>4, Fewer DEF S, T

-----------------------------------------------------------------------------
(* Operations on segments *)

LEMMA NewSegment ==
  ASSUME NEW k \in ShmKey, NEW f \in Frame
  PROVE  LET g == [FreeSeg EXCEPT !.key = k, !.frame = f]
         IN  g \in SegRecord /\ g.key = k /\ g.frame = f /\ ~g.destroyed /\ g.attach_count = 0
<1> DEFINE B == BOOLEAN
           N == 0 .. Cardinality(Proc)
           F == FALSE
<1>1. F \in B /\ 0 \in N
  BY Sizes
<1> HIDE DEF B, N, F
<1>2. FreeSeg = [key |-> None, frame |-> None, destroyed |-> F, attach_count |-> 0]
  BY DEF FreeSeg, F
<1> DEFINE g == [FreeSeg EXCEPT !.key = k, !.frame = f]
<1>3. g \in [key : ShmKey \cup {None}, frame : Frame \cup {None}, destroyed : B, attach_count : N]
  BY <1>1, <1>2
<1>4. g.key = k /\ g.frame = f /\ g.destroyed = F /\ g.attach_count = 0
  BY <1>2
<1> QED
  BY <1>3, <1>4 DEF B, N, F, SegRecord

LEMMA GetStep ==
  ASSUME ShmInv, NEW t \in Proc, NEW k \in ShmKey, shm_get(t, k)
  PROVE  ShmInv'
<1> DEFINE free == {f \in Frame : refs[f] = 0}
           f0 == First(free)
           s0 == First({s \in Seg : ~Exists(s)})
           g == [FreeSeg EXCEPT !.key = k, !.frame = f0]
<1>1. f0 \in Frame /\ refs[f0] = 0 /\ s0 \in Seg /\ ~Exists(s0)
  <2>1. free \in SUBSET Nat /\ free # {}
    BY ShmAssumption DEF shm_get
  <2>2. {s \in Seg : ~Exists(s)} \in SUBSET Nat /\ {s \in Seg : ~Exists(s)} # {}
    BY ShmAssumption DEF shm_get
  <2>3. f0 \in free
    BY <2>1, FirstFits
  <2>4. s0 \in {s \in Seg : ~Exists(s)}
    BY <2>2, FirstFits
  <2> QED
    BY <2>3, <2>4
<1>2. k # None
  BY <1>1 DEF shm_get, Exists
<1>3. /\ g \in SegRecord /\ g.key = k /\ g.frame = f0 /\ ~g.destroyed /\ g.attach_count = 0
  BY <1>1, NewSegment
<1>4. segs' = [segs EXCEPT ![s0] = g] /\ refs' = [refs EXCEPT ![f0] = 1]
      /\ UNCHANGED <<space, maps, bits, inherited>>
  BY DEF shm_get
<1> HIDE DEF f0, s0, g
<1>5. segs \in [Seg -> SegRecord] /\ refs \in [Frame -> 0 .. PINNED] /\ 1 \in 0 .. PINNED
  BY ShmAssumption DEF ShmInv, Tallied, ShmTypeOK, SegRecord
<1>6. segs' \in [Seg -> SegRecord] /\ refs' \in [Frame -> 0 .. PINNED]
  BY <1>1, <1>3, <1>4, <1>5
<1>7. ShmTypeOK'
  BY <1>4, <1>6 DEF ShmInv, Tallied, ShmTypeOK, SegRecord
<1>8. \A s \in Seg : Attachers(s)' = Attachers(s) /\ Cardinality(Attachers(s)) \in Nat
  BY <1>4, Sizes DEF Attachers, Live
<1>9. Accounts'
  BY <1>1, <1>2, <1>3, <1>4, <1>5, <1>8 DEF Accounts, SegSound, ShmInv, Tallied
<1>10. Vacated'
  BY <1>4 DEF Vacated, ShmInv, Unused, NoMaps
<1>11. ASSUME ~inherited
       PROVE  Kept'
  <2>1. Attached /\ Apart /\ Referenced
    BY <1>11 DEF ShmInv, Kept
  <2>2. Mappers(f0) = {} /\ ~FramesHeld(f0)
    <3>1. IsFiniteSet(Mappers(f0)) /\ Cardinality(Mappers(f0)) \in Nat
      BY Sizes DEF Mappers
    <3>2. PINNED # 0
      BY ShmAssumption
    <3>3. Cardinality(Mappers(f0)) = 0 /\ ~FramesHeld(f0)
      BY <1>1, <2>1, <3>1, <3>2 DEF Referenced, Enough
    <3> QED
      BY <3>1, <3>3, FS_EmptySet
  <2>3. Attachers(s0) = {}
    BY <1>1, <2>1 DEF Attached, Attachers
  <2>4. Attached'
    <3>1. \A s \in Seg : Exists(s)' => segs'[s].attach_count = Cardinality(Attachers(s))
      BY <1>3, <1>4, <1>5, <2>1, <2>3, FS_EmptySet DEF Attached, Exists
    <3>2. \A s \in Seg : Cardinality(Attachers(s))' = Cardinality(Attachers(s))
      BY <1>8
    <3>3. \A t1 \in Proc : \A s \in bits[t1] :
            segs'[s].key # None /\ maps[space[t1]][s] \in {None, segs'[s].frame}
      <4>1. \A t1 \in Proc : bits[t1] \subseteq Seg
        BY DEF ShmInv, Tallied, ShmTypeOK
      <4> QED
        BY <1>1, <1>4, <1>5, <2>1, <4>1 DEF Attached, Exists
    <3>4. \A t1 \in Proc : ~Live(t1)' => bits'[t1] = {}
      BY <1>4, <2>1 DEF Attached, Live
    <3> QED
      BY <1>4, <3>1, <3>2, <3>3, <3>4 DEF Attached, Exists
  <2>5. Apart'
    <3>1. \A d \in Proc, s \in Seg : maps[d][s] # f0
      BY <2>2 DEF Mappers
    <3>2. \A s \in Seg : Exists(s) => segs[s].frame # f0
      BY <2>2 DEF FramesHeld
    <3> QED
      BY <1>1, <1>3, <1>4, <1>5, <2>1, <3>1, <3>2 DEF Apart, Exists
  <2>6. Referenced'
    <3>1. \A f \in Frame : Cardinality(Mappers(f))' = Cardinality(Mappers(f))
      BY <1>4 DEF Mappers
    <3>2. \A f \in Frame : f # f0 => refs'[f] = refs[f] /\ (FramesHeld(f)' => FramesHeld(f))
      BY <1>3, <1>4, <1>5 DEF FramesHeld, Exists
    <3>3. refs'[f0] = 1 /\ Cardinality(Mappers(f0)) = 0
      BY <1>1, <1>4, <1>5, <2>2, FS_EmptySet
    <3> QED
      BY <2>1, <3>1, <3>2, <3>3 DEF Referenced, Enough
  <2> QED
    BY <2>4, <2>5, <2>6 DEF Kept
<1> QED
  BY <1>4, <1>7, <1>9, <1>10, <1>11 DEF ShmInv, Tallied

LEMMA AtStep ==
  ASSUME ShmInv, NEW t \in Proc, NEW s \in Seg, shm_at(t, s)
  PROVE  ShmInv'
<1> DEFINE n == segs[s].attach_count + 1
           h == [segs[s] EXCEPT !.attach_count = n]
           g == segs[s].frame
           d == space[t]
<1>1. /\ segs \in [Seg -> SegRecord] /\ refs \in [Frame -> 0 .. PINNED]
      /\ maps \in [Proc -> [Seg -> Frame \cup {None}]] /\ bits \in [Proc -> SUBSET Seg]
      /\ space \in [Proc -> Proc \cup {None}]
  BY DEF ShmInv, Tallied, ShmTypeOK, SegRecord
<1>2. /\ segs[s] \in SegRecord /\ Exists(s) /\ s \notin bits[t] /\ d \in Proc /\ Live(t)
      /\ g \in Frame /\ SegSound(segs[s], Cardinality(Attachers(s)))
  BY <1>1 DEF shm_at, ShmInv, Tallied, Accounts, SegSound, Exists, Live
<1>3. /\ Attachers(s)' = Attachers(s) \cup {t} /\ t \notin Attachers(s)
      /\ \A q \in Seg : q # s => Attachers(q)' = Attachers(q)
  BY <1>1, <1>2 DEF shm_at, Attachers, Live
<1>4. /\ Cardinality(Attachers(s))' = Cardinality(Attachers(s)) + 1
      /\ Cardinality(Attachers(s)) \in Nat
      /\ Cardinality(Attachers(s)) + 1 <= Cardinality(Proc)
      /\ \A q \in Seg : q # s => Cardinality(Attachers(q))' = Cardinality(Attachers(q))
  <2>1. Attachers(s) \in SUBSET Proc /\ Attachers(s) \cup {t} \in SUBSET Proc
    BY DEF Attachers
  <2>2. IsFiniteSet(Attachers(s)) /\ Cardinality(Attachers(s)) \in Nat
        /\ Cardinality(Attachers(s) \cup {t}) <= Cardinality(Proc)
    BY <2>1, Sizes
  <2>3. Cardinality(Attachers(s) \cup {t}) = Cardinality(Attachers(s)) + 1
    BY <1>3, <2>2, OneMore
  <2>4. Cardinality(Attachers(s))' = Cardinality(Attachers(s) \cup {t})
    BY <1>3
  <2>5. \A q \in Seg : q # s => Cardinality(Attachers(q))' = Cardinality(Attachers(q))
    BY <1>3
  <2> QED
    BY <2>2, <2>3, <2>4, <2>5
<1>5. n \in 0 .. Cardinality(Proc) /\ n > 0 /\ segs[s].attach_count \in Nat
      /\ n <= Cardinality(Attachers(s)) + 1
  <2>1. segs[s].attach_count \in Nat
    BY <1>2, SegFields
  <2>2. segs[s].attach_count <= Cardinality(Attachers(s))
    BY <1>2 DEF SegSound
  <2> QED
    BY <1>4, <2>1, <2>2, Sizes
<1>6. h \in SegRecord /\ h.key = segs[s].key /\ h.frame = g /\ h.destroyed = segs[s].destroyed
      /\ h.attach_count = n
  <2>1. segs[s] \in SegRecord /\ n \in 0 .. Cardinality(Proc)
    BY <1>2, <1>5
  <2> DEFINE old == segs[s]
  <2> HIDE DEF n, old
  <2>2. old \in SegRecord
    BY <2>1 DEF old
  <2>3. LET k == [old EXCEPT !.attach_count = n]
        IN  /\ k \in SegRecord /\ k.key = old.key /\ k.frame = old.frame
            /\ k.destroyed = old.destroyed /\ k.attach_count = n
    BY <2>1, <2>2, SegFields
  <2> QED
    BY <2>3 DEF old
<1>7. /\ segs' = [segs EXCEPT ![s] = h]
      /\ maps' = [maps EXCEPT ![d][s] = g] /\ refs' = Mapped(refs, {g})
      /\ bits' = [bits EXCEPT ![t] = @ \cup {s}] /\ UNCHANGED <<space, inherited>>
  BY DEF shm_at
<1> HIDE DEF n, h, g, d
<1>8. segs' \in [Seg -> SegRecord] /\ refs' \in [Frame -> 0 .. PINNED]
  BY <1>1, <1>6, <1>7, MappedRefs
<1>9. ShmTypeOK'
  <2>1. maps' \in [Proc -> [Seg -> Frame \cup {None}]] /\ bits' \in [Proc -> SUBSET Seg]
    BY <1>1, <1>2, <1>7
  <2> QED
    BY <1>7, <1>8, <2>1 DEF ShmInv, Tallied, ShmTypeOK, SegRecord
<1>10. Accounts'
  <2>1. SegSound(segs'[s], Cardinality(Attachers(s)) + 1)
    BY <1>1, <1>2, <1>5, <1>6, <1>7 DEF SegSound, Exists
  <2>2. \A q \in Seg : q # s => SegSound(segs'[q], Cardinality(Attachers(q)))
    BY <1>1, <1>7 DEF ShmInv, Tallied, Accounts
  <2> QED
    BY <1>4, <2>1, <2>2 DEF Accounts, SegSound, FreeSeg
<1>11. Vacated'
  BY <1>1, <1>2, <1>7 DEF Vacated, ShmInv, Unused, NoMaps, d
<1>12. ASSUME ~inherited
       PROVE  Kept'
  <2>1. Attached /\ Apart /\ Referenced
    BY <1>12 DEF ShmInv, Kept
  <2>2. Attached'
    <3>1. \A q \in Seg : Exists(q)' <=> Exists(q)
      BY <1>1, <1>6, <1>7 DEF Exists
    <3>2. \A q \in Seg : segs'[q].frame = segs[q].frame
      BY <1>1, <1>6, <1>7 DEF g
    <3>3. \A t1 \in Proc : ~Live(t1)' => bits'[t1] = {}
      BY <1>1, <1>2, <1>7, <2>1 DEF Attached, Live
    <3>4. \A t1 \in Proc : \A q \in bits'[t1] :
            Exists(q)' /\ maps'[space'[t1]][q] \in {None, segs'[q].frame}
      <4> SUFFICES ASSUME NEW t1 \in Proc, NEW q \in bits'[t1]
                   PROVE  Exists(q)' /\ maps'[space'[t1]][q] \in {None, segs'[q].frame}
        OBVIOUS
      <4>1. q \in Seg /\ (q = s \/ q \in bits[t1])
        BY <1>1, <1>7
      <4>2. space[t1] \in Proc
        <5>1. Live(t1)
          BY <1>1, <1>2, <1>7, <2>1 DEF Attached
        <5> QED
          BY <1>1, <5>1 DEF Live
      <4>3. q # s => maps'[space[t1]][q] = maps[space[t1]][q]
        BY <1>1, <1>2, <1>7, <4>1, <4>2
      <4>4. q = s => maps'[space[t1]][q] \in {g, maps[space[t1]][q]} /\ segs[q].frame = g
                     /\ (q \notin bits[t1] => t1 = t /\ maps'[space[t1]][q] = g)
        BY <1>1, <1>2, <1>7, <4>1, <4>2 DEF g, d
      <4> QED
        BY <1>2, <1>7, <2>1, <3>1, <3>2, <4>1, <4>3, <4>4 DEF Attached
    <3>5. \A q \in Seg : Exists(q)' => segs'[q].attach_count = Cardinality(Attachers(q))'
      BY <1>1, <1>2, <1>4, <1>6, <1>7, <2>1, <3>1 DEF Attached, n
    <3> QED
      BY <3>3, <3>4, <3>5 DEF Attached
  <2>3. \A q \in Seg : (Exists(q)' <=> Exists(q)) /\ segs'[q].frame = segs[q].frame
    BY <1>1, <1>6, <1>7 DEF Exists, g
  <2>4. Apart'
    <3>1. \A e \in Proc, q \in Seg : maps'[e][q] = maps[e][q] \/ (q = s /\ maps'[e][q] = g)
      BY <1>1, <1>2, <1>7
    <3>2. \A e \in Proc, q \in Seg : maps[e][q] = g => q = s
      BY <1>2, <2>1, NoneApart DEF Apart, g
    <3>3. \A q \in Seg : Exists(q) /\ segs[q].frame = g => q = s
      BY <1>2, <2>1 DEF Apart, g
    <3> QED
      BY <2>1, <2>3, <3>1, <3>2, <3>3 DEF Apart
  <2>5. Referenced'
    <3> SUFFICES ASSUME NEW f \in Frame
                 PROVE  /\ Enough(refs', f, Cardinality(Mappers(f))')
                        /\ FramesHeld(f)' => Enough(refs', f, Cardinality(Mappers(f))' + 1)
      BY DEF Referenced, Enough
    <3> DEFINE m == Cardinality(Mappers(f))
               k == Cardinality(Mappers(f)')
               i == IF f = g THEN 1 ELSE 0
    <3>1. m \in Nat /\ k \in Nat
      BY Sizes DEF Mappers
    <3>2. k <= m + i
      BY <1>1, <1>2, <1>7, MapOne
    <3>3. FramesHeld(f)' => FramesHeld(f)
      BY <2>3 DEF FramesHeld
    <3>4. Enough(refs, f, m) /\ (FramesHeld(f) => Enough(refs, f, m + 1))
      BY <2>1 DEF Referenced
    <3> HIDE DEF m, k
    <3>5. Enough(refs', f, m + i) /\ (FramesHeld(f) => Enough(refs', f, m + 1 + i))
      BY <1>1, <1>7, <3>1, <3>4, MappedRefs
    <3>6. Enough(refs', f, k) /\ (FramesHeld(f)' => Enough(refs', f, k + 1))
      BY <1>8, <3>1, <3>2, <3>3, <3>5, LessEnough
    <3> QED
      BY <3>6 DEF k
  <2> QED
    BY <2>2, <2>4, <2>5 DEF Kept
<1> QED
  BY <1>7, <1>9, <1>10, <1>11, <1>12 DEF ShmInv, Tallied

LEMMA DtStep ==
  ASSUME ShmInv, NEW t \in Proc, NEW s \in Seg, shm_dt(t, s)
  PROVE  ShmInv'
<1> DEFINE h == Detached(segs[s])
           g == segs[s].frame
           d == space[t]
           n == Cardinality(Attachers(s)) - 1
           unmapped == IF maps[d][s] # None THEN {g} ELSE {}
           freed == Reclaimed({s})
<1>1. /\ segs \in [Seg -> SegRecord] /\ refs \in [Frame -> 0 .. PINNED]
      /\ maps \in [Proc -> [Seg -> Frame \cup {None}]] /\ bits \in [Proc -> SUBSET Seg]
      /\ space \in [Proc -> Proc \cup {None}]
  BY DEF ShmInv, Tallied, ShmTypeOK, SegRecord
<1>2. /\ segs[s] \in SegRecord /\ Exists(s) /\ s \in bits[t] /\ d \in Proc /\ Live(t)
      /\ g \in Frame /\ SegSound(segs[s], Cardinality(Attachers(s)))
  BY <1>1 DEF shm_dt, ShmInv, Tallied, Accounts, SegSound, Exists, Live
<1>3. /\ Attachers(s)' = Attachers(s) \ {t} /\ t \in Attachers(s)
      /\ \A q \in Seg : q # s => Attachers(q)' = Attachers(q)
  BY <1>1, <1>2 DEF shm_dt, Attachers, Live
<1>4. /\ Cardinality(Attachers(s))' = n /\ n \in Nat /\ Cardinality(Attachers(s)) = n + 1
      /\ \A q \in Seg : q # s => Cardinality(Attachers(q))' = Cardinality(Attachers(q))
  <2>1. IsFiniteSet(Attachers(s)) /\ Cardinality(Attachers(s)) \in Nat
        /\ Cardinality(Attachers(s) \ {t}) \in Nat
    BY Sizes DEF Attachers
  <2>2. Cardinality(Attachers(s) \ {t}) = n
    BY <1>3, <2>1, OneLess
  <2>3. Cardinality(Attachers(s))' = Cardinality(Attachers(s) \ {t})
    BY <1>3
  <2>4. \A q \in Seg : q # s => Cardinality(Attachers(q))' = Cardinality(Attachers(q))
    BY <1>3
  <2> QED
    BY <2>1, <2>2, <2>3, <2>4
<1> HIDE DEF n
<1>5. /\ h \in SegRecord /\ SegSound(h, n)
      /\ \/ /\ h = FreeSeg /\ FreeSeg.key = None
            /\ segs[s].attach_count = n + 1 => n = 0
         \/ /\ h # FreeSeg /\ h.key = segs[s].key /\ h.frame = g
            /\ segs[s].attach_count = n + 1 => h.attach_count = n
  BY <1>2, <1>4, DetachedSound DEF Exists
<1>6. /\ segs' = [segs EXCEPT ![s] = h]
      /\ maps' = [maps EXCEPT ![d][s] = None] /\ refs' = Freed(Freed(refs, unmapped), freed)
      /\ bits' = [bits EXCEPT ![t] = @ \ {s}] /\ UNCHANGED <<space, inherited>>
  BY DEF shm_dt
<1>7. freed = IF h = FreeSeg THEN {g} ELSE {}
  BY <1>2 DEF Reclaimed
<1> HIDE DEF h, g, d, unmapped, freed
<1>8. segs' \in [Seg -> SegRecord] /\ refs' \in [Frame -> 0 .. PINNED]
  BY <1>1, <1>5, <1>6, FreedRefs
<1>9. ShmTypeOK'
  <2>1. maps' \in [Proc -> [Seg -> Frame \cup {None}]] /\ bits' \in [Proc -> SUBSET Seg]
    BY <1>1, <1>2, <1>6
  <2> QED
    BY <1>6, <1>8, <2>1 DEF ShmInv, Tallied, ShmTypeOK, SegRecord
<1>10. Accounts'
  <2>1. segs'[s] = h
    BY <1>1, <1>6
  <2>2. \A q \in Seg : q # s => SegSound(segs'[q], Cardinality(Attachers(q)))
    BY <1>1, <1>6 DEF ShmInv, Tallied, Accounts
  <2> QED
    BY <1>4, <1>5, <2>1, <2>2 DEF Accounts, SegSound, FreeSeg
<1>11. Vacated'
  BY <1>1, <1>2, <1>6 DEF Vacated, ShmInv, Unused, NoMaps, d
<1>12. ASSUME ~inherited
       PROVE  Kept'
  <2>1. Attached /\ Apart /\ Referenced
    BY <1>12 DEF ShmInv, Kept
  <2>2. /\ \A q \in Seg : q # s => (Exists(q)' <=> Exists(q)) /\ segs'[q] = segs[q]
        /\ Exists(s)' <=> h # FreeSeg
        /\ h # FreeSeg => segs'[s].frame = g
        /\ segs'[s] = h
    BY <1>1, <1>2, <1>5, <1>6 DEF Exists
  <2>3. segs[s].attach_count = n + 1
    BY <1>2, <1>4, <2>1 DEF Attached
  <2>4. h = FreeSeg => n = 0
    BY <1>5, <2>3
  <2>5. Attached'
    <3>1. \A t1 \in Proc : ~Live(t1)' => bits'[t1] = {}
      BY <1>1, <1>2, <1>6, <2>1 DEF Attached, Live
    <3>2. \A t1 \in Proc : \A q \in bits'[t1] :
            Exists(q)' /\ maps'[space'[t1]][q] \in {None, segs'[q].frame}
      <4> SUFFICES ASSUME NEW t1 \in Proc, NEW q \in bits'[t1]
                   PROVE  Exists(q)' /\ maps'[space'[t1]][q] \in {None, segs'[q].frame}
        OBVIOUS
      <4>1. q \in Seg /\ q \in bits[t1] /\ (q = s => t1 # t)
        BY <1>1, <1>6
      <4>2. Live(t1) /\ space[t1] \in Proc
        BY <1>1, <2>1, <4>1 DEF Attached, Live
      <4>3. maps'[space[t1]][q] \in {None, maps[space[t1]][q]}
        BY <1>1, <1>2, <1>6, <4>1, <4>2
      <4>4. q = s => n # 0
        <5> SUFFICES ASSUME q = s
                     PROVE  n # 0
          OBVIOUS
        <5>1. t1 \in Attachers(s)'
          BY <1>3, <4>1, <4>2 DEF Attachers
        <5>2. IsFiniteSet(Attachers(s)')
          <6>1. Attachers(s)' \in SUBSET Proc
            BY DEF Attachers
          <6> QED
            BY <6>1, Sizes
        <5>3. Cardinality(Attachers(s)') = n
          BY <1>4
        <5> QED
          BY <5>1, <5>2, <5>3, FS_EmptySet
      <4>5. q = s => h # FreeSeg
        BY <2>4, <4>4
      <4>6. Exists(q)' /\ segs'[q].frame = segs[q].frame
        BY <1>2, <2>1, <2>2, <4>1, <4>5 DEF Attached, g
      <4> QED
        BY <1>6, <2>1, <4>1, <4>3, <4>6 DEF Attached
    <3>3. \A q \in Seg : Exists(q)' => segs'[q].attach_count = Cardinality(Attachers(q))'
      BY <1>4, <1>5, <2>1, <2>2, <2>3 DEF Attached
    <3> QED
      BY <3>1, <3>2, <3>3 DEF Attached
  <2>6. Apart'
    <3>1. \A e \in Proc, q \in Seg : maps'[e][q] \in {None, maps[e][q]}
      BY <1>1, <1>2, <1>6
    <3>2. \A q \in Seg : Exists(q)' => Exists(q) /\ segs'[q].frame = segs[q].frame
      BY <1>2, <2>2 DEF g
    <3> QED
      BY <2>1, <3>1, <3>2 DEF Apart
  <2>7. Referenced'
    <3> SUFFICES ASSUME NEW f \in Frame
                 PROVE  /\ Enough(refs', f, Cardinality(Mappers(f))')
                        /\ FramesHeld(f)' => Enough(refs', f, Cardinality(Mappers(f))' + 1)
      BY DEF Referenced, Enough
    <3> DEFINE m == Cardinality(Mappers(f))
               k == Cardinality(Mappers(f)')
               a == IF f \in unmapped THEN 1 ELSE 0
               b == IF f \in freed THEN 1 ELSE 0
    <3>1. m \in Nat /\ k \in Nat
      BY Sizes DEF Mappers
    <3>2. k + a <= m
      <4>1. k + (IF f = maps[d][s] THEN 1 ELSE 0) <= m
        BY <1>1, <1>2, <1>6, <2>1, MapNone
      <4>2. maps[d][s] \in {None, g}
        BY <1>2, <2>1 DEF Attached, d, g
      <4>3. f \in unmapped => f = maps[d][s]
        BY <4>2 DEF unmapped
      <4> HIDE DEF k, m
      <4> QED
        BY <3>1, <4>1, <4>3
    <3>3. (FramesHeld(f)' => FramesHeld(f)) /\ (f \in freed => FramesHeld(f) /\ ~FramesHeld(f)')
      <4>1. FramesHeld(f)' => FramesHeld(f)
        BY <1>2, <2>2 DEF FramesHeld, g
      <4>2. ASSUME f \in freed
            PROVE  FramesHeld(f) /\ ~FramesHeld(f)'
        <5>1. f = g /\ h = FreeSeg
          BY <1>7, <4>2
        <5>2. \A q \in Seg : q # s /\ Exists(q) => segs[q].frame # g
          BY <1>2, <2>1 DEF Apart, g
        <5> QED
          BY <1>2, <2>2, <5>1, <5>2 DEF FramesHeld, g
      <4> QED
        BY <4>1, <4>2
    <3>4. Enough(refs, f, m) /\ (FramesHeld(f) => Enough(refs, f, m + 1))
      BY <2>1 DEF Referenced
    <3> HIDE DEF m, k
    <3>5. Enough(refs', f, k)
      <4>1. CASE f \in freed
        <5>1. Enough(refs, f, k + a + b)
          BY <1>1, <3>1, <3>2, <3>3, <3>4, <4>1, LessEnough
        <5> QED
          BY <1>1, <1>6, <3>1, <5>1, FreedTwice
      <4>2. CASE f \notin freed
        <5>1. Enough(refs, f, k + a + b)
          BY <1>1, <3>1, <3>2, <3>4, <4>2, LessEnough
        <5> QED
          BY <1>1, <1>6, <3>1, <5>1, FreedTwice
      <4> QED
        BY <4>1, <4>2
    <3>6. ASSUME FramesHeld(f)'
          PROVE  Enough(refs', f, k + 1)
      <4>1. f \notin freed /\ Enough(refs, f, m + 1)
        BY <3>3, <3>4, <3>6
      <4> DEFINE j == k + 1
      <4>2. j \in Nat /\ j + a + b <= m + 1 /\ j + a + b \in Nat /\ m + 1 \in Nat
        BY <3>1, <3>2, <4>1
      <4> HIDE DEF j
      <4>3. Enough(refs, f, j + a + b)
        BY <1>1, <4>1, <4>2, LessEnough
      <4>4. Enough(refs', f, j)
        BY <1>1, <1>6, <4>2, <4>3, FreedTwice
      <4> QED
        BY <4>4 DEF j
    <3> QED
      BY <3>5, <3>6 DEF k
  <2> QED
    BY <2>5, <2>6, <2>7 DEF Kept
<1> QED
  BY <1>6, <1>9, <1>10, <1>11, <1>12 DEF ShmInv, Tallied

LEMMA CtlStep ==
  ASSUME ShmInv, NEW t \in Proc, NEW s \in Seg, shm_ctl(t, s)
  PROVE  ShmInv'
<1> DEFINE now == segs[s].attach_count = 0
           h == IF now THEN FreeSeg ELSE [segs[s] EXCEPT !.destroyed = TRUE]
           g == segs[s].frame
           freed == IF now THEN {g} ELSE {}
<1>1. /\ segs \in [Seg -> SegRecord] /\ refs \in [Frame -> 0 .. PINNED]
      /\ bits \in [Proc -> SUBSET Seg]
  BY DEF ShmInv, Tallied, ShmTypeOK, SegRecord
<1>2. /\ segs[s] \in SegRecord /\ Exists(s) /\ g \in Frame
      /\ SegSound(segs[s], Cardinality(Attachers(s)))
  BY <1>1 DEF shm_ctl, ShmInv, Tallied, Accounts, SegSound, Exists
<1>3. /\ segs' = [segs EXCEPT ![s] = h] /\ refs' = Freed(refs, freed)
      /\ UNCHANGED <<space, maps, bits, inherited>>
  BY DEF shm_ctl
<1>4. \A q \in Seg : Cardinality(Attachers(q))' = Cardinality(Attachers(q))
                     /\ Cardinality(Attachers(q)) \in Nat
  BY <1>3, Sizes DEF Attachers, Live
<1>5. /\ h \in SegRecord /\ SegSound(h, Cardinality(Attachers(s)))
      /\ now => h = FreeSeg /\ h.key = None
      /\ ~now => h.key = segs[s].key /\ h.frame = g /\ h.attach_count = segs[s].attach_count
  <2>1. CASE now
    <3>1. FreeSeg \in SegRecord /\ FreeSeg.key = None /\ FreeSeg.attach_count = 0 /\ ~FreeSeg.destroyed
      BY Sizes DEF FreeSeg, SegRecord
    <3>2. 0 <= Cardinality(Attachers(s))
      BY <1>4
    <3> QED
      BY <2>1, <3>1, <3>2 DEF SegSound
  <2>2. CASE ~now
    <3>1. /\ h \in SegRecord /\ h.key = segs[s].key /\ h.frame = g
          /\ h.attach_count = segs[s].attach_count
      BY <1>2, <2>2, SegFields
    <3>2. segs[s].attach_count > 0
      <4>1. segs[s].attach_count \in Nat /\ segs[s].attach_count # 0
        BY <1>2, <2>2, SegFields
      <4> QED
        BY <4>1
    <3> HIDE DEF h
    <3> QED
      BY <1>2, <2>2, <3>1, <3>2 DEF SegSound, Exists
  <2> QED
    BY <2>1, <2>2
<1> HIDE DEF h, g, freed
<1>6. segs' \in [Seg -> SegRecord] /\ refs' \in [Frame -> 0 .. PINNED]
  BY <1>1, <1>3, <1>5, FreedRefs
<1>7. ShmTypeOK'
  BY <1>3, <1>6 DEF ShmInv, Tallied, ShmTypeOK, SegRecord
<1>8. Accounts'
  <2>1. segs'[s] = h /\ \A q \in Seg : q # s => SegSound(segs'[q], Cardinality(Attachers(q)))
    BY <1>1, <1>3 DEF ShmInv, Tallied, Accounts
  <2> QED
    BY <1>4, <1>5, <2>1 DEF Accounts, SegSound, FreeSeg
<1>9. Vacated'
  BY <1>3 DEF Vacated, ShmInv, Unused, NoMaps
<1>10. ASSUME ~inherited
       PROVE  Kept'
  <2>1. Attached /\ Apart /\ Referenced
    BY <1>10 DEF ShmInv, Kept
  <2>2. /\ \A q \in Seg : q # s => (Exists(q)' <=> Exists(q)) /\ segs'[q] = segs[q]
        /\ Exists(s)' <=> ~now
        /\ segs'[s] = h
    BY <1>1, <1>2, <1>3, <1>5 DEF Exists
  <2>3. now => Attachers(s) = {}
    <3>1. IsFiniteSet(Attachers(s)) /\ (now => Cardinality(Attachers(s)) = 0)
      BY <1>2, <2>1, Sizes DEF Attached, Attachers
    <3> QED
      BY <3>1, FS_EmptySet
  <2>4. \A t1 \in Proc : \A q \in bits[t1] : q \in Seg /\ t1 \in Attachers(q)
    BY <1>1, <2>1 DEF Attached, Attachers
  <2>5. \A q \in Seg : Exists(q)' => /\ Exists(q) /\ segs'[q].frame = segs[q].frame
                                   /\ segs'[q].attach_count = segs[q].attach_count
    BY <1>2, <1>5, <2>2 DEF g
  <2>6. Attached'
    <3>1. \A t1 \in Proc : \A q \in bits[t1] :
            Exists(q)' /\ maps[space[t1]][q] \in {None, segs'[q].frame}
      <4>1. \A t1 \in Proc : \A q \in bits[t1] : Exists(q)'
        BY <2>1, <2>2, <2>3, <2>4 DEF Attached
      <4> QED
        BY <2>1, <2>4, <2>5, <4>1 DEF Attached
    <3>2. \A t1 \in Proc : ~Live(t1)' => bits'[t1] = {}
      BY <1>3, <2>1 DEF Attached, Live
    <3>3. \A q \in Seg : Exists(q)' => segs'[q].attach_count = Cardinality(Attachers(q))'
      BY <1>4, <2>1, <2>5 DEF Attached
    <3> QED
      BY <1>3, <3>1, <3>2, <3>3 DEF Attached
  <2>7. Apart'
    BY <1>3, <2>1, <2>5 DEF Apart
  <2>8. Referenced'
    <3> SUFFICES ASSUME NEW f \in Frame
                 PROVE  /\ Enough(refs', f, Cardinality(Mappers(f))')
                        /\ FramesHeld(f)' => Enough(refs', f, Cardinality(Mappers(f))' + 1)
      BY DEF Referenced, Enough
    <3> DEFINE m == Cardinality(Mappers(f))
    <3>1. m \in Nat
      BY Sizes DEF Mappers
    <3>2. Cardinality(Mappers(f))' = m
      BY <1>3 DEF Mappers
    <3>3. FramesHeld(f)' => FramesHeld(f)
      BY <2>5 DEF FramesHeld
    <3>4. Enough(refs, f, m) /\ (FramesHeld(f) => Enough(refs, f, m + 1))
      BY <2>1 DEF Referenced
    <3>5. f \in freed => FramesHeld(f) /\ ~FramesHeld(f)'
      <4> SUFFICES ASSUME f \in freed
                   PROVE  FramesHeld(f) /\ ~FramesHeld(f)'
        OBVIOUS
      <4>1. now /\ f = g
        BY DEF freed
      <4>2. \A q \in Seg : q # s /\ Exists(q) => segs[q].frame # g
        BY <1>2, <2>1 DEF Apart, g
      <4> QED
        BY <1>2, <2>2, <4>1, <4>2 DEF FramesHeld, g
    <3> HIDE DEF m
    <3>6. Enough(refs', f, m)
      BY <1>1, <1>3, <3>1, <3>4, <3>5, FreedRefs
    <3>7. FramesHeld(f)' => Enough(refs', f, m + 1)
      <4>1. m + 1 \in Nat
        BY <3>1
      <4> QED
        BY <1>1, <1>3, <3>3, <3>4, <3>5, <4>1, FreedRefs
    <3> QED
      BY <3>2, <3>6, <3>7
  <2> QED
    BY <2>6, <2>7, <2>8 DEF Kept
<1> QED
  BY <1>3, <1>7, <1>8, <1>9, <1>10 DEF ShmInv, Tallied

-----------------------------------------------------------------------------
(* Threads, forks, execs and exits *)

LEMMA ThreadStep ==
  ASSUME ShmInv, NEW t \in Proc, thread_create(t)
  PROVE  ShmInv'
<1> DEFINE u == First(Slots)
<1>1. /\ bits \in [Proc -> SUBSET Seg] /\ space \in [Proc -> Proc \cup {None}]
  BY DEF ShmInv, Tallied, ShmTypeOK
<1>2. u \in Proc /\ ~Live(u) /\ space[t] \in Proc
  BY <1>1, ForkFinds DEF thread_create, Live
<1>3. /\ space' = [space EXCEPT ![u] = space[t]] /\ bits' = [bits EXCEPT ![u] = {}]
      /\ UNCHANGED <<segs, refs, maps, inherited>>
  BY DEF thread_create
<1> HIDE DEF u
<1>4. ShmTypeOK'
  <2>1. bits' \in [Proc -> SUBSET Seg] /\ space' \in [Proc -> Proc \cup {None}]
    BY <1>1, <1>2, <1>3
  <2> QED
    BY <1>3, <2>1 DEF ShmInv, Tallied, ShmTypeOK
<1>5. \A q \in Seg : Cardinality(Attachers(q))' = Cardinality(Attachers(q))
  <2>1. \A q \in Seg : Attachers(q)' = Attachers(q)
    BY <1>1, <1>2, <1>3 DEF Attachers, Live
  <2> QED
    BY <2>1
<1>6. Accounts'
  BY <1>3, <1>5 DEF ShmInv, Tallied, Accounts, SegSound, FreeSeg
<1>7. Vacated'
  <2>1. Unused' \subseteq Unused
    BY <1>1, <1>2, <1>3, NoneApart DEF Unused, Live
  <2> QED
    BY <1>3, <2>1 DEF ShmInv, Vacated, NoMaps
<1>8. ASSUME ~inherited
      PROVE  Kept'
  <2>1. Attached /\ Apart /\ Referenced
    BY <1>8 DEF ShmInv, Kept
  <2>2. Attached'
    <3>1. \A t1 \in Proc : \A q \in bits'[t1] : q \in bits[t1] /\ t1 # u /\ q \in Seg
      BY <1>1, <1>2, <1>3
    <3>2. \A t1 \in Proc : t1 # u => space'[t1] = space[t1] /\ bits'[t1] = bits[t1]
      BY <1>1, <1>3
    <3>3. \A t1 \in Proc : ~Live(t1)' => bits'[t1] = {}
      BY <1>1, <1>2, <1>3, <2>1 DEF Attached, Live
    <3>4. \A q \in Seg : Exists(q)' => segs'[q].attach_count = Cardinality(Attachers(q))'
      BY <1>3, <1>5, <2>1 DEF Attached, Exists
    <3>5. \A t1 \in Proc : \A q \in bits'[t1] :
            Exists(q)' /\ maps'[space'[t1]][q] \in {None, segs'[q].frame}
      BY <1>3, <2>1, <3>1, <3>2 DEF Attached, Exists
    <3> QED
      BY <3>3, <3>4, <3>5 DEF Attached
  <2>3. Apart'
    BY <1>3, <2>1 DEF Apart, Exists
  <2>4. Referenced'
    BY <1>3, <2>1 DEF Referenced, Enough, FramesHeld, Exists, Mappers
  <2> QED
    BY <2>2, <2>3, <2>4 DEF Kept
<1> QED
  BY <1>3, <1>4, <1>6, <1>7, <1>8 DEF ShmInv, Tallied

LEMMA ForkStep ==
  ASSUME ShmInv, NEW t \in Proc, task_fork(t)
  PROVE  ShmInv'
<1> DEFINE u == First(Slots)
           d == First(Unused)
           e == space[t]
           shared == {maps[e][s] : s \in Seg}
<1>1. /\ refs \in [Frame -> 0 .. PINNED] /\ maps \in [Proc -> [Seg -> Frame \cup {None}]]
      /\ bits \in [Proc -> SUBSET Seg] /\ space \in [Proc -> Proc \cup {None}]
      /\ inherited \in BOOLEAN
  BY DEF ShmInv, Tallied, ShmTypeOK
<1>2. u \in Proc /\ ~Live(u) /\ e \in Proc /\ d \in Proc /\ d \in Unused
  BY <1>1, ForkFinds DEF task_fork, Live
<1>3. /\ space' = [space EXCEPT ![u] = d] /\ maps' = [maps EXCEPT ![d] = maps[e]]
      /\ bits' = [bits EXCEPT ![u] = bits[t]] /\ refs' = Mapped(refs, shared)
      /\ inherited' = (inherited \/ bits[t] # {}) /\ segs' = segs
  BY DEF task_fork
<1> HIDE DEF u, d, e, shared
<1>4. ShmTypeOK'
  <2>1. bits' \in [Proc -> SUBSET Seg] /\ space' \in [Proc -> Proc \cup {None}]
        /\ maps' \in [Proc -> [Seg -> Frame \cup {None}]]
    BY <1>1, <1>2, <1>3
  <2>2. refs' \in [Frame -> 0 .. PINNED]
    BY <1>1, <1>3, MappedRefs
  <2>3. inherited' \in BOOLEAN
    BY <1>3
  <2> QED
    BY <1>3, <2>1, <2>2, <2>3 DEF ShmInv, Tallied, ShmTypeOK
<1>5. \A q \in Seg : /\ Attachers(q) \subseteq Attachers(q)'
                     /\ bits[t] = {} => Attachers(q)' = Attachers(q)
  BY <1>1, <1>2, <1>3 DEF Attachers, Live
<1>6. \A q \in Seg : /\ Cardinality(Attachers(q)) <= Cardinality(Attachers(q))'
                     /\ Cardinality(Attachers(q)) \in Nat /\ Cardinality(Attachers(q))' \in Nat
  <2> SUFFICES ASSUME NEW q \in Seg
               PROVE  /\ Cardinality(Attachers(q)) <= Cardinality(Attachers(q))'
                      /\ Cardinality(Attachers(q)) \in Nat /\ Cardinality(Attachers(q))' \in Nat
    OBVIOUS
  <2> DEFINE S == Attachers(q)
             T == Attachers(q)'
  <2>1. S \in SUBSET Proc /\ T \in SUBSET Proc /\ Cardinality(Attachers(q))' = Cardinality(T)
        /\ S \subseteq T
    BY <1>5 DEF Attachers
  <2> HIDE DEF S, T
  <2>2. Cardinality(S) <= Cardinality(T) /\ Cardinality(S) \in Nat /\ Cardinality(T) \in Nat
    BY <1>2, <2>1, Sizes, Fewer
  <2> QED
    BY <2>1, <2>2 DEF S
<1>7. Accounts'
  <2> SUFFICES ASSUME NEW q \in Seg
               PROVE  SegSound(segs[q], Cardinality(Attachers(q))')
    BY <1>3 DEF Accounts, SegSound, FreeSeg
  <2>1. SegSound(segs[q], Cardinality(Attachers(q))) /\ segs[q] \in SegRecord
    BY DEF ShmInv, Tallied, Accounts, ShmTypeOK, SegRecord
  <2>2. segs[q].attach_count \in Nat
    BY <2>1, SegFields
  <2>3. segs[q].attach_count <= Cardinality(Attachers(q))'
    BY <1>6, <2>1, <2>2 DEF SegSound
  <2> QED
    BY <2>1, <2>3 DEF SegSound
<1>8. Vacated'
  <2>1. \A x \in Unused' : x \in Unused /\ x # d /\ x \in Proc
    BY <1>1, <1>2, <1>3, NoneApart DEF Unused, Live
  <2> QED
    BY <1>1, <1>3, <2>1 DEF ShmInv, Vacated, NoMaps
<1>9. ASSUME ~inherited'
      PROVE  Kept'
  <2>1. Attached /\ Apart /\ Referenced /\ bits[t] = {}
    BY <1>3, <1>9 DEF ShmInv, Kept
  <2>2. Attached'
    <3>1. \A t1 \in Proc : \A q \in bits'[t1] : q \in bits[t1] /\ t1 # u /\ q \in Seg
      BY <1>1, <1>2, <1>3, <2>1
    <3>2. \A t1 \in Proc : \A q \in bits[t1] : space[t1] # d /\ space[t1] \in Proc
      BY <1>1, <1>2, <2>1 DEF Attached, Unused, Live
    <3>3. \A t1 \in Proc : t1 # u => space'[t1] = space[t1] /\ bits'[t1] = bits[t1]
      BY <1>1, <1>3
    <3>4. \A t1 \in Proc : ~Live(t1)' => bits'[t1] = {}
      BY <1>1, <1>2, <1>3, <2>1, NoneApart DEF Attached, Live
    <3>5. \A q \in Seg : Exists(q)' => segs'[q].attach_count = Cardinality(Attachers(q))'
      <4>1. \A q \in Seg : Attachers(q)' = Attachers(q)
        BY <1>5, <2>1
      <4>2. \A q \in Seg : Cardinality(Attachers(q))' = Cardinality(Attachers(q))
        BY <4>1
      <4> QED
        BY <1>3, <2>1, <4>2 DEF Attached, Exists
    <3>6. \A x \in Proc : x # d => maps'[x] = maps[x]
      BY <1>1, <1>3
    <3>7. \A t1 \in Proc : \A q \in bits'[t1] :
            Exists(q)' /\ maps'[space'[t1]][q] \in {None, segs'[q].frame}
      BY <1>3, <2>1, <3>1, <3>2, <3>3, <3>6 DEF Attached, Exists
    <3> QED
      BY <3>4, <3>5, <3>7 DEF Attached
  <2>3. Apart'
    <3>1. \A x \in Proc : \E y \in Proc : maps'[x] = maps[y]
      BY <1>1, <1>2, <1>3
    <3>2. \A x \in Proc, s, q \in Seg :
            maps'[x][s] # None /\ Exists(q) /\ segs[q].frame = maps'[x][s] => q = s
      BY <2>1, <3>1 DEF Apart
    <3>3. ASSUME NEW x \in Proc, NEW z \in Proc, NEW s \in Seg, NEW q \in Seg,
                 maps'[x][s] # None, maps'[x][s] = maps'[z][q]
          PROVE  s = q
      <4>1. PICK v, w \in Proc : maps'[x] = maps[v] /\ maps'[z] = maps[w]
        BY <3>1
      <4>2. maps[v][s] # None /\ maps[v][s] = maps[w][q]
        BY <3>3, <4>1
      <4> QED
        BY <2>1, <4>2 DEF Apart
    <3>4. \A s, q \in Seg : Exists(s)' /\ Exists(q)' /\ segs'[s].frame = segs'[q].frame => s = q
      BY <1>3, <2>1 DEF Apart, Exists
    <3> QED
      BY <1>3, <3>2, <3>3, <3>4 DEF Apart, Exists
  <2>4. Referenced'
    <3> SUFFICES ASSUME NEW f \in Frame
                 PROVE  /\ Enough(refs', f, Cardinality(Mappers(f))')
                        /\ FramesHeld(f)' => Enough(refs', f, Cardinality(Mappers(f))' + 1)
      BY DEF Referenced, Enough
    <3> DEFINE m == Cardinality(Mappers(f))
               k == Cardinality(Mappers(f)')
               i == IF f \in shared THEN 1 ELSE 0
    <3>1. m \in Nat /\ k \in Nat
      BY Sizes DEF Mappers
    <3>2. k <= m + i
      BY <1>1, <1>2, <1>3, MapCopy DEF shared
    <3>3. FramesHeld(f)' => FramesHeld(f)
      BY <1>3 DEF FramesHeld, Exists
    <3>4. Enough(refs, f, m) /\ (FramesHeld(f) => Enough(refs, f, m + 1))
      BY <2>1 DEF Referenced
    <3> HIDE DEF m, k
    <3>5. Enough(refs', f, m + i) /\ (FramesHeld(f) => Enough(refs', f, m + 1 + i))
      BY <1>1, <1>3, <3>1, <3>4, MappedRefs
    <3>6. refs' \in [Frame -> 0 .. PINNED]
      BY <1>1, <1>3, MappedRefs
    <3>7. Enough(refs', f, k) /\ (FramesHeld(f)' => Enough(refs', f, k + 1))
      BY <3>1, <3>2, <3>3, <3>5, <3>6, LessEnough
    <3> QED
      BY <3>7 DEF k
  <2> QED
    BY <2>2, <2>3, <2>4 DEF Kept
<1> QED
  BY <1>4, <1>7, <1>8, <1>9 DEF ShmInv, Tallied

LEMMA ExecStep ==
  ASSUME ShmInv, NEW t \in Proc, task_exec(t)
  PROVE  ShmInv'
<1> DEFINE d == First(Unused \cup (IF Alone(t) THEN {space[t]} ELSE {}))
           e == space[t]
           fs == {maps[e][s] : s \in Seg} \ {None}
           freed == IF Alone(t) THEN fs ELSE {}
<1>1. /\ refs \in [Frame -> 0 .. PINNED] /\ maps \in [Proc -> [Seg -> Frame \cup {None}]]
      /\ bits \in [Proc -> SUBSET Seg] /\ space \in [Proc -> Proc \cup {None}]
  BY DEF ShmInv, Tallied, ShmTypeOK
<1>2. /\ Live(t) /\ e \in Proc /\ d \in Proc
      /\ d \in Unused \/ (Alone(t) /\ d = e)
  <2>1. Live(t)
    BY DEF task_exec
  <2>2. /\ d \in Proc
        /\ d \in Unused \/ (Alone(t) /\ d = e)
    BY <1>1, <2>1, ExecFinds
  <2> QED
    BY <1>1, <2>1, <2>2 DEF Live
<1>3. /\ space' = [space EXCEPT ![t] = d]
      /\ maps' = IF Alone(t) THEN [maps EXCEPT ![e] = NoMaps] ELSE maps
      /\ refs' = IF Alone(t) THEN Freed(refs, fs) ELSE refs
      /\ UNCHANGED <<segs, bits, inherited>>
  BY DEF task_exec, SpaceFreed
<1> HIDE DEF d, e, fs
<1>4. maps' \in [Proc -> [Seg -> Frame \cup {None}]] /\ NoMaps \in [Seg -> Frame \cup {None}]
  BY <1>1, <1>3 DEF NoMaps
<1>5. refs' \in [Frame -> 0 .. PINNED]
  BY <1>1, <1>3, FreedRefs
<1>6. ShmTypeOK'
  <2>1. space' \in [Proc -> Proc \cup {None}]
    BY <1>1, <1>2, <1>3
  <2> QED
    BY <1>3, <1>4, <1>5, <2>1 DEF ShmInv, Tallied, ShmTypeOK
<1>7. \A q \in Seg : Cardinality(Attachers(q))' = Cardinality(Attachers(q))
  <2>1. \A q \in Seg : Attachers(q)' = Attachers(q)
    BY <1>1, <1>2, <1>3, NoneApart DEF Attachers, Live
  <2> QED
    BY <2>1
<1>8. Accounts'
  BY <1>3, <1>7 DEF ShmInv, Tallied, Accounts, SegSound, FreeSeg
<1>9. \A x \in Proc : /\ x # e => maps'[x] = maps[x]
                      /\ Alone(t) => maps'[e] = NoMaps
                      /\ ~Alone(t) => maps'[x] = maps[x]
  BY <1>1, <1>2, <1>3
<1>10. Vacated'
  <2> SUFFICES ASSUME NEW x \in Unused'
               PROVE  maps'[x] = NoMaps
    BY DEF Vacated, NoMaps
  <2>1. x \in Proc /\ x # d /\ \A v \in Proc \ {t} : space[v] # x
    BY <1>1, <1>3 DEF Unused
  <2>2. CASE x = e
    <3>1. Alone(t)
      BY <2>1, <2>2 DEF Alone, e
    <3> QED
      BY <1>9, <2>1, <2>2, <3>1
  <2>3. CASE x # e
    <3>1. x \in Unused
      BY <2>1, <2>3 DEF Unused, e
    <3> QED
      BY <1>9, <2>1, <2>3, <3>1 DEF ShmInv, Vacated
  <2> QED
    BY <2>2, <2>3
<1>11. ASSUME ~inherited
       PROVE  Kept'
  <2>1. Attached /\ Apart /\ Referenced
    BY <1>11 DEF ShmInv, Kept
  <2>2. Attached'
    <3>1. \A t1 \in Proc : ~Live(t1)' => bits'[t1] = {}
      BY <1>1, <1>2, <1>3, <2>1, NoneApart DEF Attached, Live
    <3>2. \A q \in Seg : Exists(q)' => segs'[q].attach_count = Cardinality(Attachers(q))'
      BY <1>3, <1>7, <2>1 DEF Attached, Exists
    <3>3. \A q \in Seg : maps'[d][q] = None
      <4>1. maps'[d] = NoMaps
        <5>1. CASE d \in Unused
          <6>1. d # e /\ maps[d] = NoMaps
            BY <5>1 DEF ShmInv, Vacated, Unused, e
          <6> QED
            BY <1>2, <1>9, <6>1
        <5>2. CASE Alone(t) /\ d = e
          BY <1>2, <1>9, <5>2
        <5> QED
          BY <1>2, <5>1, <5>2
      <4> QED
        BY <4>1 DEF NoMaps
    <3>4. ASSUME NEW t1 \in Proc, NEW q \in bits[t1]
          PROVE  Exists(q)' /\ maps'[space'[t1]][q] \in {None, segs'[q].frame}
      <4>1. q \in Seg /\ Exists(q)' /\ Exists(q) /\ segs' = segs
        BY <1>1, <1>3, <2>1 DEF Attached, Exists
      <4>2. CASE t1 = t
        BY <1>1, <1>3, <3>3, <4>1, <4>2
      <4>3. CASE t1 # t
        <5>1. space'[t1] = space[t1] /\ space[t1] \in Proc
          BY <1>1, <1>3, <2>1, <4>3 DEF Attached, Live
        <5>2. Alone(t) => space[t1] # e
          BY <4>3 DEF Alone, e
        <5>3. maps'[space[t1]] = maps[space[t1]]
          BY <1>9, <5>1, <5>2
        <5> QED
          BY <2>1, <4>1, <5>1, <5>3 DEF Attached
      <4> QED
        BY <4>2, <4>3
    <3> QED
      BY <1>3, <3>1, <3>2, <3>4 DEF Attached
  <2>3. Apart'
    <3>1. \A x \in Proc, q \in Seg : maps'[x][q] \in {None, maps[x][q]}
      <4> SUFFICES ASSUME NEW x \in Proc, NEW q \in Seg
                   PROVE  maps'[x][q] \in {None, maps[x][q]}
        OBVIOUS
      <4>1. NoMaps[q] = None
        BY DEF NoMaps
      <4> QED
        BY <1>9, <4>1
    <3> QED
      BY <1>3, <2>1, <3>1 DEF Apart, Exists
  <2>4. Referenced'
    <3> SUFFICES ASSUME NEW f \in Frame
                 PROVE  /\ Enough(refs', f, Cardinality(Mappers(f))')
                        /\ FramesHeld(f)' => Enough(refs', f, Cardinality(Mappers(f))' + 1)
      BY DEF Referenced, Enough
    <3> DEFINE m == Cardinality(Mappers(f))
               k == Cardinality(Mappers(f)')
    <3>1. m \in Nat /\ k \in Nat /\ k + 1 \in Nat
      BY Sizes DEF Mappers
    <3>2. FramesHeld(f)' => FramesHeld(f)
      BY <1>3 DEF FramesHeld, Exists
    <3>3. Enough(refs, f, m) /\ (FramesHeld(f) => Enough(refs, f, m + 1))
      BY <2>1 DEF Referenced
    <3>4. CASE Alone(t)
      <4> DEFINE i == IF f \in fs THEN 1 ELSE 0
      <4>1. k + i <= m
        <5>1. k + (IF f \in {maps[e][s] : s \in Seg} THEN 1 ELSE 0) <= m
          BY <1>1, <1>2, <1>3, <3>4, MapClear
        <5>2. f \in fs <=> f \in {maps[e][s] : s \in Seg}
          BY NoneApart DEF fs
        <5> QED
          BY <5>1, <5>2
      <4> HIDE DEF m, k
      <4>2. Enough(refs, f, k + i) /\ (FramesHeld(f) => Enough(refs, f, k + 1 + i))
        BY <1>1, <3>1, <3>3, <4>1, LessEnough
      <4>3. Enough(refs', f, k) /\ (FramesHeld(f) => Enough(refs', f, k + 1))
        BY <1>1, <1>3, <3>1, <3>4, <4>2, FreedRefs
      <4> QED
        BY <3>2, <4>3 DEF k
    <3>5. CASE ~Alone(t)
      <4>1. Cardinality(Mappers(f))' = m
        BY <1>3, <3>5 DEF Mappers
      <4> QED
        BY <1>3, <3>2, <3>3, <3>5, <4>1
    <3> QED
      BY <3>4, <3>5
  <2> QED
    BY <2>2, <2>3, <2>4 DEF Kept
<1> QED
  BY <1>3, <1>6, <1>8, <1>10, <1>11 DEF ShmInv, Tallied

LEMMA ExitStep ==
  ASSUME ShmInv, NEW t \in Proc, ShmExit(t)
  PROVE  ShmInv'
<1> DEFINE e == space[t]
           fs == {maps[e][s] : s \in Seg} \ {None}
           gone == Reclaimed(bits[t])
           r == Freed(refs, gone)
<1>1. /\ segs \in [Seg -> SegRecord] /\ refs \in [Frame -> 0 .. PINNED]
      /\ maps \in [Proc -> [Seg -> Frame \cup {None}]]
      /\ bits \in [Proc -> SUBSET Seg] /\ space \in [Proc -> Proc \cup {None}]
  BY DEF ShmInv, Tallied, ShmTypeOK, SegRecord
<1>2. Live(t) /\ e \in Proc
  BY <1>1 DEF ShmExit, Live
<1>3. /\ segs' = [s \in Seg |-> IF s \in bits[t] /\ Exists(s) THEN Detached(segs[s]) ELSE segs[s]]
      /\ space' = [space EXCEPT ![t] = None] /\ bits' = [bits EXCEPT ![t] = {}]
      /\ maps' = IF Alone(t) THEN [maps EXCEPT ![e] = NoMaps] ELSE maps
      /\ refs' = IF Alone(t) THEN Freed(r, fs) ELSE r
      /\ UNCHANGED inherited
  BY DEF ShmExit, SpaceFreed
<1>4. \A f : f \in gone <=> \E s \in bits[t] : /\ Exists(s) /\ Detached(segs[s]) = FreeSeg
                                            /\ f = segs[s].frame
  BY DEF Reclaimed
<1> HIDE DEF e, fs, gone
<1>5. ASSUME NEW s \in Seg
      PROVE  /\ Attachers(s)' = Attachers(s) \ {t} /\ (t \in Attachers(s) <=> s \in bits[t])
             /\ Cardinality(Attachers(s))' \in Nat
             /\ Cardinality(Attachers(s)) = Cardinality(Attachers(s))' + IF s \in bits[t] THEN 1 ELSE 0
             /\ Cardinality(Attachers(s))' = 0 => Attachers(s)' = {}
  <2> DEFINE S == Attachers(s)
             T == Attachers(s) \ {t}
  <2>1. Attachers(s)' = T /\ (t \in S <=> s \in bits[t])
    BY <1>1, <1>2, <1>3 DEF Attachers, Live
  <2>2. S \in SUBSET Proc /\ T \in SUBSET Proc
    BY DEF Attachers
  <2>3. Cardinality(Attachers(s))' = Cardinality(T)
    BY <2>1
  <2>4. IsFiniteSet(S) /\ IsFiniteSet(T) /\ Cardinality(S) \in Nat /\ Cardinality(T) \in Nat
    BY <2>2, Sizes
  <2>5. t \in S => Cardinality(T) = Cardinality(S) - 1
    BY <2>4, OneLess
  <2>6. t \notin S => T = S
    OBVIOUS
  <2>7. Cardinality(T) = 0 => T = {}
    BY <2>4, FS_EmptySet
  <2> HIDE DEF S, T
  <2>8. Cardinality(S) = Cardinality(T) + IF s \in bits[t] THEN 1 ELSE 0
    BY <2>1, <2>4, <2>5, <2>6
  <2> QED
    BY <2>1, <2>3, <2>4, <2>7, <2>8 DEF S, T
<1>6. ASSUME NEW s \in Seg
      PROVE  /\ segs'[s] \in SegRecord /\ SegSound(segs'[s], Cardinality(Attachers(s))')
             /\ segs'[s].key # None =>
                  /\ Exists(s) /\ segs'[s].frame = segs[s].frame
                  /\ (segs[s].attach_count = Cardinality(Attachers(s)) =>
                        segs'[s].attach_count = Cardinality(Attachers(s))')
                  /\ s \in bits[t] => Detached(segs[s]) # FreeSeg
             /\ segs'[s].key = None /\ Exists(s)
                /\ segs[s].attach_count = Cardinality(Attachers(s)) => Attachers(s)' = {}
  <2>1. segs[s] \in SegRecord /\ SegSound(segs[s], Cardinality(Attachers(s)))
    BY <1>1 DEF ShmInv, Tallied, Accounts
  <2> DEFINE n == Cardinality(Attachers(s)')
  <2>2. n = Cardinality(Attachers(s))' /\ n \in Nat
    BY <1>5
  <2>3. CASE s \in bits[t] /\ Exists(s)
    <3>1. segs'[s] = Detached(segs[s]) /\ Cardinality(Attachers(s)) = n + 1
      BY <1>3, <1>5, <2>2, <2>3
    <3>2. n = 0 => Attachers(s)' = {}
      BY <1>5, <2>2
    <3> HIDE DEF n
    <3>3. SegSound(segs[s], n + 1)
      BY <2>1, <3>1
    <3>4. /\ segs'[s] \in SegRecord /\ SegSound(segs'[s], n)
          /\ \/ /\ segs'[s] = FreeSeg /\ FreeSeg.key = None
                /\ segs[s].attach_count = n + 1 => n = 0
             \/ /\ segs'[s] # FreeSeg /\ segs'[s].key = segs[s].key
                /\ segs'[s].frame = segs[s].frame
                /\ segs[s].attach_count = n + 1 => segs'[s].attach_count = n
      BY <2>1, <2>2, <2>3, <3>1, <3>3, DetachedSound DEF Exists
    <3>5. CASE segs'[s] = FreeSeg
      <4>1. segs'[s].key = None /\ (segs[s].attach_count = n + 1 => n = 0)
        BY <3>4, <3>5
      <4> QED
        BY <2>2, <3>1, <3>2, <3>4, <4>1
    <3>6. CASE segs'[s] # FreeSeg
      <4>1. /\ segs'[s].key = segs[s].key /\ segs[s].key # None
            /\ segs'[s].frame = segs[s].frame
            /\ segs[s].attach_count = n + 1 => segs'[s].attach_count = n
        BY <2>3, <3>4, <3>6 DEF Exists
      <4> QED
        BY <2>2, <2>3, <3>1, <3>4, <3>6, <4>1
    <3> QED
      BY <3>5, <3>6
  <2>4. CASE s \in bits[t] /\ ~Exists(s)
    <3>1. segs'[s] = FreeSeg /\ segs[s] = FreeSeg
      BY <1>3, <2>1, <2>4 DEF SegSound, Exists
    <3>2. SegSound(FreeSeg, n) /\ FreeSeg.key = None
      BY <2>2 DEF SegSound, FreeSeg
    <3> HIDE DEF n
    <3> QED
      BY <2>1, <2>2, <2>4, <3>1, <3>2
  <2>5. CASE s \notin bits[t]
    <3>1. segs'[s] = segs[s] /\ Cardinality(Attachers(s)) = n
      BY <1>3, <1>5, <2>2, <2>5
    <3> HIDE DEF n
    <3> QED
      BY <2>1, <2>2, <2>5, <3>1 DEF Exists
  <2> QED
    BY <2>3, <2>4, <2>5
<1>7. r \in [Frame -> 0 .. PINNED] /\ refs' \in [Frame -> 0 .. PINNED]
  BY <1>1, <1>3, FreedRefs
<1> HIDE DEF r
<1>8. ShmTypeOK'
  <2>1. segs' \in [Seg -> SegRecord]
    BY <1>3, <1>6
  <2>2. maps' \in [Proc -> [Seg -> Frame \cup {None}]]
    BY <1>1, <1>3 DEF NoMaps
  <2>3. bits' \in [Proc -> SUBSET Seg] /\ space' \in [Proc -> Proc \cup {None}]
    BY <1>1, <1>3
  <2> QED
    BY <1>3, <1>7, <2>1, <2>2, <2>3 DEF ShmInv, Tallied, ShmTypeOK, SegRecord
<1>9. Accounts'
  BY <1>6 DEF Accounts, SegSound, FreeSeg
<1>10. \A x \in Proc : /\ x # e => maps'[x] = maps[x]
                       /\ Alone(t) => maps'[e] = NoMaps
                       /\ ~Alone(t) => maps'[x] = maps[x]
  BY <1>1, <1>2, <1>3
<1>11. Vacated'
  <2> SUFFICES ASSUME NEW x \in Unused'
               PROVE  maps'[x] = NoMaps
    BY DEF Vacated, NoMaps
  <2>1. x \in Proc /\ \A v \in Proc \ {t} : space[v] # x
    BY <1>1, <1>3 DEF Unused
  <2>2. CASE x = e
    <3>1. Alone(t)
      BY <2>1, <2>2 DEF Alone, e
    <3> QED
      BY <1>10, <2>1, <2>2, <3>1
  <2>3. CASE x # e
    <3>1. x \in Unused
      BY <2>1, <2>3 DEF Unused, e
    <3> QED
      BY <1>10, <2>1, <2>3, <3>1 DEF ShmInv, Vacated
  <2> QED
    BY <2>2, <2>3
<1>12. ASSUME ~inherited
       PROVE  Kept'
  <2>1. Attached /\ Apart /\ Referenced
    BY <1>12 DEF ShmInv, Kept
  <2>2. \A q \in Seg : Exists(q)' => Exists(q) /\ segs'[q].frame = segs[q].frame
    BY <1>6 DEF Exists
  <2>3. Attached'
    <3>1. \A t1 \in Proc : ~Live(t1)' => bits'[t1] = {}
      BY <1>1, <1>2, <1>3, <2>1 DEF Attached, Live
    <3>2. \A q \in Seg : Exists(q)' => segs'[q].attach_count = Cardinality(Attachers(q))'
      BY <1>6, <2>1 DEF Attached, Exists
    <3>3. ASSUME NEW t1 \in Proc, NEW q \in bits'[t1]
          PROVE  Exists(q)' /\ maps'[space'[t1]][q] \in {None, segs'[q].frame}
      <4>1. t1 # t /\ q \in bits[t1] /\ q \in Seg /\ space'[t1] = space[t1]
        BY <1>1, <1>2, <1>3
      <4>2. Live(t1) /\ Exists(q) /\ space[t1] \in Proc
        BY <1>1, <2>1, <4>1 DEF Attached, Live
      <4>3. t1 \in Attachers(q)'
        BY <1>5, <4>1, <4>2 DEF Attachers
      <4>4. Exists(q)'
        BY <1>6, <2>1, <4>1, <4>2, <4>3 DEF Attached, Exists
      <4>5. Alone(t) => space[t1] # e
        BY <4>1 DEF Alone, e
      <4>6. maps'[space[t1]] = maps[space[t1]]
        BY <1>10, <4>2, <4>5
      <4> QED
        BY <2>1, <2>2, <4>1, <4>4, <4>6 DEF Attached
    <3> QED
      BY <3>1, <3>2, <3>3 DEF Attached
  <2>4. Apart'
    <3>1. \A x \in Proc, q \in Seg : maps'[x][q] \in {None, maps[x][q]}
      <4> SUFFICES ASSUME NEW x \in Proc, NEW q \in Seg
                   PROVE  maps'[x][q] \in {None, maps[x][q]}
        OBVIOUS
      <4>1. NoMaps[q] = None
        BY DEF NoMaps
      <4> QED
        BY <1>10, <4>1
    <3> QED
      BY <2>1, <2>2, <3>1 DEF Apart
  <2>5. Referenced'
    <3> SUFFICES ASSUME NEW f \in Frame
                 PROVE  /\ Enough(refs', f, Cardinality(Mappers(f))')
                        /\ FramesHeld(f)' => Enough(refs', f, Cardinality(Mappers(f))' + 1)
      BY DEF Referenced, Enough
    <3> DEFINE m == Cardinality(Mappers(f))
               k == Cardinality(Mappers(f)')
               a == IF f \in gone THEN 1 ELSE 0
               b == IF Alone(t) /\ f \in fs THEN 1 ELSE 0
               o == IF FramesHeld(f)' THEN 1 ELSE 0
               j == k + o
    <3>1. m \in Nat /\ k \in Nat /\ j \in Nat
      BY Sizes DEF Mappers
    <3>2. FramesHeld(f)' => FramesHeld(f)
      BY <2>2 DEF FramesHeld
    <3>3. f \in gone => FramesHeld(f) /\ ~FramesHeld(f)'
      <4> SUFFICES ASSUME f \in gone
                   PROVE  FramesHeld(f) /\ ~FramesHeld(f)'
        OBVIOUS
      <4>1. PICK s \in bits[t] : Exists(s) /\ Detached(segs[s]) = FreeSeg /\ f = segs[s].frame
        BY <1>4
      <4>2. s \in Seg /\ ~Exists(s)'
        BY <1>1, <1>6, <4>1 DEF Exists
      <4>3. \A q \in Seg : Exists(q)' /\ segs'[q].frame = f => q = s
        BY <2>1, <2>2, <4>1, <4>2 DEF Apart
      <4> QED
        BY <4>1, <4>2, <4>3 DEF FramesHeld
    <3>4. Enough(refs, f, m) /\ (FramesHeld(f) => Enough(refs, f, m + 1))
      BY <2>1 DEF Referenced
    <3>5. k + b <= m
      <4>1. CASE Alone(t)
        <5>1. k + (IF f \in {maps[e][s] : s \in Seg} THEN 1 ELSE 0) <= m
          BY <1>1, <1>2, <1>3, <4>1, MapClear
        <5>2. f \in fs <=> f \in {maps[e][s] : s \in Seg}
          BY NoneApart DEF fs
        <5> QED
          BY <4>1, <5>1, <5>2
      <4>2. CASE ~Alone(t)
        <5>1. Mappers(f)' = Mappers(f)
          BY <1>3, <4>2 DEF Mappers
        <5>2. k = m /\ b = 0
          BY <4>2, <5>1
        <5> HIDE DEF k, m, b
        <5> QED
          BY <3>1, <5>2
      <4> QED
        BY <4>1, <4>2
    <3> HIDE DEF m, k
    <3>6. /\ o + a = 0 \/ (o + a = 1 /\ FramesHeld(f))
          /\ o \in Nat /\ a \in Nat /\ b \in Nat
      BY <3>2, <3>3
    <3>7. Enough(refs, f, j + a + b)
      <4>1. j + a + b = k + b + (o + a) /\ j + a + b \in Nat
        <5> HIDE DEF o, a, b
        <5> QED
          BY <3>1, <3>6
      <4>2. CASE o + a = 0
        <5> HIDE DEF o, a, b, j
        <5> QED
          BY <1>1, <3>1, <3>4, <3>5, <3>6, <4>1, <4>2, LessEnough
      <4>3. CASE o + a = 1 /\ FramesHeld(f)
        <5> HIDE DEF o, a, b, j
        <5>1. j + a + b <= m + 1 /\ m + 1 \in Nat
          BY <3>1, <3>5, <3>6, <4>1, <4>3
        <5> QED
          BY <1>1, <3>4, <4>1, <4>3, <5>1, LessEnough
      <4> QED
        BY <3>6, <4>2, <4>3
    <3> HIDE DEF j
    <3>8. Enough(refs', f, j)
      <4>1. CASE Alone(t)
        <5>1. Enough(refs, f, j + (IF f \in gone THEN 1 ELSE 0) + (IF f \in fs THEN 1 ELSE 0))
          BY <3>7, <4>1
        <5> QED
          BY <1>1, <1>3, <3>1, <4>1, <5>1, FreedTwice DEF r
      <4>2. CASE ~Alone(t)
        <5>1. Enough(refs, f, IF f \in gone THEN j + 1 ELSE j)
          BY <3>1, <3>7, <4>2
        <5> QED
          BY <1>1, <1>3, <3>1, <4>2, <5>1, FreedRefs DEF r
      <4> QED
        BY <4>1, <4>2
    <3>9. Enough(refs', f, k)
      BY <1>7, <3>1, <3>8, LessEnough DEF j
    <3>10. FramesHeld(f)' => Enough(refs', f, k + 1)
      BY <3>8 DEF j
    <3> QED
      BY <3>9, <3>10 DEF k
  <2> QED
    BY <2>3, <2>4, <2>5 DEF Kept
<1> QED
  BY <1>3, <1>8, <1>9, <1>11, <1>12 DEF ShmInv, Tallied

-----------------------------------------------------------------------------
(* The theorems *)

LEMMA ShmInitially == ShmInit => ShmInv
<1> SUFFICES ASSUME ShmInit
             PROVE  ShmInv
  OBVIOUS
<1>1. FreeSeg \in SegRecord /\ FreeSeg.key = None /\ ~FreeSeg.destroyed /\ FreeSeg.attach_count = 0
  BY Sizes DEF FreeSeg, SegRecord
<1>2. ShmTypeOK
  <2>1. segs \in [Seg -> SegRecord]
    BY <1>1 DEF ShmInit
  <2>2. /\ refs \in [Frame -> 0 .. PINNED] /\ space \in [Proc -> Proc \cup {None}]
        /\ maps \in [Proc -> [Seg -> Frame \cup {None}]]
        /\ bits \in [Proc -> SUBSET Seg] /\ inherited \in BOOLEAN
    <3>1. Main \in Proc /\ 0 \in 0 .. PINNED
      BY ShmAssumption
    <3> QED
      BY <3>1 DEF ShmInit, NoMaps
  <2> QED
    BY <2>1, <2>2 DEF ShmTypeOK, SegRecord
<1>3. \A s \in Seg : segs[s] = FreeSeg /\ ~Exists(s) /\ Cardinality(Attachers(s)) = 0
  <2>1. \A s \in Seg : Attachers(s) = {}
    BY DEF ShmInit, Attachers
  <2> QED
    BY <1>1, <2>1, FS_EmptySet DEF ShmInit, Exists
<1>4. Accounts
  BY <1>1, <1>3 DEF Accounts, SegSound
<1>5. Vacated
  BY DEF ShmInit, Vacated, Unused
<1>6. Attached /\ Apart
  BY <1>3, NoneApart DEF ShmInit, Attached, Apart, NoMaps
<1>7. Referenced
  <2>1. \A f \in Frame : Mappers(f) = {} /\ ~FramesHeld(f)
    BY <1>3, NoneApart DEF ShmInit, Mappers, NoMaps, FramesHeld
  <2> QED
    BY <2>1, FS_EmptySet DEF ShmInit, Referenced, Enough
<1> QED
  BY <1>2, <1>4, <1>5, <1>6, <1>7 DEF ShmInv, Tallied, Kept

LEMMA ShmStep == ShmInv /\ [ShmNext]_shmVars => ShmInv'
<1> SUFFICES ASSUME ShmInv, [ShmNext]_shmVars
             PROVE  ShmInv'
  OBVIOUS
<1>1. CASE UNCHANGED shmVars
  BY <1>1 DEF shmVars, ShmInv, Tallied, ShmTypeOK, Accounts, SegSound, FreeSeg, Vacated, NoMaps,
              Unused, Kept, Attached, Apart, Referenced, Enough, Attachers, Mappers, FramesHeld,
              Exists, Live
<1>2. CASE ShmNext
  <2>1. PICK t \in Proc :
          \/ \E k \in ShmKey : shm_get(t, k)
          \/ \E s \in Seg : shm_at(t, s) \/ shm_dt(t, s) \/ shm_ctl(t, s)
          \/ task_fork(t) \/ thread_create(t) \/ task_exec(t) \/ ShmExit(t)
    BY <1>2 DEF ShmNext
  <2> QED
    BY <2>1, GetStep, AtStep, DtStep, CtlStep, ForkStep, ThreadStep, ExecStep, ExitStep
<1> QED
  BY <1>1, <1>2

LEMMA ShmInvariant == ShmSpec => []ShmInv
<1> QED
  BY ShmInitially, ShmStep, PTL DEF ShmSpec

\* Every field keeps its type; attach_count never exceeds the number of slots, so
\* that no attach overflows it.
THEOREM ShmTypes == ShmSpec => []ShmTypeOK
<1>1. ShmInv => ShmTypeOK
  BY DEF ShmInv, Tallied
<1> QED
  BY <1>1, ShmInvariant, PTL

\* shm_dt and shm_task_exit: a segment that IPC_RMID marked is gone when the last
\* task that has it attached detaches or dies, whatever forks, threads and execs did.
THEOREM DestroyedGo == ShmSpec => []SegmentReclaimed
<1>1. ShmInv => SegmentReclaimed
  <2> SUFFICES ASSUME ShmInv, NEW s \in Seg, segs[s].destroyed
               PROVE  \E t \in Proc : Live(t) /\ s \in bits[t]
    BY DEF SegmentReclaimed
  <2>1. SegSound(segs[s], Cardinality(Attachers(s))) /\ segs[s] \in SegRecord
    BY DEF ShmInv, Tallied, Accounts, ShmTypeOK, SegRecord
  <2>2. IsFiniteSet(Attachers(s)) /\ Cardinality(Attachers(s)) \in Nat
    BY Sizes DEF Attachers
  <2>3. Cardinality(Attachers(s)) # 0
    <3>1. segs[s].attach_count > 0 /\ segs[s].attach_count \in Nat
          /\ segs[s].attach_count <= Cardinality(Attachers(s))
      BY <2>1, SegFields DEF SegSound
    <3> QED
      BY <2>2, <3>1
  <2> QED
    BY <2>2, <2>3, FS_EmptySet DEF Attachers
<1> QED
  BY <1>1, ShmInvariant, PTL

\* shm_get, shm_at and the frees: until a task with attachments forks, a frame that is
\* mapped or a segment's is counted, hence not handed out, and is no other segment's.
THEOREM NoFrameShared == ShmSpec => []FramesApart
<1>1. ShmInv => FramesApart
  <2> SUFFICES ASSUME ShmInv, ~inherited
               PROVE  /\ \A s \in Seg : Exists(s) => refs[segs[s].frame] > 0
                      /\ \A d \in Proc, s \in Seg : maps[d][s] # None =>
                           /\ refs[maps[d][s]] > 0
                           /\ \A q \in Seg : Exists(q) /\ segs[q].frame = maps[d][s] => q = s
                      /\ \A s, q \in Seg :
                           Exists(s) /\ Exists(q) /\ segs[s].frame = segs[q].frame => s = q
    BY DEF FramesApart
  <2>1. Apart /\ Referenced
    BY DEF ShmInv, Kept
  <2>2. \A f \in Frame : refs[f] \in 0 .. PINNED /\ Cardinality(Mappers(f)) \in Nat
                        /\ IsFiniteSet(Mappers(f))
    BY Sizes DEF ShmInv, Tallied, ShmTypeOK, Mappers
  <2>3. ASSUME NEW s \in Seg, Exists(s)
        PROVE  refs[segs[s].frame] > 0
    <3> DEFINE f == segs[s].frame
    <3>1. f \in Frame /\ FramesHeld(f)
      BY <2>3 DEF ShmInv, Tallied, Accounts, SegSound, Exists, FramesHeld
    <3> HIDE DEF f
    <3>2. refs[f] = PINNED \/ refs[f] >= Cardinality(Mappers(f)) + 1
      BY <2>1, <3>1 DEF Referenced, Enough
    <3>3. refs[f] > 0
      BY <2>2, <3>1, <3>2, ShmAssumption
    <3> QED
      BY <3>3 DEF f
  <2>4. ASSUME NEW d \in Proc, NEW s \in Seg, maps[d][s] # None
        PROVE  refs[maps[d][s]] > 0
    <3> DEFINE f == maps[d][s]
    <3>1. f \in Frame /\ d \in Mappers(f)
      BY <2>4 DEF ShmInv, Tallied, ShmTypeOK, Mappers
    <3> HIDE DEF f
    <3>2. Cardinality(Mappers(f)) # 0
      BY <2>2, <3>1, FS_EmptySet
    <3>3. refs[f] > 0
      BY <2>1, <2>2, <3>1, <3>2, ShmAssumption DEF Referenced, Enough
    <3> QED
      BY <3>3 DEF f
  <2> QED
    BY <2>1, <2>3, <2>4 DEF Apart
<1> QED
  BY <1>1, ShmInvariant, PTL

-----------------------------------------------------------------------------
(* The page directories                                                      *)

\* The slot that a search takes is one of those that fit.
LEMMA FirstIn ==
  ASSUME NEW S \in SUBSET Nat, S # {}
  PROVE  First(S) \in S
<1> DEFINE R == OpToRel(<, Nat)
<1>1. \A x, y \in Nat : x < y => <<x, y>> \in R
  BY DEF OpToRel
<1>2. PICK x \in S : \A y \in S : ~(<<y, x>> \in R)
  <2>1. IsWellFoundedOn(R, Nat)
    BY NatLessThanWellFounded
  <2> HIDE DEF R
  <2> QED
    BY <2>1, WFMin
<1> HIDE DEF R
<1>3. \A y \in S : x <= y
  <2> TAKE y \in S
  <2>1. x \in Nat /\ y \in Nat
    OBVIOUS
  <2>2. ~(y < x)
    BY <1>1, <1>2, <2>1, Zenon
  <2> QED
    BY <2>1, <2>2
<1> QED
  BY <1>3 DEF First

-----------------------------------------------------------------------------
(* The invariant.                                                           *)

Lives(t) == ostate[t] = "live"

\* A live task has a directory, any other none.
Alive == \A t \in Owner : pdir[t] # None <=> Lives(t)

\* No task is current on two cores.
OneCore == \A c, d \in Cpu : current[c] = current[d] /\ current[c] # None => c = d

\* Whatever owns a directory owns an allocated one ...
Allocated ==
  /\ \A t \in Owner : Lives(t) => pdir[t] \in used \ lost
  /\ \A t \in Owner : img[t] # None => img[t] \in used \ lost
  /\ \A i \in Index : deferred[i] # None => deferred[i].pd \in used \ lost

\* ... and nothing of another kind does.
DirsApart ==
  /\ \A t, u \in Owner : img[u] # None => pdir[t] # img[u]
  /\ \A t \in Owner, i \in Index : deferred[i] # None
       => deferred[i].pd # pdir[t] /\ deferred[i].pd # img[t]

\* No image is built by two tasks, no directory is in the queue twice.
Once ==
  /\ \A t, u \in Owner : img[t] # None /\ img[t] = img[u] => t = u
  /\ \A i, j \in Index : deferred[i] # None /\ deferred[j] # None
                         /\ deferred[i].pd = deferred[j].pd => i = j

\* What is allocated is owned, or lost.
Accounted ==
  /\ lost \subseteq used
  /\ \A d \in used \ lost : \/ \E t \in Owner : Lives(t) /\ pdir[t] = d
                            \/ \E t \in Owner : img[t] = d
                            \/ \E i \in Index : deferred[i] # None /\ deferred[i].pd = d

\* What a system call has read is still so, if its caller lives.
CoresOK == \A c \in Cpu :
  /\ prog[c].at # "run" => current[c] # None
  /\ prog[c].at = "run" => prog[c].pd = None
  /\ prog[c].at = "exec" => img[current[c]] # None
  /\ prog[c].at = "thread" /\ Lives(current[c]) => prog[c].pd = pdir[current[c]]
  /\ prog[c].at = "exec" /\ Lives(current[c]) /\ prog[c].pd # None
       => prog[c].pd = pdir[current[c]] /\ Sharers(current[c], prog[c].pd) = {}

\* The directory d waits in the queue for the core that runs t, or is lost.
Waits(d, t) == \/ d \in lost
               \/ \E i \in Index : deferred[i] # None /\ deferred[i].pd = d /\ deferred[i].slot = t

\* What core c walks
WalksOn(c) ==
  IF current[c] = None THEN cr3[c] = Kernel
  ELSE IF prog[c].at = "exec" THEN cr3[c] = img[current[c]]
  ELSE IF Lives(current[c]) THEN cr3[c] = pdir[current[c]]
  ELSE Waits(cr3[c], current[c])

Walks == \A c \in Cpu \ unseen : WalksOn(c)

Good == Alive /\ OneCore /\ Allocated /\ DirsApart /\ Once /\ Accounted /\ CoresOK /\ Walks

PageDirsInv == PageDirsTypeOK /\ (~raced => Good)

USE PageDirsAssumption, TablesAssumption

-----------------------------------------------------------------------------
(* What may happen to a free slot.                                          *)

\* A free slot that no core names is taken, whatever else its claim does.
LEMMA Claimed ==
  ASSUME PageDirsTypeOK, NEW d, Claim(d)
  PROVE  \E n \in Owner :
           /\ n \in Claimable
           /\ ostate' = [ostate EXCEPT ![n] = "live"]
           /\ pdir' = [pdir EXCEPT ![n] = d]
<1>1. Claimable \subseteq Nat /\ Claimable \subseteq Owner
  BY DEF Claimable
<1>2. First(Claimable) \in Claimable
  BY <1>1, FirstIn DEF Claim
<1> QED
  BY <1>1, <1>2 DEF Claim

\* The frame of a new directory is one that is not in use.
LEMMA FreshFrame ==
  ASSUME used # Dir, PageDirsTypeOK
  PROVE  First(Dir \ used) \in Dir \ used
<1>1. Dir \ used \in SUBSET Nat /\ Dir \ used # {}
  BY DEF PageDirsTypeOK
<1> QED
  BY <1>1, FirstIn

LEMMA NoneNoDir == None \notin Dir
<1>1. \A d \in Dir : d \in Int
  OBVIOUS
<1> QED
  BY <1>1

LEMMA NoneNoOwner == None \notin Owner
<1>1. \A t \in Owner : t \in Int
  OBVIOUS
<1> QED
  BY <1>1

\* A child, or a program the kernel starts, gets a directory of its own.
LEMMA ChildStep ==
  ASSUME PageDirsTypeOK, Good, used # Dir, Claim(First(Dir \ used)),
         used' = used \cup {First(Dir \ used)},
         UNCHANGED <<current, cr3, deferred, img, prog, lost, unseen, raced>>
  PROVE  PageDirsTypeOK' /\ Good'
<1> DEFINE d == First(Dir \ used)
<1>1. d \in Dir \ used
  BY FreshFrame
<1>2. PICK n \in Claimable : /\ n \in Owner
                             /\ ostate' = [ostate EXCEPT ![n] = "live"]
                             /\ pdir' = [pdir EXCEPT ![n] = d]
  BY <1>1, Claimed
<1>3. used' = used \cup {d}
  OBVIOUS
<1> HIDE DEF d
<1>4. ostate[n] = "free" /\ \A c \in Cpu : current[c] # n
  BY <1>2 DEF Claimable, Names
<1>5. PageDirsTypeOK'
  BY <1>1, <1>2, <1>3 DEF PageDirsTypeOK
<1>6. Alive'
  BY <1>1, <1>2 DEF PageDirsTypeOK, Good, Alive, Lives
<1>7. OneCore'
  BY DEF Good, OneCore
<1>8. Allocated' /\ DirsApart'
  <2>1. \A t \in Owner : pdir'[t] = IF t = n THEN d ELSE pdir[t]
    BY <1>2 DEF PageDirsTypeOK
  <2>2. \A t \in Owner : Lives(t)' => t = n \/ Lives(t)
    BY <1>2 DEF PageDirsTypeOK, Lives
  <2>3. Allocated'
    BY <1>1, <1>3, <2>1, <2>2 DEF Good, Allocated, Accounted
  <2>4. /\ \A t \in Owner : img[t] # d
        /\ \A i \in Index : deferred[i] # None => deferred[i].pd # d
    BY <1>1 DEF Good, Allocated, PageDirsTypeOK
  <2>5. DirsApart'
    BY <1>1, <2>1, <2>4 DEF Good, DirsApart
  <2> QED
    BY <2>3, <2>5
<1>9. Once'
  BY DEF Good, Once
<1>10. Accounted'
  <2>1. \A t \in Owner : Lives(t) => Lives(t)' /\ pdir'[t] = pdir[t]
    BY <1>2, <1>4 DEF PageDirsTypeOK, Lives
  <2>2. Lives(n)' /\ pdir'[n] = d
    BY <1>2 DEF PageDirsTypeOK, Lives
  <2>3. Accounted
    BY DEF Good
  <2>4. n \in Owner /\ UNCHANGED <<deferred, img, lost>>
    BY <1>2
  <2> QED
    BY <1>3, <2>1, <2>2, <2>3, <2>4 DEF Accounted
<1>11. CoresOK'
  <2> SUFFICES ASSUME NEW c \in Cpu, prog[c].at = "exec", Lives(current[c]), prog[c].pd # None
               PROVE  prog[c].pd = pdir'[current[c]] /\ Sharers(current[c], prog[c].pd)' = {}
    BY <1>2, <1>4 DEF Good, CoresOK, PageDirsTypeOK, Lives
  <2>1. current[c] \in Owner \ {n} /\ prog[c].pd = pdir[current[c]]
        /\ Sharers(current[c], prog[c].pd) = {}
    BY <1>4 DEF Good, CoresOK, PageDirsTypeOK
  <2>2. prog[c].pd # d
    BY <1>1, <2>1 DEF Good, Allocated
  <2> QED
    BY <1>2, <2>1, <2>2 DEF Sharers, PageDirsTypeOK
<1>12. Walks'
  <2> SUFFICES ASSUME NEW c \in Cpu \ unseen
               PROVE  WalksOn(c)'
    BY DEF Walks
  <2>1. WalksOn(c) /\ current[c] \in (Owner \ {n}) \cup {None}
    BY <1>4 DEF Good, Walks, PageDirsTypeOK
  <2>2. current[c] # None => /\ ostate'[current[c]] = ostate[current[c]]
                            /\ pdir'[current[c]] = pdir[current[c]]
    BY <1>2, <2>1 DEF PageDirsTypeOK
  <2> QED
    BY <2>1, <2>2 DEF WalksOn, Waits, Lives
<1> QED
  BY <1>5, <1>6, <1>7, <1>8, <1>9, <1>10, <1>11, <1>12 DEF Good

-----------------------------------------------------------------------------
(* One lemma per action.                                                    *)

\* A core that leaves a dead task loses the image it was building.
LEMMA TickStep ==
  ASSUME PageDirsTypeOK, Good, NEW c \in Cpu, NEW n \in Owner \cup {None}, Tick(c, n)
  PROVE  PageDirsTypeOK' /\ Good'
<1> DEFINE gone == {t \in Owner : current[c] = t /\ ostate[t] # "live"}
<1>1. /\ lost' = lost \cup ({img[t] : t \in gone} \ {None})
      /\ img' = [t \in Owner |-> IF t \in gone THEN None ELSE img[t]]
      /\ current' = [current EXCEPT ![c] = n]
      /\ cr3' = [cr3 EXCEPT ![c] = IF n = None \/ pdir[n] = None THEN Kernel ELSE pdir[n]]
      /\ unseen' = unseen \ {c}
      /\ UNCHANGED <<ostate, pdir, used, deferred, prog, raced>>
  BY DEF Tick
<1>2. \A t \in Owner : t \in gone <=> current[c] = t /\ ~Lives(t)
  BY DEF Lives
<1> HIDE DEF gone
<1>3. prog[c] = NoCall /\ (n # None => Lives(n) /\ \A d \in Cpu : current[d] = n => d = c)
  BY DEF Tick, Lives, Names
<1>4. \A t \in Owner : img'[t] = IF t \in gone THEN None ELSE img[t]
  BY <1>1
<1>5. \A d \in lost' : d \in lost \/ \E t \in gone : t \in Owner /\ img[t] = d /\ d # None
  BY <1>1, <1>2, gone \subseteq Owner DEF gone
<1>6. \A d : d \in lost => d \in lost'
  BY <1>1
<1>7. \A d \in Cpu : current'[d] = IF d = c THEN n ELSE current[d]
  BY <1>1 DEF PageDirsTypeOK
<1>8. PageDirsTypeOK'
  <2>1. img' \in [Owner -> Dir \cup {None}]
    BY <1>1 DEF PageDirsTypeOK
  <2>3. \A t \in gone : img[t] \in Dir \cup {None}
    BY DEF PageDirsTypeOK, gone
  <2>4. ASSUME NEW x \in lost' PROVE  x \in Dir
    BY <1>5, <2>3 DEF PageDirsTypeOK
  <2>2. cr3' \in [Cpu -> Dir \cup {Kernel}]
    BY <1>1 DEF PageDirsTypeOK
  <2> QED
    BY <1>1, <2>1, <2>2, <2>4 DEF PageDirsTypeOK
<1>9. Alive' /\ OneCore'
  BY <1>1, <1>3, <1>7 DEF Good, Alive, OneCore, Lives
<1>10. Allocated'
  <2> USE DEF Good
  <2>1. \A t \in Owner : Lives(t) => pdir[t] \notin lost'
    BY <1>5 DEF Allocated, DirsApart
  <2>2. ASSUME NEW t \in Owner, img'[t] # None
        PROVE  img'[t] \notin lost'
    <3>1. t \notin gone /\ img'[t] = img[t]
      BY <1>4, <2>2
    <3>2. \A u \in gone : u \in Owner /\ (img[u] = img[t] => u = t)
      BY <2>2, <3>1 DEF Once, gone
    <3> QED
      BY <1>5, <2>2, <3>1, <3>2 DEF Allocated
  <2>3. ASSUME NEW i \in Index, deferred[i] # None
        PROVE  deferred[i].pd \notin lost'
    BY <1>5, <2>3 DEF Allocated, DirsApart
  <2> QED
    BY <1>1, <1>4, <2>1, <2>2, <2>3 DEF Good, Allocated, Lives
<1>11. DirsApart' /\ Once'
  <2>1. \A t \in Owner : img'[t] = img[t] \/ img'[t] = None
    BY <1>4
  <2>2. DirsApart'
    <3>1. \A i \in Index : deferred[i] # None => deferred[i].pd # None
      <4>1. \A i \in Index : deferred[i] # None => deferred[i].pd \in Dir
        BY DEF Good, Allocated, PageDirsTypeOK
      <4> QED
        BY <4>1, NoneNoDir
    <3> QED
      BY <1>1, <2>1, <3>1 DEF Good, DirsApart
  <2> QED
    BY <1>1, <2>1, <2>2 DEF Good, Once
<1>12. Accounted'
  <2>1. lost' \subseteq used'
    <3>1. lost \subseteq used /\ Allocated
      BY DEF Good, Accounted
    <3> QED
      BY <1>1, <1>5, <3>1 DEF Allocated
  <2>2. \A t \in gone : img[t] # None => img[t] \in lost'
    BY <1>1
  <2>3. ASSUME NEW d \in used' \ lost'
        PROVE  \/ \E t \in Owner : Lives(t)' /\ pdir'[t] = d
               \/ \E t \in Owner : img'[t] = d
               \/ \E i \in Index : deferred'[i] # None /\ (deferred'[i]).pd = d
    <3>1. d \in used \ lost /\ d # None
      BY <1>1 DEF PageDirsTypeOK
    <3>2. CASE \E t \in Owner : img[t] = d
      BY <1>4, <2>2, <3>1, <3>2
    <3> QED
      BY <1>1, <3>1, <3>2 DEF Good, Accounted, Lives
  <2> QED
    BY <2>1, <2>3 DEF Accounted
<1>13. \A d \in Cpu : d # c /\ current[d] # None => current[d] \notin gone
  BY <1>2 DEF Good, OneCore, PageDirsTypeOK
<1>14. CoresOK'
  <2> SUFFICES ASSUME NEW d \in Cpu
               PROVE  /\ prog[d].at # "run" => current'[d] # None
                      /\ prog[d].at = "run" => prog[d].pd = None
                      /\ prog[d].at = "exec" => img'[current'[d]] # None
                      /\ prog[d].at = "thread" /\ Lives(current'[d])
                           => prog[d].pd = pdir[current'[d]]
                      /\ prog[d].at = "exec" /\ Lives(current'[d]) /\ prog[d].pd # None
                         => prog[d].pd = pdir[current'[d]] /\ Sharers(current'[d], prog[d].pd) = {}
    BY <1>1 DEF CoresOK, Lives, Sharers
  <2>1. CASE d = c
    BY <1>3, <2>1 DEF NoCall
  <2>2. CASE d # c
    <3>1. current'[d] = current[d]
      BY <1>7, <2>2
    <3>2. current[d] # None => img'[current[d]] = img[current[d]]
      BY <1>4, <1>13, <2>2 DEF PageDirsTypeOK
    <3> QED
      BY <3>1, <3>2 DEF Good, CoresOK
  <2> QED
    BY <2>1, <2>2
<1>15. Walks'
  <2> SUFFICES ASSUME NEW d \in Cpu \ unseen'
               PROVE  WalksOn(d)'
    BY DEF Walks
  <2>1. CASE d = c
    BY <1>1, <1>3, <1>7, <2>1 DEF WalksOn, NoCall, Lives, PageDirsTypeOK, Good, Alive
  <2>2. CASE d # c
    <3>1. WalksOn(d) /\ current'[d] = current[d] /\ cr3'[d] = cr3[d]
      BY <1>1, <1>7, <2>2 DEF Good, Walks, PageDirsTypeOK
    <3>2. current[d] # None => img'[current[d]] = img[current[d]]
      BY <1>4, <1>13, <2>2 DEF PageDirsTypeOK
    <3> QED
      BY <1>1, <1>6, <3>1, <3>2 DEF WalksOn, Waits, Lives
  <2> QED
    BY <2>1, <2>2
<1> QED
  BY <1>8, <1>9, <1>10, <1>11, <1>12, <1>14, <1>15 DEF Good

LEMMA ReapStep ==
  ASSUME PageDirsTypeOK, Good, NEW t \in Owner, Reap(t)
  PROVE  PageDirsTypeOK' /\ Good'
<1>1. \A u \in Owner : Lives(u)' <=> Lives(u)
  BY DEF Reap, Lives, PageDirsTypeOK
<1>2. UNCHANGED <<pdir, current, cr3, used, deferred, img, prog, lost, unseen, raced>>
  BY DEF Reap
<1>3. PageDirsTypeOK'
  BY DEF Reap, PageDirsTypeOK
<1>4. Alive' /\ OneCore' /\ Allocated' /\ DirsApart' /\ Once'
  BY <1>1, <1>2 DEF Good, Alive, OneCore, Allocated, DirsApart, Once
<1>5. Accounted'
  BY <1>1, <1>2 DEF Good, Accounted
<1>6. CoresOK'
  <2>1. ASSUME NEW u \in Owner, NEW d \in Dir, Sharers(u, d) = {}
        PROVE  Sharers(u, d)' = {}
    BY <2>1 DEF Reap, Sharers, PageDirsTypeOK
  <2>2. \A c \in Cpu : /\ current[c] # None => current[c] \in Owner
                       /\ prog[c].pd # None => prog[c].pd \in Dir
    BY DEF PageDirsTypeOK
  <2> QED
    BY <1>1, <1>2, <2>1, <2>2 DEF Good, CoresOK
<1>7. Walks'
  <2>1. \A c \in Cpu : current[c] # None => current[c] \in Owner
    BY DEF PageDirsTypeOK
  <2> QED
    BY <1>1, <1>2, <2>1 DEF Good, Walks, WalksOn, Waits
<1> QED
  BY <1>3, <1>4, <1>5, <1>6, <1>7 DEF Good

LEMMA RetireStep ==
  ASSUME PageDirsTypeOK, Good, task_reap_zombies
  PROVE  PageDirsTypeOK' /\ Good'
<1>1. \A i \in Index : deferred'[i] = IF i \in Retirable THEN None ELSE deferred[i]
  BY DEF task_reap_zombies
<1>2. /\ \A d \in used' : d \in used /\ \A i \in Retirable : deferred[i].pd # d
      /\ \A d \in used \ used' : \E i \in Retirable : deferred[i].pd = d
  BY DEF task_reap_zombies
<1>3. UNCHANGED <<ostate, pdir, current, cr3, img, prog, lost, unseen, raced>>
  BY DEF task_reap_zombies
<1>4. Retirable \subseteq Index /\ \A i \in Retirable : deferred[i] # None
  BY DEF Retirable
<1>5. PageDirsTypeOK'
  BY DEF task_reap_zombies, PageDirsTypeOK
<1>6. Alive' /\ OneCore' /\ CoresOK'
  BY <1>3 DEF Good, Alive, OneCore, CoresOK, Lives, Sharers
<1>7. Allocated'
  <2> \A d : d \in used /\ (\A i \in Index : deferred[i] # None => deferred[i].pd # d) => d \in used'
    BY <1>2, <1>4
  <2>1. \A t \in Owner : Lives(t) => pdir[t] \in used' \ lost
    <3> SUFFICES ASSUME NEW t \in Owner, Lives(t)
                 PROVE  pdir[t] \in used' \ lost
      OBVIOUS
    <3>1. pdir[t] \in used \ lost
      BY DEF Good, Allocated
    <3>2. \A i \in Index : deferred[i] # None => deferred[i].pd # pdir[t]
      BY DEF Good, DirsApart
    <3> QED
      BY <3>1, <3>2
  <2>2. \A t \in Owner : img[t] # None => img[t] \in used' \ lost
    <3> SUFFICES ASSUME NEW t \in Owner, img[t] # None
                 PROVE  img[t] \in used' \ lost
      OBVIOUS
    <3>1. img[t] \in used \ lost
      BY DEF Good, Allocated
    <3>2. \A i \in Index : deferred[i] # None => deferred[i].pd # img[t]
      BY DEF Good, DirsApart
    <3> QED
      BY <3>1, <3>2
  <2>3. \A i \in Index \ Retirable : deferred[i] # None => deferred[i].pd \in used' \ lost
    BY <1>2, <1>4 DEF Good, Allocated, Once
  <2> QED
    BY <1>1, <1>3, <2>1, <2>2, <2>3 DEF Allocated, Lives
<1>8. DirsApart' /\ Once'
  BY <1>1, <1>3 DEF Good, DirsApart, Once
<1>9. Accounted'
  <2>1. lost' \subseteq used'
    BY <1>2, <1>3, <1>4 DEF Good, Accounted, Allocated
  <2> QED
    BY <1>1, <1>2, <1>3, <2>1 DEF Good, Accounted, Lives
<1>10. Walks'
  <2>1. ASSUME NEW c \in Cpu, NEW i \in Index, deferred[i] # None, deferred[i].slot = current[c]
        PROVE  i \notin Retirable
    BY <2>1 DEF Retirable, Claimable, Names
  <2> QED
    BY <1>1, <1>3, <2>1 DEF Good, Walks, WalksOn, Waits, Lives
<1> QED
  BY <1>5, <1>6, <1>7, <1>8, <1>9, <1>10 DEF Good

\* A task that dies leaves its directory to the sharers, frees it, or leaves it to
\* the queue.
LEMMA TerminateStep ==
  ASSUME PageDirsTypeOK, Good, NEW c \in Cpu, NEW t \in Owner, terminate_task(c, t)
  PROVE  PageDirsTypeOK' /\ Good'
<1> DEFINE d == pdir[t]
<1>1. Lives(t) /\ d \in Dir /\ d \in used \ lost
  BY NoneNoDir DEF terminate_task, Lives, Good, Alive, Allocated, PageDirsTypeOK
<1>2. UNCHANGED <<current, prog, raced>>
  BY DEF terminate_task
<1>3. \A u \in Owner : /\ Lives(u)' <=> Lives(u) /\ u # t
                       /\ pdir'[u] = IF u = t THEN None ELSE pdir[u]
  BY DEF terminate_task, PageDirsTypeOK, Lives
<1>4. \A u \in Owner : img'[u] = IF u = t /\ Names(t) = {} THEN None ELSE img[u]
  BY DEF terminate_task, PageDirsTypeOK
<1>5. \A x : x \in used' <=> x \in used /\ ~(Retires(t) /\ x = d)
  BY DEF terminate_task, task_cleanup
<1>6. \A x : x \in lost' <=> \/ x \in lost
                             \/ x = d /\ Defers(t) /\ Room = {}
                             \/ x = img[t] /\ x # None /\ Names(t) = {}
  BY DEF terminate_task
<1>7. \A e \in Cpu : cr3'[e] = cr3[e] \/ (Retires(t) /\ cr3[e] = d)
  BY DEF terminate_task, task_cleanup, PageDirsTypeOK
<1>8. \A k \in Owner \ {t} : Lives(k) /\ pdir[k] = d <=> k \in Sharers(t, d)
  BY <1>1, NoneNoDir DEF Sharers, Good, Alive, Lives
<1>9. \/ deferred' = deferred /\ ~(Defers(t) /\ Room # {})
      \/ /\ Defers(t)
         /\ \E i \in Index : /\ deferred[i] = None
                             /\ deferred' = [deferred EXCEPT ![i] = [pd |-> d, slot |-> t]]
  <2>1. Room \subseteq Nat
    BY DEF Room, Index
  <2>2. Room # {} => First(Room) \in Room
    BY <2>1, FirstIn
  <2> QED
    BY <2>2 DEF terminate_task, task_cleanup, Room
<1>10. \A i \in Index : \/ deferred'[i] = deferred[i]
                        \/ /\ Defers(t) /\ deferred[i] = None
                           /\ (deferred'[i]).pd = d /\ (deferred'[i]).slot = t
  BY <1>9 DEF PageDirsTypeOK
<1>11. \A i, j \in Index : deferred'[i] = deferred[i] \/ deferred'[j] = deferred[j] \/ i = j
  BY <1>9 DEF PageDirsTypeOK
<1>12. Defers(t) => d \in lost' \/ \E i \in Index : /\ deferred'[i] # None
                                                    /\ (deferred'[i]).pd = d
                                                    /\ (deferred'[i]).slot = t
  <2>1. SUFFICES ASSUME Defers(t), Room # {}
                 PROVE  \E i \in Index : /\ deferred'[i] # None
                                         /\ (deferred'[i]).pd = d
                                         /\ (deferred'[i]).slot = t
    BY <1>6
  <2>2. PICK i \in Index : deferred' = [deferred EXCEPT ![i] = [pd |-> d, slot |-> t]]
    BY <1>9, <2>1
  <2>3. deferred'[i] = [pd |-> d, slot |-> t]
    BY <2>2 DEF PageDirsTypeOK
  <2>4. deferred'[i] # None
    BY <1>1, <2>3
  <2> QED
    BY <2>3, <2>4
<1>13. \A u \in Owner : /\ img[u] # d
                        /\ img[u] # None => img[u] \in Dir /\ img[u] \in used \ lost
  BY <1>1, NoneNoDir DEF Good, DirsApart, Allocated, PageDirsTypeOK
<1>14. \A i \in Index : deferred[i] # None => deferred[i].pd # d /\ deferred[i].pd # None
  BY <1>1, NoneNoDir DEF Good, DirsApart, Allocated, PageDirsTypeOK
<1>15. PageDirsTypeOK'
  <2>1. used' \subseteq Dir /\ lost' \subseteq Dir
    <3>1. img[t] \in Dir \cup {None}
      BY DEF PageDirsTypeOK
    <3> QED
      BY <1>1, <3>1 DEF PageDirsTypeOK, terminate_task, task_cleanup
  <2>2. deferred' \in [Index -> [pd : Dir, slot : Owner] \cup {None}]
    BY <1>1, <1>9 DEF PageDirsTypeOK
  <2>3. ostate' \in [Owner -> {"free", "zombie", "live"}] /\ pdir' \in [Owner -> Dir \cup {None}]
        /\ img' \in [Owner -> Dir \cup {None}]
    BY DEF terminate_task, PageDirsTypeOK
  <2>4. cr3' \in [Cpu -> Dir \cup {Kernel}] /\ unseen' \subseteq Cpu
    BY DEF terminate_task, task_cleanup, PageDirsTypeOK, Names
  <2> QED
    BY <1>2, <2>1, <2>2, <2>3, <2>4 DEF PageDirsTypeOK
<1> HIDE DEF d
<1>16. Alive' /\ OneCore'
  BY <1>2, <1>3 DEF Good, Alive, OneCore
<1>17. Allocated'
  <2>1. \A u \in Owner : Lives(u) /\ u # t => pdir[u] \in used' \ lost'
    BY <1>5, <1>6, <1>8, <1>13 DEF Good, Allocated, DirsApart, Retires, Defers, d
  <2>2. \A u \in Owner : img'[u] # None => img'[u] \in used' \ lost'
    BY <1>4, <1>5, <1>6, <1>13 DEF Good, Once
  <2>3. \A i \in Index : deferred[i] # None => deferred[i].pd \in used' \ lost'
    BY <1>5, <1>6, <1>14 DEF Good, Allocated, DirsApart
  <2>4. Defers(t) /\ Room # {} => d \in used' \ lost'
    BY <1>1, <1>5, <1>6, <1>13 DEF Retires, Defers
  <2>5. \A i \in Index : \/ deferred'[i] = deferred[i]
                         \/ Room # {} /\ Defers(t) /\ (deferred'[i]).pd = d
    BY <1>10 DEF Room
  <2> QED
    BY <1>3, <2>1, <2>2, <2>3, <2>4, <2>5 DEF Allocated
<1>18. DirsApart'
  <2>1. \A u \in Owner : /\ pdir'[u] = pdir[u] \/ pdir'[u] = None
                         /\ img'[u] = img[u] \/ img'[u] = None
    BY <1>3, <1>4
  <2>2. \A i \in Index : deferred'[i] # None =>
          \/ deferred[i] # None /\ (deferred'[i]).pd = deferred[i].pd
          \/ Defers(t) /\ (deferred'[i]).pd = d
    BY <1>10
  <2>3. Defers(t) => \A u \in Owner : pdir'[u] # d
    BY <1>1, <1>3, <1>8, NoneNoDir DEF Defers, d, Good, Alive
  <2>4. d # None /\ \A u \in Owner : img'[u] # d
    BY <1>1, <1>13, <2>1, NoneNoDir
  <2> QED
    BY <1>14, <2>1, <2>2, <2>3, <2>4 DEF Good, DirsApart
<1>19. Once'
  BY <1>4, <1>10, <1>11, <1>14 DEF Good, Once
<1>20. Accounted'
  <2>1. lost' \subseteq used'
    <3> SUFFICES ASSUME NEW x \in lost'
                 PROVE  x \in used'
      OBVIOUS
    <3>1. x \in used /\ (x = d => Defers(t))
      BY <1>1, <1>6, <1>13 DEF Good, Accounted
    <3> QED
      BY <1>5, <3>1 DEF Retires, Defers
  <2>2. \A i \in Index : deferred[i] # None => deferred'[i] = deferred[i]
    BY <1>9 DEF PageDirsTypeOK
  <2>3. ASSUME NEW x \in used' \ lost'
        PROVE  \/ \E u \in Owner : Lives(u)' /\ pdir'[u] = x
               \/ \E u \in Owner : img'[u] = x
               \/ \E i \in Index : deferred'[i] # None /\ (deferred'[i]).pd = x
    <3>1. x \in used \ lost /\ x # None
      BY <1>5, <1>6, NoneNoDir DEF PageDirsTypeOK
    <3>2. CASE x = d
      <4>1. Sharers(t, d) # {} \/ Defers(t)
        BY <1>5, <3>2 DEF Retires, Defers, d
      <4>2. ASSUME NEW k \in Sharers(t, d) PROVE  k \in Owner /\ Lives(k)' /\ pdir'[k] = d
        BY <1>3, <1>8 DEF Sharers
      <4> QED
        BY <1>12, <3>2, <4>1, <4>2
    <3>3. CASE \E u \in Owner : img[u] = x
      BY <1>4, <1>6, <3>1, <3>3
    <3>4. CASE \E u \in Owner : x # d /\ Lives(u) /\ pdir[u] = x
      BY <1>3, <3>4 DEF d
    <3>5. CASE \E i \in Index : deferred[i] # None /\ deferred[i].pd = x
      BY <2>2, <3>5
    <3> QED
      BY <3>1, <3>2, <3>3, <3>4, <3>5 DEF Good, Accounted
  <2> QED
    BY <2>1, <2>3 DEF Accounted
<1>21. \A e \in Cpu : current[e] = t => Names(t) # {}
  BY DEF Names
<1>22. \A e \in Cpu : current[e] # None => /\ current[e] \in Owner
                                           /\ img'[current[e]] = img[current[e]]
  BY <1>4, <1>21 DEF PageDirsTypeOK
<1>23. CoresOK'
  <2>1. \A x : \A u \in Owner : x # None /\ Sharers(u, x) = {} => Sharers(u, x)' = {}
    <3>1. \A u \in Owner \ {t} : ostate'[u] = ostate[u]
      BY DEF terminate_task, PageDirsTypeOK
    <3> QED
      BY <1>3, <3>1 DEF Sharers
  <2> QED
    BY <1>2, <1>3, <1>22, <2>1 DEF Good, CoresOK
<1>24. Walks'
  <2> SUFFICES ASSUME NEW e \in Cpu \ unseen'
               PROVE  WalksOn(e)'
    BY DEF Walks
  <2>1. WalksOn(e)
    BY DEF Good, Walks, terminate_task
  <2>2. ASSUME NEW x, NEW u \in Owner, Waits(x, u) PROVE  Waits(x, u)'
    <3>1. \A i \in Index : deferred[i] # None => deferred'[i] = deferred[i]
      BY <1>9 DEF PageDirsTypeOK
    <3> QED
      BY <1>6, <2>2, <3>1 DEF Waits
  <2>3. CASE current[e] = t
    <3>1. Defers(t)
      BY <1>21, <2>3 DEF terminate_task, Names, Defers
    <3>2. cr3'[e] = cr3[e]
      BY <1>7, <3>1 DEF Retires, Defers
    <3>3. t # None
      BY <2>3, <1>1, <1>3 DEF PageDirsTypeOK
    <3>4. \A x : x = d => Waits(x, t)'
      BY <1>12, <3>1 DEF Waits
    <3> QED
      BY <1>1, <1>2, <1>3, <1>22, <2>1, <2>3, <3>2, <3>3, <3>4 DEF WalksOn, d
  <2>4. CASE current[e] # t /\ current[e] # None
    <3>1. current[e] \in Owner \ {t}
      BY <2>4 DEF PageDirsTypeOK
    <3>2. ~(Retires(t) /\ cr3[e] = d)
      <4>1. SUFFICES ASSUME Retires(t), cr3[e] = d PROVE FALSE
        OBVIOUS
      <4>2. ~Waits(d, current[e])
        BY <1>1, <1>14 DEF Waits
      <4>3. Lives(current[e]) => pdir[current[e]] # d
        BY <1>8, <3>1, <4>1 DEF Retires, d
      <4> QED
        BY <1>13, <2>1, <3>1, <2>4, <4>1, <4>2, <4>3 DEF WalksOn
    <3>3. cr3'[e] = cr3[e]
      BY <1>7, <3>2
    <3> QED
      BY <1>2, <1>3, <1>22, <2>1, <2>2, <2>4, <3>1, <3>3 DEF WalksOn
  <2>5. CASE current[e] = None
    BY <1>1, <1>2, <1>7, <2>1, <2>5 DEF WalksOn
  <2> QED
    BY <2>3, <2>4, <2>5
<1> QED
  BY <1>15, <1>16, <1>17, <1>18, <1>19, <1>20, <1>23, <1>24 DEF Good

LEMMA ThreadReadStep ==
  ASSUME PageDirsTypeOK, Good, NEW c \in Cpu, NEW t \in Owner, ThreadRead(c, t)
  PROVE  PageDirsTypeOK' /\ Good'
<1>1. UNCHANGED <<ostate, pdir, current, cr3, used, deferred, img, lost, unseen, raced>>
  BY DEF ThreadRead
<1>2. \A e \in Cpu : prog'[e] = IF e = c THEN [at |-> "thread", pd |-> pdir[t]] ELSE prog[e]
  BY DEF ThreadRead, PageDirsTypeOK
<1>3. current[c] = t /\ prog[c].at = "run"
  BY DEF ThreadRead, On, NoCall
<1>4. t # None
  BY DEF ThreadRead, Good, Alive, PageDirsTypeOK, OneCore
<1>5. PageDirsTypeOK'
  BY <1>1 DEF ThreadRead, PageDirsTypeOK
<1>6. Alive' /\ OneCore' /\ Allocated' /\ DirsApart' /\ Once' /\ Accounted'
  BY <1>1 DEF Good, Alive, OneCore, Allocated, DirsApart, Once, Accounted, Lives
<1>7. CoresOK'
  BY <1>1, <1>2, <1>3, <1>4 DEF Good, CoresOK, Lives, Sharers
<1>8. Walks'
  <2>1. prog'[c] = [at |-> "thread", pd |-> pdir[t]]
    BY <1>2
  <2>2. prog'[c].at # "exec"
    BY <2>1
  <2>3. prog[c].at # "exec"
    BY <1>3
  <2>4. \A e \in Cpu \ {c} : prog'[e] = prog[e]
    BY <1>2
  <2>5. \A e \in Cpu : prog'[e].at = "exec" <=> prog[e].at = "exec"
    BY <2>2, <2>3, <2>4
  <2> QED
    BY <1>1, <2>5 DEF Good, Walks, WalksOn, Waits, Lives
<1> QED
  BY <1>5, <1>6, <1>7, <1>8 DEF Good

\* A thread is one more user of a directory that its creator, being alive, owns.
LEMMA ThreadDirs ==
  ASSUME PageDirsTypeOK, Good, NEW c \in Cpu, NEW t \in Owner, thread_create_ex(c, t)
  PROVE  PageDirsTypeOK' /\ (~raced' => Good')
<1>1. /\ prog[c].at = "thread" /\ current[c] = t
      /\ UNCHANGED <<current, cr3, used, deferred, img, lost, unseen>>
      /\ raced' = ~Lives(t)
  BY DEF thread_create_ex, Lives
<1>2. \A e \in Cpu : prog'[e] = IF e = c THEN NoCall ELSE prog[e]
  BY DEF thread_create_ex, PageDirsTypeOK
<1>3. prog' \in [Cpu -> [at : {"run", "thread", "exec"}, pd : Dir \cup {None}]]
      /\ raced' \in BOOLEAN
  BY DEF thread_create_ex, PageDirsTypeOK, NoCall
<1>4. CASE UNCHANGED <<ostate, pdir>>
  <2>1. PageDirsTypeOK'
    BY <1>1, <1>3, <1>4 DEF PageDirsTypeOK
  <2>2. Alive' /\ OneCore' /\ Allocated' /\ DirsApart' /\ Once' /\ Accounted'
    BY <1>1, <1>4 DEF Good, Alive, OneCore, Allocated, DirsApart, Once, Accounted, Lives
  <2>3. CoresOK'
    BY <1>1, <1>2, <1>4 DEF Good, CoresOK, Lives, Sharers, NoCall
  <2>4. Walks'
    <3>1. \A e \in Cpu : prog'[e].at = "exec" <=> prog[e].at = "exec"
      BY <1>1, <1>2 DEF NoCall
    <3> QED
      BY <1>1, <1>4, <3>1 DEF Good, Walks, WalksOn, Waits, Lives
  <2> QED
    BY <2>1, <2>2, <2>3, <2>4 DEF Good
<1>5. CASE Claim(prog[c].pd)
  <2>1. prog[c].pd \in Dir \cup {None}
    BY DEF PageDirsTypeOK
  <2>2. PICK n \in Claimable : /\ n \in Owner
                               /\ ostate' = [ostate EXCEPT ![n] = "live"]
                               /\ pdir' = [pdir EXCEPT ![n] = prog[c].pd]
    BY <1>5, Claimed
  <2>3. PageDirsTypeOK'
    BY <1>1, <1>3, <2>1, <2>2 DEF PageDirsTypeOK
  <2> SUFFICES ASSUME ~raced'
               PROVE  Good'
    BY <2>3
  <2>4. Lives(t) /\ prog[c].pd = pdir[t] /\ pdir[t] \in Dir
    <3>1. Lives(t)
      BY <1>1
    <3>2. prog[c].pd = pdir[t]
      BY <1>1, <3>1 DEF Good, CoresOK
    <3>3. pdir[t] \in Dir
      BY <3>1 DEF Good, Alive, PageDirsTypeOK
    <3> QED
      BY <3>1, <3>2, <3>3
  <2>5. \A e \in Cpu : current[e] # n
    BY <2>2 DEF Claimable, Names
  <2>6. \A u \in Owner : /\ ostate'[u] = IF u = n THEN "live" ELSE ostate[u]
                         /\ pdir'[u] = IF u = n THEN pdir[t] ELSE pdir[u]
    BY <2>2, <2>4 DEF PageDirsTypeOK
  <2>7. ostate[n] = "free"
    BY <2>2 DEF Claimable
  <2>8. Alive' /\ OneCore'
    BY <1>1, <2>4, <2>6, NoneNoDir DEF Good, Alive, OneCore, Lives
  <2>9. Allocated' /\ DirsApart' /\ Once'
    <3>1. Allocated'
      BY <1>1, <2>4, <2>6 DEF Good, Allocated, Lives
    <3>2. DirsApart'
      BY <1>1, <2>6 DEF Good, DirsApart
    <3>3. Once'
      BY <1>1 DEF Good, Once
    <3> QED
      BY <3>1, <3>2, <3>3
  <2>10. Accounted'
    BY <1>1, <2>4, <2>6, <2>7 DEF Good, Accounted, Lives
  <2>11. \A e \in Cpu : current[e] # None =>
           /\ current[e] \in Owner
           /\ ostate'[current[e]] = ostate[current[e]]
           /\ pdir'[current[e]] = pdir[current[e]]
    <3>1. \A e \in Cpu : current[e] # None => current[e] \in Owner
      BY DEF PageDirsTypeOK
    <3> QED
      BY <2>5, <2>6, <3>1
  <2>12. CoresOK'
    <3>1. ASSUME NEW e \in Cpu, prog[e].at = "exec", Lives(current[e]), prog[e].pd # None
          PROVE  Sharers(current[e], prog[e].pd)' = {}
      <4>1. current[e] \in Owner /\ prog[e].pd = pdir[current[e]]
            /\ Sharers(current[e], prog[e].pd) = {}
        BY <3>1, <2>11 DEF Good, CoresOK
      <4>2. current[e] # t /\ prog'[e] = prog[e]
        <5>1. e # c /\ current[e] # None
          BY <1>1, <3>1 DEF Good, CoresOK
        <5> QED
          BY <1>1, <1>2, <5>1 DEF Good, OneCore
      <4>3. prog[e].pd # pdir[t]
        BY <2>4, <4>1, <4>2 DEF Sharers, Lives
      <4> SUFFICES ASSUME NEW k \in Sharers(current[e], prog[e].pd)'
                   PROVE  FALSE
        OBVIOUS
      <4>4. k \in Owner \ {current[e]} /\ ostate'[k] # "free" /\ pdir'[k] = prog[e].pd
        BY <1>1, <4>2 DEF Sharers
      <4> QED
        BY <2>6, <4>1, <4>3, <4>4 DEF Sharers
    <3>2. \A e \in Cpu : prog'[e] = prog[e] \/ prog'[e] = NoCall
      BY <1>2
    <3>3. \A e \in Cpu : current[e] # None => (Lives(current[e])' <=> Lives(current[e]))
      BY <1>1, <2>11 DEF Lives
    <3>4. ASSUME NEW e \in Cpu, prog'[e] = prog[e], prog[e].at # "run"
          PROVE  /\ current[e] # None
                 /\ prog[e].at = "exec" => img[current[e]] # None
                 /\ prog[e].at = "thread" /\ Lives(current[e])' => prog[e].pd = pdir'[current[e]]
                 /\ prog[e].at = "exec" /\ Lives(current[e])' /\ prog[e].pd # None
                    => prog[e].pd = pdir'[current[e]]
      BY <3>3, <3>4, <2>11 DEF Good, CoresOK
    <3>5. \A e \in Cpu : prog[e].at = "run" => prog[e].pd = None
      BY DEF Good, CoresOK
    <3> QED
      BY <1>1, <3>1, <3>2, <3>3, <3>4, <3>5 DEF CoresOK, NoCall
  <2>13. Walks'
    <3> SUFFICES ASSUME NEW e \in Cpu \ unseen
                 PROVE  WalksOn(e)'
      BY <1>1 DEF Walks
    <3>1. WalksOn(e) /\ (prog'[e].at = "exec" <=> prog[e].at = "exec")
      BY <1>1, <1>2 DEF Good, Walks, NoCall
    <3> QED
      BY <1>1, <2>11, <3>1 DEF WalksOn, Waits, Lives
  <2> QED
    BY <2>8, <2>9, <2>10, <2>12, <2>13 DEF Good
<1> QED
  BY <1>4, <1>5 DEF thread_create_ex

\* An image is built in a directory of its own.
LEMMA ImageStep ==
  ASSUME PageDirsTypeOK, Good, NEW c \in Cpu, NEW t \in Owner, loader_build_image(c, t)
  PROVE  PageDirsTypeOK' /\ Good'
<1> DEFINE d == First(Dir \ used)
<1>1. d \in Dir \ used
  BY FreshFrame DEF loader_build_image
<1>2. /\ img[t] = None /\ used' = used \cup {d} /\ img' = [img EXCEPT ![t] = d]
      /\ current[c] = t /\ prog[c] = NoCall
      /\ UNCHANGED <<ostate, pdir, current, cr3, deferred, prog, lost, unseen, raced>>
  BY DEF loader_build_image, On
<1> HIDE DEF d
<1>3. \A u \in Owner : img'[u] = IF u = t THEN d ELSE img[u]
  BY <1>2 DEF PageDirsTypeOK
<1>4. /\ d \notin lost
      /\ \A u \in Owner : pdir[u] # d /\ img[u] # d
      /\ \A i \in Index : deferred[i] # None => deferred[i].pd # d
  BY <1>1, NoneNoDir DEF Good, Alive, Allocated, Accounted
<1>5. PageDirsTypeOK'
  BY <1>1, <1>2 DEF PageDirsTypeOK
<1>6. Alive' /\ OneCore'
  BY <1>2 DEF Good, Alive, OneCore, Lives
<1>7. Allocated' /\ DirsApart' /\ Once'
  <2>1. Allocated'
    BY <1>2, <1>3, <1>4 DEF Good, Allocated, Lives
  <2>2. DirsApart'
    BY <1>2, <1>3, <1>4 DEF Good, DirsApart
  <2>3. Once'
    BY <1>2, <1>3, <1>4 DEF Good, Once
  <2> QED
    BY <2>1, <2>2, <2>3
<1>8. Accounted'
  <2>1. \A x \in used \ lost : x # None
    BY NoneNoDir DEF PageDirsTypeOK
  <2> QED
    BY <1>2, <1>3, <2>1 DEF Good, Accounted, Lives
<1>9. \A e \in Cpu : prog[e].at = "exec" => img'[current[e]] = img[current[e]]
  <2>1. \A e \in Cpu : prog[e].at = "exec" => current[e] \in Owner \ {t}
    <3> SUFFICES ASSUME NEW e \in Cpu, prog[e].at = "exec"
                 PROVE  current[e] \in Owner /\ current[e] # t
      OBVIOUS
    <3>1. e # c
      BY <1>2 DEF NoCall
    <3>2. current[e] \in Owner
      BY DEF Good, CoresOK, PageDirsTypeOK
    <3> QED
      BY <1>2, <3>1, <3>2 DEF Good, OneCore, PageDirsTypeOK
  <2> QED
    BY <1>3, <2>1
<1>10. CoresOK' /\ Walks'
  BY <1>2, <1>9 DEF Good, CoresOK, Walks, WalksOn, Waits, Lives, Sharers
<1> QED
  BY <1>5, <1>6, <1>7, <1>8, <1>10 DEF Good

\* The image becomes a child's directory, or is freed.
LEMMA ForkExecStep ==
  ASSUME PageDirsTypeOK, Good, NEW c \in Cpu, NEW t \in Owner, PdForkExec(c, t)
  PROVE  PageDirsTypeOK' /\ Good'
<1> DEFINE d == img[t]
<1>1. d \in Dir /\ d \in used \ lost
  BY DEF PdForkExec, Good, Allocated, PageDirsTypeOK
<1>2. /\ img' = [img EXCEPT ![t] = None]
      /\ current[c] = t /\ prog[c] = NoCall
      /\ UNCHANGED <<current, cr3, deferred, prog, lost, unseen, raced>>
      /\ \/ Claim(d) /\ UNCHANGED used
         \/ used' = used \ {d} /\ UNCHANGED <<ostate, pdir>>
  BY DEF PdForkExec, On
<1>3. /\ \A u \in Owner : pdir[u] # d /\ (img[u] = d => u = t)
      /\ \A i \in Index : deferred[i] # None => deferred[i].pd # d
  BY <1>1, NoneNoDir DEF Good, DirsApart, Once
<1> HIDE DEF d
<1>4. \A u \in Owner : img'[u] = IF u = t THEN None ELSE img[u]
  BY <1>2 DEF PageDirsTypeOK
<1>5. \A e \in Cpu : prog[e].at = "exec" => /\ current[e] \in Owner
                                            /\ img'[current[e]] = img[current[e]]
  <2> SUFFICES ASSUME NEW e \in Cpu, prog[e].at = "exec"
               PROVE  current[e] \in Owner /\ img'[current[e]] = img[current[e]]
    OBVIOUS
  <2>1. e # c
    BY <1>2 DEF NoCall
  <2>2. current[e] \in Owner
    BY DEF Good, CoresOK, PageDirsTypeOK
  <2>3. current[e] # t
    BY <1>2, <2>1, <2>2 DEF Good, OneCore, PageDirsTypeOK
  <2> QED
    BY <1>4, <2>2, <2>3
<1>6. CASE Claim(d) /\ UNCHANGED used
  <2>1. PICK n \in Claimable : /\ n \in Owner
                               /\ ostate' = [ostate EXCEPT ![n] = "live"]
                               /\ pdir' = [pdir EXCEPT ![n] = d]
    BY <1>6, Claimed
  <2>2. PageDirsTypeOK'
    BY <1>1, <1>2, <1>6, <2>1 DEF PageDirsTypeOK
  <2>3. \A u \in Owner : /\ ostate'[u] = IF u = n THEN "live" ELSE ostate[u]
                         /\ pdir'[u] = IF u = n THEN d ELSE pdir[u]
    BY <2>1 DEF PageDirsTypeOK
  <2>4. \A e \in Cpu : current[e] # None =>
           /\ current[e] \in Owner
           /\ ostate'[current[e]] = ostate[current[e]]
           /\ pdir'[current[e]] = pdir[current[e]]
    <3>1. \A e \in Cpu : current[e] # None => current[e] \in Owner
      BY DEF PageDirsTypeOK
    <3>2. \A e \in Cpu : current[e] # n
      BY <2>1 DEF Claimable, Names
    <3> QED
      BY <2>3, <3>1, <3>2
  <2>5. ostate[n] = "free"
    BY <2>1 DEF Claimable
  <2>6. Alive' /\ OneCore'
    BY <1>1, <1>2, <2>3, NoneNoDir DEF Good, Alive, OneCore, Lives
  <2>7. Allocated'
    BY <1>1, <1>2, <1>4, <1>6, <2>3 DEF Good, Allocated, Lives
  <2>8. DirsApart'
    <3>1. \A u, v \in Owner : img'[v] # None => pdir'[u] # img'[v]
      BY <1>3, <1>4, <2>3 DEF Good, DirsApart
    <3>2. ASSUME NEW u \in Owner, NEW i \in Index, deferred[i] # None
          PROVE  deferred[i].pd # pdir'[u] /\ deferred[i].pd # img'[u]
      <4>1. deferred[i].pd # None
        BY <3>2, NoneNoDir DEF Good, Allocated, PageDirsTypeOK
      <4> QED
        BY <1>3, <1>4, <2>3, <3>2, <4>1 DEF Good, DirsApart
    <3> QED
      BY <1>2, <3>1, <3>2 DEF DirsApart
  <2>9. Once'
    BY <1>2, <1>4 DEF Good, Once
  <2>10. Accounted'
    <3>1. \A u \in Owner : Lives(u) => Lives(u)' /\ pdir'[u] = pdir[u]
      BY <2>3, <2>5 DEF Lives
    <3>2. Lives(n)' /\ pdir'[n] = d
      BY <2>1, <2>3 DEF Lives
    <3>3. \A u \in Owner : img[u] # d => img'[u] = img[u]
      BY <1>4 DEF d
    <3>4. ASSUME NEW x \in used \ lost
          PROVE  \/ \E u \in Owner : Lives(u)' /\ pdir'[u] = x
                 \/ \E u \in Owner : img'[u] = x
                 \/ \E i \in Index : deferred[i] # None /\ deferred[i].pd = x
      <4>1. CASE x = d
        BY <2>1, <3>2, <4>1
      <4>2. CASE x # d
        BY <3>1, <3>3, <4>2 DEF Good, Accounted
      <4> QED
        BY <4>1, <4>2
    <3> QED
      BY <1>2, <1>6, <3>4 DEF Good, Accounted
  <2>11. CoresOK'
    <3>1. ASSUME NEW e \in Cpu, prog[e].at = "exec", Lives(current[e]), prog[e].pd # None
          PROVE  Sharers(current[e], prog[e].pd)' = {}
      <4>1. current[e] \in Owner /\ prog[e].pd = pdir[current[e]]
            /\ Sharers(current[e], prog[e].pd) = {}
        BY <3>1, <1>5 DEF Good, CoresOK
      <4> SUFFICES ASSUME NEW k \in Sharers(current[e], prog[e].pd)'
                   PROVE  FALSE
        OBVIOUS
      <4>2. k \in Owner \ {current[e]} /\ ostate'[k] # "free" /\ pdir'[k] = prog[e].pd
        BY <1>2 DEF Sharers
      <4> QED
        BY <1>3, <2>3, <4>1, <4>2 DEF Sharers
    <3>2. \A e \in Cpu : current[e] # None => (Lives(current[e])' <=> Lives(current[e]))
      BY <1>2, <2>4 DEF Lives
    <3> QED
      BY <1>2, <1>5, <2>4, <3>1, <3>2 DEF Good, CoresOK
  <2>12. Walks'
    <3> SUFFICES ASSUME NEW e \in Cpu \ unseen
                 PROVE  WalksOn(e)'
      BY <1>2 DEF Walks
    <3>1. WalksOn(e)
      BY DEF Good, Walks
    <3> QED
      BY <1>2, <1>5, <2>4, <3>1 DEF WalksOn, Waits, Lives
  <2> QED
    BY <2>2, <2>6, <2>7, <2>8, <2>9, <2>10, <2>11, <2>12 DEF Good
<1>7. CASE used' = used \ {d} /\ UNCHANGED <<ostate, pdir>>
  <2>1. PageDirsTypeOK'
    BY <1>2, <1>7 DEF PageDirsTypeOK
  <2>2. Alive' /\ OneCore'
    BY <1>2, <1>7 DEF Good, Alive, OneCore, Lives
  <2>3. Allocated'
    BY <1>2, <1>3, <1>4, <1>7 DEF Good, Allocated, Lives
  <2>4. DirsApart' /\ Once'
    <3>1. \A u \in Owner : img'[u] = img[u] \/ img'[u] = None
      BY <1>4
    <3>2. \A i \in Index : deferred[i] # None => deferred[i].pd # None
      BY NoneNoDir DEF Good, Allocated, PageDirsTypeOK
    <3> QED
      BY <1>2, <1>7, <3>1, <3>2 DEF Good, DirsApart, Once
  <2>5. Accounted'
    <3>1. \A u \in Owner : img[u] # d => img'[u] = img[u]
      BY <1>4 DEF d
    <3>2. lost \subseteq used'
      BY <1>1, <1>7 DEF Good, Accounted
    <3>3. \A x \in used' \ lost : x \in used \ lost /\ x # d
      BY <1>7
    <3>4. \A u \in Owner : Lives(u)' <=> Lives(u)
      BY <1>7 DEF Lives
    <3> QED
      BY <1>2, <1>7, <3>1, <3>2, <3>3, <3>4 DEF Good, Accounted
  <2>6. CoresOK' /\ Walks'
    BY <1>2, <1>5, <1>7 DEF Good, CoresOK, Walks, WalksOn, Waits, Lives, Sharers
  <2> QED
    BY <2>1, <2>2, <2>3, <2>4, <2>5, <2>6 DEF Good
<1> QED
  BY <1>2, <1>6, <1>7

LEMMA ScanStep ==
  ASSUME PageDirsTypeOK, Good, NEW c \in Cpu, NEW t \in Owner, task_exec_Scan(c, t)
  PROVE  PageDirsTypeOK' /\ Good'
<1> DEFINE pd == IF Sharers(t, pdir[t]) = {} THEN pdir[t] ELSE None
<1>1. /\ img[t] # None /\ current[c] = t /\ prog[c] = NoCall
      /\ UNCHANGED <<ostate, pdir, current, used, deferred, img, lost, unseen, raced>>
      /\ cr3' = [cr3 EXCEPT ![c] = img[t]]
      /\ prog' = [prog EXCEPT ![c] = [at |-> "exec", pd |-> pd]]
  BY DEF task_exec_Scan, On
<1>2. pd \in Dir \cup {None} /\ (pd # None => pd = pdir[t] /\ Sharers(t, pd) = {})
  BY DEF PageDirsTypeOK
<1> HIDE DEF pd
<1>3. \A e \in Cpu : /\ prog'[e] = IF e = c THEN [at |-> "exec", pd |-> pd] ELSE prog[e]
                     /\ cr3'[e] = IF e = c THEN img[t] ELSE cr3[e]
  BY <1>1 DEF PageDirsTypeOK
<1>4. t # None
  BY NoneNoOwner
<1>5. PageDirsTypeOK'
  BY <1>1, <1>2 DEF PageDirsTypeOK
<1>6. Alive' /\ OneCore' /\ Allocated' /\ DirsApart' /\ Once' /\ Accounted'
  <2>1. UNCHANGED <<ostate, pdir, current, used, deferred, img, lost>>
    BY <1>1
  <2>2. Alive' /\ OneCore' /\ Allocated' /\ DirsApart'
    BY <2>1 DEF Good, Alive, OneCore, Allocated, DirsApart, Lives
  <2>3. Once' /\ Accounted'
    BY <2>1 DEF Good, Once, Accounted, Lives
  <2> QED
    BY <2>2, <2>3
<1>7. CoresOK'
  BY <1>1, <1>2, <1>3, <1>4 DEF Good, CoresOK, Lives, Sharers
<1>8. Walks'
  <2> SUFFICES ASSUME NEW e \in Cpu \ unseen
               PROVE  WalksOn(e)'
    BY <1>1 DEF Walks
  <2>1. CASE e = c
    <3>1. prog'[e] = [at |-> "exec", pd |-> pd]
      BY <1>3, <2>1
    <3>2. prog'[e].at = "exec"
      BY <3>1
    <3>3. current'[e] = t /\ cr3'[e] = img'[t]
      BY <1>1, <1>3, <2>1
    <3> QED
      BY <1>4, <3>2, <3>3 DEF WalksOn
  <2>2. CASE e # c
    <3>1. WalksOn(e) /\ prog'[e] = prog[e] /\ cr3'[e] = cr3[e]
      BY <1>3, <2>2 DEF Good, Walks
    <3> QED
      BY <1>1, <3>1 DEF WalksOn, Waits, Lives
  <2> QED
    BY <2>1, <2>2
<1> QED
  BY <1>5, <1>6, <1>7, <1>8 DEF Good

\* exec frees the directory it leaves if nobody shared it when it looked; that, the
\* invariant says, is still so.
LEMMA RewireStep ==
  ASSUME PageDirsTypeOK, Good, NEW c \in Cpu, NEW t \in Owner, task_exec_Rewire(c, t)
  PROVE  PageDirsTypeOK' /\ (~raced' => Good')
<1> DEFINE d == pdir[t]
           m == img[t]
<1>1. /\ prog[c].at = "exec" /\ current[c] = t
      /\ used' = used \ {prog[c].pd} /\ img' = [img EXCEPT ![t] = None]
      /\ pdir' = [pdir EXCEPT ![t] = m]
      /\ raced' = (~Lives(t) \/ (prog[c].pd = None /\ Sharers(t, d) = {}))
      /\ UNCHANGED <<ostate, current, cr3, deferred, lost, unseen>>
  BY DEF task_exec_Rewire, Lives
<1>2. \A e \in Cpu : prog'[e] = IF e = c THEN NoCall ELSE prog[e]
  BY DEF task_exec_Rewire, PageDirsTypeOK
<1>3. m # None /\ m \in Dir /\ m \in used \ lost
  BY <1>1 DEF Good, CoresOK, Allocated, PageDirsTypeOK
<1>4. PageDirsTypeOK'
  <2>1. prog' \in [Cpu -> [at : {"run", "thread", "exec"}, pd : Dir \cup {None}]]
    BY DEF task_exec_Rewire, PageDirsTypeOK, NoCall
  <2>2. raced' \in BOOLEAN
    BY <1>1
  <2> QED
    BY <1>1, <1>3, <2>1, <2>2 DEF PageDirsTypeOK
<1> SUFFICES ASSUME ~raced'
             PROVE  Good'
  BY <1>4
<1>5. Lives(t) /\ d \in Dir /\ d \in used \ lost
  BY <1>1 DEF Good, Alive, Allocated, PageDirsTypeOK
<1>6. \/ used' = used \ {d} /\ Sharers(t, d) = {}
      \/ used' = used /\ Sharers(t, d) # {}
  <2>1. CASE prog[c].pd = None
    <3>1. None \notin used
      BY NoneNoDir DEF PageDirsTypeOK
    <3> QED
      BY <1>1, <2>1, <3>1
  <2>2. CASE prog[c].pd # None
    BY <1>1, <1>5, <2>2 DEF Good, CoresOK
  <2> QED
    BY <2>1, <2>2
<1>7. /\ \A u \in Owner : pdir[u] # m /\ img[u] # d /\ (img[u] = m => u = t)
      /\ \A i \in Index : deferred[i] # None => deferred[i].pd # m /\ deferred[i].pd # d
  BY <1>3, <1>5, NoneNoDir DEF Good, DirsApart, Once
<1>8. \A u \in Owner : /\ img'[u] = IF u = t THEN None ELSE img[u]
                       /\ pdir'[u] = IF u = t THEN m ELSE pdir[u]
  BY <1>1 DEF PageDirsTypeOK
<1>9. \A k \in Owner \ {t} : Lives(k) /\ pdir[k] = d <=> k \in Sharers(t, d)
  BY <1>5, NoneNoDir DEF Sharers, Good, Alive, Lives
<1>10. \A u \in Owner : Lives(u)' <=> Lives(u)
  BY <1>1 DEF Lives
<1> HIDE DEF d, m
<1>11. Alive' /\ OneCore'
  BY <1>1, <1>3, <1>5, <1>8, <1>10 DEF Good, Alive, OneCore
<1>12. Allocated'
  <2>1. \A u \in Owner : Lives(u) => pdir'[u] \in used' \ lost
    BY <1>3, <1>6, <1>7, <1>8, <1>9 DEF Good, Allocated, d
  <2>2. \A u \in Owner : img'[u] # None => img'[u] \in used' \ lost
    BY <1>6, <1>7, <1>8 DEF Good, Allocated
  <2>3. \A i \in Index : deferred[i] # None => deferred[i].pd \in used' \ lost
    BY <1>6, <1>7 DEF Good, Allocated
  <2> QED
    BY <1>1, <1>10, <2>1, <2>2, <2>3 DEF Allocated
<1>13. DirsApart'
  <2>1. \A u, v \in Owner : img'[v] # None => pdir'[u] # img'[v]
    BY <1>7, <1>8 DEF Good, DirsApart
  <2>2. ASSUME NEW u \in Owner, NEW i \in Index, deferred[i] # None
        PROVE  deferred[i].pd # pdir'[u] /\ deferred[i].pd # img'[u]
    <3>1. deferred[i].pd # None
      BY <2>2, NoneNoDir DEF Good, Allocated, PageDirsTypeOK
    <3> QED
      BY <1>7, <1>8, <2>2, <3>1 DEF Good, DirsApart
  <2> QED
    BY <1>1, <2>1, <2>2 DEF DirsApart
<1>14. Once'
  BY <1>1, <1>8 DEF Good, Once
<1>15. Accounted'
  <2>1. lost \subseteq used'
    BY <1>5, <1>6 DEF Good, Accounted
  <2>2. ASSUME NEW x \in used' \ lost
        PROVE  \/ \E u \in Owner : Lives(u) /\ pdir'[u] = x
               \/ \E u \in Owner : img'[u] = x
               \/ \E i \in Index : deferred[i] # None /\ deferred[i].pd = x
    <3>1. CASE x = m
      BY <1>5, <1>8, <3>1
    <3>2. CASE x = d
      <4>1. PICK k \in Sharers(t, d) : TRUE
        BY <1>6, <2>2, <3>2
      <4>2. k \in Owner \ {t}
        BY <4>1 DEF Sharers
      <4> QED
        BY <1>8, <1>9, <3>2, <4>1, <4>2
    <3>3. CASE x # m /\ x # d
      <4>1. x \in used \ lost
        BY <1>6, <2>2
      <4>2. \A u \in Owner : pdir[u] = x \/ img[u] = x => u # t
        BY <3>3 DEF d, m
      <4> QED
        BY <1>8, <4>1, <4>2 DEF Good, Accounted
    <3> QED
      BY <3>1, <3>2, <3>3
  <2> QED
    BY <1>1, <1>10, <2>1, <2>2 DEF Accounted
<1>16. \A e \in Cpu : current[e] # None /\ e # c =>
         /\ current[e] \in Owner /\ current[e] # t
         /\ img'[current[e]] = img[current[e]]
         /\ pdir'[current[e]] = pdir[current[e]]
         /\ Lives(current[e])' <=> Lives(current[e])
  <2>1. \A e \in Cpu : current[e] # None /\ e # c => current[e] \in Owner /\ current[e] # t
    BY <1>1 DEF Good, OneCore, PageDirsTypeOK
  <2> QED
    BY <1>1, <1>8, <2>1 DEF Lives
<1>17. CoresOK'
  <2>1. ASSUME NEW e \in Cpu, e # c, prog[e].at = "exec", Lives(current[e]), prog[e].pd # None
        PROVE  Sharers(current[e], prog[e].pd)' = {}
    <3>1. /\ current[e] \in Owner /\ prog[e].pd = pdir[current[e]]
          /\ Sharers(current[e], prog[e].pd) = {}
      BY <2>1, <1>16 DEF Good, CoresOK
    <3> SUFFICES ASSUME NEW k \in Sharers(current[e], prog[e].pd)'
                 PROVE  FALSE
      OBVIOUS
    <3>2. k \in Owner \ {current[e]} /\ ostate[k] # "free" /\ pdir'[k] = prog[e].pd
      BY <1>1, <1>2, <2>1 DEF Sharers
    <3> QED
      BY <1>7, <1>8, <3>1, <3>2 DEF Sharers
  <2>2. SUFFICES ASSUME NEW e \in Cpu, e # c
                 PROVE  /\ prog[e].at # "run" => current[e] # None
                        /\ prog[e].at = "run" => prog[e].pd = None
                        /\ prog[e].at = "exec" => img'[current[e]] # None
                        /\ prog[e].at = "thread" /\ Lives(current[e])'
                             => prog[e].pd = pdir'[current[e]]
                        /\ prog[e].at = "exec" /\ Lives(current[e])' /\ prog[e].pd # None
                             => prog[e].pd = pdir'[current[e]]
    BY <1>1, <1>2, <1>16, <2>1 DEF Good, CoresOK, NoCall
  <2> QED
    BY <1>16, <2>2 DEF Good, CoresOK
<1>18. Walks'
  <2> SUFFICES ASSUME NEW e \in Cpu \ unseen
               PROVE  WalksOn(e)'
    BY <1>1 DEF Walks
  <2>1. WalksOn(e)
    BY DEF Good, Walks
  <2>2. CASE e = c
    <3>1. prog'[e].at # "exec"
      <4>1. prog'[e] = NoCall
        BY <1>2, <2>2
      <4> QED
        BY <4>1 DEF NoCall
    <3>2. t # None /\ current'[e] = t /\ Lives(t)'
      <4>1. current'[e] = t
        BY <1>1, <2>2
      <4>2. Lives(t)'
        BY <1>5, <1>10
      <4> QED
        BY <4>1, <4>2, NoneNoOwner
    <3>3. cr3'[e] = pdir'[t]
      BY <1>1, <1>8, <2>1, <2>2, <3>2 DEF WalksOn, m
    <3> QED
      BY <3>1, <3>2, <3>3 DEF WalksOn
  <2>3. CASE e # c
    BY <1>1, <1>2, <1>16, <2>1, <2>3 DEF WalksOn, Waits
  <2> QED
    BY <2>2, <2>3
<1> QED
  BY <1>11, <1>12, <1>13, <1>14, <1>15, <1>17, <1>18 DEF Good

-----------------------------------------------------------------------------
(* The invariant holds, and implies both properties.                        *)

LEMMA PageDirsInvInit == PageDirsInit => PageDirsInv
<1> SUFFICES ASSUME PageDirsInit
             PROVE  PageDirsInv
  OBVIOUS
<1>1. PageDirsTypeOK
  BY DEF PageDirsInit, PageDirsTypeOK, NoCall
<1>2. Alive /\ OneCore /\ Allocated /\ DirsApart
  BY DEF PageDirsInit, Alive, OneCore, Allocated, DirsApart, Lives
<1>3. Once /\ Accounted
  BY DEF PageDirsInit, Once, Accounted
<1>4. CoresOK /\ Walks
  BY DEF PageDirsInit, CoresOK, Walks, WalksOn, NoCall
<1> QED
  BY <1>1, <1>2, <1>3, <1>4 DEF PageDirsInv, Good

LEMMA PageDirsInvStep == PageDirsInv /\ [PageDirsNext]_pdVars => PageDirsInv'
<1> SUFFICES ASSUME PageDirsInv, [PageDirsNext]_pdVars
             PROVE  PageDirsInv'
  OBVIOUS
<1>1. CASE UNCHANGED pdVars
  <2>1. UNCHANGED <<ostate, pdir, current, cr3, used, deferred, img, prog, lost, unseen, raced>>
    BY <1>1 DEF pdVars
  <2>2. PageDirsTypeOK'
    BY <2>1 DEF PageDirsInv, PageDirsTypeOK
  <2> SUFFICES ASSUME ~raced
               PROVE  Good'
    BY <2>1, <2>2 DEF PageDirsInv
  <2>3. Good
    BY DEF PageDirsInv
  <2>4. Alive' /\ OneCore' /\ Allocated' /\ DirsApart' /\ Once' /\ Accounted'
    BY <2>1, <2>3 DEF Good, Alive, OneCore, Allocated, DirsApart, Once, Accounted, Lives
  <2>5. CoresOK'
    BY <2>1, <2>3 DEF Good, CoresOK, Lives, Sharers
  <2>6. Walks'
    BY <2>1, <2>3 DEF Good, Walks, WalksOn, Waits, Lives
  <2> QED
    BY <2>4, <2>5, <2>6 DEF Good
<1>2. CASE PageDirsNext
  <2>1. PageDirsTypeOK /\ Good
    BY <1>2 DEF PageDirsNext, PageDirsInv
  <2> SUFFICES PageDirsTypeOK' /\ (~raced' => Good')
    BY DEF PageDirsInv
  <2>2. ASSUME NEW c \in Cpu, NEW n \in Owner \cup {None}, Tick(c, n)
        PROVE  PageDirsTypeOK' /\ Good'
    BY <2>1, <2>2, TickStep
  <2>3. ASSUME NEW c \in Cpu, NEW t \in Owner, terminate_task(c, t)
        PROVE  PageDirsTypeOK' /\ Good'
    BY <2>1, <2>3, TerminateStep
  <2>4. ASSUME NEW c \in Cpu, NEW t \in Owner, PdSystemCall(c, t)
        PROVE  PageDirsTypeOK' /\ (~raced' => Good')
    <3>1. CASE fork_common(c, t)
      BY <2>1, <3>1, ChildStep DEF fork_common
    <3>2. CASE ThreadRead(c, t)
      BY <2>1, <3>2, ThreadReadStep
    <3>3. CASE thread_create_ex(c, t)
      BY <2>1, <3>3, ThreadDirs
    <3>4. CASE loader_build_image(c, t)
      BY <2>1, <3>4, ImageStep
    <3>5. CASE PdForkExec(c, t)
      BY <2>1, <3>5, ForkExecStep
    <3>6. CASE task_exec_Scan(c, t)
      BY <2>1, <3>6, ScanStep
    <3>7. CASE task_exec_Rewire(c, t)
      BY <2>1, <3>7, RewireStep
    <3> QED
      BY <2>4, <3>1, <3>2, <3>3, <3>4, <3>5, <3>6, <3>7 DEF PdSystemCall
  <2>5. ASSUME NEW c \in Cpu, load_mct_app(c)
        PROVE  PageDirsTypeOK' /\ Good'
    BY <2>1, <2>5, ChildStep DEF load_mct_app
  <2>6. ASSUME NEW t \in Owner, Reap(t)
        PROVE  PageDirsTypeOK' /\ Good'
    BY <2>1, <2>6, ReapStep
  <2>7. CASE task_reap_zombies
    BY <2>1, <2>7, RetireStep
  <2> QED
    BY <1>2, <2>2, <2>3, <2>4, <2>5, <2>6, <2>7 DEF PageDirsNext
<1> QED
  BY <1>1, <1>2

LEMMA OwnedOnce == PageDirsInv => DirsOwned
<1> SUFFICES ASSUME PageDirsInv, ~raced
             PROVE  /\ used = (Owned \cup Parked \cup Building) \cup lost
                    /\ Owned \cap Parked = {} /\ Owned \cap Building = {}
                    /\ Parked \cap Building = {}
                    /\ lost \cap (Owned \cup Parked \cup Building) = {}
                    /\ \A i, j \in Index : deferred[i] # None /\ deferred[i] = deferred[j] => i = j
  BY DEF DirsOwned
<1>1. Good
  BY DEF PageDirsInv
<1>2. /\ \A x \in Owned : \E t \in Owner : Lives(t) /\ pdir[t] = x
      /\ \A x \in Parked : \E i \in Index : deferred[i] # None /\ deferred[i].pd = x
      /\ \A x \in Building : \E t \in Owner : img[t] = x /\ img[t] # None
  BY DEF Owned, Parked, Building, Lives
<1>3. \A x \in used \ lost : x \in Owned \cup Parked \cup Building
  <2> SUFFICES ASSUME NEW x \in used \ lost
               PROVE  x \in Owned \cup Parked \cup Building
    OBVIOUS
  <2>1. x # None
    BY NoneNoDir DEF PageDirsInv, PageDirsTypeOK
  <2> QED
    BY <1>1, <2>1 DEF Good, Accounted, Owned, Parked, Building, Lives
<1>4. \A x \in Owned \cup Parked \cup Building : x \in used \ lost
  <2>1. Allocated
    BY <1>1 DEF Good
  <2>2. \A x \in Owned : x \in used \ lost
    BY <1>2, <2>1 DEF Allocated
  <2>3. \A x \in Parked : x \in used \ lost
    BY <1>2, <2>1 DEF Allocated
  <2>4. \A x \in Building : x \in used \ lost
    BY <1>2, <2>1 DEF Allocated
  <2> QED
    BY <2>2, <2>3, <2>4
<1>5. Owned \cap Parked = {} /\ Owned \cap Building = {} /\ Parked \cap Building = {}
  <2>1. DirsApart
    BY <1>1 DEF Good
  <2>2. Owned \cap Building = {}
    BY <1>2, <2>1 DEF DirsApart
  <2>3. Owned \cap Parked = {} /\ Parked \cap Building = {}
    BY <1>2, <2>1 DEF DirsApart
  <2> QED
    BY <2>2, <2>3
<1>6. lost \subseteq used
  BY <1>1 DEF Good, Accounted
<1>7. \A i, j \in Index : deferred[i] # None /\ deferred[i] = deferred[j] => i = j
  BY <1>1 DEF Good, Once
<1> QED
  BY <1>3, <1>4, <1>5, <1>6, <1>7

LEMMA WalksLive == PageDirsInv => DirLive
<1> SUFFICES ASSUME PageDirsInv, ~raced, NEW c \in Cpu \ unseen
             PROVE  cr3[c] \in used \cup {Kernel}
  BY DEF DirLive
<1>1. Good /\ WalksOn(c)
  BY DEF PageDirsInv, Good, Walks
<1>2. current[c] # None => current[c] \in Owner
  BY DEF PageDirsInv, PageDirsTypeOK
<1>3. \A x, t : Waits(x, t) => x \in used
  BY <1>1 DEF Waits, Good, Allocated, Accounted
<1>4. current[c] # None /\ prog[c].at = "exec" => img[current[c]] \in used
  BY <1>1, <1>2 DEF Good, CoresOK, Allocated
<1>5. current[c] # None /\ Lives(current[c]) => pdir[current[c]] \in used
  BY <1>1, <1>2 DEF Good, Allocated
<1> QED
  BY <1>1, <1>3, <1>4, <1>5 DEF WalksOn

\* The directories, the queue and the cores' CR3 always hold values of their kind:
\* a core walks a directory or the kernel's, never the 0 of a dead task's page_dir.
THEOREM PageDirsTyped == PageDirsSpec => []PageDirsTypeOK
<1>1. PageDirsInv => PageDirsTypeOK
  BY DEF PageDirsInv
<1> QED
  BY PageDirsInvInit, PageDirsInvStep, <1>1, PTL DEF PageDirsSpec

\* Whatever is forked, cloned, loaded, killed or replaced by exec, on any number of
\* cores, an allocated directory has owners of one kind, waits at most once in the
\* deferred queue, and leaks only through a full queue or a killed loader call.
THEOREM DirectoriesOwned == PageDirsSpec => []DirsOwned
<1> QED
  BY PageDirsInvInit, PageDirsInvStep, OwnedOnce, PTL DEF PageDirsSpec

\* No core walks a directory that was freed, but one whose task was killed while
\* others shared its directory.
THEOREM NoFreedWalk == PageDirsSpec => []DirLive
<1> QED
  BY PageDirsInvInit, PageDirsInvStep, WalksLive, PTL DEF PageDirsSpec
=============================================================================
