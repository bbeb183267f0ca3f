----------------------------- MODULE BlkProofs -----------------------------
(* The coherence of the sector cache, for any number of callers, sectors,    *)
(* entries and writes.                                                       *)
EXTENDS Blk, Lemmas

\* The sectors of a call c, those after them, and those its transfer is to cache
Own(c)   == Sectors(c.lba, c.n)
After(c) == Sectors(c.lba + c.n, RA_SECTORS) \cap Lba
Fills(c) == IF c.at = "read" THEN Own(c) ELSE After(c)

Reading == {"called", "noted", "missed", "read", "filled", "ahead", "fetched", "done"}
BlkCalls   == [at : Reading \cup {"idle", "landed"}, lba : Lba, n : Nat, note : BOOLEAN,
               gen : Nat, buf : [Lba -> Val \cup {None}], seen : [Lba -> SUBSET Val]]

Types ==
  /\ disk \in [Lba -> Val]
  /\ data \in [Lba -> Val \cup {None}]
  /\ torn \in [Lba -> SUBSET Val]
  /\ gen \in Nat
  /\ io \in [Task -> BlkCalls]

\* No call holds a generation that is still to come.
Past(c) == c.gen <= gen

\* What a write under way has replaced lies in its sectors.
Replaces(c) == c.at = "landed" => \A l \in Lba \ Own(c) : c.buf[l] = None

\* A transfer of this generation may go into the cache.
Fillable(c) == c.at \in {"read", "fetched"} /\ c.gen = gen =>
                 \A l \in Fills(c) : c.buf[l] \in Current(l)

\* A read under way has seen whatever it may return by now.
Watched(t, c) == c.at \in Reading => /\ t \in Reader /\ Own(c) \subseteq Lba
                                     /\ \A l \in Own(c) : Current(l) \subseteq c.seen[l]

\* What a call has read, it has seen.
Read(c) == c.at \in {"read", "filled", "ahead", "fetched", "done"} =>
             \A l \in Own(c) : c.buf[l] \in c.seen[l]

CallSound(t, c) == Past(c) /\ Replaces(c) /\ Fillable(c) /\ Watched(t, c) /\ Read(c)

BlkInv == Types /\ CacheIsDisk /\ \A t \in Task : CallSound(t, io[t])

-----------------------------------------------------------------------------
(* The sets of values a read may return.                                     *)

LEMMA CurrentTypes ==
  ASSUME Types, NEW l \in Lba
  PROVE  /\ Current(l) \subseteq Val
         /\ disk[l] \in Current(l)
BY BlkAssumption DEF Types, BlkCalls, Current, Replaced

\* A step of a read leaves them alone.
LEMMA ReadKeepsCurrent ==
  ASSUME NEW t \in Task, NEW c, Types, io' = [io EXCEPT ![t] = c],
         io[t].at # "landed", c.at # "landed", UNCHANGED <<disk, torn>>
  PROVE  \A l \in Lba : Current(l)' = Current(l)
<1> SUFFICES ASSUME NEW l \in Lba PROVE Current(l)' = Current(l)
  OBVIOUS
<1>1. \A w \in Writer : io'[w].at = "landed" <=> io[w].at = "landed"
  BY BlkAssumption DEF Types
<1>2. \A w \in Writer : io[w].at = "landed" => io'[w].buf[l] = io[w].buf[l]
  BY BlkAssumption DEF Types
<1>3. Replaced(l)' = Replaced(l)
  BY <1>1, <1>2 DEF Replaced
<1> QED
  BY <1>3 DEF Current

\* So a step of one read has to be checked for that read alone.
LEMMA ReadStep ==
  ASSUME BlkInv, NEW t \in Task, NEW c \in BlkCalls, io' = [io EXCEPT ![t] = c],
         io[t].at # "landed", c.at # "landed", CallSound(t, c),
         UNCHANGED <<disk, torn, gen>>,
         data' \in [Lba -> Val \cup {None}],
         \A l \in Lba : data'[l] # None => data'[l] \in Current(l)
  PROVE  BlkInv'
<1> USE DEF BlkInv
<1>1. \A l \in Lba : Current(l)' = Current(l)
  BY ReadKeepsCurrent
<1>2. Types'
  BY DEF Types
<1>3. CacheIsDisk'
  BY <1>1 DEF CacheIsDisk
<1>4. ASSUME NEW u \in Task PROVE CallSound(u, io[u])'
  <2>1. PICK d \in BlkCalls : d = io'[u] /\ CallSound(u, d)
    BY DEF Types
  <2>2. Past(io[u])' /\ Replaces(io[u])' /\ Read(io[u])'
    BY <2>1 DEF CallSound, Past, Replaces, Read, Own
  <2>3. Watched(u, io[u])'
    BY <2>1, <1>1 DEF CallSound, Watched, Own
  <2>4. Fillable(io[u])'
    <3>1. Fills(d) \subseteq Lba \/ d.at \notin {"read", "fetched"}
      BY <2>1 DEF CallSound, Watched, Fills, After, Reading
    <3> QED
      BY <2>1, <3>1, <1>1 DEF CallSound, Fillable, Fills, Own, After
  <2> QED
    BY <2>2, <2>3, <2>4 DEF CallSound
<1> QED
  BY <1>2, <1>3, <1>4

-----------------------------------------------------------------------------
(* One lemma for each step.                                                  *)

\* A read looks at the sectors from now on.
LEMMA ReadCallStep ==
  ASSUME BlkInv, NEW t \in Task, NEW l \in Lba, NEW n \in Nat, NEW note \in BOOLEAN,
         ReadCall(t, l, n, note)
  PROVE  BlkInv'
<1> DEFINE c == [Idle EXCEPT !.at = IF note THEN "called" ELSE "noted", !.lba = l, !.n = n,
                             !.note = note,
                             !.seen = [k \in Lba |-> IF k \in Sectors(l, n)
                                                     THEN Current(k) ELSE {}]]
<1> USE DEF BlkInv
<1>1. c \in BlkCalls
  BY CurrentTypes DEF BlkCalls, Reading, Idle, Empty, Lba
<1>2. CallSound(t, c)
  BY DEF ReadCall, CallSound, Past, Replaces, Fillable, Watched, Read, Own, Idle, Types
<1> HIDE DEF c
<1>3. c.at # "landed" /\ io' = [io EXCEPT ![t] = c]
  BY DEF ReadCall, c, Idle
<1> QED
  BY <1>1, <1>2, <1>3, ReadStep DEF ReadCall, Types, CacheIsDisk

\* What the fill puts into the cache
LEMMA CommitData ==
  ASSUME Types, NEW rng, NEW buf, NEW g, blkcache_commit(rng, buf, g),
         \A l \in rng \cap Lba : buf[l] \in Val \cup {None}
  PROVE  /\ data' \in [Lba -> Val \cup {None}]
         /\ \A l \in Lba : data'[l] # None =>
              \/ data'[l] = data[l]
              \/ g = gen /\ l \in rng /\ data'[l] = buf[l]
<1>1. CASE g = gen
  <2>1. PICK out : data' = [l \in Lba |-> IF l \in out THEN None
                                         ELSE IF l \in rng THEN buf[l] ELSE data[l]]
    <3> DEFINE last == Touched(rng)
               kept == SubSeq(last, IF Len(last) > ENTRIES THEN Len(last) - ENTRIES + 1 ELSE 1,
                              Len(last))
    <3>1. data' = [l \in Lba |-> IF \A i \in DOMAIN kept : kept[i] # l THEN None
                                 ELSE IF l \in rng THEN buf[l] ELSE data[l]]
      BY <1>1 DEF blkcache_commit
    <3> HIDE DEF kept
    <3> WITNESS {l \in Lba : \A i \in DOMAIN kept : kept[i] # l}
    <3> QED
      BY <3>1
  <2> QED
    BY <1>1, <2>1 DEF Types
<1>2. CASE g # gen
  BY <1>2 DEF blkcache_commit, Types
<1> QED
  BY <1>1, <1>2

LEMMA CommitStep ==
  ASSUME BlkInv, NEW t \in Task, Commit(t)
  PROVE  BlkInv'
<1> DEFINE c == [io[t] EXCEPT !.at = IF io[t].note THEN "filled" ELSE "done"]
<1> USE DEF BlkInv
<1>1. io[t] \in BlkCalls /\ CallSound(t, io[t]) /\ io[t].at = "read"
  BY DEF Commit, Types
<1>2. c \in BlkCalls /\ CallSound(t, c)
  BY <1>1 DEF BlkCalls, Reading, CallSound, Past, Replaces, Fillable, Watched, Read, Own
<1>3. c.at # "landed" /\ io' = [io EXCEPT ![t] = c]
  BY <1>1 DEF Commit, Goes, BlkCalls, Types
<1>4. /\ data' \in [Lba -> Val \cup {None}]
      /\ \A l \in Lba : data'[l] # None =>
           \/ data'[l] = data[l]
           \/ io[t].gen = gen /\ l \in Own(io[t]) /\ data'[l] = io[t].buf[l]
  <2>1. \A l \in Own(io[t]) \cap Lba : io[t].buf[l] \in Val \cup {None}
    BY <1>1 DEF BlkCalls
  <2> QED
    BY <2>1, CommitData DEF Commit, Own
<1>5. \A l \in Lba : data'[l] # None => data'[l] \in Current(l)
  BY <1>1, <1>4 DEF CacheIsDisk, CallSound, Fillable, Fills
<1> HIDE DEF c
<1> QED
  BY <1>1, <1>2, <1>3, <1>4, <1>5, ReadStep DEF Commit

LEMMA PrefetchCommitStep ==
  ASSUME BlkInv, NEW t \in Task, PrefetchCommit(t)
  PROVE  BlkInv'
<1> DEFINE c == [io[t] EXCEPT !.at = "done", !.buf = Part(io[t].buf, Own(io[t]))]
<1> USE DEF BlkInv
<1>1. io[t] \in BlkCalls /\ CallSound(t, io[t]) /\ io[t].at = "fetched"
  BY DEF PrefetchCommit, Types
<1>2. c \in BlkCalls
  BY <1>1 DEF BlkCalls, Reading, Part
<1>3. CallSound(t, c)
  BY <1>1 DEF BlkCalls, Reading, CallSound, Past, Replaces, Fillable, Watched, Read, Own, Part
<1>4. c.at # "landed" /\ io' = [io EXCEPT ![t] = c]
  BY <1>1 DEF PrefetchCommit, Own, BlkCalls, Types
<1>5. /\ data' \in [Lba -> Val \cup {None}]
      /\ \A l \in Lba : data'[l] # None =>
           \/ data'[l] = data[l]
           \/ io[t].gen = gen /\ l \in After(io[t]) /\ data'[l] = io[t].buf[l]
  <2>1. \A l \in After(io[t]) \cap Lba : io[t].buf[l] \in Val \cup {None}
    BY <1>1 DEF BlkCalls
  <2> QED
    BY <2>1, CommitData DEF PrefetchCommit, Ahead, After
<1>6. \A l \in Lba : data'[l] # None => data'[l] \in Current(l)
  BY <1>1, <1>5 DEF CacheIsDisk, CallSound, Fillable, Fills
<1> HIDE DEF c
<1> QED
  BY <1>1, <1>2, <1>3, <1>4, <1>5, <1>6, ReadStep DEF PrefetchCommit

\* A step of a read that leaves the cached data alone
LEMMA QuietStep ==
  ASSUME BlkInv, NEW t \in Task, NEW c \in BlkCalls, io' = [io EXCEPT ![t] = c],
         io[t].at # "landed", c.at # "landed", CallSound(t, c),
         UNCHANGED <<disk, torn, gen, data>>
  PROVE  BlkInv'
BY ReadStep DEF BlkInv, Types, CacheIsDisk

\* The call goes on, or comes to its end, with what it has.
LEMMA GoesStep ==
  ASSUME BlkInv, NEW t \in Task, NEW at,
         io[t].at \in Reading, Goes(t, at),
         \/ at \in {"noted", "ahead"}
         \/ at = "done",
         at = "noted" => io[t].at = "called",
         at # "noted" => io[t].at \in {"filled", "ahead"},
         UNCHANGED <<disk, torn, gen, data>>
  PROVE  BlkInv'
<1> DEFINE c == [io[t] EXCEPT !.at = at]
<1>1. io[t] \in BlkCalls /\ CallSound(t, io[t])
  BY DEF BlkInv, Types
<1>2. c \in BlkCalls /\ io' = [io EXCEPT ![t] = c] /\ c.at # "landed" /\ io[t].at # "landed"
  BY <1>1 DEF Goes, BlkCalls, Reading, BlkInv, Types
<1>3. CallSound(t, c)
  BY <1>1 DEF BlkCalls, Reading, CallSound, Past, Replaces, Fillable, Watched, Read, Own
<1> HIDE DEF c
<1> QED
  BY <1>2, <1>3, QuietStep

LEMMA IdleStep ==
  ASSUME BlkInv, NEW t \in Task, io[t].at \in Reading, io' = [io EXCEPT ![t] = Idle],
         UNCHANGED <<disk, torn, gen, data>>
  PROVE  BlkInv'
<1>1. Idle \in BlkCalls /\ Idle.at # "landed" /\ io[t].at # "landed"
  BY BlkAssumption DEF Idle, BlkCalls, Empty, Lba, Reading
<1>2. CallSound(t, Idle)
  BY DEF Idle, CallSound, Past, Replaces, Fillable, Watched, Read, Reading, BlkInv, Types
<1> QED
  BY <1>1, <1>2, QuietStep

LEMMA CacheReadStep ==
  ASSUME BlkInv, NEW t \in Task, blkcache_read(t)
  PROVE  BlkInv'
<1> DEFINE hit  == [io[t] EXCEPT !.at = "done", !.buf = Part(data, Own(io[t]))]
           miss == [io[t] EXCEPT !.at = "missed", !.gen = gen]
<1> USE DEF BlkInv
<1>1. io[t] \in BlkCalls /\ CallSound(t, io[t]) /\ io[t].at = "noted"
  BY DEF blkcache_read, Types
<1>2. CASE \A l \in Own(io[t]) : data[l] # None
  <2>1. hit \in BlkCalls /\ io' = [io EXCEPT ![t] = hit] /\ hit.at # "landed"
    BY <1>1, <1>2 DEF blkcache_read, Own, Part, BlkCalls, Reading, Types
  <2>2. \A l \in Own(io[t]) : data[l] \in io[t].seen[l]
    BY <1>1, <1>2 DEF CacheIsDisk, CallSound, Watched, Reading
  <2>3. CallSound(t, hit)
    BY <1>1, <2>2 DEF BlkCalls, CallSound, Past, Replaces, Fillable, Watched, Read, Own, Part, Reading
  <2> HIDE DEF hit
  <2> QED
    BY <1>1, <2>1, <2>3, QuietStep DEF blkcache_read
<1>3. CASE ~\A l \in Own(io[t]) : data[l] # None
  <2>1. miss \in BlkCalls /\ io' = [io EXCEPT ![t] = miss] /\ miss.at # "landed"
    BY <1>1, <1>3 DEF blkcache_read, Own, BlkCalls, Reading, Types
  <2>2. CallSound(t, miss)
    BY <1>1 DEF BlkCalls, CallSound, Past, Replaces, Fillable, Watched, Read, Own, Reading, Types
  <2> HIDE DEF miss
  <2> QED
    BY <1>1, <2>1, <2>2, QuietStep DEF blkcache_read
<1> QED
  BY <1>2, <1>3

LEMMA DiskReadStep ==
  ASSUME BlkInv, NEW t \in Task, DiskRead(t)
  PROVE  BlkInv'
<1> DEFINE c == [io[t] EXCEPT !.at = "read", !.buf = Part(disk, Own(io[t]))]
<1> USE DEF BlkInv
<1>1. io[t] \in BlkCalls /\ CallSound(t, io[t]) /\ io[t].at = "missed"
  BY DEF DiskRead, Types
<1>2. c \in BlkCalls /\ io' = [io EXCEPT ![t] = c] /\ c.at # "landed"
  BY <1>1 DEF DiskRead, Own, Part, BlkCalls, Reading, Types
<1>3. \A l \in Own(io[t]) : l \in Lba /\ disk[l] \in Current(l) /\ disk[l] \in io[t].seen[l]
  BY <1>1, CurrentTypes DEF CallSound, Watched, Reading
<1>4. CallSound(t, c)
  BY <1>1, <1>3 DEF BlkCalls, CallSound, Past, Replaces, Fillable, Fills, Watched, Read, Own, Part, Reading
<1> HIDE DEF c
<1> QED
  BY <1>1, <1>2, <1>4, QuietStep DEF DiskRead

LEMMA PrefetchReadStep ==
  ASSUME BlkInv, NEW t \in Task, PrefetchRead(t)
  PROVE  BlkInv'
<1> DEFINE c == [io[t] EXCEPT !.at = "fetched",
                   !.buf = [l \in Lba |-> IF l \in After(io[t]) THEN disk[l] ELSE io[t].buf[l]]]
<1> USE DEF BlkInv
<1>1. io[t] \in BlkCalls /\ CallSound(t, io[t]) /\ io[t].at = "ahead"
  BY DEF PrefetchRead, Types
<1>2. c \in BlkCalls /\ io' = [io EXCEPT ![t] = c] /\ c.at # "landed"
  BY <1>1 DEF PrefetchRead, Ahead, After, BlkCalls, Reading, Types
<1>3. \A l \in After(io[t]) : l \in Lba /\ disk[l] \in Current(l)
  BY CurrentTypes DEF After
<1>4. \A l \in Own(io[t]) : l \in Lba /\ l \notin After(io[t])
  <2>1. Own(io[t]) \subseteq Lba
    BY <1>1 DEF CallSound, Watched, Reading
  <2>2. io[t].lba \in Int /\ io[t].n \in Int
    BY <1>1 DEF BlkCalls, Lba
  <2> QED
    BY <2>1, <2>2, BlkAssumption DEF Own, After, Sectors, Lba
<1>5. CallSound(t, c)
  <2>1. Fillable(c)
    BY <1>3 DEF BlkCalls, Fillable, Fills, After
  <2>2. Past(c) /\ Replaces(c) /\ Watched(t, c) /\ Read(c)
    BY <1>1, <1>4 DEF BlkCalls, CallSound, Past, Replaces, Watched, Read, Own, Reading
  <2> QED
    BY <2>1, <2>2 DEF CallSound
<1> HIDE DEF c
<1> QED
  BY <1>1, <1>2, <1>5, QuietStep DEF PrefetchRead

-----------------------------------------------------------------------------
(* Writes.  What reaches the disk is added to what a read may return, and to *)
(* what the reads under way have seen.                                       *)
LEMMA SeenKeeps ==
  ASSUME Types, NEW rng, NEW v, NEW u \in Task
  PROVE  Seen(rng, v)[u].at = io[u].at /\ Seen(rng, v)[u].buf = io[u].buf
<1>1. PICK c \in BlkCalls : c = io[u]
  BY DEF Types
<1>2. CASE u \in Reader /\ c.at # "idle"
  <2>1. Seen(rng, v)[u] =
          [c EXCEPT !.seen = [l \in Lba |-> IF l \in rng /\ c.seen[l] # {}
                                            THEN c.seen[l] \cup {v} ELSE c.seen[l]]]
    BY <1>1, <1>2 DEF Seen
  <2> QED
    BY <1>1, <2>1 DEF BlkCalls
<1>3. CASE ~(u \in Reader /\ c.at # "idle")
  BY <1>1, <1>3 DEF Seen
<1> QED
  BY <1>2, <1>3

LEMMA LandedSound ==
  ASSUME BlkInv, NEW rng \in SUBSET Lba, NEW v \in Val, NEW u \in Task,
         UNCHANGED gen,
         io'[u] = Seen(rng, v)[u],
         \A l \in Lba : Current(l) \subseteq Current(l)',
         \A l \in Lba : Current(l)' \subseteq Current(l) \cup (IF l \in rng THEN {v} ELSE {})
  PROVE  CallSound(u, io[u])' /\ io'[u] \in BlkCalls
<1> USE DEF BlkInv
<1>1. PICK c \in BlkCalls : c = io[u] /\ CallSound(u, c)
  BY DEF Types
<1>2. PICK d : d = io'[u]
  OBVIOUS
<1>3. CASE u \in Reader /\ c.at # "idle"
  <2>1. d = [c EXCEPT !.seen = [l \in Lba |-> IF l \in rng /\ c.seen[l] # {}
                                               THEN c.seen[l] \cup {v} ELSE c.seen[l]]]
    BY <1>1, <1>2, <1>3 DEF Seen
  <2>2. /\ d \in BlkCalls /\ d.at = c.at /\ d.lba = c.lba /\ d.n = c.n
        /\ d.gen = c.gen /\ d.buf = c.buf
        /\ \A l \in Lba : c.seen[l] \subseteq d.seen[l]
        /\ \A l \in rng : c.seen[l] # {} => v \in d.seen[l]
    BY <2>1 DEF BlkCalls
  <2> HIDE <2>1
  <2>3. Past(io[u])' /\ Replaces(io[u])'
    BY <1>1, <1>2, <2>2 DEF CallSound, Past, Replaces, Own
  <2>4. Read(io[u])'
    BY <1>1, <1>2, <2>2 DEF CallSound, Read, Own, Watched, Reading
  <2>5. Watched(u, io[u])'
    <3>1. c.at \in Reading => /\ Own(c) \subseteq Lba
                              /\ \A l \in Own(c) : Current(l)' \subseteq d.seen[l]
      <4> SUFFICES ASSUME c.at \in Reading PROVE /\ Own(c) \subseteq Lba
                              /\ \A l \in Own(c) : Current(l)' \subseteq d.seen[l]
        OBVIOUS
      <4>1. Own(c) \subseteq Lba /\ \A l \in Own(c) : Current(l) \subseteq c.seen[l]
        BY <1>1 DEF CallSound, Watched
      <4>2. \A l \in Own(c) : disk[l] \in Current(l)
        BY <4>1, CurrentTypes
      <4> QED
        BY <4>1, <4>2, <2>2
    <3> QED
      BY <1>1, <1>2, <1>3, <2>2, <3>1 DEF Watched, Own
  <2>6. Fillable(io[u])'
    <3>1. Fills(c) \subseteq Lba \/ c.at \notin {"read", "fetched"}
      BY <1>1 DEF CallSound, Watched, Fills, After, Reading
    <3> QED
      BY <1>1, <1>2, <2>2, <3>1 DEF CallSound, Fillable, Fills, Own, After
  <2> QED
    BY <1>2, <2>2, <2>3, <2>4, <2>5, <2>6 DEF CallSound
<1>4. CASE ~(u \in Reader /\ c.at # "idle")
  <2>1. d = c /\ c.at \notin Reading
    BY <1>1, <1>2, <1>4 DEF Seen, CallSound, Watched, Reading
  <2> QED
    BY <1>1, <1>2, <2>1
       DEF CallSound, Past, Replaces, Fillable, Watched, Read, Own, Reading
<1> QED
  BY <1>3, <1>4

LEMMA DiskWriteStep ==
  ASSUME BlkInv, NEW t \in Task, NEW l \in Lba, NEW n \in Nat, NEW v \in Val,
         DiskWrite(t, l, n, v)
  PROVE  BlkInv'
<1> DEFINE rng == Sectors(l, n)
<1> USE DEF BlkInv
<1>1. rng \in SUBSET Lba /\ t \in Writer /\ io[t].at = "idle"
  BY DEF DiskWrite
<1>2. PICK c \in BlkCalls :
        c = [Idle EXCEPT !.at = "landed", !.lba = l, !.n = n, !.buf = Part(disk, rng)]
  BY <1>1 DEF BlkCalls, Idle, Empty, Part, Types
<1>3. CallSound(t, c)'
  BY <1>1, <1>2 DEF DiskWrite, CallSound, Past, Replaces, Fillable, Watched, Read, Own, Idle, Part,
                    Reading, Types
<1>4. io'[t] = c /\ \A u \in Task \ {t} : io'[u] = Seen(rng, v)[u]
  BY <1>1, <1>2 DEF DiskWrite, Seen
<1>5. /\ c.at = "landed"
      /\ \A k \in rng : c.buf[k] = disk[k]
      /\ \A k \in Lba \ rng : c.buf[k] = None
  <2>1. c.at = "landed" /\ c.buf = Part(disk, rng)
    BY <1>2 DEF Idle
  <2> QED
    BY <1>1, <2>1 DEF Part
<1>6. \A w \in Writer \ {t} : io'[w].at = io[w].at /\ io'[w].buf = io[w].buf
  BY <1>4, BlkAssumption, SeenKeeps
<1>7. \A k \in Lba : Replaced(k)' = Replaced(k) \cup (IF k \in rng THEN {disk[k]} ELSE {})
  <2> SUFFICES ASSUME NEW k \in Lba
               PROVE Replaced(k)' = Replaced(k) \cup (IF k \in rng THEN {disk[k]} ELSE {})
    OBVIOUS
  <2>1. disk[k] # None
    BY BlkAssumption DEF Types
  <2>2. Replaced(k)' = ({io[w].buf[k] : w \in {w \in Writer \ {t} : io[w].at = "landed"}}
                          \cup {c.buf[k]}) \ {None}
    <3>1. {w \in Writer : io'[w].at = "landed"}
             = {w \in Writer \ {t} : io[w].at = "landed"} \cup {t}
      BY <1>1, <1>4, <1>5, <1>6
    <3> QED
      BY <3>1, <1>4, <1>6 DEF Replaced
  <2>3. {w \in Writer : io[w].at = "landed"} = {w \in Writer \ {t} : io[w].at = "landed"}
    BY <1>1
  <2> QED
    BY <2>1, <2>2, <2>3, <1>5 DEF Replaced
<1>8. /\ \A k \in Lba : Current(k) \subseteq Current(k)'
      /\ \A k \in Lba : Current(k)' \subseteq Current(k) \cup (IF k \in rng THEN {v} ELSE {})
  BY <1>7 DEF Current, DiskWrite, Landed
<1>9. \A u \in Task \ {t} : CallSound(u, io[u])' /\ io'[u] \in BlkCalls
  BY <1>1, <1>4, <1>8, LandedSound DEF DiskWrite
<1>10. Types'
  <2>1. io' \in [Task -> BlkCalls]
    BY <1>2, <1>4, <1>9 DEF DiskWrite, Seen
  <2> QED
    BY <2>1 DEF DiskWrite, Landed, Types
<1>11. CacheIsDisk'
  BY <1>8 DEF CacheIsDisk, DiskWrite
<1>12. CallSound(t, io[t])'
  BY <1>3, <1>4 DEF CallSound, Past, Replaces, Fillable, Watched, Read, Own, Fills, After
<1> QED
  BY <1>9, <1>10, <1>11, <1>12

LEMMA DiskWriteFailsStep ==
  ASSUME BlkInv, NEW t \in Task, NEW l \in Lba, NEW n \in Nat, NEW v \in Val,
         DiskWriteFails(t, l, n, v)
  PROVE  BlkInv'
<1> DEFINE rng == Sectors(l, n)
<1> USE DEF BlkInv
<1>1. rng \in SUBSET Lba /\ io' = Seen(rng, v)
  BY DEF DiskWriteFails
<1>2. \A w \in Writer : io'[w].at = io[w].at /\ io'[w].buf = io[w].buf
  BY <1>1, BlkAssumption, SeenKeeps
<1>3. \A k \in Lba : Replaced(k)' = Replaced(k)
  BY <1>2 DEF Replaced
<1>4. /\ \A k \in Lba : Current(k) \subseteq Current(k)'
      /\ \A k \in Lba : Current(k)' \subseteq Current(k) \cup (IF k \in rng THEN {v} ELSE {})
  BY <1>3 DEF Current, DiskWriteFails, Landed
<1>5. \A u \in Task : CallSound(u, io[u])' /\ io'[u] \in BlkCalls
  BY <1>1, <1>4, LandedSound DEF DiskWriteFails
<1>6. Types'
  <2>1. io' \in [Task -> BlkCalls]
    BY <1>1, <1>5 DEF Seen
  <2>2. torn' \in [Lba -> SUBSET Val]
    BY CurrentTypes DEF DiskWriteFails, Types
  <2> QED
    BY <2>1, <2>2 DEF DiskWriteFails, Landed, Types
<1>7. CacheIsDisk'
  BY <1>4 DEF CacheIsDisk, DiskWriteFails
<1> QED
  BY <1>5, <1>6, <1>7

\* The write is over: what it replaced is in the cache no more, and no transfer under
\* way may put it back, for all of them hold an older generation.
LEMMA InvalidateStep ==
  ASSUME BlkInv, NEW t \in Task, blkcache_invalidate(t)
  PROVE  BlkInv'
<1> DEFINE rng == Own(io[t])
<1> USE DEF BlkInv
<1>1. /\ io[t].at = "landed" /\ io' = [io EXCEPT ![t] = Idle] /\ gen' = gen + 1
      /\ data' = [l \in Lba |-> IF l \in rng THEN None ELSE data[l]]
      /\ torn' = [l \in Lba |-> IF l \in rng THEN {} ELSE torn[l]]
      /\ disk' = disk
  BY DEF blkcache_invalidate, Own
<1>2. Idle \in BlkCalls /\ Idle.at = "idle" /\ Idle.gen = 0
  BY BlkAssumption DEF Idle, BlkCalls, Empty, Lba
<1>3. \A u \in Task \ {t} : io'[u] = io[u]
  BY <1>1 DEF Types
<1>4. \A l \in Lba \ rng : io[t].buf[l] = None
  BY <1>1 DEF CallSound, Replaces
<1>5. \A l \in Lba : Replaced(l)' \subseteq Replaced(l)
  BY <1>1, <1>2, <1>3, BlkAssumption DEF Replaced, Types
<1>6. \A l \in Lba \ rng : Replaced(l)' = Replaced(l)
  <2> SUFFICES ASSUME NEW l \in Lba \ rng, NEW x \in Replaced(l) PROVE x \in Replaced(l)'
    BY <1>5
  <2>1. PICK w \in Writer : io[w].at = "landed" /\ io[w].buf[l] = x /\ x # None
    BY DEF Replaced
  <2>2. w # t
    BY <2>1, <1>4
  <2> QED
    BY <2>1, <2>2, <1>3, BlkAssumption DEF Replaced
<1>7. /\ \A l \in Lba : Current(l)' \subseteq Current(l)
      /\ \A l \in Lba \ rng : Current(l)' = Current(l)
  BY <1>1, <1>5, <1>6 DEF Current
<1>8. Types'
  BY <1>1, <1>2 DEF Types
<1>9. CacheIsDisk'
  BY <1>1, <1>7 DEF CacheIsDisk
<1>10. ASSUME NEW u \in Task \ {t} PROVE CallSound(u, io[u])'
  <2>1. PICK c \in BlkCalls : c = io[u] /\ c = io'[u] /\ CallSound(u, c)
    BY <1>3 DEF Types
  <2>2. c.gen < gen'
    BY <2>1, <1>1 DEF CallSound, Past, Types, BlkCalls
  <2>3. Past(io[u])' /\ Replaces(io[u])' /\ Read(io[u])' /\ Fillable(io[u])'
    <3>1. c.gen \in Nat /\ gen' \in Nat
      BY <1>8 DEF BlkCalls, Types
    <3> QED
      BY <2>1, <2>2, <3>1 DEF CallSound, Past, Replaces, Read, Own, Fillable
  <2>4. Watched(u, io[u])'
    BY <2>1, <1>7 DEF CallSound, Watched, Own
  <2> QED
    BY <2>3, <2>4 DEF CallSound
<1>11. CallSound(t, io[t])'
  <2>1. io'[t].at = "idle" /\ io'[t].gen = 0
    BY <1>1, <1>2 DEF Types
  <2> QED
    BY <2>1, <1>8 DEF CallSound, Past, Replaces, Fillable, Watched, Read, Reading, Types
<1> QED
  BY <1>8, <1>9, <1>10, <1>11

-----------------------------------------------------------------------------
LEMMA InitIInv ==
  ASSUME BlkInit
  PROVE  BlkInv
<1>1. Types
  BY BlkAssumption DEF BlkInit, Types, Idle, BlkCalls, Empty, Lba
<1>2. CacheIsDisk
  BY DEF BlkInit, CacheIsDisk, Empty
<1>3. ASSUME NEW t \in Task PROVE CallSound(t, io[t])
  <2>1. io[t].at = "idle" /\ io[t].gen = 0 /\ gen = 0
    BY DEF BlkInit, Idle
  <2>2. Past(io[t])
    BY <2>1 DEF Past
  <2> QED
    BY <2>1, <2>2 DEF CallSound, Replaces, Fillable, Watched, Read, Reading
<1> QED
  BY <1>1, <1>2, <1>3 DEF BlkInv

LEMMA StutterIInv ==
  ASSUME BlkInv, UNCHANGED blkVars
  PROVE  BlkInv'
<1>1. \A l \in Lba : Current(l)' = Current(l)
  BY DEF blkVars, Current, Replaced
<1>2. Types' /\ CacheIsDisk'
  BY <1>1 DEF blkVars, Types, CacheIsDisk, BlkInv
<1>3. ASSUME NEW t \in Task PROVE CallSound(t, io[t])'
  <2>1. Fills(io[t]) \subseteq Lba \/ io[t].at \notin {"read", "fetched"}
    BY DEF BlkInv, CallSound, Watched, Fills, After, Reading
  <2> QED
    BY <1>1, <2>1 DEF BlkInv, blkVars, CallSound, Past, Replaces, Fillable, Fills, After, Watched, Read, Own
<1> QED
  BY <1>2, <1>3 DEF BlkInv

LEMMA NextIInv ==
  ASSUME BlkInv, BlkNext
  PROVE  BlkInv'
<1> PICK t \in Task :
      \/ \E l \in Lba, n \in 1 .. BATCH :
           \/ ReadCall(t, l, n, TRUE)
           \/ \E v \in Val : DiskWrite(t, l, n, v) \/ DiskWriteFails(t, l, n, v)
      \/ \E l \in Lba : ReadCall(t, l, 1, FALSE)
      \/ ata_ra_note(t) \/ blkcache_read(t) \/ DiskRead(t) \/ DiskReadFails(t) \/ Commit(t)
      \/ ata_ra_maybe_prefetch(t) \/ PrefetchRead(t) \/ PrefetchFails(t)
      \/ PrefetchCommit(t) \/ Return(t) \/ blkcache_invalidate(t)
  BY DEF BlkNext
<1> \A n \in 1 .. BATCH : n \in Nat
  BY BlkAssumption
<1>1. CASE \E l \in Lba, n \in 1 .. BATCH : ReadCall(t, l, n, TRUE)
  BY <1>1, ReadCallStep
<1>2. CASE \E l \in Lba : ReadCall(t, l, 1, FALSE)
  BY <1>2, ReadCallStep
<1>3. CASE \E l \in Lba, n \in 1 .. BATCH, v \in Val : DiskWrite(t, l, n, v)
  BY <1>3, DiskWriteStep
<1>4. CASE \E l \in Lba, n \in 1 .. BATCH, v \in Val : DiskWriteFails(t, l, n, v)
  BY <1>4, DiskWriteFailsStep
<1>5. CASE ata_ra_note(t)
  BY <1>5, GoesStep DEF ata_ra_note, Reading
<1>6. CASE blkcache_read(t)
  BY <1>6, CacheReadStep
<1>7. CASE DiskRead(t)
  BY <1>7, DiskReadStep
<1>8. CASE DiskReadFails(t)
  BY <1>8, IdleStep DEF DiskReadFails, Reading
<1>9. CASE Commit(t)
  BY <1>9, CommitStep
<1>10. CASE ata_ra_maybe_prefetch(t)
  BY <1>10, GoesStep DEF ata_ra_maybe_prefetch, Reading
<1>11. CASE PrefetchRead(t)
  BY <1>11, PrefetchReadStep
<1>12. CASE PrefetchFails(t)
  BY <1>12, GoesStep DEF PrefetchFails, Reading
<1>13. CASE PrefetchCommit(t)
  BY <1>13, PrefetchCommitStep
<1>14. CASE Return(t)
  BY <1>14, IdleStep DEF Return, Reading
<1>15. CASE blkcache_invalidate(t)
  BY <1>15, InvalidateStep
<1> QED
  BY <1>1, <1>2, <1>3, <1>4, <1>5, <1>6, <1>7, <1>8, <1>9, <1>10, <1>11, <1>12, <1>13,
     <1>14, <1>15

LEMMA CacheSound == BlkSpec => []BlkInv
<1>1. BlkInv /\ [BlkNext]_blkVars => BlkInv'
  BY NextIInv, StutterIInv
<1> QED
  BY InitIInv, <1>1, PTL DEF BlkSpec

(* However many reads, prefetches, writes and refused writes overlap, on any *)
(* number of cores, a sector in the cache of blkcache.c is what the disk has *)
(* or what a write not yet invalidated has just replaced.                     *)
THEOREM CacheCoherent == BlkSpec => []CacheIsDisk
BY CacheSound, PTL DEF BlkInv

(* ata_read_sectors_drive never returns what a sector held before a write    *)
(* that had returned 0 when the read began.                                  *)
THEOREM NoStaleRead == BlkSpec => []ReadsFresh
<1>1. BlkInv => ReadsFresh
  BY BlkAssumption DEF BlkInv, CallSound, Read, Own, ReadsFresh
<1> QED
  BY CacheSound, <1>1, PTL
-----------------------------------------------------------------------------
(* The recency order lists the cached sectors, each once.                    *)

Has(q, l)   == \E i \in 1 .. Len(q) : q[i] = l
Distinct(q) == \A i, j \in 1 .. Len(q) : q[i] = q[j] => i = j
Lists(q, S) == q \in Seq(Lba) /\ Distinct(q) /\ \A l \in Lba : Has(q, l) <=> l \in S

LEMMA CompactedLists ==
  ASSUME NEW q, NEW S, Lists(q, S), NEW T, NEW stay \in SUBSET (1 .. Len(q)),
         \A i \in 1 .. Len(q) : i \in stay <=> q[i] \in T
  PROVE  Lists(Compacted(q, stay), S \cap T) /\ Len(Compacted(q, stay)) <= Len(q)
<1>1. q \in Seq(Lba) /\ Len(q) \in Nat
  BY DEF Lists
<1>2. \A j \in stay : j \in Nat /\ 1 <= j /\ j <= Len(q)
  BY <1>1
<1>3. \A i, j \in stay : q[i] = q[j] => i = j
  BY DEF Lists, Distinct
<1> DEFINE c == Compacted(q, stay)
<1> HIDE DEF c
<1>4. /\ c \in Seq(Lba) /\ Len(c) <= Len(q)
      /\ \A j \in 1 .. Len(c) : \E i \in stay : c[j] = q[i]
      /\ \A i \in stay : \E j \in 1 .. Len(c) : c[j] = q[i]
      /\ Distinct(c)
  BY <1>1, <1>2, <1>3, CompactedSeq DEF c, Distinct
<1>5. ASSUME NEW l \in Lba PROVE Has(c, l) <=> l \in S \cap T
  <2>1. Has(c, l) <=> \E i \in stay : q[i] = l
    BY <1>4 DEF Has
  <2>2. (\E i \in stay : q[i] = l) <=> Has(q, l) /\ l \in T
    BY DEF Has
  <2> QED
    BY <2>1, <2>2 DEF Lists
<1> QED
  BY <1>4, <1>5 DEF Lists, c

LEMMA ConcatLists ==
  ASSUME NEW p, NEW q, NEW S, NEW T, Lists(p, S), Lists(q, T), S \cap T = {}
  PROVE  Lists(p \o q, S \cup T)
<1>1. p \in Seq(Lba) /\ q \in Seq(Lba) /\ Len(p) \in Nat /\ Len(q) \in Nat
  BY DEF Lists
<1> DEFINE r == p \o q
<1> HIDE DEF r
<1>2. /\ r \in Seq(Lba) /\ Len(r) = Len(p) + Len(q)
      /\ \A i \in 1 .. Len(r) : r[i] = IF i <= Len(p) THEN p[i] ELSE q[i - Len(p)]
  BY <1>1, ConcatProperties DEF r
<1>3. \A i \in 1 .. Len(p) : p[i] \in Lba /\ Has(p, p[i]) /\ p[i] \in S
  BY <1>1 DEF Lists, Has
<1>4. \A i \in 1 .. Len(q) : q[i] \in Lba /\ Has(q, q[i]) /\ q[i] \in T
  BY <1>1 DEF Lists, Has
<1>5. Distinct(r)
  <2> SUFFICES ASSUME NEW i \in 1 .. Len(r), NEW j \in 1 .. Len(r), r[i] = r[j] PROVE i = j
    BY DEF Distinct
  <2>1. CASE i <= Len(p) /\ j <= Len(p)
    BY <2>1, <1>1, <1>2 DEF Lists, Distinct
  <2>2. CASE ~(i <= Len(p)) /\ ~(j <= Len(p))
    <3>1. i - Len(p) \in 1 .. Len(q) /\ j - Len(p) \in 1 .. Len(q)
      BY <2>2, <1>1, <1>2
    <3>2. q[i - Len(p)] = q[j - Len(p)]
      BY <2>2, <1>2
    <3>3. i - Len(p) = j - Len(p)
      BY <3>1, <3>2 DEF Lists, Distinct
    <3> QED
      BY <3>3, <1>1
  <2>3. CASE i <= Len(p) /\ ~(j <= Len(p))
    <3>1. i \in 1 .. Len(p) /\ j - Len(p) \in 1 .. Len(q)
      BY <2>3, <1>1, <1>2
    <3>2. p[i] = q[j - Len(p)]
      BY <2>3, <1>2
    <3> QED
      BY <3>1, <3>2, <1>3, <1>4
  <2>4. CASE ~(i <= Len(p)) /\ j <= Len(p)
    <3>1. j \in 1 .. Len(p) /\ i - Len(p) \in 1 .. Len(q)
      BY <2>4, <1>1, <1>2
    <3>2. p[j] = q[i - Len(p)]
      BY <2>4, <1>2
    <3> QED
      BY <3>1, <3>2, <1>3, <1>4
  <2> QED
    BY <2>1, <2>2, <2>3, <2>4
<1>6. ASSUME NEW l \in Lba PROVE Has(r, l) <=> l \in S \cup T
  <2>1. ASSUME Has(r, l) PROVE l \in S \cup T
    <3>1. PICK i \in 1 .. Len(r) : r[i] = l
      BY <2>1 DEF Has
    <3>2. CASE i <= Len(p)
      BY <3>1, <3>2, <1>1, <1>2, <1>3
    <3>3. CASE ~(i <= Len(p))
      <4>1. i - Len(p) \in 1 .. Len(q) /\ q[i - Len(p)] = l
        BY <3>1, <3>3, <1>1, <1>2
      <4> QED
        BY <4>1, <1>4
    <3> QED
      BY <3>2, <3>3
  <2>2. ASSUME l \in S PROVE Has(r, l)
    <3>1. PICK i \in 1 .. Len(p) : p[i] = l
      BY <2>2 DEF Lists, Has
    <3>2. i \in 1 .. Len(r) /\ r[i] = l
      BY <3>1, <1>1, <1>2
    <3> QED
      BY <3>2 DEF Has
  <2>3. ASSUME l \in T PROVE Has(r, l)
    <3>1. PICK i \in 1 .. Len(q) : q[i] = l
      BY <2>3 DEF Lists, Has
    <3>2. i + Len(p) \in 1 .. Len(r) /\ ~(i + Len(p) <= Len(p)) /\ (i + Len(p)) - Len(p) = i
      BY <1>1, <1>2
    <3>3. r[i + Len(p)] = l
      BY <3>1, <3>2, <1>2
    <3> QED
      BY <3>2, <3>3 DEF Has
  <2> QED
    BY <2>1, <2>2, <2>3
<1> QED
  BY <1>2, <1>5, <1>6 DEF Lists, r

\* The least recently used entries go.
LEMMA RestLists ==
  ASSUME NEW q, NEW S, Lists(q, S), NEW m \in Nat, m <= Len(q)
  PROVE  \E T : Lists(SubSeq(q, m + 1, Len(q)), T) /\ T \subseteq S /\ T \subseteq Lba
<1> DEFINE r == SubSeq(q, m + 1, Len(q))
           T == {l \in Lba : Has(r, l)}
<1>1. q \in Seq(Lba) /\ Len(q) \in Nat
  BY DEF Lists
<1> HIDE DEF r
<1>2. r \in Seq(Lba) /\ Len(r) = Len(q) - m /\ \A j \in 1 .. Len(r) : r[j] = q[m + j]
  <2>1. r \in Seq(Lba) /\ Len(r) = Len(q) - m /\ \A j \in 1 .. Len(q) - m : r[j] = q[m + j]
    BY <1>1, RestSeq DEF r
  <2> QED
    BY <2>1
<1>3. \A j \in 1 .. Len(r) : m + j \in 1 .. Len(q)
  BY <1>1, <1>2
<1>4. Distinct(r)
  <2> SUFFICES ASSUME NEW i \in 1 .. Len(r), NEW j \in 1 .. Len(r), r[i] = r[j] PROVE i = j
    BY DEF Distinct
  <2>1. m + i = m + j
    BY <1>2, <1>3 DEF Lists, Distinct
  <2> QED
    BY <2>1, <1>2
<1>5. T \subseteq S
  <2> SUFFICES ASSUME NEW l \in Lba, Has(r, l) PROVE l \in S
    OBVIOUS
  <2>1. PICK j \in 1 .. Len(r) : r[j] = l
    BY DEF Has
  <2>2. Has(q, l)
    BY <2>1, <1>2, <1>3 DEF Has
  <2> QED
    BY <2>2 DEF Lists
<1>6. Lists(r, T)
  BY <1>2, <1>4 DEF Lists
<1> QED
  BY <1>5, <1>6 DEF r

\* Two listings of the same sectors are as long as each other.
LEMMA ListsLength ==
  ASSUME NEW p, NEW q, NEW S, Lists(p, S), Lists(q, S)
  PROVE  Len(p) <= Len(q)
<1>1. Len(p) \in Nat /\ Len(q) \in Nat /\ \A i \in 1 .. Len(p) : p[i] \in Lba
  BY DEF Lists
<1>2. \A i \in 1 .. Len(p) : \E j \in 1 .. Len(q) : q[j] = p[i]
  BY <1>1 DEF Lists, Has
<1> DEFINE f == [i \in 1 .. Len(p) |-> CHOOSE j \in 1 .. Len(q) : q[j] = p[i]]
<1>3. \A i \in 1 .. Len(p) : f[i] \in 1 .. Len(q) /\ q[f[i]] = p[i]
  BY <1>2
<1>4. f \in [1 .. Len(p) -> 1 .. Len(q)]
  BY <1>3
<1> HIDE DEF f
<1>5. \A i, j \in 1 .. Len(p) : f[i] = f[j] => i = j
  BY <1>3 DEF Lists, Distinct
<1>6. f \in Injection(1 .. Len(p), 1 .. Len(q))
  BY <1>4, <1>5 DEF Injection, IsInjective
<1>7. Cardinality(1 .. Len(p)) <= Cardinality(1 .. Len(q))
  BY <1>1, <1>6, FS_Interval, FS_Injection
<1>8. Cardinality(1 .. Len(p)) = Len(p) /\ Cardinality(1 .. Len(q)) = Len(q)
  <2>1. 1 \in Int /\ Len(p) \in Int /\ Len(q) \in Int
    BY <1>1
  <2>2. Cardinality(1 .. Len(p)) = IF 1 > Len(p) THEN 0 ELSE Len(p) - 1 + 1
    BY <2>1, FS_Interval
  <2>3. Cardinality(1 .. Len(q)) = IF 1 > Len(q) THEN 0 ELSE Len(q) - 1 + 1
    BY <2>1, FS_Interval
  <2> QED
    BY <2>2, <2>3, <1>1
<1> QED
  BY <1>7, <1>8

LEMMA WithoutLists ==
  ASSUME NEW S, Lists(order, S), NEW rng
  PROVE  Lists(Without(rng), S \ rng) /\ Len(Without(rng)) <= Len(order)
<1> DEFINE stay == {i \in DOMAIN order : order[i] \notin rng}
<1>1. DOMAIN order = 1 .. Len(order) /\ \A i \in 1 .. Len(order) : order[i] \in Lba
  BY DEF Lists
<1>2. /\ stay \in SUBSET (1 .. Len(order))
      /\ \A i \in 1 .. Len(order) : i \in stay <=> order[i] \in Lba \ rng
  BY <1>1
<1> HIDE DEF stay
<1>3. Lists(Compacted(order, stay), S \cap (Lba \ rng)) /\ Len(Compacted(order, stay)) <= Len(order)
  BY <1>2, CompactedLists
<1> QED
  BY <1>3 DEF Without, stay, Lists

LEMMA TouchedLists ==
  ASSUME NEW S, Lists(order, S), NEW rng \in SUBSET Lba
  PROVE  Lists(Touched(rng), S \cup rng)
<1> DEFINE all  == [i \in 1 .. LAST + 1 |-> i - 1]
           stay == {i \in DOMAIN all : all[i] \in rng}
<1>1. /\ all \in Seq(Lba) /\ Len(all) = LAST + 1
      /\ \A i \in 1 .. LAST + 1 : all[i] = i - 1
  BY BlkAssumption DEF Lba
<1>2. DOMAIN all = 1 .. Len(all)
  BY <1>1
<1> HIDE DEF all
<1>3. \A l \in Lba : l + 1 \in 1 .. LAST + 1 /\ (l + 1) - 1 = l
  BY BlkAssumption DEF Lba
<1>4. \A l \in Lba : Has(all, l)
  BY <1>1, <1>3 DEF Has
<1>5. Distinct(all)
  BY <1>1, BlkAssumption DEF Distinct
<1>6. Lists(all, Lba)
  BY <1>1, <1>4, <1>5 DEF Lists
<1>7. stay \in SUBSET (1 .. Len(all)) /\ \A i \in 1 .. Len(all) : i \in stay <=> all[i] \in rng
  BY <1>2
<1> HIDE DEF stay
<1>8. Lists(Compacted(all, stay), Lba \cap rng)
  BY <1>6, <1>7, CompactedLists
<1>9. Lists(Without(rng), S \ rng)
  BY WithoutLists
<1>10. Lists(Without(rng) \o Compacted(all, stay), (S \ rng) \cup (Lba \cap rng))
  BY <1>8, <1>9, ConcatLists
<1> QED
  BY <1>10 DEF Touched, all, stay, Lists
-----------------------------------------------------------------------------
(* Counts and bounds.  A write that has reached the disk and not yet         *)
(* invalidated is one the generation is behind.                              *)

Cached   == {l \in Lba : data[l] # None}
Ordered  == Lists(order, Cached) /\ Len(order) <= ENTRIES
Underway == {t \in Task : io[t].at = "landed"}
Tally    == /\ IsFiniteSet(Underway) /\ writes \in 0 .. MaxWrites
            /\ gen + Cardinality(Underway) <= writes
\* One prefetch at a time
Single   == /\ stream.streak \in 0 .. 2 /\ ra \in Task \cup {None}
            /\ \A t \in Task : ra = t <=> io[t].at \in {"ahead", "fetched"}
Bounds   == Ordered /\ Tally /\ Single

\* A hit moves entries and makes none.
LEMMA HitOrdered ==
  ASSUME Ordered, NEW rng \in SUBSET Cached, order' = Touched(rng), data' = data
  PROVE  Ordered'
<1>1. Lists(Touched(rng), Cached)
  <2>1. rng \in SUBSET Lba /\ Cached \cup rng = Cached
    BY DEF Cached
  <2> QED
    BY <2>1, TouchedLists DEF Ordered
<1>2. Len(Touched(rng)) <= Len(order)
  BY <1>1, ListsLength DEF Ordered
<1>3. Len(Touched(rng)) \in Nat /\ Len(order) \in Nat /\ ENTRIES \in Nat
  BY <1>1, BlkAssumption DEF Lists, Ordered
<1>4. Cached' = Cached
  BY DEF Cached
<1> HIDE DEF Cached
<1>5. Lists(order', Cached') /\ Len(order') <= ENTRIES
  BY <1>1, <1>2, <1>3, <1>4 DEF Ordered
<1> QED
  BY <1>5 DEF Ordered, Lists, Distinct, Has

\* A fill makes entries for what it has read, and drops the oldest ones.
LEMMA CommitOrdered ==
  ASSUME Types, Ordered, NEW rng \in SUBSET Lba, NEW buf, NEW g,
         blkcache_commit(rng, buf, g), g = gen => \A l \in rng : buf[l] \in Val
  PROVE  Ordered'
<1>1. CASE g # gen
  BY <1>1 DEF blkcache_commit, Ordered, Cached
<1>2. CASE g = gen
  <2> DEFINE last == Touched(rng)
             m    == IF Len(last) > ENTRIES THEN Len(last) - ENTRIES ELSE 0
             kept == SubSeq(last, IF Len(last) > ENTRIES THEN Len(last) - ENTRIES + 1 ELSE 1,
                            Len(last))
  <2>1. Lists(last, Cached \cup rng)
    BY TouchedLists DEF Ordered
  <2>5. /\ order' = kept
        /\ data' = [l \in Lba |-> IF \A i \in DOMAIN kept : kept[i] # l THEN None
                                  ELSE IF l \in rng THEN buf[l] ELSE data[l]]
    BY <1>2 DEF blkcache_commit
  <2> HIDE DEF last
  <2>2. Len(last) \in Nat /\ ENTRIES \in Nat
    BY <2>1, BlkAssumption DEF Lists
  <2>3. m \in Nat /\ m <= Len(last) /\ Len(last) - m <= ENTRIES
    BY <2>2
  <2>4. m + 1 = IF Len(last) > ENTRIES THEN Len(last) - ENTRIES + 1 ELSE 1
    BY <2>2
  <2> HIDE DEF m
  <2>11. kept = SubSeq(last, m + 1, Len(last))
    BY <2>4
  <2> HIDE DEF kept
  <2>12. \E T : Lists(SubSeq(last, m + 1, Len(last)), T) /\ T \subseteq Cached \cup rng
              /\ T \subseteq Lba
    BY <2>1, <2>3, RestLists
  <2>6. PICK T \in SUBSET Lba : Lists(kept, T) /\ T \subseteq Cached \cup rng
    BY <2>11, <2>12
  <2>7. Len(kept) <= ENTRIES
    <3>1. last \in Seq(Lba)
      BY <2>1 DEF Lists
    <3>2. Len(kept) = Len(last) - m
      BY <3>1, <2>3, <2>11, RestSeq
    <3> QED
      BY <3>2, <2>3
  <2>8. \A l \in Lba : (\A i \in DOMAIN kept : kept[i] # l) <=> l \notin T
    <3>1. DOMAIN kept = 1 .. Len(kept)
      BY <2>6 DEF Lists
    <3> QED
      BY <3>1, <2>6 DEF Lists, Has
  <2>9. Cached' = T
    <3>1. \A l \in Lba : data'[l] # None <=> l \in T
      <4> SUFFICES ASSUME NEW l \in Lba PROVE data'[l] # None <=> l \in T
        OBVIOUS
      <4>1. CASE l \notin T
        BY <4>1, <2>5, <2>8
      <4>2. CASE l \in T
        <5>1. data'[l] = IF l \in rng THEN buf[l] ELSE data[l]
          BY <4>2, <2>5, <2>8
        <5>2. l \in rng => buf[l] # None
          BY <1>2, BlkAssumption
        <5>3. l \notin rng => data[l] # None
          BY <4>2, <2>6 DEF Cached
        <5> QED
          BY <4>2, <5>1, <5>2, <5>3
      <4> QED
        BY <4>1, <4>2
    <3> QED
      BY <3>1, <2>6 DEF Cached
  <2> HIDE DEF Cached
  <2>10. Lists(order', Cached') /\ Len(order') <= ENTRIES
    BY <2>5, <2>6, <2>7, <2>9
  <2> QED
    BY <2>10 DEF Ordered, Lists, Distinct, Has
<1> QED
  BY <1>1, <1>2

LEMMA OrderedNext ==
  ASSUME BlkInv, Ordered, BlkNext
  PROVE  Ordered'
<1> USE DEF BlkInv
<1>1. CASE UNCHANGED <<data, order>>
  BY <1>1 DEF Ordered, Cached
<1>2. ASSUME NEW t \in Task, blkcache_read(t) PROVE Ordered'
  <2> DEFINE rng == Own(io[t])
  <2>1. rng \subseteq Lba /\ data' = data
    BY <1>2 DEF blkcache_read, CallSound, Watched, Reading
  <2>2. CASE \A l \in rng : data[l] # None
    <3>1. rng \in SUBSET Cached
      BY <2>1, <2>2 DEF Cached
    <3>2. order' = Touched(rng)
      BY <1>2, <2>2 DEF blkcache_read, Own
    <3> QED
      BY <3>1, <3>2, <2>1, HitOrdered
  <2>3. CASE ~\A l \in rng : data[l] # None
    BY <1>2, <2>1, <2>3, <1>1 DEF blkcache_read, Own
  <2> QED
    BY <2>2, <2>3
<1>3. ASSUME NEW t \in Task, Commit(t) PROVE Ordered'
  <2>1. io[t].at = "read" /\ CallSound(t, io[t])
    BY <1>3 DEF Commit
  <2>2. Own(io[t]) \in SUBSET Lba
    BY <2>1 DEF CallSound, Watched, Reading
  <2>3. io[t].gen = gen => \A l \in Own(io[t]) : io[t].buf[l] \in Val
    BY <2>1, <2>2, CurrentTypes DEF CallSound, Fillable, Fills
  <2> QED
    BY <1>3, <2>2, <2>3, CommitOrdered DEF Commit, Own
<1>4. ASSUME NEW t \in Task, PrefetchCommit(t) PROVE Ordered'
  <2>1. io[t].at = "fetched" /\ CallSound(t, io[t])
    BY <1>4 DEF PrefetchCommit
  <2>2. After(io[t]) \in SUBSET Lba
    BY DEF After
  <2>3. io[t].gen = gen => \A l \in After(io[t]) : io[t].buf[l] \in Val
    BY <2>1, <2>2, CurrentTypes DEF CallSound, Fillable, Fills
  <2> QED
    BY <1>4, <2>2, <2>3, CommitOrdered DEF PrefetchCommit, After, Ahead
<1>5. ASSUME NEW t \in Task, blkcache_invalidate(t) PROVE Ordered'
  <2> DEFINE rng == Own(io[t])
  <2>1. /\ order' = Without(rng)
        /\ data' = [l \in Lba |-> IF l \in rng THEN None ELSE data[l]]
    BY <1>5 DEF blkcache_invalidate, Own
  <2>2. Lists(Without(rng), Cached \ rng) /\ Len(Without(rng)) <= Len(order)
    BY WithoutLists DEF Ordered
  <2>3. Cached' = Cached \ rng
    BY <2>1 DEF Cached
  <2>4. Len(Without(rng)) \in Nat /\ Len(order) \in Nat /\ ENTRIES \in Nat
    BY <2>2, BlkAssumption DEF Lists, Ordered
  <2> HIDE DEF Cached
  <2>5. Lists(order', Cached') /\ Len(order') <= ENTRIES
    BY <2>1, <2>2, <2>3, <2>4 DEF Ordered
  <2> QED
    BY <2>5 DEF Ordered, Lists, Distinct, Has
<1>6. ASSUME NEW t \in Task, NEW l \in Lba, NEW n, NEW note, NEW v,
             ReadCall(t, l, n, note) \/ DiskWrite(t, l, n, v) \/ DiskWriteFails(t, l, n, v)
      PROVE  Ordered'
  BY <1>1, <1>6 DEF ReadCall, DiskWrite, DiskWriteFails
<1>7. ASSUME NEW t \in Task,
             \/ ata_ra_note(t) \/ DiskRead(t) \/ DiskReadFails(t) \/ ata_ra_maybe_prefetch(t)
             \/ PrefetchRead(t) \/ PrefetchFails(t) \/ Return(t)
      PROVE  Ordered'
  BY <1>1, <1>7 DEF ata_ra_note, DiskRead, DiskReadFails, ata_ra_maybe_prefetch, PrefetchRead,
                    PrefetchFails, Return
<1> QED
  BY <1>2, <1>3, <1>4, <1>5, <1>6, <1>7 DEF BlkNext

\* Only what a write does to the disk and to the cache changes the account.
LEMMA TallyNext ==
  ASSUME BlkInv, Tally, BlkNext
  PROVE  Tally'
<1>1. gen \in Nat /\ writes \in Nat /\ MaxWrites \in Nat /\ io \in [Task -> BlkCalls]
  BY BlkAssumption DEF BlkInv, Types, Tally
<1>2. IsFiniteSet(Underway) /\ Cardinality(Underway) \in Nat
  BY FS_CardinalityType DEF Tally
<1>3. CASE UNCHANGED <<gen, writes>> /\ Underway' = Underway
  BY <1>3 DEF Tally
<1>4. ASSUME NEW t \in Task, NEW l \in Lba, NEW n \in Nat, NEW v \in Val, DiskWrite(t, l, n, v)
      PROVE  Tally'
  <2> DEFINE rng == Sectors(l, n)
  <2>1. /\ io[t].at = "idle" /\ writes < MaxWrites /\ writes' = writes + 1 /\ gen' = gen
    BY <1>4 DEF DiskWrite, Landed
  <2>2. io'[t].at = "landed" /\ \A u \in Task \ {t} : io'[u] = Seen(rng, v)[u]
    BY <1>4 DEF DiskWrite, Seen, Idle
  <2>3. \A u \in Task \ {t} : io'[u].at = io[u].at
    BY <2>2, SeenKeeps DEF BlkInv
  <2>4. t \notin Underway /\ Underway' = Underway \cup {t}
    BY <2>1, <2>2, <2>3 DEF Underway
  <2>5. IsFiniteSet(Underway') /\ Cardinality(Underway') = Cardinality(Underway) + 1
    BY <1>2, <2>4, OneMore
  <2>6. writes' \in 0 .. MaxWrites /\ gen' + Cardinality(Underway') <= writes'
    BY <1>1, <1>2, <2>1, <2>5 DEF Tally
  <2> QED
    BY <2>5, <2>6 DEF Tally
<1>5. ASSUME NEW t \in Task, NEW l \in Lba, NEW n \in Nat, NEW v \in Val,
             DiskWriteFails(t, l, n, v)
      PROVE  Tally'
  <2>1. writes < MaxWrites /\ writes' = writes + 1 /\ gen' = gen
    BY <1>5 DEF DiskWriteFails, Landed
  <2>2. \A u \in Task : io'[u].at = io[u].at
    BY <1>5, SeenKeeps DEF DiskWriteFails, BlkInv
  <2>3. Underway' = Underway
    BY <2>2 DEF Underway
  <2>4. writes' \in 0 .. MaxWrites /\ gen' + Cardinality(Underway') <= writes'
    BY <1>1, <1>2, <2>1, <2>3 DEF Tally
  <2> QED
    BY <1>2, <2>3, <2>4 DEF Tally
<1>6. ASSUME NEW t \in Task, blkcache_invalidate(t) PROVE Tally'
  <2>1. /\ io[t].at = "landed" /\ gen' = gen + 1 /\ writes' = writes
        /\ io' = [io EXCEPT ![t] = Idle]
    BY <1>6 DEF blkcache_invalidate
  <2>2. t \in Underway /\ Underway' = Underway \ {t}
    BY <1>1, <2>1 DEF Underway, Idle
  <2>3. IsFiniteSet(Underway') /\ Cardinality(Underway') = Cardinality(Underway) - 1
    BY <1>2, <2>2, OneLess
  <2>4. writes' \in 0 .. MaxWrites /\ gen' + Cardinality(Underway') <= writes'
    BY <1>1, <1>2, <2>1, <2>3 DEF Tally
  <2> QED
    BY <2>3, <2>4 DEF Tally
<1>7. ASSUME NEW t \in Task, NEW c, io' = [io EXCEPT ![t] = c], io[t].at # "landed",
             c.at # "landed", UNCHANGED <<gen, writes>>
      PROVE  Tally'
  <2>1. Underway' = Underway
    BY <1>1, <1>7 DEF Underway
  <2> QED
    BY <1>3, <1>7, <2>1
<1>8. ASSUME NEW t \in Task, NEW at, Goes(t, at), io[t].at # "landed", at # "landed",
             UNCHANGED <<gen, writes>>
      PROVE  Tally'
  <2>1. [io[t] EXCEPT !.at = at].at = at /\ io' = [io EXCEPT ![t] = [io[t] EXCEPT !.at = at]]
    BY <1>1, <1>8 DEF Goes, BlkCalls
  <2> QED
    BY <1>7, <1>8, <2>1
<1>9. ASSUME NEW t \in Task, NEW l, NEW n, NEW note, ReadCall(t, l, n, note) PROVE Tally'
  <2> DEFINE c == [Idle EXCEPT !.at = IF note THEN "called" ELSE "noted", !.lba = l, !.n = n,
                               !.note = note,
                               !.seen = [k \in Lba |-> IF k \in Sectors(l, n)
                                                       THEN Current(k) ELSE {}]]
  <2>1. io' = [io EXCEPT ![t] = c] /\ c.at # "landed"
    BY <1>9 DEF ReadCall, Idle
  <2> HIDE DEF c
  <2> QED
    BY <2>1, <1>7, <1>9 DEF ReadCall
<1>10. ASSUME NEW t \in Task,
              \/ blkcache_read(t) \/ DiskRead(t) \/ DiskReadFails(t) \/ PrefetchRead(t)
              \/ PrefetchCommit(t) \/ Return(t)
       PROVE  Tally'
  <2>1. io[t] \in BlkCalls /\ io[t].at # "landed" /\ UNCHANGED <<gen, writes>>
    BY <1>1, <1>10 DEF blkcache_read, DiskRead, DiskReadFails, PrefetchRead, PrefetchCommit, Return
  <2>2. \E c : io' = [io EXCEPT ![t] = c] /\ c.at # "landed"
    <3>1. CASE blkcache_read(t)
      <4>1. CASE \A l \in Own(io[t]) : data[l] # None
        <5> WITNESS [io[t] EXCEPT !.at = "done", !.buf = Part(data, Own(io[t]))]
        <5> QED
          BY <1>1, <2>1, <3>1, <4>1 DEF blkcache_read, Own, BlkCalls
      <4>2. CASE ~\A l \in Own(io[t]) : data[l] # None
        <5> WITNESS [io[t] EXCEPT !.at = "missed", !.gen = gen]
        <5> QED
          BY <1>1, <2>1, <3>1, <4>2 DEF blkcache_read, Own, BlkCalls
      <4> QED
        BY <4>1, <4>2
    <3>2. CASE DiskRead(t)
      <4> WITNESS [io[t] EXCEPT !.at = "read", !.buf = Part(disk, Sectors(io[t].lba, io[t].n))]
      <4> QED
        BY <1>1, <2>1, <3>2 DEF DiskRead, BlkCalls
    <3>3. CASE DiskReadFails(t) \/ Return(t)
      BY <3>3 DEF DiskReadFails, Return, Idle
    <3>4. CASE PrefetchRead(t)
      <4> WITNESS [io[t] EXCEPT !.at = "fetched",
                     !.buf = [l \in Lba |-> IF l \in Ahead(t) THEN disk[l] ELSE io[t].buf[l]]]
      <4> QED
        BY <1>1, <2>1, <3>4 DEF PrefetchRead, BlkCalls
    <3>5. CASE PrefetchCommit(t)
      <4> WITNESS [io[t] EXCEPT !.at = "done",
                     !.buf = Part(io[t].buf, Sectors(io[t].lba, io[t].n))]
      <4> QED
        BY <1>1, <2>1, <3>5 DEF PrefetchCommit, BlkCalls
    <3> QED
      BY <1>10, <3>1, <3>2, <3>3, <3>4, <3>5
  <2> QED
    BY <2>1, <2>2, <1>7
<1>11. ASSUME NEW t \in Task,
              \/ ata_ra_note(t) \/ Commit(t) \/ ata_ra_maybe_prefetch(t) \/ PrefetchFails(t)
       PROVE  Tally'
  <2>1. io[t].at # "landed" /\ UNCHANGED <<gen, writes>>
    BY <1>11 DEF ata_ra_note, Commit, ata_ra_maybe_prefetch, PrefetchFails
  <2>2. \E at : Goes(t, at) /\ at # "landed"
    <3>1. CASE ata_ra_note(t)
      BY <3>1 DEF ata_ra_note
    <3>2. CASE Commit(t)
      <4>1. PICK at \in {"filled", "done"} : Goes(t, at)
        BY <3>2 DEF Commit
      <4> QED
        BY <4>1
    <3>3. CASE ata_ra_maybe_prefetch(t) \/ PrefetchFails(t)
      BY <3>3 DEF ata_ra_maybe_prefetch, PrefetchFails
    <3> QED
      BY <1>11, <3>1, <3>2, <3>3
  <2> QED
    BY <2>1, <2>2, <1>8
<1>12. \A n \in 1 .. BATCH : n \in Nat
  BY BlkAssumption
<1> QED
  BY <1>4, <1>5, <1>6, <1>9, <1>10, <1>11, <1>12 DEF BlkNext

\* A prefetch begins and ends with ra_lock.
LEMMA SingleNext ==
  ASSUME BlkInv, Single, BlkNext
  PROVE  Single'
<1> DEFINE Ahd(u) == io[u].at \in {"ahead", "fetched"}
<1>1. io \in [Task -> BlkCalls] /\ None \notin Task
  <2>1. \A t \in Task : t \in Int
    BY TablesAssumption
  <2> QED
    BY <2>1, TablesAssumption DEF BlkInv, Types
<1>2. ASSUME NEW t \in Task, NEW c, io' = [io EXCEPT ![t] = c],
             c.at \in {"ahead", "fetched"} <=> Ahd(t), UNCHANGED <<stream, ra>>
      PROVE  Single'
  BY <1>1, <1>2 DEF Single
<1>3. ASSUME \A u \in Task : io'[u].at = io[u].at, UNCHANGED <<stream, ra>> PROVE Single'
  BY <1>3 DEF Single
<1>4. ASSUME NEW t \in Task, NEW l, NEW n, NEW note, ReadCall(t, l, n, note) PROVE Single'
  <2> DEFINE c == [Idle EXCEPT !.at = IF note THEN "called" ELSE "noted", !.lba = l, !.n = n,
                               !.note = note,
                               !.seen = [k \in Lba |-> IF k \in Sectors(l, n)
                                                       THEN Current(k) ELSE {}]]
  <2>1. io' = [io EXCEPT ![t] = c] /\ c.at \notin {"ahead", "fetched"}
    BY <1>4 DEF ReadCall, Idle
  <2> HIDE DEF c
  <2> QED
    BY <2>1, <1>2, <1>4 DEF ReadCall
<1>5. ASSUME NEW t \in Task, NEW l \in Lba, NEW n \in Nat, NEW v \in Val, DiskWrite(t, l, n, v)
      PROVE  Single'
  <2> DEFINE rng == Sectors(l, n)
  <2>1. io[t].at = "idle" /\ UNCHANGED <<stream, ra>>
    BY <1>5 DEF DiskWrite
  <2>2. io'[t].at = "landed" /\ \A u \in Task \ {t} : io'[u] = Seen(rng, v)[u]
    BY <1>5 DEF DiskWrite, Seen, Idle
  <2>3. \A u \in Task \ {t} : io'[u].at = io[u].at
    BY <2>2, SeenKeeps DEF BlkInv
  <2> QED
    BY <2>1, <2>2, <2>3 DEF Single
<1>6. ASSUME NEW t \in Task, NEW l \in Lba, NEW n \in Nat, NEW v \in Val,
             DiskWriteFails(t, l, n, v)
      PROVE  Single'
  <2>1. \A u \in Task : io'[u].at = io[u].at
    BY <1>6, SeenKeeps DEF DiskWriteFails, BlkInv
  <2> QED
    BY <2>1, <1>3, <1>6 DEF DiskWriteFails
<1>7. ASSUME NEW t \in Task, ata_ra_note(t) PROVE Single'
  <2>1. /\ stream'.streak \in 0 .. 2 /\ ra = None /\ ra' = ra
        /\ io' = [io EXCEPT ![t].at = "noted"]
    BY <1>7 DEF ata_ra_note, Goes
  <2>2. \A u \in Task : io'[u].at \in {io[u].at, "noted"}
    BY <1>1, <2>1 DEF BlkCalls
  <2> QED
    BY <1>1, <2>1, <2>2 DEF Single
<1>8. ASSUME NEW t \in Task, ata_ra_maybe_prefetch(t) PROVE Single'
  <2>1. ra = None /\ stream' = stream /\ \A u \in Task : ~Ahd(u)
    BY <1>1, <1>8 DEF ata_ra_maybe_prefetch, Single
  <2>2. \A u \in Task \ {t} : io'[u] = io[u]
    BY <1>1, <1>8 DEF ata_ra_maybe_prefetch, Goes
  <2>3. CASE Prefetches(t)
    <3>1. ra' = t /\ io'[t].at = "ahead"
      BY <1>1, <1>8, <2>3 DEF ata_ra_maybe_prefetch, Goes, BlkCalls
    <3> QED
      BY <2>1, <2>2, <3>1 DEF Single
  <2>4. CASE ~Prefetches(t)
    <3>1. ra' = None /\ io'[t].at = "done"
      BY <1>1, <1>8, <2>1, <2>4 DEF ata_ra_maybe_prefetch, Goes, BlkCalls
    <3> QED
      BY <1>1, <2>1, <2>2, <3>1 DEF Single
  <2> QED
    BY <2>3, <2>4
<1>9. ASSUME NEW t \in Task, PrefetchFails(t) \/ PrefetchCommit(t) PROVE Single'
  <2>1. Ahd(t) /\ ra' = None /\ stream' = stream /\ io'[t].at = "done"
    BY <1>1, <1>9 DEF PrefetchFails, PrefetchCommit, Goes, BlkCalls
  <2>2. \A u \in Task \ {t} : io'[u] = io[u] /\ ~Ahd(u)
    BY <1>1, <1>9, <2>1 DEF PrefetchFails, PrefetchCommit, Goes, Single
  <2> QED
    BY <1>1, <2>1, <2>2 DEF Single
<1>10. ASSUME NEW t \in Task,
              DiskReadFails(t) \/ Return(t) \/ blkcache_invalidate(t)
       PROVE  Single'
  <2>1. ~Ahd(t) /\ io' = [io EXCEPT ![t] = Idle] /\ UNCHANGED <<stream, ra>>
    BY <1>10 DEF DiskReadFails, Return, blkcache_invalidate
  <2> QED
    BY <2>1, <1>2 DEF Idle
<1>11. ASSUME NEW t \in Task, blkcache_read(t) \/ DiskRead(t) \/ Commit(t) \/ PrefetchRead(t)
       PROVE  Single'
  <2>1. UNCHANGED <<stream, ra>> /\ \A u \in Task \ {t} : io'[u] = io[u]
    BY <1>1, <1>11 DEF blkcache_read, DiskRead, Commit, Goes, PrefetchRead
  <2>2. io'[t].at \in {"ahead", "fetched"} <=> Ahd(t)
    <3>1. CASE blkcache_read(t)
      BY <1>1, <3>1 DEF blkcache_read, BlkCalls
    <3>2. CASE DiskRead(t)
      BY <1>1, <3>2 DEF DiskRead, BlkCalls
    <3>3. CASE Commit(t)
      BY <1>1, <3>3 DEF Commit, Goes, BlkCalls
    <3>4. CASE PrefetchRead(t)
      BY <1>1, <3>4 DEF PrefetchRead, BlkCalls
    <3> QED
      BY <1>11, <3>1, <3>2, <3>3, <3>4
  <2> QED
    BY <2>1, <2>2 DEF Single
<1>12. \A n \in 1 .. BATCH : n \in Nat
  BY BlkAssumption
<1> QED
  BY <1>4, <1>5, <1>6, <1>7, <1>8, <1>9, <1>10, <1>11, <1>12 DEF BlkNext

LEMMA InitBounds ==
  ASSUME BlkInit
  PROVE  Bounds
<1>1. Ordered
  <2>1. Cached = {}
    BY DEF BlkInit, Cached, Empty
  <2>2. order = <<>> /\ Len(order) = 0 /\ order \in Seq(Lba) /\ ENTRIES \in Nat
    BY BlkAssumption DEF BlkInit
  <2> QED
    BY <2>1, <2>2 DEF Ordered, Lists, Distinct, Has
<1>2. Tally
  <2>1. Underway = {} /\ gen = 0 /\ writes = 0
    BY DEF BlkInit, Underway, Idle
  <2> QED
    BY <2>1, FS_EmptySet, BlkAssumption DEF Tally
<1>3. Single
  BY TablesAssumption DEF BlkInit, Single, Idle
<1> QED
  BY <1>1, <1>2, <1>3 DEF Bounds

LEMMA StutterBounds ==
  ASSUME Bounds, UNCHANGED blkVars
  PROVE  Bounds'
BY DEF Bounds, Ordered, Cached, Lists, Distinct, Has, Tally, Underway, Single, blkVars

(* blkcache.c never has more than BLKCACHE_ENTRIES entries nor two for one    *)
(* sector, the generation never passes the writes that reached the disk, and  *)
(* one task at most prefetches, the one that has ra_lock.                     *)
THEOREM BlkTypes == BlkSpec => []BlkTypeOK
<1> DEFINE I == BlkInv /\ Bounds
<1>1. BlkInit => I
  BY InitIInv, InitBounds
<1>2. I /\ [BlkNext]_blkVars => I'
  <2>1. ASSUME I, BlkNext PROVE I'
    BY <2>1, NextIInv, OrderedNext, TallyNext, SingleNext DEF Bounds
  <2> QED
    BY <2>1, StutterIInv, StutterBounds
<1>3. I => BlkTypeOK
  <2> SUFFICES ASSUME I PROVE BlkTypeOK
    OBVIOUS
  <2>1. gen \in 0 .. writes /\ writes \in 0 .. MaxWrites
    <3>1. Cardinality(Underway) \in Nat
      BY FS_CardinalityType DEF Bounds, Tally
    <3> QED
      BY <3>1, BlkAssumption DEF Bounds, Tally, BlkInv, Types
  <2>2. Len(order) <= ENTRIES /\ IsInjective(order)
    BY DEF Bounds, Ordered, Lists, Distinct, IsInjective
  <2>3. Range(order) = {l \in Lba : data[l] # None}
    <3>1. DOMAIN order = 1 .. Len(order) /\ \A i \in DOMAIN order : order[i] \in Lba
      BY DEF Bounds, Ordered, Lists
    <3> QED
      BY <3>1 DEF Bounds, Ordered, Lists, Has, Cached, Range
  <2> QED
    BY <2>1, <2>2, <2>3 DEF BlkTypeOK, Bounds, Single, BlkInv, Types
<1> QED
  BY <1>1, <1>2, <1>3, PTL DEF BlkSpec
=============================================================================
