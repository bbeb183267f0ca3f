-------------------------------- MODULE Blk --------------------------------
(***************************************************************************)
(* The sector cache of src/sys/blkcache.c between the programs and the     *)
(* disk, with the read-ahead of src/drivers/ata.c, for one drive.          *)
(*                                                                         *)
(* No lock spans a call: a transfer is one step under ata_lock, each call  *)
(* of the cache one step under blkcache_lock, and ra_lock is held from the *)
(* decision to read ahead to the end of the fill.  Calls of several cores  *)
(* interleave between these steps.                                         *)
(***************************************************************************)
EXTENDS Tables, Queues, Sequences, SequencesExt

CONSTANTS Reader,    \* callers of the block layer that read
          Writer,    \* those that write
          LAST,      \* the sectors of the drive are 0 .. LAST
          Val,       \* contents of a sector
          Blank,     \* the first contents
          ENTRIES,   \* BLKCACHE_ENTRIES
          BATCH,     \* the most sectors a call asks for
          RA_SECTORS, RA_SMALL_MAX,
          MaxWrites  \* bound: writes that reach the disk

ASSUME BlkAssumption ==
  /\ Reader \cup Writer \subseteq Task /\ Blank \in Val /\ None \notin Val
  /\ LAST \in Nat /\ ENTRIES \in Nat \ {0} /\ BATCH \in 1 .. ENTRIES
  /\ RA_SECTORS \in 1 .. ENTRIES /\ RA_SMALL_MAX \in Nat /\ MaxWrites \in Nat

VARIABLES
  disk,    \* disk[l]: what sector l holds
  data,    \* data[l]: the cached copy of l, None without an entry
  order,   \* the cached sectors, least recently used first (the stamps)
  gen,     \* blkcache_gen
  stream,  \* ra_stream: prev_end and streak, which counts to 2
  ra,      \* the task in a prefetch, which has ra_lock, or None
  io,      \* io[t]: where t stands in its call
  writes,  \* writes that reached the disk
  torn     \* history: torn[l], what refused writes may have replaced in l

blkVars == <<disk, data, order, gen, stream, ra, io, writes, torn>>

Lba == 0 .. LAST
Sectors(l, n) == l .. l + n - 1
Empty == [l \in Lba |-> None]
Idle == [at |-> "idle", lba |-> 0, n |-> 1, note |-> FALSE, gen |-> 0, buf |-> Empty,
         seen |-> [l \in Lba |-> {}]]

\* Of the sectors rng, what the function f has
Part(f, rng) == [l \in Lba |-> IF l \in rng THEN f[l] ELSE None]

\* What was on the disk when the writes not yet invalidated reached it
Replaced(l) == {io[w].buf[l] : w \in {w \in Writer : io[w].at = "landed"}} \ {None}

\* What a read of l may return by now: the disk, and what it held before writes that
\* are not yet invalidated or were refused
Current(l) == {disk[l]} \cup Replaced(l) \cup torn[l]

Goes(t, at) == io' = [io EXCEPT ![t].at = at]

-----------------------------------------------------------------------------
\* A read of n sectors at l; seen collects what l holds while the call runs.
ReadCall(t, l, n, note) ==
  /\ t \in Reader /\ io[t].at = "idle" /\ Sectors(l, n) \subseteq Lba
  /\ io' = [io EXCEPT ![t] =
              [Idle EXCEPT !.at = IF note THEN "called" ELSE "noted", !.lba = l, !.n = n,
                           !.note = note,
                           !.seen = [k \in Lba |-> IF k \in Sectors(l, n)
                                                   THEN Current(k) ELSE {}]]]
  /\ UNCHANGED <<disk, data, order, gen, stream, ra, torn, writes>>

\* A demand that begins where the last one ended counts as sequential.
ata_ra_note(t) ==
  /\ io[t].at = "called" /\ ra = None
  /\ stream' = [prev_end |-> io[t].lba + io[t].n,
                streak |-> IF io[t].lba = stream.prev_end /\ stream.streak > 0 THEN 2 ELSE 1]
  /\ Goes(t, "noted")
  /\ UNCHANGED <<disk, data, order, gen, ra, torn, writes>>

\* The recency order without the sectors rng
Without(rng) == Compacted(order, {i \in DOMAIN order : order[i] \notin rng})

\* The sectors rng become the most recently used, in order.
Touched(rng) ==
  LET all == [i \in 1 .. LAST + 1 |-> i - 1]
  IN  Without(rng) \o Compacted(all, {i \in DOMAIN all : all[i] \in rng})

\* Only a hit on every sector counts; a miss takes the generation along.
blkcache_read(t) ==
  LET rng == Sectors(io[t].lba, io[t].n)
  IN  /\ io[t].at = "noted"
      /\ IF \A l \in rng : data[l] # None
         THEN /\ order' = Touched(rng)
              /\ io' = [io EXCEPT ![t].at = "done", ![t].buf = Part(data, rng)]
         ELSE /\ io' = [io EXCEPT ![t].at = "missed", ![t].gen = gen]
              /\ UNCHANGED order
      /\ UNCHANGED <<disk, data, gen, stream, ra, torn, writes>>

\* ata_read_sectors_drive_io
DiskRead(t) ==
  /\ io[t].at = "missed"
  /\ io' = [io EXCEPT ![t].at = "read",
                      ![t].buf = Part(disk, Sectors(io[t].lba, io[t].n))]
  /\ UNCHANGED <<disk, data, order, gen, stream, ra, torn, writes>>

\* The drive fails the read: the call returns -1 and nothing is cached.
DiskReadFails(t) ==
  /\ io[t].at = "missed"
  /\ io' = [io EXCEPT ![t] = Idle]
  /\ UNCHANGED <<disk, data, order, gen, stream, ra, torn, writes>>

\* Broken: the fill does not look at the generation.
blkcache_commit_Always(rng, buf, g) ==
  LET last == Touched(rng)
      kept == SubSeq(last, IF Len(last) > ENTRIES THEN Len(last) - ENTRIES + 1 ELSE 1, Len(last))
  IN  /\ order' = kept
      /\ data' = [l \in Lba |-> IF \A i \in DOMAIN kept : kept[i] # l THEN None
                                ELSE IF l \in rng THEN buf[l] ELSE data[l]]

\* The sectors read get entries, in place of the least recently used ones, unless a
\* write has been completed since the miss.
blkcache_commit(rng, buf, g) ==
  LET last == Touched(rng)
      kept == SubSeq(last, IF Len(last) > ENTRIES THEN Len(last) - ENTRIES + 1 ELSE 1, Len(last))
  IN  IF g = gen
      THEN /\ order' = kept
           /\ data' = [l \in Lba |-> IF \A i \in DOMAIN kept : kept[i] # l THEN None
                                     ELSE IF l \in rng THEN buf[l] ELSE data[l]]
      ELSE UNCHANGED <<order, data>>

Commit(t) ==
  /\ io[t].at = "read"
  /\ blkcache_commit(Sectors(io[t].lba, io[t].n), io[t].buf, io[t].gen)
  /\ Goes(t, IF io[t].note THEN "filled" ELSE "done")
  /\ UNCHANGED <<disk, gen, stream, ra, torn, writes>>

-----------------------------------------------------------------------------
(* ata_ra_maybe_prefetch: the decision, the transfer and the fill            *)

\* The sectors after the demand, as far as the drive goes
Ahead(t) == Sectors(io[t].lba + io[t].n, RA_SECTORS) \cap Lba
Prefetches(t) == stream.streak >= 2 /\ io[t].n <= RA_SMALL_MAX /\ Ahead(t) # {}

ata_ra_maybe_prefetch(t) ==
  /\ io[t].at = "filled" /\ ra = None
  /\ IF Prefetches(t) THEN ra' = t /\ Goes(t, "ahead") ELSE Goes(t, "done") /\ UNCHANGED ra
  /\ UNCHANGED <<disk, data, order, gen, stream, torn, writes>>

\* The prefetch buffer ra_buf is kept beside the caller's own in buf.
PrefetchRead(t) ==
  /\ io[t].at = "ahead"
  /\ io' = [io EXCEPT ![t].at = "fetched",
                      ![t].buf = [l \in Lba |-> IF l \in Ahead(t) THEN disk[l] ELSE io[t].buf[l]]]
  /\ UNCHANGED <<disk, data, order, gen, stream, ra, torn, writes>>

PrefetchFails(t) ==
  /\ io[t].at = "ahead" /\ ra' = None
  /\ Goes(t, "done")
  /\ UNCHANGED <<disk, data, order, gen, stream, torn, writes>>

PrefetchCommit(t) ==
  /\ io[t].at = "fetched" /\ ra' = None
  /\ blkcache_commit(Ahead(t), io[t].buf, io[t].gen)
  /\ io' = [io EXCEPT ![t].at = "done",
                      ![t].buf = Part(io[t].buf, Sectors(io[t].lba, io[t].n))]
  /\ UNCHANGED <<disk, gen, stream, torn, writes>>

Return(t) ==
  /\ io[t].at = "done"
  /\ io' = [io EXCEPT ![t] = Idle]
  /\ UNCHANGED <<disk, data, order, gen, stream, ra, torn, writes>>

-----------------------------------------------------------------------------
\* Readers under way may now find the new contents.
Seen(rng, v) ==
  [t \in Task |-> IF t \in Reader /\ io[t].at # "idle"
                  THEN [io[t] EXCEPT !.seen = [l \in Lba |-> IF l \in rng /\ io[t].seen[l] # {}
                                                             THEN io[t].seen[l] \cup {v}
                                                             ELSE io[t].seen[l]]]
                  ELSE io[t]]

Landed(rng, v) == /\ disk' = [l \in Lba |-> IF l \in rng THEN v ELSE disk[l]]
                  /\ writes' = writes + 1

\* ata_write_sectors_drive_io, with every sector written
DiskWrite(t, l, n, v) ==
  LET rng == Sectors(l, n)
  IN  /\ t \in Writer /\ io[t].at = "idle" /\ rng \subseteq Lba /\ writes < MaxWrites
      /\ Landed(rng, v)
      /\ io' = [Seen(rng, v) EXCEPT ![t] = [Idle EXCEPT !.at = "landed", !.lba = l, !.n = n,
                                                        !.buf = Part(disk, rng)]]
      /\ UNCHANGED <<data, order, gen, stream, ra, torn>>

\* A refused write may have reached the disk up to some sector; the call returns -1
\* and the cache is left as it is.
DiskWriteFails(t, l, n, v) ==
  LET rng == Sectors(l, n)
  IN  /\ t \in Writer /\ io[t].at = "idle" /\ rng \subseteq Lba /\ writes < MaxWrites
      /\ Landed(rng, v)
      /\ torn' = [k \in Lba |-> IF k \in rng THEN Current(k) ELSE torn[k]]
      /\ io' = Seen(rng, v)
      /\ UNCHANGED <<data, order, gen, stream, ra>>

\* Broken: the entries go, and the generation stays.
blkcache_invalidate_Quiet(t) ==
  LET rng == Sectors(io[t].lba, io[t].n)
  IN  /\ io[t].at = "landed"
      /\ data' = [l \in Lba |-> IF l \in rng THEN None ELSE data[l]]
      /\ order' = Without(rng)
      /\ torn' = [l \in Lba |-> IF l \in rng THEN {} ELSE torn[l]]
      /\ io' = [io EXCEPT ![t] = Idle]
      /\ UNCHANGED <<disk, gen, stream, ra, writes>>

blkcache_invalidate(t) ==
  LET rng == Sectors(io[t].lba, io[t].n)
  IN  /\ io[t].at = "landed"
      /\ gen' = gen + 1
      /\ data' = [l \in Lba |-> IF l \in rng THEN None ELSE data[l]]
      /\ order' = Without(rng)
      /\ torn' = [l \in Lba |-> IF l \in rng THEN {} ELSE torn[l]]
      /\ io' = [io EXCEPT ![t] = Idle]
      /\ UNCHANGED <<disk, stream, ra, writes>>

-----------------------------------------------------------------------------
BlkInit ==
  /\ disk = [l \in Lba |-> Blank] /\ data = Empty /\ order = <<>> /\ gen = 0 /\ writes = 0
  /\ stream = [prev_end |-> 0, streak |-> 0] /\ ra = None
  /\ io = [t \in Task |-> Idle] /\ torn = [l \in Lba |-> {}]

BlkNext ==
  \E t \in Task :
    \/ \E l \in Lba, n \in 1 .. BATCH :
         \/ ReadCall(t, l, n, TRUE)
         \/ \E v \in Val : DiskWrite(t, l, n, v) \/ DiskWriteFails(t, l, n, v)
    \/ \E l \in Lba : ReadCall(t, l, 1, FALSE)
    \/ ata_ra_note(t) \/ blkcache_read(t) \/ DiskRead(t) \/ DiskReadFails(t) \/ Commit(t)
    \/ ata_ra_maybe_prefetch(t) \/ PrefetchRead(t) \/ PrefetchFails(t)
    \/ PrefetchCommit(t) \/ Return(t) \/ blkcache_invalidate(t)

BlkSpec == BlkInit /\ [][BlkNext]_blkVars

-----------------------------------------------------------------------------
(* A sector is in the cache as often as its entry is in the recency order.    *)
BlkTypeOK ==
  /\ disk \in [Lba -> Val] /\ data \in [Lba -> Val \cup {None}]
  /\ gen \in 0 .. writes /\ writes \in 0 .. MaxWrites
  /\ Len(order) <= ENTRIES /\ IsInjective(order)
  /\ Range(order) = {l \in Lba : data[l] # None}
  /\ stream.streak \in 0 .. 2 /\ ra \in Task \cup {None}
  /\ \A t \in Task : ra = t <=> io[t].at \in {"ahead", "fetched"}

(* What the cache holds is what the disk holds, however reads, prefetches and *)
(* writes of several tasks overlap; only between the transfer of a write and  *)
(* its blkcache_invalidate, or after a write the drive refused, may it be     *)
(* what that write replaced.                                                  *)
CacheIsDisk ==
  \A l \in Lba : data[l] # None => data[l] \in Current(l)

(* A read returns, for every sector, contents the sector had while the call   *)
(* ran, or that a write overlapping the call replaced: never a copy from      *)
(* before a write that had returned 0 when the read began.                    *)
ReadsFresh ==
  \A t \in Reader : io[t].at = "done" =>
    \A l \in Sectors(io[t].lba, io[t].n) : io[t].buf[l] \in io[t].seen[l]
=============================================================================
