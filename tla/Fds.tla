-------------------------------- MODULE Fds --------------------------------
(***************************************************************************)
(* The descriptor tables of src/sys/fd.c, with the pipes and the ends of   *)
(* pseudo terminals they refer to, on one core.                            *)
(*                                                                         *)
(* A system call runs with interrupts off, so that on one core it is one   *)
(* step, up to the `sti; hlt` at which a pipe read or write waits.  The    *)
(* bytes in a pipe or a terminal are counted, not told apart.  Sockets,    *)
(* file contents and poll are not modelled here.                           *)
(***************************************************************************)
EXTENDS Tables, FiniteSets

CONSTANTS Shell,         \* the task that is there from the start
          MAX_FDS,       \* MAX_FDS_PER_TASK
          MAX_GLOBAL,    \* MAX_GLOBAL_FDS
          MAX_PIPES, PIPE_BUF_SIZE,
          MAX_PTYS, PTY_BUF_SIZE,
          Size,          \* sizes programs pass to read and write
          Objects,       \* what programs open: "file", "pipe", "pty"
          MaxRefs        \* bound: references to one descriptor

Fd   == 0 .. MAX_FDS - 1
Gfd  == 0 .. MAX_GLOBAL - 1
Pipe == 0 .. MAX_PIPES - 1
Pty  == 0 .. MAX_PTYS - 1

ASSUME FdsAssumption ==
  /\ Shell \in Task
  /\ {MAX_FDS, MAX_GLOBAL, PIPE_BUF_SIZE, PTY_BUF_SIZE} \subseteq Nat \ {0}
  /\ MAX_FDS >= 2 /\ MAX_PIPES \in Nat /\ MAX_PTYS \in Nat
  /\ Size \subseteq Nat \ {0} /\ Objects \subseteq {"file", "pipe", "pty"}

VARIABLES
  gfds,  \* global_fds[]
  pipes, \* pipes[], the ring as the number of bytes in it
  ptys,  \* ptys[], the two rings likewise
  fds,   \* fds[t]: tasks[t].fd_table
  at     \* at[t]: "free", "run", or the pipe call t waits in: its name, fd, bytes left

fdsVars == <<gfds, pipes, ptys, fds, at>>

NoFds   == [j \in Fd |-> None]
In(s)   == [call |-> s, fd |-> None, left |-> 0]
Runs(t) == at[t] = In("run")

FreeFds(t) == {j \in Fd : fds[t][j] = None}
FreeGfds   == {g \in Gfd : ~gfds[g].in_use}
FreePipes  == {p \in Pipe : ~pipes[p].in_use}
FreePtys   == {p \in Pty : ~ptys[p].in_use}

\* An entry of global_fds[] as it is allocated: type, and the pipe or pty it is of.
\* What a free entry, pipe or pty still holds is overwritten when it is allocated.
Entry(type, id) == [in_use |-> TRUE, ref_count |-> 1, type |-> type, pipe_id |-> id]
NoEntry == [Entry("none", None) EXCEPT !.in_use = FALSE, !.ref_count = 0]
NoPipe  == [in_use |-> FALSE, bytes |-> 0, closed_write |-> FALSE]
NoPty   == [in_use |-> FALSE, master |-> FALSE, slave_count |-> 0, m2s |-> 0, s2m |-> 0]
Ends(type, p) == {g \in Gfd : gfds[g].in_use /\ gfds[g].type = type /\ gfds[g].pipe_id = p}

-----------------------------------------------------------------------------
(* fd_release_global, for all the references that one call drops.          *)

\* drop[g]: how many references to g go.  The entries whose last one that was:
Gone(drop) == {g \in Gfd : gfds[g].in_use /\ drop[g] > 0 /\ gfds[g].ref_count = drop[g]}

GfdsAfter(drop) ==
  [g \in Gfd |-> IF g \in Gone(drop) THEN NoEntry ELSE [gfds[g] EXCEPT !.ref_count = @ - drop[g]]]

\* Broken, as before the fix in the comment: only a read end frees the pipe.
PipeAfter_ReadEnd(p, gone) ==
  LET closed == pipes[p].closed_write \/ Ends("write", p) \cap gone # {}
      free == Ends("read", p) \cap gone # {} /\ pipes[p].closed_write
  IN  IF free THEN NoPipe ELSE [pipes[p] EXCEPT !.closed_write = closed]

\* The last write end frees a pipe without a read end, the last read end one
\* without a write end.
PipeAfter(p, gone) ==
  LET closed == pipes[p].closed_write \/ Ends("write", p) \cap gone # {}
      free == \/ Ends("write", p) \cap gone # {} /\ Ends("read", p) \subseteq gone
              \/ Ends("read", p) \cap gone # {} /\ closed
  IN  IF free THEN NoPipe ELSE [pipes[p] EXCEPT !.closed_write = closed]

\* pty_close
PtyAfter(p, gone) ==
  LET slaves == ptys[p].slave_count - Cardinality(Ends("slave", p) \cap gone)
      master == ptys[p].master /\ Ends("master", p) \cap gone = {}
      closes == (Ends("slave", p) \cup Ends("master", p)) \cap gone # {}
  IN  IF closes /\ slaves <= 0 /\ ~master THEN NoPty
      ELSE [ptys[p] EXCEPT !.slave_count = slaves, !.master = master]

\* How many of the descriptors js of t refer to g
Refs(t, js) == [g \in Gfd |-> Cardinality({j \in js : fds[t][j] = g})]

\* The descriptors js of t are dropped and g, unless None, is referred to once more.
Release(t, js, g) ==
  LET drop == Refs(t, js)
      after == GfdsAfter(drop)
  IN  /\ gfds' = IF g = None THEN after ELSE [after EXCEPT ![g].ref_count = @ + 1]
      /\ pipes' = [p \in Pipe |-> PipeAfter(p, Gone(drop))]
      /\ ptys' = [p \in Pty |-> PtyAfter(p, Gone(drop))]

-----------------------------------------------------------------------------
(* System calls.                                                           *)

do_sys_open(t) ==
  /\ "file" \in Objects /\ Runs(t) /\ FreeGfds # {} /\ FreeFds(t) # {}
  /\ gfds' = [gfds EXCEPT ![First(FreeGfds)] = Entry("file", None)]
  /\ fds' = [fds EXCEPT ![t][First(FreeFds(t))] = First(FreeGfds)]
  /\ UNCHANGED <<pipes, ptys, at>>

\* Without two free descriptors the call gives back what it took.
do_sys_pipe(t) ==
  /\ "pipe" \in Objects /\ Runs(t) /\ FreePipes # {}
  /\ Cardinality(FreeGfds) >= 2 /\ Cardinality(FreeFds(t)) >= 2
  /\ LET p == First(FreePipes)
         r == First(FreeGfds)
         w == First(FreeGfds \ {r})
         j == First(FreeFds(t))
         k == First(FreeFds(t) \ {j})
     IN  /\ pipes' = [pipes EXCEPT ![p] = [NoPipe EXCEPT !.in_use = TRUE]]
         /\ gfds' = [gfds EXCEPT ![r] = Entry("read", p), ![w] = Entry("write", p)]
         /\ fds' = [fds EXCEPT ![t][j] = r, ![t][k] = w]
  /\ UNCHANGED <<ptys, at>>

do_sys_pty_alloc(t) ==
  /\ "pty" \in Objects /\ Runs(t) /\ FreePtys # {} /\ FreeGfds # {} /\ FreeFds(t) # {}
  /\ LET p == First(FreePtys)
     IN  /\ ptys' = [ptys EXCEPT ![p] = [NoPty EXCEPT !.in_use = TRUE, !.master = TRUE]]
         /\ gfds' = [gfds EXCEPT ![First(FreeGfds)] = Entry("master", p)]
  /\ fds' = [fds EXCEPT ![t][First(FreeFds(t))] = First(FreeGfds)]
  /\ UNCHANGED <<pipes, at>>

do_sys_pty_open(t, j) ==
  /\ Runs(t) /\ fds[t][j] # None /\ FreeGfds # {} /\ FreeFds(t) # {}
  /\ LET m == gfds[fds[t][j]]
     IN  /\ m.in_use /\ m.type = "master" /\ ptys[m.pipe_id].in_use
         /\ ptys' = [ptys EXCEPT ![m.pipe_id].slave_count = @ + 1]
         /\ gfds' = [gfds EXCEPT ![First(FreeGfds)] = Entry("slave", m.pipe_id)]
  /\ fds' = [fds EXCEPT ![t][First(FreeFds(t))] = First(FreeGfds)]
  /\ UNCHANGED <<pipes, at>>

do_sys_close(t, j) ==
  /\ Runs(t) /\ fds[t][j] # None
  /\ fds' = [fds EXCEPT ![t][j] = None]
  /\ Release(t, {j}, None)
  /\ UNCHANGED at

\* Broken: the new reference is not counted.
do_sys_dup2_Uncounted(t, j, k) ==
  /\ Runs(t) /\ j # k /\ fds[t][j] # None /\ gfds[fds[t][j]].ref_count < MaxRefs
  /\ fds' = [fds EXCEPT ![t][k] = fds[t][j]]
  /\ Release(t, {k}, None)
  /\ UNCHANGED at

\* The target is closed first.
do_sys_dup2(t, j, k) ==
  /\ Runs(t) /\ j # k /\ fds[t][j] # None /\ gfds[fds[t][j]].ref_count < MaxRefs
  /\ fds' = [fds EXCEPT ![t][k] = fds[t][j]]
  /\ Release(t, {k}, fds[t][j])
  /\ UNCHANGED at

Least(m, n) == IF m <= n THEN m ELSE n
Waiting(c, j, left) == [call |-> c, fd |-> j, left |-> left]

\* The loop of a pipe read until it ends or waits; it wants all n bytes or the end of file.
PipeRead(t, j, n) ==
  LET p == gfds[fds[t][j]].pipe_id
      k == Least(n, pipes[p].bytes)
  IN  /\ pipes' = [pipes EXCEPT ![p].bytes = @ - k]
      /\ at' = [at EXCEPT ![t] = IF k = n \/ pipes[p].closed_write THEN In("run")
                                 ELSE Waiting("read", j, n - k)]
      /\ UNCHANGED <<gfds, ptys, fds>>

\* The loop of a pipe write; one slot of the ring stays empty.
PipeWrite(t, j, n) ==
  LET p == gfds[fds[t][j]].pipe_id
      k == Least(n, PIPE_BUF_SIZE - 1 - pipes[p].bytes)
  IN  /\ pipes' = [pipes EXCEPT ![p].bytes = @ + k]
      /\ at' = [at EXCEPT ![t] = IF k = n THEN In("run") ELSE Waiting("write", j, n - k)]
      /\ UNCHANGED <<gfds, ptys, fds>>

\* pty_read and pty_write never wait.
PtyMove(t, j, n, reads) ==
  LET g == gfds[fds[t][j]]
      m2s == (g.type = "master") # reads
      full == IF m2s THEN ptys[g.pipe_id].m2s ELSE ptys[g.pipe_id].s2m
      after == IF reads THEN full - Least(n, full) ELSE full + Least(n, PTY_BUF_SIZE - 1 - full)
  IN  /\ ptys' = [ptys EXCEPT ![g.pipe_id] = IF m2s THEN [@ EXCEPT !.m2s = after]
                                             ELSE [@ EXCEPT !.s2m = after]]
      /\ UNCHANGED <<gfds, pipes, fds, at>>

do_sys_read(t, j, n) ==
  /\ Runs(t) /\ fds[t][j] # None
  /\ \/ gfds[fds[t][j]].type = "read" /\ PipeRead(t, j, n)
     \/ gfds[fds[t][j]].type \in {"master", "slave"} /\ PtyMove(t, j, n, TRUE)

do_sys_write(t, j, n) ==
  /\ Runs(t) /\ fds[t][j] # None
  /\ \/ gfds[fds[t][j]].type = "write" /\ PipeWrite(t, j, n)
     \/ gfds[fds[t][j]].type \in {"master", "slave"} /\ PtyMove(t, j, n, FALSE)

\* An interrupt ends the hlt, and the loop looks again.
ResumeRead(t)  == at[t].call = "read"  /\ PipeRead(t, at[t].fd, at[t].left)
ResumeWrite(t) == at[t].call = "write" /\ PipeWrite(t, at[t].fd, at[t].left)

\* A child with the table `to` takes a free slot.
Child(to) ==
  LET free == {u \in Task : at[u] = In("free")}
  IN  /\ free # {}
      /\ fds' = [fds EXCEPT ![First(free)] = to]
      /\ at' = [at EXCEPT ![First(free)] = In("run")]
      /\ gfds' = [g \in Gfd |-> [gfds[g] EXCEPT !.ref_count =
                                   @ + Cardinality({j \in Fd : to[j] = g})]]
      /\ \A g \in Gfd : gfds'[g].ref_count <= MaxRefs
      /\ UNCHANGED <<pipes, ptys>>

\* FdsFork, and thread_create_ex: the whole table is inherited
FdsFork(t) == Runs(t) /\ Child(fds[t])

\* task_rewire_fds: fd 0 and fd 1 are wired one after the other, the rest is closed.
Rewired(table, in, out) ==
  LET one == IF in # None /\ table[in] # None THEN [table EXCEPT ![0] = table[in]] ELSE table
      two == IF out # None /\ one[out] # None THEN [one EXCEPT ![1] = one[out]] ELSE one
  IN  [j \in Fd |-> IF (j = 0 /\ in # None) \/ (j = 1 /\ out # None) THEN two[j] ELSE None]

\* task_fork_exec
task_fork_exec(t, in, out) == Runs(t) /\ Child(Rewired(fds[t], in, out))

\* Broken: the descriptors of a dead task stay open.
FdsExit_Leaks(t) ==
  /\ t # Shell /\ at[t] # In("free")
  /\ at' = [at EXCEPT ![t] = In("free")]
  /\ UNCHANGED <<gfds, pipes, ptys, fds>>

\* task_cleanup of an exit or a kill: task_close_all_fds
FdsExit(t) ==
  /\ t # Shell /\ at[t] # In("free")
  /\ at' = [at EXCEPT ![t] = In("free")]
  /\ fds' = [fds EXCEPT ![t] = NoFds]
  /\ Release(t, Fd, None)

-----------------------------------------------------------------------------
FdsInit ==
  /\ gfds = [g \in Gfd |-> NoEntry]
  /\ pipes = [p \in Pipe |-> NoPipe]
  /\ ptys = [p \in Pty |-> NoPty]
  /\ fds = [t \in Task |-> NoFds]
  /\ at = [t \in Task |-> In(IF t = Shell THEN "run" ELSE "free")]

SystemCall(t) ==
  \/ do_sys_open(t) \/ do_sys_pipe(t) \/ do_sys_pty_alloc(t)
  \/ FdsFork(t)
  \/ \E i, o \in Fd \cup {None} : task_fork_exec(t, i, o)
  \/ \E j \in Fd : \/ do_sys_close(t, j) \/ do_sys_pty_open(t, j)
                   \/ \E k \in Fd : do_sys_dup2(t, j, k)
                   \/ \E n \in Size : do_sys_read(t, j, n) \/ do_sys_write(t, j, n)

FdsNext == \E t \in Task : SystemCall(t) \/ ResumeRead(t) \/ ResumeWrite(t) \/ FdsExit(t)

\* The timer interrupt ends every hlt, and the scheduler runs who is ready.
FdsFairness == \A t \in Task : WF_fdsVars(ResumeRead(t) \/ ResumeWrite(t))

FdsSpec == FdsInit /\ [][FdsNext]_fdsVars /\ FdsFairness

-----------------------------------------------------------------------------
(* A ring is never over-full, a table refers to entries that exist.           *)
FdsTypeOK ==
  /\ gfds \in [Gfd -> [in_use : BOOLEAN, ref_count : Nat, pipe_id : Pipe \cup Pty \cup {None},
                       type : {"none", "file", "read", "write", "master", "slave"}]]
  /\ pipes \in [Pipe -> [in_use : BOOLEAN, bytes : 0 .. PIPE_BUF_SIZE - 1,
                         closed_write : BOOLEAN]]
  /\ ptys \in [Pty -> [in_use : BOOLEAN, master : BOOLEAN, slave_count : Nat,
                       m2s : 0 .. PTY_BUF_SIZE - 1, s2m : 0 .. PTY_BUF_SIZE - 1]]
  /\ fds \in [Task -> [Fd -> Gfd \cup {None}]]
  /\ at \in [Task -> [call : {"free", "run", "read", "write"}, fd : Fd \cup {None}, left : Nat]]

\* Descriptors of all tasks that refer to g
Holders(g) == {h \in Task \X Fd : fds[h[1]][h[2]] = g}

(* Over forks, dup2s, rewired children and kills at any point, the count of a *)
(* descriptor is the number of table entries that refer to it, and no entry   *)
(* refers to a free descriptor, which the next open would hand to somebody    *)
(* else.                                                                      *)
RefsExact ==
  \A g \in Gfd : IF gfds[g].in_use
                 THEN gfds[g].ref_count = Cardinality(Holders(g)) /\ Holders(g) # {}
                 ELSE Holders(g) = {}

(* A pipe or a terminal is in use exactly while one of its ends is open: none *)
(* is leaked and none is handed out again under somebody.  A pipe is at its   *)
(* end of file exactly when no write end is open.                             *)
EndsExact ==
  /\ \A p \in Pipe :
       /\ pipes[p].in_use <=> Ends("read", p) \cup Ends("write", p) # {}
       /\ pipes[p].in_use => (pipes[p].closed_write <=> Ends("write", p) = {})
       /\ Cardinality(Ends("read", p)) <= 1 /\ Cardinality(Ends("write", p)) <= 1
  /\ \A p \in Pty :
       /\ ptys[p].in_use <=> Ends("master", p) \cup Ends("slave", p) # {}
       /\ ptys[p].slave_count = Cardinality(Ends("slave", p))

\* Somebody waits to read from p, and no live task can write to it any more.
EndOfFile(p) ==
  /\ \E t \in Task : at[t].call = "read" /\ fds[t][at[t].fd] \in Ends("read", p)
  /\ \A g \in Ends("write", p), h \in Task \X Fd :
       fds[h[1]][h[2]] = g => at[h[1]] = In("free")

(* The readers of a pipe whose writers have all closed, exited or been killed *)
(* get their end of file: the reason for task_close_all_fds and for what      *)
(* task_rewire_fds closes in the children of a pipeline.                      *)
ReaderReturns == \A p \in Pipe : []<>~EndOfFile(p)
=============================================================================
