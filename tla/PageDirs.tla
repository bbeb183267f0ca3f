------------------------------ MODULE PageDirs ------------------------------
(***************************************************************************)
(* Page directories: who owns them, which core walks them, and when        *)
(* src/sys/task.c frees them.                                              *)
(*                                                                         *)
(* A section under task_lock is one step, and so is a system call between  *)
(* its sections, as interrupts are off.  A task that is killed by another  *)
(* core goes on, in its directory, until its own core ticks.  What a       *)
(* directory maps is left out; parents are left out, so whether a dead     *)
(* task is FREE or waits as a ZOMBIE is a free choice.                     *)
(*                                                                         *)
(* lost, unseen and raced are history.  A behaviour ends with the first    *)
(* system call that acts on what it read before another core's kill, as    *)
(* nothing is to be said of what follows.                                  *)
(***************************************************************************)
EXTENDS Tables, FiniteSets

CONSTANTS Owner,     \* task slots of programs
          Cpu,       \* cores; the BSP is 0
          Dir,       \* frames for directories
          Kernel,    \* tasks[0].page_dir, the kernel's own directory
          DEFERRED_PD_MAX

ASSUME PageDirsAssumption ==
  /\ Owner \subseteq Nat /\ Cpu \subseteq Nat /\ Dir \subseteq Nat /\ Kernel \notin Dir /\ Kernel # None
  /\ DEFERRED_PD_MAX \in Nat /\ None \notin [pd : Dir, slot : Owner]

VARIABLES
  ostate,   \* tasks[t].state: "free", "zombie", or "live" for all the others
  pdir,     \* tasks[t].page_dir, None for 0
  current,  \* current_task[c], None for task 0 and the idle tasks
  cr3,      \* what core c walks
  used,     \* directories that are allocated
  deferred, \* deferred_pd_q, by position
  img,      \* img[t]: the image a loader call of t has built and not yet given away
  prog,     \* prog[c]: what the system call on core c has read
  lost,     \* directories nobody will ever free
  unseen,   \* cores whose task was killed while others shared its directory
  raced     \* whether a system call has gone on over a kill

pdVars == <<ostate, pdir, current, cr3, used, deferred, img, prog, lost, unseen, raced>>

Index   == 1 .. DEFERRED_PD_MAX
NoCall  == [at |-> "run", pd |-> None]
Names(t) == {c \in Cpu : current[c] = t}

\* Owners other than t that use the directory d
Sharers(t, d) == {k \in Owner \ {t} : ostate[k] # "free" /\ pdir[k] = d}

\* slot_still_current: a FREE slot a core still names is not claimed.
Claimable == {t \in Owner : ostate[t] = "free" /\ Names(t) = {}}

\* The program of t is on core c, at a point where it may make a system call.
On(c, t) == current[c] = t /\ prog[c] = NoCall

-----------------------------------------------------------------------------
\* schedule(): the next task, or none; a core that leaves a dead task leaves the
\* image it was building, too.
Tick(c, n) ==
  /\ prog[c] = NoCall
  /\ n # None => ostate[n] = "live" /\ Names(n) \subseteq {c}
  /\ current' = [current EXCEPT ![c] = n]
  /\ cr3' = [cr3 EXCEPT ![c] = IF n = None \/ pdir[n] = None THEN Kernel ELSE pdir[n]]
  /\ unseen' = unseen \ {c}
  /\ LET gone == {t \in Owner : current[c] = t /\ ostate[t] # "live"}
     IN  /\ lost' = lost \cup ({img[t] : t \in gone} \ {None})
         /\ img' = [t \in Owner |-> IF t \in gone THEN None ELSE img[t]]
  /\ UNCHANGED <<ostate, pdir, used, deferred, prog, raced>>

-----------------------------------------------------------------------------
(* task_cleanup, as far as the directory of t goes, on core c               *)

\* The last user of its directory, and no core names t
Retires(t)  == Sharers(t, pdir[t]) = {} /\ Names(t) = {}
Defers(t)   == Sharers(t, pdir[t]) = {} /\ Names(t) # {}
Room        == {i \in Index : deferred[i] = None}

\* Broken, as before Batch A: the directory is freed under the core that runs t.
task_cleanup_Now(c, t) ==
  /\ used' = IF Sharers(t, pdir[t]) = {} THEN used \ {pdir[t]} ELSE used
  /\ cr3' = [cr3 EXCEPT ![c] = IF Sharers(t, pdir[t]) = {} /\ @ = pdir[t] THEN Kernel ELSE @]
  /\ UNCHANGED deferred

\* A directory that is freed is not left in the CR3 of the core that frees it; one
\* that t still runs in is put aside, if the queue has room.
task_cleanup(c, t) ==
  /\ used' = IF Retires(t) THEN used \ {pdir[t]} ELSE used
  /\ cr3' = [cr3 EXCEPT ![c] = IF Retires(t) /\ @ = pdir[t] THEN Kernel ELSE @]
  /\ deferred' = IF Defers(t) /\ Room # {}
                 THEN [deferred EXCEPT ![First(Room)] = [pd |-> pdir[t], slot |-> t]]
                 ELSE deferred

\* An exit, a kill, or a signal delivered in schedule(): core c ends t.
terminate_task(c, t) ==
  /\ ostate[t] = "live" /\ prog[c] = NoCall /\ (current[c] = None => c = 0)
  /\ task_cleanup(c, t)
  /\ \E z \in {"free", "zombie"} : ostate' = [ostate EXCEPT ![t] = z]
  /\ pdir' = [pdir EXCEPT ![t] = None]
  /\ lost' = lost \cup (IF Defers(t) /\ Room = {} THEN {pdir[t]} ELSE {})
                  \cup (IF Names(t) = {} THEN {img[t]} \ {None} ELSE {})
  /\ img' = IF Names(t) = {} THEN [img EXCEPT ![t] = None] ELSE img
  /\ unseen' = IF Sharers(t, pdir[t]) # {} THEN unseen \cup Names(t) ELSE unseen
  /\ UNCHANGED <<current, prog, raced>>

\* waitpid, or the reaper
Reap(t) ==
  /\ ostate[t] = "zombie"
  /\ ostate' = [ostate EXCEPT ![t] = "free"]
  /\ UNCHANGED <<pdir, current, cr3, used, deferred, img, prog, lost, unseen, raced>>

\* Entries of the queue whose slot is free and named by no core
Retirable == {i \in Index : deferred[i] # None /\ deferred[i].slot \in Claimable}

\* Broken: the entries stay in the queue.
task_reap_zombies_Keeps ==
  /\ Retirable # {}
  /\ used' = used \ {deferred[i].pd : i \in Retirable}
  /\ UNCHANGED <<ostate, pdir, current, cr3, deferred, img, prog, lost, unseen, raced>>

task_reap_zombies ==
  /\ Retirable # {}
  /\ used' = used \ {deferred[i].pd : i \in Retirable}
  /\ deferred' = [i \in Index |-> IF i \in Retirable THEN None ELSE deferred[i]]
  /\ UNCHANGED <<ostate, pdir, current, cr3, img, prog, lost, unseen, raced>>

-----------------------------------------------------------------------------
(* System calls of the program of t on core c.                              *)

\* A free slot becomes a task with the directory d.
Claim(d) ==
  /\ Claimable # {}
  /\ ostate' = [ostate EXCEPT ![First(Claimable)] = "live"]
  /\ pdir' = [pdir EXCEPT ![First(Claimable)] = d]

\* The child of a fork gets a clone.
fork_common(c, t) ==
  /\ On(c, t) /\ pdir[t] # None /\ used # Dir
  /\ Claim(First(Dir \ used))
  /\ used' = used \cup {First(Dir \ used)}
  /\ UNCHANGED <<current, cr3, deferred, img, prog, lost, unseen, raced>>

\* SYS_THREAD_CREATE and SYS_CLONE read the caller's directory without the lock.
ThreadRead(c, t) ==
  /\ On(c, t) /\ pdir[t] # None
  /\ prog' = [prog EXCEPT ![c] = [at |-> "thread", pd |-> pdir[t]]]
  /\ UNCHANGED <<ostate, pdir, current, cr3, used, deferred, img, lost, unseen, raced>>

\* With no slot for the thread the call returns -1.
thread_create_ex(c, t) ==
  /\ prog[c].at = "thread" /\ current[c] = t
  /\ Claim(prog[c].pd) \/ (Claimable = {} /\ UNCHANGED <<ostate, pdir>>)
  /\ prog' = [prog EXCEPT ![c] = NoCall]
  /\ raced' = (ostate[t] # "live")
  /\ UNCHANGED <<current, cr3, used, deferred, img, lost, unseen>>

\* loader_build_image; the copy leaves CR3 as it was.
loader_build_image(c, t) ==
  /\ On(c, t) /\ img[t] = None /\ used # Dir
  /\ img' = [img EXCEPT ![t] = First(Dir \ used)]
  /\ used' = used \cup {First(Dir \ used)}
  /\ UNCHANGED <<ostate, pdir, current, cr3, deferred, prog, lost, unseen, raced>>

\* task_fork_exec, and finish_loaded_task: the image is a child's, or freed if there
\* is no slot for one.
PdForkExec(c, t) ==
  /\ On(c, t) /\ img[t] # None
  /\ \/ Claim(img[t]) /\ UNCHANGED used
     \/ Claimable = {} /\ used' = used \ {img[t]} /\ UNCHANGED <<ostate, pdir>>
  /\ img' = [img EXCEPT ![t] = None]
  /\ UNCHANGED <<current, cr3, deferred, prog, lost, unseen, raced>>

\* Broken: threads of the same process do not count.
task_exec_Scan_Alone(c, t) ==
  /\ On(c, t) /\ img[t] # None
  /\ cr3' = [cr3 EXCEPT ![c] = img[t]]
  /\ prog' = [prog EXCEPT ![c] = [at |-> "exec", pd |-> pdir[t]]]
  /\ UNCHANGED <<ostate, pdir, current, used, deferred, img, lost, unseen, raced>>

\* task_exec walks the image before it looks, without task_lock, for other users of
\* the old directory ...
task_exec_Scan(c, t) ==
  /\ On(c, t) /\ img[t] # None
  /\ cr3' = [cr3 EXCEPT ![c] = img[t]]
  /\ prog' = [prog EXCEPT ![c] = [at |-> "exec", pd |-> IF Sharers(t, pdir[t]) = {}
                                                        THEN pdir[t] ELSE None]]
  /\ UNCHANGED <<ostate, pdir, current, used, deferred, img, lost, unseen, raced>>

\* ... frees it if there are none, and sets page_dir.
task_exec_Rewire(c, t) ==
  /\ prog[c].at = "exec" /\ current[c] = t
  /\ used' = used \ {prog[c].pd}
  /\ pdir' = [pdir EXCEPT ![t] = img[t]]
  /\ img' = [img EXCEPT ![t] = None]
  /\ prog' = [prog EXCEPT ![c] = NoCall]
  /\ raced' = (ostate[t] # "live" \/ (prog[c].pd = None /\ Sharers(t, pdir[t]) = {}))
  /\ UNCHANGED <<ostate, current, cr3, deferred, lost, unseen>>

\* The kernel starts a program: loader_build_image and finish_loaded_task on task 0
load_mct_app(c) ==
  /\ c = 0 /\ current[c] = None /\ used # Dir
  /\ Claim(First(Dir \ used))
  /\ used' = used \cup {First(Dir \ used)}
  /\ UNCHANGED <<current, cr3, deferred, img, prog, lost, unseen, raced>>

-----------------------------------------------------------------------------
PageDirsInit ==
  /\ ostate = [t \in Owner |-> "free"] /\ pdir = [t \in Owner |-> None]
  /\ current = [c \in Cpu |-> None] /\ cr3 = [c \in Cpu |-> Kernel]
  /\ used = {} /\ deferred = [i \in Index |-> None]
  /\ img = [t \in Owner |-> None] /\ prog = [c \in Cpu |-> NoCall]
  /\ lost = {} /\ unseen = {} /\ raced = FALSE

PdSystemCall(c, t) ==
  \/ fork_common(c, t) \/ ThreadRead(c, t) \/ thread_create_ex(c, t)
  \/ loader_build_image(c, t) \/ PdForkExec(c, t)
  \/ task_exec_Scan(c, t) \/ task_exec_Rewire(c, t)

PageDirsNext ==
  /\ ~raced
  /\ \/ \E c \in Cpu : \/ \E n \in Owner \cup {None} : Tick(c, n)
                       \/ \E t \in Owner : terminate_task(c, t) \/ PdSystemCall(c, t)
                       \/ load_mct_app(c)
     \/ \E t \in Owner : Reap(t)
     \/ task_reap_zombies

PageDirsSpec == PageDirsInit /\ [][PageDirsNext]_pdVars

-----------------------------------------------------------------------------
(* Owners, cores and the queue name directories; a core walks one or the       *)
(* kernel's.                                                                  *)
PageDirsTypeOK ==
  /\ ostate \in [Owner -> {"free", "zombie", "live"}]
  /\ pdir \in [Owner -> Dir \cup {None}] /\ img \in [Owner -> Dir \cup {None}]
  /\ current \in [Cpu -> Owner \cup {None}] /\ cr3 \in [Cpu -> Dir \cup {Kernel}]
  /\ used \subseteq Dir /\ lost \subseteq Dir /\ unseen \subseteq Cpu /\ raced \in BOOLEAN
  /\ deferred \in [Index -> [pd : Dir, slot : Owner] \cup {None}]
  /\ prog \in [Cpu -> [at : {"run", "thread", "exec"}, pd : Dir \cup {None}]]

\* The live task t, the queue at i and the loader call of t own directories.
Owned    == {pdir[t] : t \in {t \in Owner : ostate[t] = "live"}}
Parked   == {deferred[i].pd : i \in {i \in Index : deferred[i] # None}}
Building == {img[t] : t \in Owner} \ {None}

(* Over kills on any core, forks, threads, execs and reused slots, every      *)
(* directory that is allocated belongs to live tasks, waits once in the       *)
(* deferred queue, or is an image being built, and to one of these only: none *)
(* is freed twice, or under a live task, and none leaks but those an overflow *)
(* of the queue or a killed loader call leaves.                               *)
DirsOwned == ~raced =>
  /\ used = (Owned \cup Parked \cup Building) \cup lost
  /\ Owned \cap Parked = {} /\ Owned \cap Building = {} /\ Parked \cap Building = {}
  /\ lost \cap (Owned \cup Parked \cup Building) = {}
  /\ \A i, j \in Index : deferred[i] # None /\ deferred[i] = deferred[j] => i = j

(* A core never walks a directory that has been freed: "if any CPU's CR3 is   *)
(* this directory, skip the free - a bounded leak, but never a crash".        *)
NeverWalkedFreed == ~raced => \A c \in Cpu : cr3[c] \in used \cup {Kernel}

(* That much holds for every core but one whose own task was killed while     *)
(* others shared its directory: task_cleanup looks for cores that run the     *)
(* last sharer, not for cores that run an earlier one.                        *)
DirLive == ~raced => \A c \in Cpu \ unseen : cr3[c] \in used \cup {Kernel}
=============================================================================
