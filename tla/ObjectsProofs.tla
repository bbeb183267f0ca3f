--------------------------- MODULE ObjectsProofs ---------------------------
(***************************************************************************)
(* The kernel objects side by side.  They share no state and no lock, so a *)
(* behaviour of all six is a behaviour of each of them, and what is proved *)
(* of one holds beside the others.                                         *)
(***************************************************************************)
EXTENDS MCObjects, IpcProofs, TcpProofs, MemoryProofs, BlkProofs

allVars == <<part, ipcVars, tcpVars, fdsVars, shmVars, blkVars, pdVars>>

\* A step is one of the object in use, and the others stand still.
LEMMA StepOfEach ==
  ASSUME [ObjectsNext]_allVars
  PROVE  /\ [IpcNext]_ipcVars /\ [TcpNext]_tcpVars /\ [FdsNext]_fdsVars
         /\ [ShmNext]_shmVars /\ [BlkNext]_blkVars /\ [PageDirsNext]_pdVars
<1>1. CASE ObjectsNext
  BY <1>1 DEF ObjectsNext
<1>2. CASE UNCHANGED allVars
  BY <1>2 DEF allVars
<1> QED
  BY <1>1, <1>2

(* Each of the queues, connections, descriptors, segments, sectors and        *)
(* directories runs as its own specification says, with its fairness.         *)
THEOREM EachRuns ==
  ObjectsSpec => /\ IpcSpec /\ TcpSpec /\ FdsSpec
                 /\ ShmSpec /\ BlkSpec /\ PageDirsSpec
<1>1. ObjectsInit => /\ IpcInit /\ TcpInit /\ FdsInit /\ ShmInit /\ BlkInit /\ PageDirsInit
  BY DEF ObjectsInit
<1>2. [ObjectsNext]_allVars => [IpcNext]_ipcVars
  BY StepOfEach
<1>3. [ObjectsNext]_allVars => [TcpNext]_tcpVars
  BY StepOfEach
<1>4. [ObjectsNext]_allVars => [FdsNext]_fdsVars
  BY StepOfEach
<1>5. [ObjectsNext]_allVars => [ShmNext]_shmVars
  BY StepOfEach
<1>6. [ObjectsNext]_allVars => [BlkNext]_blkVars
  BY StepOfEach
<1>7. [ObjectsNext]_allVars => [PageDirsNext]_pdVars
  BY StepOfEach
<1> QED
  BY <1>1, <1>2, <1>3, <1>4, <1>5, <1>6, <1>7, PTL
     DEF ObjectsSpec, allVars, IpcSpec, TcpSpec, FdsSpec, ShmSpec, BlkSpec, PageDirsSpec

(* Counters, indices, states and holders of all six objects stay in their     *)
(* ranges: ipc.c, net.c, fd.c, shm.c, blkcache.c and the directories of       *)
(* task.c.                                                                    *)
THEOREM ObjectsTypes == ObjectsSpec => []ObjectsTypeOK
<1>1. IpcTypeOK /\ TcpTypeOK /\ FdsTypeOK /\ ShmTypeOK /\ BlkTypeOK /\ PageDirsTypeOK
        => ObjectsTypeOK
  BY DEF ObjectsTypeOK
<1> QED
  BY <1>1, EachRuns, IpcTypes, TcpTypes, FdsTypes, ShmTypes, BlkTypes, PageDirsTyped, PTL

(* The waiting slots of ipc.c, the streams of net.c, the counts and ends of   *)
(* fd.c, the segments of shm.c, the sectors of blkcache.c and the directories *)
(* of task.c are in order beside each other, and the queues are channels.     *)
THEOREM ObjectsSafe ==
  ObjectsSpec => /\ [](WaitersJustified /\ StreamIntact /\ NothingForgotten /\ RefsExact
                       /\ EndsExact /\ SegmentReclaimed /\ FramesApart /\ CacheIsDisk
                       /\ ReadsFresh /\ DirsOwned /\ DirLive)
                 /\ ImplementsChannel
<1>1. (TcpSpec => []StreamIntact) /\ (TcpSpec => []NothingForgotten)
  BY TcpNumbers, StreamsIntact, NothingLost
<1> QED
  BY <1>1, EachRuns, WakesJustified, QueuesAreChannels, CountsExact, EndsCounted, DestroyedGo,
     NoFrameShared, CacheCoherent, NoStaleRead, DirectoriesOwned, NoFreedWalk, PTL
=============================================================================
