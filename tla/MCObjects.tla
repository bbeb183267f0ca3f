----------------------------- MODULE MCObjects -----------------------------
(* Small instances of the kernel objects that share no state and no lock     *)
(* with each other: the sector cache, message queues, TCP, descriptors, shared *)
(* memory and page directories.  A behaviour uses one of them, chosen at the   *)
(* start.                                                                      *)
EXTENDS Ipc, Tcp, Fds, Shm, Blk, PageDirs

VARIABLE part \* the object in use

TcpSlots == Client :> {1} @@ Server :> {1, 2}
Isns     == Client :> 1 @@ Server :> 5
Bytes    == Client :> 2 @@ Server :> 0

\* The sequence numbers are such that the theorems about the streams apply.
ASSUME TcpNumbers == NumbersFit

ObjectsInit ==
  /\ part \in {"ipc", "tcp", "fds", "shm", "blk", "pds"}
  /\ IpcInit /\ TcpInit /\ FdsInit /\ ShmInit /\ BlkInit /\ PageDirsInit
  /\ part # "tcp" => ready = [h \in Host |-> TRUE]

ObjectsNext ==
  /\ \/ part = "ipc" /\ IpcNext /\ UNCHANGED <<tcpVars, fdsVars, shmVars, blkVars, pdVars>>
     \/ part = "tcp" /\ TcpNext /\ UNCHANGED <<ipcVars, fdsVars, shmVars, blkVars, pdVars>>
     \/ part = "fds" /\ FdsNext /\ UNCHANGED <<ipcVars, tcpVars, shmVars, blkVars, pdVars>>
     \/ part = "shm" /\ ShmNext /\ UNCHANGED <<ipcVars, tcpVars, fdsVars, blkVars, pdVars>>
     \/ part = "blk" /\ BlkNext /\ UNCHANGED <<ipcVars, tcpVars, fdsVars, shmVars, pdVars>>
     \/ /\ part = "pds" /\ PageDirsNext
        /\ UNCHANGED <<ipcVars, tcpVars, fdsVars, shmVars, blkVars>>
  /\ UNCHANGED part

\* Initially nothing that a component is to do fairly is enabled, so that the
\* components not in use do not ask for steps.
ObjectsSpec ==
  /\ ObjectsInit
  /\ [][ObjectsNext]_<<part, ipcVars, tcpVars, fdsVars, shmVars, blkVars, pdVars>>
  /\ IpcFairness /\ TcpFairness /\ FdsFairness

\* Counters, indices, states and holders of all six stay in their ranges.
ObjectsTypeOK == IpcTypeOK /\ TcpTypeOK /\ FdsTypeOK /\ ShmTypeOK /\ BlkTypeOK
                 /\ PageDirsTypeOK
=============================================================================
