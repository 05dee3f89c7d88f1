----------------------------- MODULE SignerLock -----------------------------
(***************************************************************************)
(* The lock `clif epoch run` and `clif fsp auto` share so that one signer  *)
(* runs per host: an flock on /tmp/clif-fsp-auto.lock                      *)
(* (clif/cli.py, _acquire_fsp_auto_lock and _release_fsp_auto_lock).       *)
(*                                                                         *)
(* flock locks the inode that was opened, not the path: the model keeps    *)
(* both, and one action per system call.                                   *)
(***************************************************************************)
EXTENDS Naturals

CONSTANTS
  Procs,      \* processes that may be started as a signer
  MaxInode,   \* bound: how many lock files the behaviour creates
  CleanExit   \* a signer may end by KeyboardInterrupt, not only by a kill

NoFile == 0
Inode == 1 .. MaxInode

VARIABLES
  path,   \* the inode the lock path names, or NoFile
  made,   \* how many inodes were created
  pc,     \* per process: "idle", "opened", "signing", "unlinking"
  fd      \* per process: the inode of its open descriptor, or NoFile

vars == <<path, made, pc, fd>>

Init ==
  /\ path = NoFile /\ made = 0
  /\ pc = [p \in Procs |-> "idle"] /\ fd = [p \in Procs |-> NoFile]

(* The flock on an inode is held by the process signing under it; the      *)
(* kernel drops it with the descriptor, whatever ends the process.         *)
Holds(p, i) == pc[p] = "signing" /\ fd[p] = i

(* os.open(path, O_RDWR | O_CREAT).                                        *)
Open(p) ==
  /\ pc[p] = "idle" /\ pc' = [pc EXCEPT ![p] = "opened"]
  /\ \/ path # NoFile /\ fd' = [fd EXCEPT ![p] = path] /\ UNCHANGED <<path, made>>
     \/ /\ path = NoFile /\ made < MaxInode
        /\ made' = made + 1 /\ path' = made + 1 /\ fd' = [fd EXCEPT ![p] = made + 1]

(* flock(LOCK_EX | LOCK_NB) granted: the signing loop runs.                *)
Lock(p) ==
  /\ pc[p] = "opened" /\ \A q \in Procs : ~Holds(q, fd[p])
  /\ pc' = [pc EXCEPT ![p] = "signing"] /\ UNCHANGED <<path, made, fd>>

(* flock refused: close the descriptor and exit(2).                        *)
Refuse(p) ==
  /\ pc[p] = "opened" /\ \E q \in Procs : Holds(q, fd[p])
  /\ pc' = [pc EXCEPT ![p] = "idle"] /\ fd' = [fd EXCEPT ![p] = NoFile]
  /\ UNCHANGED <<path, made>>

(* The finally clause: LOCK_UN and close ...                               *)
Release(p) ==
  /\ CleanExit /\ pc[p] = "signing"
  /\ pc' = [pc EXCEPT ![p] = "unlinking"] /\ fd' = [fd EXCEPT ![p] = NoFile]
  /\ UNCHANGED <<path, made>>

(* ... and then unlink whatever file the path names by now.                *)
Unlink(p) ==
  /\ pc[p] = "unlinking" /\ path' = NoFile
  /\ pc' = [pc EXCEPT ![p] = "idle"] /\ UNCHANGED <<made, fd>>

(* Crash, SIGKILL: nothing of the release code runs.                       *)
Kill(p) ==
  /\ pc[p] # "idle"
  /\ pc' = [pc EXCEPT ![p] = "idle"] /\ fd' = [fd EXCEPT ![p] = NoFile]
  /\ UNCHANGED <<path, made>>

Next == \E p \in Procs :
  Open(p) \/ Lock(p) \/ Refuse(p) \/ Release(p) \/ Unlink(p) \/ Kill(p)

Spec == Init /\ [][Next]_vars
-----------------------------------------------------------------------------
TypeOK ==
  /\ path \in {NoFile} \cup Inode /\ made \in 0 .. MaxInode
  /\ pc \in [Procs -> {"idle", "opened", "signing", "unlinking"}]
  /\ fd \in [Procs -> {NoFile} \cup Inode]

(* "One signer at a time (shared with fsp auto - both sign -> double-sign  *)
(* risk)": epoch_run and fsp_auto only sign after the lock was granted.    *)
OneSigner ==
  \A p, q \in Procs : pc[p] = "signing" /\ pc[q] = "signing" => p = q
============================================================================
