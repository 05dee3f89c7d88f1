-------------------------- MODULE SignerLockProofs --------------------------
(***************************************************************************)
(* What the lock of SignerLock does guarantee.  The two signers that the   *)
(* model checker finds need a clean exit, the only step that unlinks the   *)
(* file; without one, every open descriptor is of the one file there is,   *)
(* and flock keeps the signers apart.                                      *)
(***************************************************************************)
EXTENDS SignerLock, TLAPS

(* MaxInode is a bound of the model; nothing below depends on its value.   *)
THEOREM TypeCorrect == MaxInode \in Nat => (Spec => []TypeOK)
<1> SUFFICES ASSUME MaxInode \in Nat PROVE Spec => []TypeOK
  OBVIOUS
<1>1. Init => TypeOK
  BY DEF Init, TypeOK, NoFile, Inode
<1>2. TypeOK /\ [Next]_vars => TypeOK'
  <2> SUFFICES ASSUME TypeOK, [Next]_vars PROVE TypeOK'
    OBVIOUS
  <2> USE DEF TypeOK, NoFile, Inode
  <2>1. ASSUME NEW p \in Procs, Open(p) PROVE TypeOK'
    BY <2>1 DEF Open
  <2>2. ASSUME NEW p \in Procs, Lock(p) PROVE TypeOK'
    BY <2>2 DEF Lock
  <2>3. ASSUME NEW p \in Procs, Refuse(p) PROVE TypeOK'
    BY <2>3 DEF Refuse
  <2>4. ASSUME NEW p \in Procs, Release(p) PROVE TypeOK'
    BY <2>4 DEF Release
  <2>5. ASSUME NEW p \in Procs, Unlink(p) PROVE TypeOK'
    BY <2>5 DEF Unlink
  <2>6. ASSUME NEW p \in Procs, Kill(p) PROVE TypeOK'
    BY <2>6 DEF Kill
  <2>7. CASE UNCHANGED vars
    BY <2>7 DEF vars
  <2> QED
    BY <2>1, <2>2, <2>3, <2>4, <2>5, <2>6, <2>7 DEF Next
<1> QED
  BY <1>1, <1>2, PTL DEF Spec

(* The strengthening: every descriptor is of the file the path names, and  *)
(* nobody is about to unlink it.                                           *)
OneFile ==
  \A p \in Procs :
    /\ pc[p] # "unlinking"
    /\ pc[p] \in {"opened", "signing"} => fd[p] = path /\ path # NoFile

LockInv == TypeOK /\ OneFile /\ OneSigner

(* While every signer ends by being killed (crash, SIGKILL, reboot), at    *)
(* most one process signs: the claim of _acquire_fsp_auto_lock's docstring,*)
(* for any number of processes and restarts.                               *)
THEOREM KillsKeepOneSigner ==
  ASSUME MaxInode \in Nat, CleanExit = FALSE PROVE Spec => []OneSigner
<1>1. Init => LockInv
  BY DEF Init, LockInv, TypeOK, OneFile, OneSigner, NoFile, Inode
<1>2. LockInv /\ [Next]_vars => LockInv'
  <2> SUFFICES ASSUME LockInv, [Next]_vars PROVE LockInv'
    OBVIOUS
  <2> USE DEF LockInv, TypeOK, OneFile, OneSigner, NoFile, Inode
  <2>1. ASSUME NEW p \in Procs, Open(p) PROVE LockInv'
    <3>1. CASE path # NoFile
      BY <2>1, <3>1 DEF Open
    <3>2. CASE path = NoFile
      BY <2>1, <3>2 DEF Open
    <3> QED
      BY <3>1, <3>2
  <2>2. ASSUME NEW p \in Procs, Lock(p) PROVE LockInv'
    BY <2>2 DEF Lock, Holds
  <2>3. ASSUME NEW p \in Procs, Refuse(p) PROVE LockInv'
    BY <2>3 DEF Refuse
  <2>4. ASSUME NEW p \in Procs, Release(p) PROVE LockInv'
    BY <2>4 DEF Release
  <2>5. ASSUME NEW p \in Procs, Unlink(p) PROVE LockInv'
    BY <2>5 DEF Unlink
  <2>6. ASSUME NEW p \in Procs, Kill(p) PROVE LockInv'
    BY <2>6 DEF Kill
  <2>7. CASE UNCHANGED vars
    BY <2>7 DEF vars
  <2> QED
    BY <2>1, <2>2, <2>3, <2>4, <2>5, <2>6, <2>7 DEF Next
<1>3. LockInv => OneSigner
  BY DEF LockInv
<1> QED
  BY <1>1, <1>2, <1>3, PTL DEF Spec
============================================================================
