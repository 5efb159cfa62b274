------------------------------- MODULE RunLock -------------------------------
(***************************************************************************)
(* The lock of a config (internal/runlock): an flock on the file the path  *)
(* names, taken without waiting, freed by its release or, when the process *)
(* dies, by the kernel.  Opening the file and locking it are two calls, and*)
(* the file a process opened need not be the one the path names later.     *)
(***************************************************************************)
EXTENDS Naturals, FiniteSets

CONSTANTS Procs, NoProc

ASSUME ProcsAssumption == IsFiniteSet(Procs) /\ NoProc \notin Procs

NoFile == 0
LockFiles == 1..(Cardinality(Procs) + 1)      \* enough inodes: one is always unused

VARIABLES
    name,      \* the inode the lock path names
    holder,    \* the process that holds the flock of each inode
    fd         \* the inode each process has open

lockVars == <<name, holder, fd>>

LockInit ==
    /\ name = NoFile
    /\ holder = [f \in LockFiles |-> NoProc]
    /\ fd = [p \in Procs |-> NoFile]

Unused == {f \in LockFiles : f # name /\ \A p \in Procs : fd[p] # f}

(* O_CREATE: the file the path names, or a new one.                         *)
OpenLock(p) ==
    \E f \in IF name = NoFile THEN Unused ELSE {name} :
        name' = f /\ fd' = [fd EXCEPT ![p] = f] /\ UNCHANGED holder

IsHeld(p) == holder[fd[p]] # NoProc
Locked(p) == ~IsHeld(p) /\ holder' = [holder EXCEPT ![fd[p]] = p] /\ UNCHANGED <<name, fd>>

(* Unlocked and closed, by the process or the kernel.                       *)
Freed(p) ==
    /\ holder' = [f \in LockFiles |-> IF holder[f] = p THEN NoProc ELSE holder[f]]
    /\ fd' = [fd EXCEPT ![p] = NoFile]

(* The file stays: another process may have it open already.                *)
RemoveAndRelease(p) == Freed(p) /\ name' = NoFile             \* seeded defect
Release(p) == Freed(p) /\ UNCHANGED name

LockTypeOK ==
    /\ name \in LockFiles \cup {NoFile}
    /\ holder \in [LockFiles -> Procs \cup {NoProc}]
    /\ fd \in [Procs -> LockFiles \cup {NoFile}]
=============================================================================
