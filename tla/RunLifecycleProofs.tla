------------------------ MODULE RunLifecycleProofs ------------------------
(***************************************************************************)
(* The life of the runs of one config, for any number of processes, servers*)
(* and starts.  Two of them never overlap, because the lock file is never  *)
(* removed: whoever has a file open has the one the path names, so that    *)
(* there is only one lock to hold (LInv).  And each of them shows the tools*)
(* its config promises, closes its log and ends with the cause that        *)
(* stopped it: what is true of one process depends on nothing of another,  *)
(* so that the second invariant (LifeInv) is one formula of a process,     *)
(* kept by its own steps and untouched by those of the others.             *)
(***************************************************************************)
EXTENDS RunLifecycle, TLAPS, SequenceTheorems, FiniteSetTheorems

(* Where a process is that has passed the lock, or takes none.              *)
Underway == {"gate", "question", "login", "gate_failed", "prepare", "connect", "decide",
             "loop", "closing", "report"}
Refused == {"load", "lock_held"}
Causes == Refused \cup {"none", "interrupted", "budget", "config", "mcp", "toolset",
                        "denied", "provider", "schema", "failed"}

ProcTypeOK ==
    /\ mode \in [Procs -> {"run", "chat"}]
    /\ pc \in [Procs -> Underway \cup {"none", "opening", "locking", "leaving"}]
    /\ err \in [Procs -> Causes]

OneFile == \A p \in Procs : fd[p] \in {NoFile, name}
OpenedBeforeLocked == \A p \in Procs : pc[p] = "locking" => fd[p] # NoFile
RefusedLeaves == \A p \in Procs : err[p] \in Refused => pc[p] = "leaving"
InsideHolds == \A p \in Procs : Inside(p) => fd[p] # NoFile /\ holder[fd[p]] = p

LInv == LockTypeOK /\ ProcTypeOK /\ OneFile /\ OpenedBeforeLocked /\ RefusedLeaves /\ InsideHolds

(* Only p moves, and not back in front of the lock.                         *)
Moved(p) ==
    /\ ProcTypeOK'
    /\ \A q \in Procs \ {p} : pc'[q] = pc[q] /\ err'[q] = err[q]
    /\ pc'[p] \in Underway \cup {"leaving"} /\ err'[p] \notin Refused

-----------------------------------------------------------------------------
(* A step of a process behind the lock that leaves the lock alone and the   *)
(* others where they are.                                                   *)
LEMMA GoesOn ==
    ASSUME LInv, NEW p \in Procs, pc[p] \in Underway,
           UNCHANGED <<lockVars, mode>>, Moved(p)
    PROVE  LInv'
<1> USE DEF Moved
<1>1. LockTypeOK' /\ OneFile'
    BY DEF LInv, LockTypeOK, OneFile, lockVars
<1>2. OpenedBeforeLocked' /\ RefusedLeaves'
    BY DEF LInv, OpenedBeforeLocked, RefusedLeaves, lockVars, Underway
<1>3. InsideHolds'
    <2> SUFFICES ASSUME NEW q \in Procs, Inside(q)' PROVE (fd[q] # NoFile /\ holder[fd[q]] = q)'
        BY DEF InsideHolds
    <2>1. Inside(q)
        BY DEF Inside, Idle, LInv, RefusedLeaves, Refused, Underway
    <2>2. QED
        BY <2>1 DEF LInv, InsideHolds, lockVars
<1>4. QED
    BY <1>1, <1>2, <1>3 DEF LInv

(* A step that leaves every process where it is.                            *)
LEMMA StandsStill ==
    ASSUME LInv, UNCHANGED <<lockVars, mode, pc, err>> PROVE LInv'
BY DEF LInv, LockTypeOK, ProcTypeOK, OneFile, OpenedBeforeLocked, RefusedLeaves, InsideHolds,
       Inside, Idle, lockVars

(* A process that is gone, with what it held, leaves the others as they were*)
LEMMA Gone ==
    ASSUME LInv, NEW p \in Procs, Freed(p), UNCHANGED name,
           pc' = [pc EXCEPT ![p] = "none"], err' = [err EXCEPT ![p] = "none"],
           mode' = [mode EXCEPT ![p] = "run"]
    PROVE  LInv'
<1> USE DEF LInv
<1>1. ProcTypeOK' /\ RefusedLeaves'
    BY DEF ProcTypeOK, RefusedLeaves, Refused, Causes
<1>2. LockTypeOK' /\ OneFile' /\ OpenedBeforeLocked'
    BY DEF LockTypeOK, OneFile, OpenedBeforeLocked, ProcTypeOK, Freed
<1>3. InsideHolds'
    <2> SUFFICES ASSUME NEW q \in Procs, Inside(q)' PROVE (fd[q] # NoFile /\ holder[fd[q]] = q)'
        BY DEF InsideHolds
    <2>1. q # p /\ Inside(q)
        BY DEF Inside, Idle, ProcTypeOK
    <2>2. fd[q] \in LockFiles /\ holder[fd[q]] = q /\ fd[q] # NoFile
        BY <2>1 DEF InsideHolds, LockTypeOK
    <2>3. fd'[q] = fd[q] /\ holder'[fd[q]] = q
        BY <2>1, <2>2 DEF Freed, LockTypeOK
    <2>4. QED
        BY <2>2, <2>3
<1>4. QED
    BY <1>1, <1>2, <1>3
-----------------------------------------------------------------------------
(* No process has the lock before the first one starts. *)
LEMMA InitLInv == Init => LInv
<1> SUFFICES ASSUME Init PROVE LInv
    OBVIOUS
<1>1. LockTypeOK /\ OneFile
    BY DEF Init, LockInit, LockTypeOK, OneFile
<1>2. ProcTypeOK /\ OpenedBeforeLocked /\ RefusedLeaves /\ InsideHolds
    BY DEF Init, ProcTypeOK, OpenedBeforeLocked, RefusedLeaves, Refused, Causes, InsideHolds, Inside, Idle
<1>3. QED
    BY <1>1, <1>2 DEF LInv

(* A process that starts, or is refused, is not inside. *)
LEMMA StartLInv == ASSUME LInv, NEW p \in Procs, Start(p) PROVE LInv'
<1> USE DEF LInv
<1>1. PICK m \in {"run", "chat"} :
          /\ mode' = [mode EXCEPT ![p] = m]
          /\ pc' = [pc EXCEPT ![p] = IF m = "run" THEN "opening" ELSE "gate"]
    BY DEF Start, Goto
<1>2. UNCHANGED <<lockVars, err>> /\ pc[p] = "none"
    BY DEF Start, Idle
<1>3. LockTypeOK' /\ OneFile' /\ ProcTypeOK'
    BY <1>1, <1>2 DEF LockTypeOK, OneFile, ProcTypeOK, lockVars, Underway
<1>4. OpenedBeforeLocked' /\ RefusedLeaves'
    BY <1>1, <1>2 DEF OpenedBeforeLocked, RefusedLeaves, ProcTypeOK, lockVars
<1>5. InsideHolds'
    <2> SUFFICES ASSUME NEW q \in Procs, Inside(q)' PROVE (fd[q] # NoFile /\ holder[fd[q]] = q)'
        BY DEF InsideHolds
    <2>1. q # p /\ Inside(q)
        BY <1>1, <1>2 DEF Inside, Idle, ProcTypeOK
    <2>2. QED
        BY <1>2, <2>1 DEF InsideHolds, lockVars
<1>6. QED
    BY <1>3, <1>4, <1>5

(* A config that does not load is refused in front of the lock or, for a    *)
(* chat, which has none, at the gate.                                       *)
LEMMA LoadFailsLInv == ASSUME LInv, NEW p \in Procs, LoadFails(p) PROVE LInv'
<1> USE DEF LInv
<1>1. /\ pc' = [pc EXCEPT ![p] = "leaving"] /\ err' = [err EXCEPT ![p] = "load"]
      /\ UNCHANGED <<lockVars, mode>>
    BY DEF LoadFails, Refuse, Goto, EndWith
<1>2. LockTypeOK' /\ OneFile' /\ ProcTypeOK'
    BY <1>1 DEF LockTypeOK, OneFile, ProcTypeOK, lockVars, Causes, Refused
<1>3. OpenedBeforeLocked' /\ RefusedLeaves'
    BY <1>1 DEF OpenedBeforeLocked, RefusedLeaves, ProcTypeOK, lockVars
<1>4. InsideHolds'
    BY <1>1 DEF InsideHolds, Inside, Idle, ProcTypeOK, lockVars
<1>5. QED
    BY <1>2, <1>3, <1>4

(* The file that is opened is the one the others have open.                 *)
LEMMA OpenLInv == ASSUME LInv, NEW p \in Procs, Open(p) PROVE LInv'
<1> USE DEF LInv
<1>1. PICK f \in LockFiles : /\ name' = f /\ fd' = [fd EXCEPT ![p] = f]
                             /\ name # NoFile => f = name
    BY DEF Open, OpenLock, Unused, LockTypeOK
<1>2. /\ pc[p] = "opening" /\ pc' = [pc EXCEPT ![p] = "locking"]
      /\ UNCHANGED <<holder, err, mode>>
    BY DEF Open, OpenLock, Goto
<1>3. f # NoFile
    BY DEF LockFiles, NoFile
<1>4. LockTypeOK' /\ OneFile'
    BY <1>1, <1>2 DEF LockTypeOK, OneFile
<1>5. ProcTypeOK' /\ OpenedBeforeLocked' /\ RefusedLeaves'
    BY <1>1, <1>2, <1>3 DEF LockTypeOK, ProcTypeOK, OpenedBeforeLocked, RefusedLeaves
<1>6. InsideHolds'
    <2> SUFFICES ASSUME NEW q \in Procs, Inside(q)' PROVE (fd[q] # NoFile /\ holder[fd[q]] = q)'
        BY DEF InsideHolds
    <2>1. q # p /\ Inside(q)
        BY <1>2 DEF Inside, Idle, ProcTypeOK
    <2>2. QED
        BY <1>1, <1>2, <2>1 DEF InsideHolds, LockTypeOK
<1>7. QED
    BY <1>4, <1>5, <1>6

(* The one lock there is was free, so nobody is inside; or it was held.     *)
LEMMA LockLInv == ASSUME LInv, NEW p \in Procs, Lock(p) PROVE LInv'
<1> USE DEF LInv
<1>1. pc[p] = "locking" /\ fd[p] # NoFile /\ mode' = mode
    BY DEF Lock, OpenedBeforeLocked
<1>2. CASE Locked(p) /\ Goto(p, "gate") /\ UNCHANGED err
    <2>1. /\ holder[fd[p]] = NoProc /\ holder' = [holder EXCEPT ![fd[p]] = p]
          /\ pc' = [pc EXCEPT ![p] = "gate"] /\ UNCHANGED <<name, fd, err>>
        BY <1>2 DEF Locked, IsHeld, Goto, InsideHolds
    <2>2. LockTypeOK' /\ OneFile' /\ ProcTypeOK'
        BY <1>1, <2>1 DEF LockTypeOK, OneFile, ProcTypeOK, Underway
    <2>3. OpenedBeforeLocked' /\ RefusedLeaves'
        BY <1>1, <2>1 DEF OpenedBeforeLocked, RefusedLeaves, ProcTypeOK
    <2>4. InsideHolds'
        <3> SUFFICES ASSUME NEW q \in Procs, Inside(q)' PROVE (fd[q] # NoFile /\ holder[fd[q]] = q)'
            BY DEF InsideHolds
        <3>1. CASE q = p
            BY <1>1, <2>1, <3>1 DEF LockTypeOK
        <3>2. CASE q # p
            <4>1. Inside(q)
                BY <1>1, <2>1, <3>2 DEF Inside, Idle, ProcTypeOK
            <4>2. fd[q] = fd[p] /\ holder[fd[q]] = q
                BY <1>1, <4>1 DEF InsideHolds, OneFile
            <4>3. QED
                BY <2>1, <4>2, ProcsAssumption
        <3>3. QED
            BY <3>1, <3>2
    <2>5. QED
        BY <2>2, <2>3, <2>4
<1>3. CASE UNCHANGED lockVars /\ Goto(p, "leaving") /\ EndWith(p, "lock_held")
    <2>1. /\ pc' = [pc EXCEPT ![p] = "leaving"] /\ err' = [err EXCEPT ![p] = "lock_held"]
          /\ UNCHANGED <<lockVars, mode>>
        BY <1>1, <1>3 DEF Goto, EndWith
    <2>2. LockTypeOK' /\ OneFile' /\ ProcTypeOK'
        BY <2>1 DEF LockTypeOK, OneFile, ProcTypeOK, lockVars, Causes, Refused
    <2>3. OpenedBeforeLocked' /\ RefusedLeaves'
        BY <2>1 DEF OpenedBeforeLocked, RefusedLeaves, ProcTypeOK, lockVars
    <2>4. InsideHolds'
        BY <2>1 DEF InsideHolds, Inside, Idle, ProcTypeOK, lockVars
    <2>5. QED
        BY <2>2, <2>3, <2>4
<1>4. QED
    BY <1>2, <1>3 DEF Lock
-----------------------------------------------------------------------------
(* The gate: every way through it stays behind the lock. *)
LEMMA GateLInv ==
    ASSUME LInv, NEW p \in Procs, Gate(p) \/ Answer(p) \/ Login(p) \/ RefuseAtGate(p)
    PROVE  LInv'
<1>1. pc[p] \in Underway /\ UNCHANGED <<lockVars, mode>>
    BY DEF Gate, Answer, Login, RefuseAtGate, Underway
<1>2. Moved(p)
    <2> USE DEF Moved, ProcTypeOK, Underway, Refused, Causes
    <2>0. /\ ProcTypeOK /\ UNCHANGED mode /\ pc[p] \in Underway
          /\ err[p] \notin Refused
        BY <1>1 DEF LInv, RefusedLeaves
    <2>1. CASE Gate(p)
        BY <2>0, <2>1 DEF Gate, AskForLogin, NoCredential, NextServer, GateFails, Goto, EndWith,
                          Interrupted
    <2>2. CASE Answer(p)
        BY <2>0, <2>2 DEF Answer, NoCredential, NextServer, GateFails, Goto, EndWith
    <2>3. CASE Login(p)
        BY <2>0, <2>3 DEF Login, NoCredential, NextServer, GateFails, Goto, EndWith,
                          Interrupted
    <2>4. CASE RefuseAtGate(p)
        BY <2>0, <2>4 DEF RefuseAtGate, Refuse, Goto, EndWith
    <2>5. QED
        BY <2>1, <2>2, <2>3, <2>4
<1>3. QED
    BY <1>1, <1>2, GoesOn

(* From the task to the end of the log: the same. *)
LEMMA WorkLInv ==
    ASSUME LInv, NEW p \in Procs,
           Prepare(p) \/ Collected(p) \/ Decide(p) \/ LoopEnds(p) \/ CloseNext(p) \/ Report(p)
    PROVE  LInv'
<1>1. pc[p] \in Underway /\ UNCHANGED <<lockVars, mode>>
    BY DEF Prepare, Collected, Decide, LoopEnds, CloseNext, Report, Underway
<1>2. Moved(p)
    <2> USE DEF Moved, ProcTypeOK, Underway, Refused, Causes
    <2>0. /\ ProcTypeOK /\ UNCHANGED mode /\ pc[p] \in Underway
          /\ err[p] \notin Refused
        BY <1>1 DEF LInv, RefusedLeaves
    <2>1. CASE Prepare(p)
        BY <2>0, <2>1 DEF Prepare, Begin, NoTask, ReadInterrupted, Refuse, Goto, EndWith,
                          Interrupted
    <2>2. CASE Collected(p)
        BY <2>0, <2>2 DEF Collected, Goto
    <2>3. CASE Decide(p)
        BY <2>0, <2>3 DEF Decide, AfterRefusal, CauseOf, Goto, EndWith, Interrupted
    <2>4. CASE LoopEnds(p)
        <3>1. PICK o \in OutcomesOf(p) : EndWith(p, o)
            BY <2>4 DEF LoopEnds
        <3>2. o \in Causes \ Refused
            BY DEF OutcomesOf, Outcomes, Interrupted
        <3>3. QED
            BY <2>0, <2>4, <3>1, <3>2 DEF LoopEnds, Goto, EndWith
    <2>5. CASE CloseNext(p)
        BY <1>1, <2>0, <2>5 DEF CloseNext, Goto
    <2>6. CASE Report(p)
        BY <2>0, <2>6 DEF Report, Goto
    <2>7. QED
        BY <2>1, <2>2, <2>3, <2>4, <2>5, <2>6
<1>3. QED
    BY <1>1, <1>2, GoesOn

(* Dialing, a lost session, a signal and a timeout move nobody. *)
LEMMA OutsideLInv ==
    ASSUME LInv, NEW p \in Procs, Dial(p) \/ SessionLost(p) \/ Signal(p) \/ Timeout(p)
    PROVE  LInv'
<1>1. UNCHANGED <<lockVars, mode, pc, err>>
    BY DEF Dial, SessionLost, Signal, Timeout, ContextEnds, procVars
<1>2. QED
    BY <1>1, StandsStill

(* Every step keeps the invariant. *)
LEMMA NextLInv == LInv /\ [Next]_vars => LInv'
<1> SUFFICES ASSUME LInv, [Next]_vars PROVE LInv'
    OBVIOUS
<1>1. CASE UNCHANGED vars
    <2>1. UNCHANGED <<lockVars, mode, pc, err>>
        BY <1>1 DEF vars, procVars
    <2>2. QED
        BY <2>1, StandsStill
<1>2. ASSUME NEW p \in Procs, Start(p) \/ Step(p) \/ Signal(p) \/ Timeout(p) \/ Kill(p) PROVE LInv'
    <2>1. CASE Leave(p)
        BY <2>1, Gone DEF Leave, Release, Forget, Goto
    <2>2. CASE Kill(p)
        BY <2>2, Gone DEF Kill, Forget, Goto
    <2>3. QED
        BY <1>2, <2>1, <2>2, StartLInv, LoadFailsLInv, OpenLInv, LockLInv, GateLInv, WorkLInv, OutsideLInv
        DEF Step
<1>3. QED
    BY <1>1, <1>2 DEF Next

(* runlock.go:49: whoever was killed while it held the lock, and whoever    *)
(* had the file open meanwhile, two runs of one config never overlap.       *)
THEOREM RunsExclude == Spec => []OneRunAtATime
<1>1. LInv => OneRunAtATime
    <2> SUFFICES ASSUME LInv, NEW p \in Procs, NEW q \in Procs, Inside(p), Inside(q) PROVE p = q
        BY DEF OneRunAtATime
    <2>1. fd[p] = fd[q]
        BY DEF LInv, InsideHolds, OneFile
    <2>2. QED
        BY <2>1 DEF LInv, InsideHolds
<1>2. QED
    BY <1>1, InitLInv, NextLInv, PTL DEF Spec
-----------------------------------------------------------------------------
(* What a process does between the lock and its exit code.                  *)
Pairs == [tool : Tools, server : Servers]
Events == [type : {"run_start"}]
          \cup [type : {"mcp_connect"}, server : Servers, ok : BOOLEAN]
          \cup [type : {"mcp_disconnect", "mcp_tools_listed"}, server : Servers]
          \cup [type : {"run_end"}, code : {ExitCodeOf(cause) : cause \in Causes}, errors : Nat]

StartupTypeOK ==
    /\ required \in SUBSET Servers
    /\ ctx \in [Procs -> {"live", "canceled", "deadline"}]
    /\ log \in [Procs -> Seq(Events)]
    /\ dial \in [Procs -> [Servers -> {"off", "trying", "pausing", "connected", "up", "down"}]]
    /\ tries \in [Procs -> [Servers -> Nat]]
    /\ listed \in [Procs -> [Servers -> Seq(Tools)]]
    /\ why \in [Procs -> [Servers -> {"none", "unavailable", "toolset"}]]
    /\ registry \in [Procs -> Seq(Pairs)]
    /\ fatal \in [Procs -> {"none", "unavailable", "toolset"}]
    /\ failed \in [Procs -> Nat]

LifeTypeOK ==
    /\ ProcTypeOK /\ StartupTypeOK
    /\ gate \in [Procs -> Nat] /\ lost \in [Procs -> Nat] /\ closed \in [Procs -> 0..ServerCount]
    /\ stopped \in [Procs -> {"never", "start", "question", "loop"}]

AtGate == {"gate", "question", "login", "gate_failed"}
Fresh == {"none", "opening", "locking", "gate", "question", "login", "gate_failed", "prepare"}
Settled == {"decide", "loop", "closing", "report", "leaving"}
Ending == {"gate_failed", "closing", "report", "leaving"}

(* When the context ended, and what an interrupted run ends with. *)
StopIsSeen(p) ==
    /\ ctx[p] = "live" <=> stopped[p] = "never"
    /\ pc[p] \in {"none", "opening", "locking"} => stopped[p] = "never"
    /\ pc[p] = "question" => stopped[p] # "start"
    /\ stopped[p] = "loop" => pc[p] \in {"loop", "closing", "report", "leaving"}
    /\ stopped[p] = "start" /\ pc[p] \in Ending => err[p] \in {Interrupted(p), "config", "load"}
    /\ pc[p] \notin Ending => err[p] = "none"

(* The gate is left at the server that failed it, or behind the last one. *)
GateIsKept(p) ==
    /\ pc[p] \in {"none", "opening", "locking"} => gate[p] = 1
    /\ pc[p] \in {"question", "login", "gate_failed"} => gate[p] \in Servers
    /\ pc[p] \in {"prepare", "connect", "decide", "loop", "closing"} => gate[p] > ServerCount
    /\ pc[p] = "gate_failed" => err[p] \in {Interrupted(p), "mcp"}
    /\ pc[p] = "gate_failed" /\ stopped[p] = "never" => err[p] = "mcp"
    /\ err[p] = "mcp" => \E s \in required : dial[p][s] = "down" \/ gate[p] = s

(* What the dialing of a server left. *)
DialIsKept(p) ==
    /\ pc[p] \in Fresh => dial[p] = [s \in Servers |-> "off"] /\ fatal[p] = "none"
                          /\ lost[p] = 0 /\ failed[p] = 0
    /\ pc[p] \in Fresh \cup {"connect", "decide", "loop"} => closed[p] = 0
    /\ pc[p] = "connect" => \A s \in Servers : dial[p][s] # "off"
    /\ pc[p] \in Settled => \A s \in Servers : dial[p][s] \in {"off", "up", "down"}
    /\ pc[p] \in {"decide", "loop", "closing"} => \A s \in Servers : dial[p][s] # "off"
    /\ pc[p] \in {"report", "leaving"} => \A s \in Servers : dial[p][s] = "up" => s <= closed[p]
    /\ \A s \in Servers :
          /\ why[p][s] = "none" <=> dial[p][s] # "down"
          /\ dial[p][s] = "off" => listed[p][s] = <<>>
          /\ \A i, j \in DOMAIN listed[p][s] : listed[p][s][i] = listed[p][s][j] => i = j

(* What is in the log, and what it counts. *)
Once(p) == IF log[p] = <<>> THEN {} ELSE {1}
Ups(p, s) == Occurs(p, Connect(s, TRUE))
Downs(p, s) == Occurs(p, Disconnect(s))
LogIsKept(p) ==
    /\ pc[p] \in Fresh => log[p] = <<>>
    /\ pc[p] \in {"connect", "decide", "loop", "closing", "report"} => log[p] # <<>>
    /\ pc[p] = "leaving" /\ log[p] = <<>> => err[p] \in {"load", "lock_held", "config"}
    /\ Positions(p, "run_start") = Once(p)
    /\ Positions(p, "run_end") = IF pc[p] = "leaving" /\ log[p] # <<>> THEN {Len(log[p])} ELSE {}
    /\ pc[p] = "leaving" /\ log[p] # <<>> => log[p][Len(log[p])].errors = failed[p] + lost[p]
    /\ \A s \in Servers :
          /\ Ups(p, s) = IF dial[p][s] \in {"connected", "up"} THEN 1 ELSE 0
          /\ Downs(p, s) = IF dial[p][s] = "up" /\ s <= closed[p] THEN 1 ELSE 0

FailuresAreKept(p) ==
    pc[p] \in Settled /\ log[p] # <<>> /\ stopped[p] \notin {"start", "question"} =>
        failed[p] = Cardinality(Missing(p)) + (IF gate[p] <= ServerCount THEN 1 ELSE 0)

SetIsKept(p) == pc[p] \in {"decide", "loop"} => RegistryFollowsConfig(p)

(* What is true of one process depends on nothing of another.               *)
Local(p) == /\ StopIsSeen(p) /\ GateIsKept(p) /\ DialIsKept(p)
            /\ LogIsKept(p) /\ FailuresAreKept(p) /\ SetIsKept(p)
LifeInv == LifeTypeOK /\ \A p \in Procs : Local(p)
-----------------------------------------------------------------------------
(* What connectMCP makes of the results of the dialing, folded one after    *)
(* the other.                                                               *)
SetType == [tools : Seq(Pairs), fatal : {"none", "unavailable", "toolset"}, failed : Nat, full : BOOLEAN]
Names(pairs) == {pairs[i].tool : i \in DOMAIN pairs}
Distinct(pairs) == \A i, j \in DOMAIN pairs : pairs[i].tool = pairs[j].tool => i = j

OnTools == INSTANCE FoldTheorems WITH Op <- RegisterTool
OnResults == INSTANCE FoldTheorems WITH Op <- Judge
OnShown == INSTANCE FoldTheorems WITH Op <- Join

Registered(set, tools) == FoldLeft(RegisterTool, set, tools)
Judged(results) == FoldLeft(Judge, NoSet, results)
JoinedUp(shown) == FoldLeft(Join, <<>>, shown)

LEMMA OneTool ==
    /\ \A set : Registered(set, <<>>) = set
    /\ \A set, e, S : \A s \in Seq(S) : e \in S =>
           Registered(set, Append(s, e)) = RegisterTool(Registered(set, s), e)
<1>1. \A set, s : Registered(set, s) = OnTools!Fold(set, s)
    BY DEF Registered, FoldLeft, OnTools!Fold, MapThenFoldSet,
           OnTools!MapThenFoldSet, Max, OnTools!Largest
<1>2. QED
    BY <1>1, OnTools!FoldEmpty, OnTools!FoldAppend

LEMMA OneResult ==
    /\ Judged(<<>>) = NoSet
    /\ \A e, S : \A s \in Seq(S) : e \in S => Judged(Append(s, e)) = Judge(Judged(s), e)
<1>1. \A s : Judged(s) = OnResults!Fold(NoSet, s)
    BY DEF Judged, FoldLeft, OnResults!Fold, MapThenFoldSet,
           OnResults!MapThenFoldSet, Max, OnResults!Largest
<1>2. QED
    BY <1>1, OnResults!FoldEmpty, OnResults!FoldAppend

LEMMA OneShown ==
    /\ JoinedUp(<<>>) = <<>>
    /\ \A e, S : \A s \in Seq(S) : e \in S => JoinedUp(Append(s, e)) = JoinedUp(s) \o e
<1>1. \A s : JoinedUp(s) = OnShown!Fold(<<>>, s)
    BY DEF JoinedUp, FoldLeft, OnShown!Fold, MapThenFoldSet,
           OnShown!MapThenFoldSet, Max, OnShown!Largest
<1>2. \A s, e : Join(JoinedUp(s), e) = JoinedUp(s) \o e
    BY DEF Join
<1>3. QED
    BY <1>1, <1>2, OnShown!FoldEmpty, OnShown!FoldAppend

(* A set that is complete, after the first tools of a listing. *)
After(set, tools, got) ==
    /\ got \in SetType /\ got.failed = set.failed
    /\ Owned(got) \subseteq Owned(set) \cup Names(tools)
    /\ got.full => /\ got.fatal # "none"
                   /\ got.fatal = set.fatal \/ (set.fatal = "none" /\ got.fatal = "toolset")
                   /\ Names(tools) \cap Owned(set) # {}
    /\ ~got.full => got.fatal = set.fatal /\ got.tools = set.tools \o tools

(* Owned by sequence. *)
LEMMA OwnedBy ==
    ASSUME NEW set \in SetType
    PROVE  Owned(set) = Names(set.tools)
BY DEF Owned, Names, ToSet, SetType

LEMMA NamesConcat ==
    ASSUME NEW s \in Seq(Pairs), NEW t \in Seq(Pairs)
    PROVE  s \o t \in Seq(Pairs) /\ Names(s \o t) = Names(s) \cup Names(t)
<1>1. /\ s \o t \in Seq(Pairs) /\ DOMAIN (s \o t) = 1..Len(s) + Len(t)
      /\ DOMAIN s = 1..Len(s) /\ DOMAIN t = 1..Len(t) /\ Len(s) \in Nat /\ Len(t) \in Nat
      /\ \A i \in 1..Len(s) : (s \o t)[i] = s[i]
      /\ \A i \in 1..Len(t) : (s \o t)[Len(s) + i] = t[i]
    OBVIOUS
<1> DEFINE u == s \o t
<1>2. ASSUME NEW i \in DOMAIN u PROVE u[i].tool \in Names(s) \cup Names(t)
    <2>1. CASE i \in 1..Len(s)
        BY <1>1, <2>1 DEF Names
    <2>2. CASE i \notin 1..Len(s)
        <3>1. i - Len(s) \in 1..Len(t) /\ Len(s) + (i - Len(s)) = i
            BY <1>1, <2>2
        <3>2. u[i] = t[i - Len(s)]
            BY <1>1, <3>1
        <3>3. QED
            BY <1>1, <3>1, <3>2 DEF Names
    <2>3. QED
        BY <2>1, <2>2
<1>3. ASSUME NEW i \in DOMAIN s PROVE s[i].tool \in Names(u)
    BY <1>1 DEF Names
<1>4. ASSUME NEW i \in DOMAIN t PROVE t[i].tool \in Names(u)
    <2>1. Len(s) + i \in DOMAIN u /\ u[Len(s) + i] = t[i]
        BY <1>1
    <2>2. QED
        BY <2>1 DEF Names
<1> HIDE DEF u
<1>5. Names(u) = Names(s) \cup Names(t)
    BY <1>2, <1>3, <1>4 DEF Names
<1>6. QED
    BY <1>1, <1>5 DEF u

(* An element at the end of the second half is one at the end. *)
LEMMA ConcatAppend ==
    ASSUME NEW a \in Seq(Pairs), NEW b \in Seq(Pairs), NEW m \in Pairs
    PROVE  Append(a \o b, m) = a \o Append(b, m)
<1>1. Append(b, m) = b \o <<m>> /\ <<m>> \in Seq(Pairs)
    BY AppendIsConcat
<1>2. a \o b \in Seq(Pairs)
    BY ConcatProperties
<1>3. Append(a \o b, m) = (a \o b) \o <<m>>
    BY <1>2, AppendIsConcat
<1>4. a \o (b \o <<m>>) = (a \o b) \o <<m>>
    BY <1>1, ConcatAssociative
<1>5. QED
    BY <1>1, <1>3, <1>4

(* One tool more joins the set, or is the first whose name is taken. *)
LEMMA RegisterOne ==
    ASSUME NEW set \in SetType, ~set.full, NEW tools \in Seq(Pairs), NEW tool \in Pairs,
           NEW got, After(set, tools, got), tool.tool \notin Names(tools)
    PROVE  After(set, Append(tools, tool), RegisterTool(got, tool))
<1> DEFINE more == Append(tools, tool)
<1>1. more \in Seq(Pairs) /\ Names(more) = Names(tools) \cup {tool.tool}
    <2>1. <<tool>> \in Seq(Pairs) /\ Names(<<tool>>) = {tool.tool}
        BY DEF Names
    <2>2. more = tools \o <<tool>>
        OBVIOUS
    <2> HIDE DEF more
    <2>3. tools \o <<tool>> \in Seq(Pairs) /\ Names(tools \o <<tool>>) = Names(tools) \cup Names(<<tool>>)
        BY <2>1, NamesConcat
    <2>4. QED
        BY <2>1, <2>2, <2>3
<1>2. got \in SetType /\ set.tools \in Seq(Pairs)
    BY DEF After, SetType
<1>3. CASE got.full
    <2>1. RegisterTool(got, tool) = got
        BY <1>3 DEF RegisterTool
    <2> HIDE DEF more
    <2>2. After(set, more, got)
        BY <1>1, <1>3 DEF After
    <2>3. QED
        BY <2>1, <2>2 DEF more
<1>4. CASE ~got.full
    <2>1. /\ got.fatal = set.fatal /\ got.tools = set.tools \o tools /\ got.failed = set.failed
        BY <1>4 DEF After
    <2>2. Owned(got) = Owned(set) \cup Names(tools)
        <3>1. Names(set.tools \o tools) = Names(set.tools) \cup Names(tools)
            BY <1>2, NamesConcat
        <3>2. Owned(got) = Names(got.tools) /\ Owned(set) = Names(set.tools)
            BY <1>2, OwnedBy
        <3>3. QED
            BY <2>1, <3>1, <3>2
    <2>3. CASE tool.tool \in Owned(got)
        <3>1. RegisterTool(got, tool) =
                [got EXCEPT !.fatal = IF got.fatal = "none" THEN "toolset" ELSE got.fatal, !.full = TRUE]
            BY <1>2, <1>4, <2>3 DEF RegisterTool, Fail, SetType
        <3> DEFINE r == RegisterTool(got, tool)
        <3>2. /\ r \in SetType /\ r.failed = got.failed /\ r.tools = got.tools /\ r.full
              /\ r.fatal = IF got.fatal = "none" THEN "toolset" ELSE got.fatal
            BY <1>2, <3>1 DEF SetType
        <3>3. Owned(r) = Owned(got)
            BY <3>2 DEF Owned
        <3> HIDE DEF r, more
        <3>4. After(set, more, r)
            BY <1>1, <2>1, <2>2, <2>3, <3>2, <3>3 DEF After
        <3>5. QED
            BY <3>4 DEF r, more
    <2>4. CASE tool.tool \notin Owned(got)
        <3>1. RegisterTool(got, tool) = [got EXCEPT !.tools = Append(got.tools, tool)]
            BY <1>2, <1>4, <2>4 DEF RegisterTool, SetType
        <3> DEFINE r == RegisterTool(got, tool)
        <3>6. got.tools \in Seq(Pairs) /\ Append(got.tools, tool) \in Seq(Pairs)
            BY <1>2 DEF SetType
        <3>2. /\ r.failed = got.failed /\ r.tools = Append(got.tools, tool) /\ ~r.full
              /\ r.fatal = got.fatal /\ r \in SetType
            BY <1>2, <1>4, <3>1, <3>6 DEF SetType
        <3>3. r.tools = set.tools \o more
            <4>1. Append(set.tools \o tools, tool) = set.tools \o Append(tools, tool)
                BY <1>2, ConcatAppend
            <4>2. QED
                BY <2>1, <3>2, <4>1
        <3>4. Owned(r) = Owned(set) \cup Names(more)
            <4>1. Names(set.tools \o more) = Names(set.tools) \cup Names(more)
                BY <1>1, <1>2, NamesConcat
            <4>2. Owned(r) = Names(r.tools) /\ Owned(set) = Names(set.tools)
                BY <3>2, OwnedBy
            <4>3. QED
                BY <3>3, <4>1, <4>2
        <3> HIDE DEF r, more
        <3>5. After(set, more, r)
            BY <1>1, <2>1, <3>2, <3>3, <3>4 DEF After
        <3>7. QED
            BY <3>5 DEF r, more
    <2>5. QED
        BY <2>3, <2>4
<1>5. QED
    BY <1>3, <1>4 DEF After, SetType

(* The first elements of a sequence, and one more. *)
LEMMA FirstOnes ==
    ASSUME NEW S, NEW s \in Seq(S), NEW k \in Nat
    PROVE  /\ SubSeq(s, 1, 0) = <<>> /\ SubSeq(s, 1, Len(s)) = s
           /\ k + 1 <= Len(s) => /\ SubSeq(s, 1, k) \in Seq(S) /\ Len(SubSeq(s, 1, k)) = k
                                 /\ s[k + 1] \in S
                                 /\ SubSeq(s, 1, k + 1) = Append(SubSeq(s, 1, k), s[k + 1])
OBVIOUS

(* A whole listing joins the set, unless a name of it is taken. *)
LEMMA RegisterAll ==
    ASSUME NEW set \in SetType, ~set.full, NEW tools \in Seq(Pairs), Distinct(tools)
    PROVE  After(set, tools, Registered(set, tools))
<1> DEFINE part(k) == SubSeq(tools, 1, k)
           S == {k \in Nat : k <= Len(tools) => After(set, part(k), Registered(set, part(k)))}
<1>1. 0 \in S
    <2>1. part(0) = <<>> /\ Registered(set, part(0)) = set
        <3>1. SubSeq(tools, 1, 0) = <<>>
            BY FirstOnes
        <3>2. QED
            BY <3>1, OneTool
    <2>2. set.tools \o <<>> = set.tools
        BY DEF SetType
    <2>3. After(set, part(0), Registered(set, part(0)))
        <3> HIDE DEF part
        <3>1. QED
            BY <2>1, <2>2 DEF After
    <2>4. QED
        BY <2>3
<1>2. ASSUME NEW k \in Nat, k \in S PROVE k + 1 \in S
    <2> SUFFICES ASSUME k + 1 <= Len(tools)
                 PROVE  After(set, part(k + 1), Registered(set, part(k + 1)))
        OBVIOUS
    <2>0. Len(tools) \in Nat /\ DOMAIN tools = 1..Len(tools) /\ k <= Len(tools)
        OBVIOUS
    <2>1. /\ part(k) \in Seq(Pairs) /\ tools[k + 1] \in Pairs
          /\ part(k + 1) = Append(part(k), tools[k + 1])
          /\ Len(part(k)) = k
        BY <2>0, FirstOnes
    <2>6. DOMAIN part(k) = 1..k /\ \A i \in 1..k : part(k)[i] = tools[i]
        BY <2>0, <2>1
    <2>2. tools[k + 1].tool \notin Names(part(k))
        <3>1. \A i \in 1..k : tools[i].tool # tools[k + 1].tool
            BY <2>0 DEF Distinct
        <3> HIDE DEF part
        <3>2. QED
            BY <2>6, <3>1 DEF Names
    <2> HIDE DEF part
    <2>3. After(set, part(k), Registered(set, part(k)))
        BY <1>2, <2>0
    <2> HIDE DEF S
    <2>4. Registered(set, part(k + 1)) = RegisterTool(Registered(set, part(k)), tools[k + 1])
        BY <2>1, OneTool
    <2>5. QED
        BY <2>1, <2>2, <2>3, <2>4, RegisterOne
<1> HIDE DEF S
<1>3. \A k \in Nat : k \in S
    BY <1>1, <1>2, OnTools!NatInd
<1>4. Len(tools) \in Nat /\ part(Len(tools)) = tools
    BY FirstOnes
<1> HIDE DEF part
<1>5. After(set, part(Len(tools)), Registered(set, part(Len(tools))))
    BY <1>3, <1>4 DEF S
<1>6. QED
    BY <1>4, <1>5

-----------------------------------------------------------------------------
(* The results of the first k servers, judged one after the other.          *)
FirstShown(p, k) == SubSeq([s \in Servers |-> Shown(p, s)], 1, k)
NamesClash(p) == \/ \E s \in Servers : why[p][s] = "toolset"
                 \/ \E s, t \in Servers : s # t /\ Claim(p, s) \cap Claim(p, t) # {}
SoFar(p, k, set) ==
    /\ set \in SetType
    /\ set.fatal = "none" => set.tools = JoinedUp(FirstShown(p, k))
    /\ \A n \in Owned(set) : \E s \in 1..k : n \in Claim(p, s)
    /\ set.fatal = "toolset" => NamesClash(p)
    /\ set.fatal = "unavailable" => \E s \in required : dial[p][s] = "down"
    /\ ~Over(p) => set.failed = Cardinality({s \in 1..k : why[p][s] = "unavailable"})

(* What a server shows is a sequence of its own tools, each once.           *)
LEMMA ShownType ==
    ASSUME StartupTypeOK, NEW p \in Procs, DialIsKept(p), NEW s \in Servers
    PROVE  /\ Shown(p, s) \in Seq(Pairs) /\ Distinct(Shown(p, s))
           /\ Names(Shown(p, s)) = Claim(p, s)
           /\ dial[p][s] # "up" => Shown(p, s) = <<>>
<1> DEFINE tools == listed[p][s]
           shown == [k \in DOMAIN tools |-> [tool |-> tools[k], server |-> s]]
<1>1. tools \in Seq(Tools)
    BY DEF StartupTypeOK
<1>2. \A i, j \in DOMAIN tools : tools[i] = tools[j] => i = j
    BY DEF DialIsKept
<1>3. Names(Shown(p, s)) = Claim(p, s)
    BY DEF Names, Claim, ToSet
<1>4. CASE dial[p][s] # "up"
    <2>1. Shown(p, s) = <<>>
        BY <1>4 DEF Shown
    <2>2. QED
        BY <1>3, <2>1 DEF Distinct
<1>5. CASE dial[p][s] = "up"
    <2> HIDE DEF tools
    <2>1. Len(tools) \in Nat /\ DOMAIN tools = 1..Len(tools) /\ \A k \in 1..Len(tools) : tools[k] \in Tools
        BY <1>1
    <2>2. shown \in Seq(Pairs)
        BY <2>1 DEF Pairs
    <2>3. Distinct(shown)
        BY <1>2 DEF Distinct
    <2>4. Shown(p, s) = shown
        BY <1>5 DEF Shown, tools
    <2>5. QED
        BY <1>3, <1>5, <2>2, <2>3, <2>4
<1>6. QED
    BY <1>4, <1>5

(* One server more is shown.                                                *)
LEMMA ShownNext ==
    ASSUME StartupTypeOK, NEW p \in Procs, DialIsKept(p), NEW k \in Nat, k + 1 \in Servers
    PROVE  JoinedUp(FirstShown(p, k + 1)) = JoinedUp(FirstShown(p, k)) \o Shown(p, k + 1)
<1> DEFINE all == [s \in Servers |-> Shown(p, s)]
<1>0. ServerCount \in Nat /\ k + 1 <= ServerCount /\ Servers = 1..ServerCount
    BY StartupAssumption DEF Servers
<1>1. all \in Seq(Seq(Pairs)) /\ Len(all) = ServerCount /\ all[k + 1] = Shown(p, k + 1)
    <2>1. \A s \in 1..ServerCount : Shown(p, s) \in Seq(Pairs)
        BY <1>0, ShownType
    <2>2. QED
        BY <1>0, <2>1
<1> HIDE DEF all
<1>2. /\ SubSeq(all, 1, k) \in Seq(Seq(Pairs)) /\ all[k + 1] \in Seq(Pairs)
      /\ SubSeq(all, 1, k + 1) = Append(SubSeq(all, 1, k), all[k + 1])
    BY <1>0, <1>1, FirstOnes
<1>3. JoinedUp(SubSeq(all, 1, k + 1)) = JoinedUp(SubSeq(all, 1, k)) \o all[k + 1]
    BY <1>2, OneShown
<1>4. QED
    BY <1>1, <1>3 DEF FirstShown, all

(* A server that is up adds what it shows.                                  *)
LEMMA JudgeUp ==
    ASSUME StartupTypeOK, NEW p \in Procs, DialIsKept(p), NEW k \in Nat, k + 1 \in Servers,
           NEW set, SoFar(p, k, set), dial[p][k + 1] = "up"
    PROVE  SoFar(p, k + 1, Judge(set, Result(p, k + 1)))
<1> DEFINE s == k + 1
           open == [set EXCEPT !.full = FALSE]
           got == Registered(open, Shown(p, s))
<1>1. Judge(set, Result(p, s)) = got
    BY DEF Judge, Result, Register, Registered
<1>2. /\ open \in SetType /\ ~open.full /\ open.tools = set.tools /\ open.fatal = set.fatal
      /\ open.failed = set.failed
    BY DEF SoFar, SetType
<1>3. Owned(open) = Owned(set)
    BY <1>2 DEF Owned
<1>4. Shown(p, s) \in Seq(Pairs) /\ Distinct(Shown(p, s)) /\ Names(Shown(p, s)) = Claim(p, s)
    BY ShownType
<1> HIDE DEF open
<1>5. After(open, Shown(p, s), got)
    BY <1>2, <1>4, RegisterAll
<1> HIDE DEF got
<1>6. got \in SetType /\ got.failed = set.failed
    BY <1>2, <1>5 DEF After
<1>7. got.fatal = "none" => got.tools = JoinedUp(FirstShown(p, s))
    <2>1. got.fatal = "none" => set.fatal = "none" /\ got.tools = set.tools \o Shown(p, s)
        BY <1>2, <1>5 DEF After
    <2>2. QED
        BY <2>1, ShownNext DEF SoFar
<1>8. \A n \in Owned(got) : \E t \in 1..s : n \in Claim(p, t)
    <2>1. \A n \in Owned(got) : n \in Owned(set) \/ n \in Claim(p, s)
        BY <1>3, <1>4, <1>5 DEF After
    <2>2. QED
        BY <2>1 DEF SoFar
<1>9. got.fatal = "toolset" => NamesClash(p)
    <2>1. CASE set.fatal = "toolset"
        BY <2>1 DEF SoFar
    <2>2. CASE set.fatal # "toolset" /\ got.fatal = "toolset"
        <3>1. PICK n \in Claim(p, s) : n \in Owned(set)
            BY <1>2, <1>3, <1>4, <1>5, <2>2 DEF After
        <3>2. PICK t \in 1..k : n \in Claim(p, t)
            BY <3>1 DEF SoFar
        <3>3. t \in Servers /\ t # s /\ s \in Servers
            BY <3>2, StartupAssumption DEF Servers
        <3>4. QED
            BY <3>1, <3>2, <3>3 DEF NamesClash
    <2>3. QED
        BY <2>1, <2>2
<1>10. got.fatal = "unavailable" => \E t \in required : dial[p][t] = "down"
    <2>1. got.fatal = "unavailable" => set.fatal = "unavailable"
        BY <1>2, <1>5 DEF After
    <2>2. QED
        BY <2>1 DEF SoFar
<1>11. {t \in 1..s : why[p][t] = "unavailable"} = {t \in 1..k : why[p][t] = "unavailable"}
    <2>1. why[p][s] = "none"
        BY DEF DialIsKept
    <2>2. QED
        BY <2>1
<1>12. SoFar(p, s, got)
    BY <1>6, <1>7, <1>8, <1>9, <1>10, <1>11 DEF SoFar
<1>13. QED
    BY <1>1, <1>12

(* One that is down adds its cause.                                         *)
LEMMA JudgeDown ==
    ASSUME StartupTypeOK, NEW p \in Procs, DialIsKept(p), NEW k \in Nat, k + 1 \in Servers,
           NEW set, SoFar(p, k, set), dial[p][k + 1] = "down"
    PROVE  SoFar(p, k + 1, Judge(set, Result(p, k + 1)))
<1> DEFINE s == k + 1
           got == Judge(set, Result(p, s))
           toolset == why[p][s] = "toolset"
<1>0. set \in SetType /\ set.failed \in Nat /\ set.tools \in Seq(Pairs)
    BY DEF SoFar, SetType
<1>1. got = ConnectFailed(set, Result(p, s)) /\ why[p][s] \in {"unavailable", "toolset"}
    <2>1. ~Result(p, s).up
        BY DEF Result
    <2>2. why[p][s] \in {"none", "unavailable", "toolset"} /\ why[p][s] # "none"
        BY DEF StartupTypeOK, DialIsKept
    <2>3. QED
        BY <2>1, <2>2 DEF Judge
<1>2. /\ got \in SetType /\ got.tools = set.tools
      /\ got.fatal = IF set.fatal # "none" THEN set.fatal
                     ELSE IF toolset THEN "toolset"
                     ELSE IF s \in required THEN "unavailable" ELSE "none"
      /\ got.failed = IF toolset \/ Over(p) THEN set.failed ELSE set.failed + 1
    <2>1. CASE toolset
        BY <1>0, <1>1, <2>1 DEF ConnectFailed, Result, Fail, SetType
    <2>2. CASE ~toolset
        <3> DEFINE counted == [set EXCEPT !.failed = IF Over(p) THEN @ ELSE @ + 1]
        <3>1. /\ counted \in SetType /\ counted.tools = set.tools /\ counted.fatal = set.fatal
              /\ counted.failed = IF Over(p) THEN set.failed ELSE set.failed + 1
            BY <1>0 DEF SetType
        <3>2. got = IF s \in required THEN Fail(counted, "unavailable") ELSE counted
            BY <1>1, <2>2 DEF ConnectFailed, Result
        <3> HIDE DEF counted, got
        <3>3. QED
            BY <2>2, <3>1, <3>2 DEF Fail, SetType
    <2>3. QED
        BY <2>1, <2>2
<1> HIDE DEF got
<1>3. got.fatal = "none" => got.tools = JoinedUp(FirstShown(p, s))
    <2>1. Shown(p, s) = <<>> /\ set.tools \o <<>> = set.tools
        BY <1>0, ShownType
    <2>2. QED
        BY <1>2, <2>1, ShownNext DEF SoFar
<1>4. \A n \in Owned(got) : \E t \in 1..s : n \in Claim(p, t)
    <2>1. Owned(got) = Owned(set)
        BY <1>2 DEF Owned
    <2>2. QED
        BY <2>1 DEF SoFar
<1>5. got.fatal = "toolset" => NamesClash(p)
    BY <1>2 DEF SoFar, NamesClash
<1>6. got.fatal = "unavailable" => \E t \in required : dial[p][t] = "down"
    BY <1>2 DEF SoFar
<1>7. ~Over(p) => got.failed = Cardinality({t \in 1..s : why[p][t] = "unavailable"})
    <2> DEFINE before == {t \in 1..k : why[p][t] = "unavailable"}
    <2>1. IsFiniteSet(before) /\ Cardinality(before) \in Nat
        <3>1. IsFiniteSet(1..k) /\ before \subseteq 1..k
            BY FS_Interval
        <3>2. QED
            BY <3>1, FS_Subset, FS_CardinalityType
    <2>2. CASE toolset
        <3>1. {t \in 1..s : why[p][t] = "unavailable"} = before
            BY <2>2
        <3>2. QED
            BY <1>2, <2>2, <3>1 DEF SoFar
    <2>3. CASE ~toolset
        <3>1. {t \in 1..s : why[p][t] = "unavailable"} = before \cup {s} /\ s \notin before
            BY <1>1, <2>3
        <3>2. Cardinality(before \cup {s}) = Cardinality(before) + 1
            BY <2>1, <3>1, FS_AddElement
        <3>3. QED
            BY <1>2, <2>3, <3>1, <3>2 DEF SoFar
    <2>4. QED
        BY <2>2, <2>3
<1>8. SoFar(p, s, got)
    BY <1>2, <1>3, <1>4, <1>5, <1>6, <1>7 DEF SoFar
<1>9. QED
    BY <1>8 DEF got

(* All of them: what connectMCP hands back.                                 *)
LEMMA JudgeAll ==
    ASSUME StartupTypeOK, NEW p \in Procs, DialIsKept(p),
           \A s \in Servers : dial[p][s] \in {"up", "down"}
    PROVE  SoFar(p, ServerCount, FoldLeft(Judge, NoSet, Results(p)))
<1> DEFINE res == Results(p)
           part(k) == SubSeq(res, 1, k)
           S == {k \in Nat : k <= ServerCount => SoFar(p, k, Judged(part(k)))}
           R == {Result(p, s) : s \in Servers}
<1>0. ServerCount \in Nat /\ Servers = 1..ServerCount
    BY StartupAssumption DEF Servers
<1>1. res = [s \in 1..ServerCount |-> Result(p, s)]
    BY <1>0 DEF Results, JudgingOrder
<1>2. res \in Seq(R) /\ Len(res) = ServerCount
    BY <1>0, <1>1
<1> HIDE DEF res, R
<1>3. 0 \in S
    <2>1. part(0) = <<>> /\ FirstShown(p, 0) = <<>>
        BY FirstOnes, SubSeqEmpty DEF FirstShown
    <2>2. Judged(part(0)) = NoSet /\ JoinedUp(FirstShown(p, 0)) = <<>>
        BY <2>1, OneResult, OneShown
    <2>3. NoSet \in SetType /\ Owned(NoSet) = {}
        BY DEF NoSet, SetType, Owned, ToSet
    <2>4. {s \in 1..0 : why[p][s] = "unavailable"} = {}
        OBVIOUS
    <2>5. SoFar(p, 0, NoSet)
        BY <2>2, <2>3, <2>4, FS_EmptySet DEF SoFar, NoSet
    <2> HIDE DEF part
    <2>6. QED
        BY <2>2, <2>5
<1>4. ASSUME NEW k \in Nat, k \in S PROVE k + 1 \in S
    <2> SUFFICES ASSUME k + 1 <= ServerCount PROVE SoFar(p, k + 1, Judged(part(k + 1)))
        OBVIOUS
    <2>1. k + 1 \in Servers /\ k <= ServerCount
        BY <1>0
    <2>2. part(k) \in Seq(R) /\ res[k + 1] \in R /\ part(k + 1) = Append(part(k), res[k + 1])
        BY <1>2, FirstOnes
    <2>3. res[k + 1] = Result(p, k + 1)
        BY <1>0, <1>1, <2>1
    <2> HIDE DEF part
    <2>4. SoFar(p, k, Judged(part(k)))
        BY <1>4, <2>1
    <2> HIDE DEF S
    <2>5. Judged(part(k + 1)) = Judge(Judged(part(k)), Result(p, k + 1))
        BY <2>2, <2>3, OneResult
    <2>6. QED
        BY <2>1, <2>4, <2>5, JudgeUp, JudgeDown
<1> HIDE DEF S
<1>5. \A k \in Nat : k \in S
    BY <1>3, <1>4, OnResults!NatInd
<1>6. part(ServerCount) = res
    BY <1>2, FirstOnes
<1> HIDE DEF part
<1>7. SoFar(p, ServerCount, Judged(part(ServerCount)))
    BY <1>0, <1>5 DEF S
<1>8. QED
    BY <1>6, <1>7 DEF Judged, res

-----------------------------------------------------------------------------
(* What a step leaves alone of a process.                                   *)
SameDial(p) == /\ dial'[p] = dial[p] /\ listed'[p] = listed[p] /\ why'[p] = why[p]
               /\ required' = required
SameSet(p) == registry'[p] = registry[p] /\ fatal'[p] = fatal[p] /\ failed'[p] = failed[p]
Kept(p) == /\ SameDial(p) /\ SameSet(p) /\ log'[p] = log[p]
           /\ ctx'[p] = ctx[p] /\ stopped'[p] = stopped[p] /\ lost'[p] = lost[p]
Stays(p) == Kept(p) /\ pc'[p] = pc[p] /\ err'[p] = err[p] /\ gate'[p] = gate[p] /\ closed'[p] = closed[p]
Only(p) == \A q \in Procs \ {p} : Stays(q)

LEMMA SameResults ==
    ASSUME NEW p \in Procs, SameDial(p)
    PROVE  /\ Missing(p)' = Missing(p)
           /\ SameSet(p) => RegistryFollowsConfig(p)' = RegistryFollowsConfig(p)
<1>1. Missing(p)' = Missing(p)
    BY DEF SameDial, Missing
<1>2. \A s \in Servers : Shown(p, s)' = Shown(p, s) /\ Claim(p, s)' = Claim(p, s)
    BY DEF SameDial, Shown, Claim
<1>3. Joined(p)' = Joined(p)
    <2>1. [s \in Servers |-> Shown(p, s)]' = [s \in Servers |-> Shown(p, s)]
        BY <1>2
    <2>2. QED
        BY <2>1 DEF Joined
<1>4. ASSUME SameSet(p) PROVE RegistryFollowsConfig(p)' = RegistryFollowsConfig(p)
    <2>1. (fatal[p] = "none" => registry[p] = Joined(p))' = (fatal[p] = "none" => registry[p] = Joined(p))
        BY <1>3, <1>4 DEF SameSet
    <2>2. (\E s \in Servers : why[p][s] = "toolset")' = (\E s \in Servers : why[p][s] = "toolset")
        BY DEF SameDial
    <2>3. (\E s, t \in Servers : s # t /\ Claim(p, s) \cap Claim(p, t) # {})'
            = (\E s, t \in Servers : s # t /\ Claim(p, s) \cap Claim(p, t) # {})
        BY <1>2
    <2>4. (\E s \in required : dial[p][s] = "down")' = (\E s \in required : dial[p][s] = "down")
        BY DEF SameDial
    <2>5. fatal'[p] = fatal[p]
        BY <1>4 DEF SameSet
    <2>6. QED
        BY <2>1, <2>2, <2>3, <2>4, <2>5 DEF RegistryFollowsConfig
<1>5. QED
    BY <1>1, <1>4

LEMMA SameLog ==
    ASSUME NEW p \in Procs, log'[p] = log[p]
    PROVE  /\ \A type : Positions(p, type)' = Positions(p, type)
           /\ \A e : Occurs(p, e)' = Occurs(p, e)
           /\ Once(p)' = Once(p)
           /\ \A s : Ups(p, s)' = Ups(p, s) /\ Downs(p, s)' = Downs(p, s)
BY DEF Positions, Occurs, Once, Ups, Downs, Connect, Disconnect

LEMMA OthersStay ==
    ASSUME NEW q \in Procs, Local(q), Stays(q) PROVE Local(q)'
<1> USE DEF Local, Stays, Kept
<1>1. StopIsSeen(q)'
    BY DEF StopIsSeen, Interrupted
<1>2. GateIsKept(q)'
    BY DEF GateIsKept, Interrupted, SameDial
<1>3. DialIsKept(q)'
    BY DEF DialIsKept, SameDial, SameSet
<1>4. LogIsKept(q)'
    BY SameLog DEF LogIsKept, SameDial, SameSet
<1>5. FailuresAreKept(q)'
    BY SameResults DEF FailuresAreKept, SameSet
<1>6. SetIsKept(q)'
    BY SameResults DEF SetIsKept
<1>7. QED
    BY <1>1, <1>2, <1>3, <1>4, <1>5, <1>6

-----------------------------------------------------------------------------
(* The steps that only take a process from one place to another: from where,*)
(* to where, and with what cause.                                           *)
Passes(p, to) == pc'[p] = to /\ err'[p] = err[p] /\ gate'[p] = gate[p]
Fails(p, to, cause) == pc'[p] = to /\ err'[p] = cause /\ gate'[p] = gate[p]
Route(p) ==
    \/ pc[p] = "none" /\ (Passes(p, "opening") \/ Passes(p, "gate"))
    \/ pc[p] = "opening" /\ Passes(p, "locking")
    \/ pc[p] \in {"opening", "gate"} /\ Fails(p, "leaving", "load")
    \/ pc[p] = "locking" /\ (Passes(p, "gate") \/ Fails(p, "leaving", "lock_held"))
    \/ pc[p] = "gate" /\ gate[p] > ServerCount /\ Passes(p, "prepare")
    \/ pc[p] = "gate" /\ gate[p] \in Servers /\ ~Over(p) /\ Passes(p, "question")
    \/ pc[p] = "question" /\ Passes(p, "login")
    \/ pc[p] \in {"gate", "question", "login"} /\ pc'[p] = "gate" /\ err'[p] = err[p] /\ gate'[p] = gate[p] + 1
    \/ /\ \/ pc[p] \in {"gate", "login"} /\ ~Over(p)
          \/ pc[p] = "question"
       /\ gate[p] \in required /\ Fails(p, "gate_failed", "mcp")
    \/ pc[p] \in {"gate", "login"} /\ gate[p] \in Servers /\ Over(p) /\ Fails(p, "gate_failed", Interrupted(p))
    \/ pc[p] \in {"gate_failed", "prepare"} /\ Fails(p, "leaving", "config")
    \/ pc[p] = "decide" /\ fatal[p] = "none" /\ Passes(p, "loop")
    \/ /\ pc[p] = "decide" /\ fatal[p] # "none"
       /\ Fails(p, "closing", IF Over(p) THEN Interrupted(p) ELSE IF fatal[p] = "toolset" THEN "toolset" ELSE "mcp")
    \/ pc[p] = "loop" /\ \E o \in OutcomesOf(p) : Fails(p, "closing", o)
    \/ pc[p] = "closing" /\ closed[p] = ServerCount /\ Passes(p, "report")

LEMMA RouteKeeps ==
    ASSUME LifeTypeOK, NEW p \in Procs, Local(p), Kept(p), closed'[p] = closed[p], Route(p)
    PROVE  Local(p)'
<1>0. /\ gate[p] \in Nat /\ closed[p] \in 0..ServerCount /\ ServerCount \in Nat /\ required \subseteq Servers
      /\ stopped[p] \in {"never", "start", "question", "loop"}
      /\ ctx[p] \in {"live", "canceled", "deadline"}
      /\ fatal[p] \in {"none", "unavailable", "toolset"}
    BY StartupAssumption DEF LifeTypeOK, StartupTypeOK
<1> USE DEF Local, Kept, Route, Passes, Fails
<1>1. StopIsSeen(p)'
    BY <1>0 DEF StopIsSeen, Interrupted, Ending, Over, OutcomesOf
<1>2. GateIsKept(p)'
    <2>1. \A o \in Outcomes \cup {Interrupted(p)} : o # "mcp"
        BY DEF Outcomes, Interrupted
    <2>2. pc[p] = "decide" /\ fatal[p] = "unavailable" => \E s \in required : dial[p][s] = "down"
        BY DEF SetIsKept, RegistryFollowsConfig
    <2>3. Interrupted(p)' = Interrupted(p) /\ dial'[p] = dial[p] /\ required' = required
        BY DEF Interrupted, SameDial
    <2>4. pc[p] # "loop" \/ err'[p] # "mcp"
        BY <2>1 DEF OutcomesOf
    <2>5. stopped[p] = "never" => ~Over(p)
        BY DEF StopIsSeen, Over
    <2> USE <1>0, <2>3, <2>4, <2>5 DEF StopIsSeen, Servers
    <2>6. /\ pc'[p] \in {"none", "opening", "locking"} => gate'[p] = 1
          /\ pc'[p] \in {"question", "login", "gate_failed"} => gate'[p] \in Servers
          /\ pc'[p] \in {"prepare", "connect", "decide", "loop", "closing"} => gate'[p] > ServerCount
        BY DEF GateIsKept
    <2>7. /\ pc'[p] = "gate_failed" => err'[p] \in {Interrupted(p), "mcp"}
          /\ pc'[p] = "gate_failed" /\ stopped[p] = "never" => err'[p] = "mcp"
        BY DEF GateIsKept
    <2>8. err'[p] = "mcp" => \E s \in required : dial[p][s] = "down" \/ gate'[p] = s
        <3>1. CASE err'[p] = err[p]
            <4>1. gate'[p] = gate[p] \/ err[p] = "none"
                BY DEF Ending
            <4>2. QED
                BY <3>1, <4>1 DEF GateIsKept
        <3>2. CASE err'[p] # err[p]
            <4>1. err'[p] = "mcp" =>
                    \/ gate[p] \in required /\ gate'[p] = gate[p]
                    \/ pc[p] = "decide" /\ fatal[p] = "unavailable"
                BY <2>1, <3>2
            <4>2. QED
                BY <2>2, <4>1
        <3>3. QED
            BY <3>1, <3>2
    <2>9. QED
        BY <2>6, <2>7, <2>8 DEF GateIsKept
<1>3. DialIsKept(p)'
    BY <1>0 DEF DialIsKept, SameDial, SameSet, Fresh, Settled, Servers
<1>4. LogIsKept(p)'
    BY SameLog DEF LogIsKept, SameDial, SameSet, Fresh
<1>5. FailuresAreKept(p)'
    BY <1>0, SameResults DEF FailuresAreKept, LogIsKept, SameSet, Settled, Fresh
<1>6. SetIsKept(p)'
    BY SameResults DEF SetIsKept
<1>7. QED
    BY <1>1, <1>2, <1>3, <1>4, <1>5, <1>6

-----------------------------------------------------------------------------
(* The steps that log.  An event is at one position, and occurs once more.  *)
LEMMA OneEvent ==
    ASSUME LifeTypeOK, NEW p \in Procs, NEW e, log'[p] = Append(log[p], e)
    PROVE  /\ Len(log[p]) \in Nat /\ Len(log'[p]) = Len(log[p]) + 1
           /\ log'[p][Len(log[p]) + 1] = e /\ log'[p] # <<>>
           /\ \A type : e.type # type => Positions(p, type)' = Positions(p, type)
           /\ \A type : Positions(p, type)' = Positions(p, type) \cup
                                                  (IF e.type = type THEN {Len(log[p]) + 1} ELSE {})
           /\ \A x : Occurs(p, x) \in Nat /\ Occurs(p, x)' = Occurs(p, x) + (IF e = x THEN 1 ELSE 0)
<1> DEFINE n == Len(log[p])
<1>1. /\ n \in Nat /\ DOMAIN log[p] = 1..n /\ DOMAIN log'[p] = 1..n + 1 /\ Len(log'[p]) = n + 1
      /\ log'[p][n + 1] = e /\ \A i \in 1..n : log'[p][i] = log[p][i]
    <2>1. log[p] \in Seq(Events)
        BY DEF LifeTypeOK, StartupTypeOK
    <2>2. QED
        BY <2>1
<1> HIDE DEF n
<1>2. ASSUME NEW type
      PROVE  Positions(p, type)' = Positions(p, type) \cup (IF e.type = type THEN {n + 1} ELSE {})
    BY <1>1 DEF Positions
<1>3. ASSUME NEW x
      PROVE  Occurs(p, x) \in Nat /\ Occurs(p, x)' = Occurs(p, x) + (IF e = x THEN 1 ELSE 0)
    <2> DEFINE old == {i \in DOMAIN log[p] : log[p][i] = x}
               new == {i \in DOMAIN log'[p] : log'[p][i] = x}
    <2>1. IsFiniteSet(old) /\ Cardinality(old) \in Nat /\ n + 1 \notin old
        <3>1. old \subseteq 1..n
            BY <1>1
        <3> HIDE DEF old
        <3>2. IsFiniteSet(1..n)
            BY <1>1, FS_Interval
        <3>3. IsFiniteSet(old) /\ Cardinality(old) \in Nat
            BY <3>1, <3>2, FS_Subset, FS_CardinalityType
        <3>4. QED
            BY <1>1, <3>1, <3>3
    <2>5. Occurs(p, x) = Cardinality(old) /\ Occurs(p, x)' = Cardinality(new)
        BY DEF Occurs
    <2>2. new = old \cup (IF e = x THEN {n + 1} ELSE {})
        BY <1>1
    <2> HIDE DEF old, new
    <2>3. CASE e = x
        <3>1. Cardinality(new) = Cardinality(old) + 1
            BY <2>1, <2>2, <2>3, FS_AddElement
        <3>2. QED
            BY <2>1, <2>3, <2>5, <3>1
    <2>4. CASE e # x
        <3>1. new = old
            BY <2>2, <2>4
        <3>2. QED
            BY <2>1, <2>4, <2>5, <3>1
    <2>6. QED
        BY <2>3, <2>4
<1>4. log'[p] # <<>>
    BY <1>1
<1>5. ASSUME NEW type, e.type # type PROVE Positions(p, type)' = Positions(p, type)
    BY <1>2, <1>5
<1>6. QED
    BY <1>1, <1>2, <1>3, <1>4, <1>5 DEF n

LEMMA EventFields ==
    \A s : /\ Connect(s, TRUE).type = "mcp_connect" /\ Connect(s, TRUE).server = s
           /\ Connect(s, TRUE).ok = TRUE
           /\ Connect(s, FALSE).type = "mcp_connect" /\ Connect(s, FALSE).ok = FALSE
           /\ Disconnect(s).type = "mcp_disconnect" /\ Disconnect(s).server = s
           /\ ToolsListed(s).type = "mcp_tools_listed"
BY DEF Connect, Disconnect, ToolsListed

(* What an event adds to what is counted: up or down for a server.          *)
Adds(p, e, ups, downs) ==
    /\ log'[p] = Append(log[p], e)
    /\ \A t : /\ Ups(p, t)' = Ups(p, t) + (IF t \in ups THEN 1 ELSE 0)
              /\ Downs(p, t)' = Downs(p, t) + (IF t \in downs THEN 1 ELSE 0)

LEMMA EventAdds ==
    ASSUME LifeTypeOK, NEW p \in Procs, NEW e, log'[p] = Append(log[p], e), NEW ups, NEW downs,
           \A t : e = Connect(t, TRUE) <=> t \in ups,
           \A t : e = Disconnect(t) <=> t \in downs
    PROVE  Adds(p, e, ups, downs)
<1>1. \A x : Occurs(p, x) \in Nat /\ Occurs(p, x)' = Occurs(p, x) + (IF e = x THEN 1 ELSE 0)
    BY OneEvent
<1>2. /\ \A x : e = x => Occurs(p, x)' = Occurs(p, x) + 1
      /\ \A x : e # x => Occurs(p, x)' = Occurs(p, x) + 0
    BY <1>1
<1>3. \A t : Connect(t, TRUE)' = Connect(t, TRUE) /\ Disconnect(t)' = Disconnect(t)
    BY DEF Connect, Disconnect
<1>4. ASSUME NEW t PROVE Ups(p, t)' = Ups(p, t) + (IF t \in ups THEN 1 ELSE 0)
    <2>1. CASE t \in ups
        BY <1>2, <1>3, <2>1, Zenon DEF Ups
    <2>2. CASE t \notin ups
        BY <1>2, <1>3, <2>2, Zenon DEF Ups
    <2>3. QED
        BY <2>1, <2>2
<1>5. ASSUME NEW t PROVE Downs(p, t)' = Downs(p, t) + (IF t \in downs THEN 1 ELSE 0)
    <2>1. CASE t \in downs
        BY <1>2, <1>3, <2>1, Zenon DEF Downs
    <2>2. CASE t \notin downs
        BY <1>2, <1>3, <2>2, Zenon DEF Downs
    <2>3. QED
        BY <2>1, <2>2
<1>6. QED
    BY <1>4, <1>5, Zenon DEF Adds

LEMMA ConnectAdds ==
    ASSUME LifeTypeOK, NEW p \in Procs, NEW s
    PROVE  /\ log'[p] = Append(log[p], Connect(s, TRUE)) => Adds(p, Connect(s, TRUE), {s}, {})
           /\ log'[p] = Append(log[p], Connect(s, FALSE)) => Adds(p, Connect(s, FALSE), {}, {})
           /\ log'[p] = Append(log[p], ToolsListed(s)) => Adds(p, ToolsListed(s), {}, {})
           /\ log'[p] = Append(log[p], Disconnect(s)) => Adds(p, Disconnect(s), {}, {s})
<1>1. \A t : /\ Connect(s, TRUE) = Connect(t, TRUE) <=> t \in {s}
             /\ Connect(s, TRUE) = Disconnect(t) <=> t \in {}
    <2>1. ASSUME NEW t, Connect(s, TRUE) = Connect(t, TRUE) PROVE t = s
        <3>1. Connect(s, TRUE).server = s /\ Connect(t, TRUE).server = t
            BY EventFields
        <3>2. QED
            BY <2>1, <3>1, Zenon
    <2>2. \A t : Connect(s, TRUE) # Disconnect(t)
        BY EventFields
    <2>3. QED
        BY <2>1, <2>2, Zenon
<1>2. \A t : /\ Connect(s, FALSE) = Connect(t, TRUE) <=> t \in {}
             /\ Connect(s, FALSE) = Disconnect(t) <=> t \in {}
    BY EventFields
<1>3. \A t : /\ ToolsListed(s) = Connect(t, TRUE) <=> t \in {}
             /\ ToolsListed(s) = Disconnect(t) <=> t \in {}
    BY EventFields
<1>4. \A t : /\ Disconnect(s) = Connect(t, TRUE) <=> t \in {}
             /\ Disconnect(s) = Disconnect(t) <=> t \in {s}
    <2>1. ASSUME NEW t, Disconnect(s) = Disconnect(t) PROVE t = s
        <3>1. Disconnect(s).server = s /\ Disconnect(t).server = t
            BY EventFields
        <3>2. QED
            BY <2>1, <3>1, Zenon
    <2>2. \A t : Disconnect(s) # Connect(t, TRUE)
        BY EventFields
    <2>3. QED
        BY <2>1, <2>2, Zenon
<1>5. QED
    BY <1>1, <1>2, <1>3, <1>4, EventAdds, Zenon

(* The first event of a log.                                                *)
Opens(p) == /\ log'[p] = Append(log[p], [type |-> "run_start"])
            /\ ctx'[p] = ctx[p] /\ stopped'[p] = stopped[p] /\ required' = required
            /\ gate'[p] = gate[p] /\ lost'[p] = lost[p] /\ closed'[p] = closed[p] /\ fatal'[p] = fatal[p]
            /\ listed'[p] = listed[p] /\ why'[p] = why[p]

LEMMA OpensLog ==
    ASSUME LifeTypeOK, NEW p \in Procs, Local(p), pc[p] \in {"gate_failed", "prepare"}, Opens(p),
           pc'[p] \in {"report", "connect"}
    PROVE  /\ Once(p)' = {1} /\ log'[p] # <<>>
           /\ Positions(p, "run_start")' = {1} /\ Positions(p, "run_end")' = {}
           /\ \A s : Ups(p, s)' = 0 /\ Downs(p, s)' = 0
<1>1. log[p] = <<>> /\ Len(log[p]) = 0
    BY DEF Local, LogIsKept, Fresh
<1>2. PICK e : e.type = "run_start" /\ log'[p] = Append(log[p], e)
    BY DEF Opens
<1>3. log'[p] # <<>>
    BY <1>2, OneEvent
<1>4. \A type : Positions(p, type)' = Positions(p, type) \cup (IF e.type = type THEN {1} ELSE {})
    <2>1. \A type : Positions(p, type)' = Positions(p, type) \cup (IF e.type = type THEN {Len(log[p]) + 1} ELSE {})
        BY <1>2, OneEvent
    <2>2. Len(log[p]) + 1 = 1
        BY <1>1
    <2>3. QED
        BY <2>1, <2>2
<1>5. \A type : Positions(p, type) = {}
    BY <1>1 DEF Positions
<1>6. Positions(p, "run_start")' = {1} /\ Positions(p, "run_end")' = {}
    BY <1>2, <1>4, <1>5
<1>7. \A s : Ups(p, s) = 0 /\ Downs(p, s) = 0
    <2>1. \A x : {i \in DOMAIN log[p] : log[p][i] = x} = {}
        BY <1>1
    <2>2. \A x : Occurs(p, x) = 0
        BY <2>1, FS_EmptySet DEF Occurs
    <2>3. QED
        BY <2>2, Zenon DEF Ups, Downs
<1>8. Adds(p, e, {}, {})
    <2>1. \A s : e # Connect(s, TRUE) /\ e # Disconnect(s)
        BY <1>2, EventFields
    <2>2. \A s : (e = Connect(s, TRUE) <=> s \in {}) /\ (e = Disconnect(s) <=> s \in {})
        BY <2>1, Zenon
    <2>3. QED
        BY <1>2, <2>2, EventAdds, Zenon
<1>9. \A s : Ups(p, s)' = 0 /\ Downs(p, s)' = 0
    BY <1>7, <1>8 DEF Adds
<1>10. QED
    BY <1>3, <1>6, <1>9 DEF Once

(* A refusal at the gate, or an interruption while the task is read.        *)
LEMMA RefusalKeeps ==
    ASSUME LifeTypeOK, NEW p \in Procs, Local(p), Opens(p), pc'[p] = "report", dial'[p] = dial[p],
           registry'[p] = registry[p],
           \/ pc[p] = "gate_failed" /\ err'[p] = err[p] /\ failed'[p] = IF err[p] = "mcp" THEN 1 ELSE 0
           \/ pc[p] = "prepare" /\ Over(p) /\ err'[p] = Interrupted(p) /\ failed'[p] = failed[p]
    PROVE  Local(p)'
<1>0. /\ gate[p] \in Nat /\ ServerCount \in Nat /\ required \subseteq Servers
      /\ stopped[p] \in {"never", "start", "question", "loop"}
      /\ \A s \in Servers : why[p][s] = "none" /\ dial[p][s] = "off"
    BY StartupAssumption DEF LifeTypeOK, StartupTypeOK, Local, DialIsKept, Fresh
<1>1. pc[p] \in Fresh /\ pc[p] \notin {"loop", "question"}
    BY DEF Fresh
<1> USE DEF Opens, Local
<1>2. StopIsSeen(p)'
    BY <1>0 DEF StopIsSeen, Interrupted, Ending
<1>3. GateIsKept(p)'
    BY <1>0 DEF GateIsKept, Interrupted
<1>4. DialIsKept(p)'
    BY <1>0, <1>1 DEF DialIsKept, Fresh, Settled
<1>5. LogIsKept(p)'
    BY <1>0, OpensLog DEF LogIsKept, Fresh
<1>6. FailuresAreKept(p)'
    <2>1. Missing(p)' = {} /\ Cardinality({}) = 0
        BY <1>0, FS_EmptySet DEF Missing
    <2>2. CASE pc[p] = "gate_failed"
        <3>1. stopped[p] \notin {"start", "question"} => err[p] = "mcp"
            BY <1>0, <2>2 DEF GateIsKept, StopIsSeen
        <3>2. gate[p] <= ServerCount
            BY <1>0, <2>2 DEF GateIsKept, Servers
        <3>3. QED
            BY <2>1, <2>2, <3>1, <3>2 DEF FailuresAreKept
    <2>3. CASE pc[p] = "prepare"
        <3>1. stopped[p] \in {"start", "question"}
            BY <1>0, <2>3 DEF StopIsSeen, Over
        <3>2. QED
            BY <3>1 DEF FailuresAreKept
    <2>4. QED
        BY <2>2, <2>3
<1>7. SetIsKept(p)'
    BY DEF SetIsKept
<1>8. QED
    BY <1>2, <1>3, <1>4, <1>5, <1>6, <1>7

(* The servers are dialed.                                                  *)
LEMMA BeginKeeps ==
    ASSUME LifeTypeOK, NEW p \in Procs, Local(p), Opens(p), pc[p] = "prepare", pc'[p] = "connect",
           dial'[p] = [s \in Servers |-> "trying"], err'[p] = err[p]
    PROVE  Local(p)'
<1>0. /\ gate[p] \in Nat /\ ServerCount \in Nat
      /\ \A s \in Servers : why[p][s] = "none" /\ dial[p][s] = "off"
    BY StartupAssumption DEF LifeTypeOK, Local, DialIsKept, Fresh
<1> USE DEF Opens, Local
<1>2. StopIsSeen(p)'
    BY <1>0 DEF StopIsSeen, Ending
<1>3. GateIsKept(p)'
    BY <1>0 DEF GateIsKept, StopIsSeen, Ending
<1>4. DialIsKept(p)'
    BY <1>0 DEF DialIsKept, Fresh, Settled
<1>5. LogIsKept(p)'
    BY <1>0, OpensLog DEF LogIsKept, Fresh
<1>6. FailuresAreKept(p)' /\ SetIsKept(p)'
    BY DEF FailuresAreKept, SetIsKept, Settled
<1>8. QED
    BY <1>2, <1>3, <1>4, <1>5, <1>6

(* While the servers are dialed: what becomes of one of them.               *)
Becomes(p, s, d, tools, cause) ==
    /\ dial'[p] = [dial[p] EXCEPT ![s] = d]
    /\ listed'[p] = [listed[p] EXCEPT ![s] = tools]
    /\ why'[p] = [why[p] EXCEPT ![s] = cause]
Dialed(p, s) ==
    \/ /\ dial[p][s] \in {"trying", "pausing"} /\ log'[p] = log[p]
       /\ \/ \E d \in {"trying", "pausing"} : \E tools \in {listed[p][s], <<>>} : Becomes(p, s, d, tools, "none")
          \/ \E n \in Tools \ ToSet(listed[p][s]) : Becomes(p, s, "trying", Append(listed[p][s], n), "none")
    \/ /\ dial[p][s] \in {"trying", "pausing"} /\ log'[p] = Append(log[p], Connect(s, FALSE))
       /\ \E cause \in {"unavailable", "toolset"} : Becomes(p, s, "down", <<>>, cause)
    \/ /\ dial[p][s] = "trying" /\ log'[p] = Append(log[p], Connect(s, TRUE))
       /\ Becomes(p, s, "connected", listed[p][s], "none")
    \/ /\ dial[p][s] = "connected" /\ log'[p] = Append(log[p], ToolsListed(s))
       /\ Becomes(p, s, "up", listed[p][s], "none")

LEMMA DialKeeps ==
    ASSUME LifeTypeOK, NEW p \in Procs, NEW s \in Servers, Local(p), pc[p] = "connect", Dialed(p, s),
           SameSet(p), required' = required, ctx'[p] = ctx[p], stopped'[p] = stopped[p], lost'[p] = lost[p],
           pc'[p] = pc[p], err'[p] = err[p], gate'[p] = gate[p], closed'[p] = closed[p]
    PROVE  Local(p)'
<1>0. /\ dial[p] \in [Servers -> {"off", "trying", "pausing", "connected", "up", "down"}]
      /\ why[p] \in [Servers -> {"none", "unavailable", "toolset"}]
      /\ listed[p] \in [Servers -> Seq(Tools)] /\ s >= 1 /\ s \in Int
      /\ listed[p][s] \in Seq(Tools)
    BY StartupAssumption DEF LifeTypeOK, StartupTypeOK, Servers
<1>1. StopIsSeen(p)'
    BY DEF Local, StopIsSeen, Ending
<1>2. GateIsKept(p)'
    BY DEF Local, GateIsKept, StopIsSeen, Ending
<1>3. DialIsKept(p)'
    <2>0. DialIsKept(p)
        BY DEF Local
    <2>1. PICK d, tools, cause :
              /\ Becomes(p, s, d, tools, cause) /\ dial[p][s] # "off"
              /\ d \in {"trying", "pausing", "connected", "up", "down"}
              /\ cause = "none" <=> d # "down"
              /\ \A i, j \in DOMAIN tools : tools[i] = tools[j] => i = j
        <3>1. \A i, j \in DOMAIN listed[p][s] : listed[p][s][i] = listed[p][s][j] => i = j
            BY <2>0 DEF DialIsKept
        <3> DEFINE Unlike(l) == \A i, j \in DOMAIN l : l[i] = l[j] => i = j
        <3>2. ASSUME NEW n \in Tools, n \notin ToSet(listed[p][s])
              PROVE  Unlike(Append(listed[p][s], n))
            <4> DEFINE l == listed[p][s]
                       m == Append(l, n)
            <4>1. /\ DOMAIN l = 1..Len(l) /\ Len(l) \in Nat /\ DOMAIN m = 1..Len(l) + 1
                  /\ m[Len(l) + 1] = n /\ \A i \in 1..Len(l) : m[i] = l[i]
                BY <1>0
            <4>2. \A i \in DOMAIN l : l[i] # n
                BY <3>2 DEF ToSet
            <4>3. \A i, j \in DOMAIN l : l[i] = l[j] => i = j
                BY <3>1
            <4> HIDE DEF l, m
            <4>4. \A i, j \in DOMAIN m : m[i] = m[j] => i = j
                BY <4>1, <4>2, <4>3
            <4>5. QED
                BY <4>4 DEF l, m
        <3>3. \A i, j \in DOMAIN <<>> : <<>>[i] = <<>>[j] => i = j
            OBVIOUS
        <3>4. Unlike(listed[p][s]) /\ Unlike(<<>>)
            BY <3>1, <3>3
        <3> DEFINE Found(d, tools, cause) ==
                       /\ Becomes(p, s, d, tools, cause) /\ dial[p][s] # "off"
                       /\ d \in {"trying", "pausing", "connected", "up", "down"}
                       /\ cause = "none" <=> d # "down"
                       /\ Unlike(tools)
        <3> SUFFICES \E d, tools, cause : Found(d, tools, cause)
            OBVIOUS
        <3> HIDE DEF Unlike
        <3>5. CASE dial[p][s] \in {"trying", "pausing"} /\ \E d \in {"trying", "pausing"} :
                       \E tools \in {listed[p][s], <<>>} : Becomes(p, s, d, tools, "none")
            <4>1. PICK d \in {"trying", "pausing"}, tools \in {listed[p][s], <<>>} : Becomes(p, s, d, tools, "none")
                BY <3>5
            <4>2. Found(d, tools, "none")
                BY <3>4, <3>5, <4>1
            <4>3. QED
                BY <4>2
        <3>6. CASE dial[p][s] \in {"trying", "pausing"} /\ \E n \in Tools \ ToSet(listed[p][s]) :
                       Becomes(p, s, "trying", Append(listed[p][s], n), "none")
            <4>1. PICK n \in Tools \ ToSet(listed[p][s]) : Becomes(p, s, "trying", Append(listed[p][s], n), "none")
                BY <3>6
            <4>2. Found("trying", Append(listed[p][s], n), "none")
                BY <3>2, <3>6, <4>1
            <4>3. QED
                BY <4>2
        <3>7. CASE dial[p][s] \in {"trying", "pausing"} /\ \E cause \in {"unavailable", "toolset"} :
                       Becomes(p, s, "down", <<>>, cause)
            <4>1. PICK cause \in {"unavailable", "toolset"} : Becomes(p, s, "down", <<>>, cause)
                BY <3>7
            <4>2. Found("down", <<>>, cause)
                BY <3>4, <3>7, <4>1
            <4>3. QED
                BY <4>2
        <3>8. CASE dial[p][s] \in {"trying", "connected"} /\ \E d \in {"connected", "up"} :
                       Becomes(p, s, d, listed[p][s], "none")
            <4>1. PICK d \in {"connected", "up"} : Becomes(p, s, d, listed[p][s], "none")
                BY <3>8
            <4>2. Found(d, listed[p][s], "none")
                BY <3>4, <3>8, <4>1
            <4>3. QED
                BY <4>2
        <3> HIDE DEF Found
        <3>9. QED
            BY <3>5, <3>6, <3>7, <3>8 DEF Dialed
    <2>2. \A t \in Servers : /\ dial'[p][t] = IF t = s THEN d ELSE dial[p][t]
                             /\ listed'[p][t] = IF t = s THEN tools ELSE listed[p][t]
                             /\ why'[p][t] = IF t = s THEN cause ELSE why[p][t]
        BY <1>0, <2>1 DEF Becomes
    <2>3. \A t \in Servers :
              /\ dial'[p][t] # "off"
              /\ why'[p][t] = "none" <=> dial'[p][t] # "down"
              /\ \A i, j \in DOMAIN listed'[p][t] : listed'[p][t][i] = listed'[p][t][j] => i = j
        BY <2>0, <2>1, <2>2 DEF DialIsKept
    <2>4. closed'[p] = 0 /\ pc'[p] = "connect"
        BY <2>0 DEF DialIsKept
    <2>5. QED
        BY <2>3, <2>4 DEF DialIsKept, Fresh, Settled
<1>4. LogIsKept(p)'
    <2>1. closed[p] = 0 /\ \A t \in Servers : ~(t <= 0)
        BY StartupAssumption DEF Local, DialIsKept, Servers
    <2>2. /\ log[p] # <<>> /\ Positions(p, "run_start") = {1} /\ Positions(p, "run_end") = {}
          /\ \A t \in Servers : /\ Ups(p, t) = IF dial[p][t] \in {"connected", "up"} THEN 1 ELSE 0
                                /\ Downs(p, t) = 0
        BY <2>1 DEF Local, LogIsKept, Once
    <2>3. SUFFICES
              /\ log'[p] # <<>> /\ Positions(p, "run_start")' = {1} /\ Positions(p, "run_end")' = {}
              /\ \A t \in Servers : /\ Ups(p, t)' = IF dial'[p][t] \in {"connected", "up"} THEN 1 ELSE 0
                                    /\ Downs(p, t)' = 0
        BY <2>1, <2>3 DEF LogIsKept, Once, Fresh
    <2>4. \A d, tools, cause : Becomes(p, s, d, tools, cause) =>
              \A t \in Servers : dial'[p][t] = IF t = s THEN d ELSE dial[p][t]
        BY <1>0 DEF Becomes
    <2>5. CASE log'[p] = log[p] /\ dial[p][s] \in {"trying", "pausing"}
               /\ \E d \in {"trying", "pausing"} : \E tools : Becomes(p, s, d, tools, "none")
        BY <2>2, <2>4, <2>5, SameLog
    <2>6. ASSUME NEW e, log'[p] = Append(log[p], e), e.type \in {"mcp_connect", "mcp_tools_listed"}
          PROVE  log'[p] # <<>> /\ Positions(p, "run_start")' = {1} /\ Positions(p, "run_end")' = {}
        BY <2>2, <2>6, OneEvent
    <2>7. CASE /\ log'[p] = Append(log[p], Connect(s, FALSE)) /\ dial[p][s] \in {"trying", "pausing"}
               /\ \E cause : Becomes(p, s, "down", <<>>, cause)
        <3>1. Adds(p, Connect(s, FALSE), {}, {}) /\ Connect(s, FALSE).type = "mcp_connect"
            BY <2>7, ConnectAdds, EventFields, Zenon
        <3>2. log'[p] # <<>> /\ Positions(p, "run_start")' = {1} /\ Positions(p, "run_end")' = {}
            BY <2>6, <2>7, <3>1
        <3>3. \A t \in Servers : Ups(p, t)' = Ups(p, t) /\ Downs(p, t)' = Downs(p, t)
            BY <2>2, <3>1 DEF Adds
        <3>4. \A t \in Servers : dial'[p][t] = IF t = s THEN "down" ELSE dial[p][t]
            BY <2>4, <2>7
        <3>5. QED
            BY <2>2, <2>7, <3>2, <3>3, <3>4
    <2>8. CASE /\ log'[p] = Append(log[p], Connect(s, TRUE)) /\ dial[p][s] = "trying"
               /\ Becomes(p, s, "connected", listed[p][s], "none")
        <3>1. Adds(p, Connect(s, TRUE), {s}, {}) /\ Connect(s, TRUE).type = "mcp_connect"
            BY <2>8, ConnectAdds, EventFields, Zenon
        <3>2. log'[p] # <<>> /\ Positions(p, "run_start")' = {1} /\ Positions(p, "run_end")' = {}
            BY <2>6, <2>8, <3>1
        <3>3. /\ Ups(p, s)' = 1
              /\ \A t \in Servers \ {s} : Ups(p, t)' = Ups(p, t)
              /\ \A t \in Servers : Downs(p, t)' = Downs(p, t)
            BY <2>2, <2>8, <3>1 DEF Adds
        <3>4. \A t \in Servers : dial'[p][t] = IF t = s THEN "connected" ELSE dial[p][t]
            BY <2>4, <2>8
        <3>5. QED
            BY <2>2, <2>8, <3>2, <3>3, <3>4
    <2>9. CASE /\ log'[p] = Append(log[p], ToolsListed(s)) /\ dial[p][s] = "connected"
               /\ Becomes(p, s, "up", listed[p][s], "none")
        <3>1. Adds(p, ToolsListed(s), {}, {}) /\ ToolsListed(s).type = "mcp_tools_listed"
            BY <2>9, ConnectAdds, EventFields, Zenon
        <3>2. log'[p] # <<>> /\ Positions(p, "run_start")' = {1} /\ Positions(p, "run_end")' = {}
            BY <2>6, <2>9, <3>1
        <3>3. \A t \in Servers : Ups(p, t)' = Ups(p, t) /\ Downs(p, t)' = Downs(p, t)
            BY <2>2, <3>1 DEF Adds
        <3>4. \A t \in Servers : dial'[p][t] = IF t = s THEN "up" ELSE dial[p][t]
            BY <2>4, <2>9
        <3>5. QED
            BY <2>2, <2>9, <3>2, <3>3, <3>4
    <2>10. QED
        BY <2>5, <2>7, <2>8, <2>9 DEF Dialed
<1>6. FailuresAreKept(p)' /\ SetIsKept(p)'
    BY DEF FailuresAreKept, SetIsKept, Settled
<1>7. QED
    BY <1>1, <1>2, <1>3, <1>4, <1>6 DEF Local

(* The last server has answered: the results are judged.                    *)
LEMMA CollectedKeeps ==
    ASSUME LifeTypeOK, NEW p \in Procs, Local(p), pc[p] = "connect", pc'[p] = "decide", SameDial(p),
           \A s \in Servers : dial[p][s] \in {"up", "down"}, log'[p] = log[p],
           registry'[p] = Judged(Results(p)).tools, fatal'[p] = Judged(Results(p)).fatal,
           failed'[p] = Judged(Results(p)).failed,
           ctx'[p] = ctx[p], stopped'[p] = stopped[p], lost'[p] = lost[p],
           err'[p] = err[p], gate'[p] = gate[p], closed'[p] = closed[p]
    PROVE  Local(p)'
<1> DEFINE set == Judged(Results(p))
<1>0. /\ StartupTypeOK /\ StopIsSeen(p) /\ GateIsKept(p) /\ DialIsKept(p) /\ LogIsKept(p)
      /\ gate[p] \in Nat /\ ServerCount \in Nat
      /\ stopped[p] \in {"never", "start", "question", "loop"}
    BY StartupAssumption DEF LifeTypeOK, Local
<1>1. /\ set.fatal = "none" => set.tools = Joined(p)
      /\ set.fatal = "toolset" => NamesClash(p)
      /\ set.fatal = "unavailable" => \E s \in required : dial[p][s] = "down"
      /\ ~Over(p) => set.failed = Cardinality(Missing(p))
    <2>1. SoFar(p, ServerCount, set)
        BY <1>0, JudgeAll DEF Judged
    <2>2. JoinedUp(FirstShown(p, ServerCount)) = Joined(p)
        <3> DEFINE all == [t \in Servers |-> Shown(p, t)]
        <3>1. all \in Seq(Seq(Pairs)) /\ Len(all) = ServerCount
            <4>1. \A t \in 1..ServerCount : Shown(p, t) \in Seq(Pairs)
                BY <1>0, ShownType DEF Servers
            <4>2. QED
                BY <1>0, <4>1 DEF Servers
        <3> HIDE DEF all
        <3>2. SubSeq(all, 1, ServerCount) = all
            BY <3>1, FirstOnes
        <3>3. QED
            BY <3>2 DEF FirstShown, JoinedUp, Joined, all
    <2>3. {t \in 1..ServerCount : why[p][t] = "unavailable"} = Missing(p)
        BY DEF Missing, Servers
    <2> HIDE DEF set
    <2>4. QED
        BY <2>1, <2>2, <2>3 DEF SoFar
<1> HIDE DEF set
<1>2. StopIsSeen(p)' /\ GateIsKept(p)'
    BY <1>0 DEF StopIsSeen, GateIsKept, Interrupted, Ending, SameDial
<1>3. DialIsKept(p)'
    BY <1>0 DEF DialIsKept, SameDial, Fresh, Settled
<1>4. LogIsKept(p)'
    BY <1>0, SameLog DEF LogIsKept, SameDial, Fresh
<1>5. FailuresAreKept(p)'
    <2>1. stopped[p] \notin {"start", "question"} => ~Over(p)
        BY <1>0 DEF StopIsSeen, Over
    <2>2. ~(gate'[p] <= ServerCount)
        BY <1>0 DEF GateIsKept
    <2>3. Missing(p)' = Missing(p)
        BY SameResults
    <2>4. stopped[p] \notin {"start", "question"} => failed'[p] = Cardinality(Missing(p))
        BY <1>1, <2>1 DEF set
    <2>5. Missing(p) \subseteq Servers /\ IsFiniteSet(Servers)
        BY <1>0, FS_Interval DEF Missing, Servers
    <2>6. Cardinality(Missing(p)) \in Nat
        BY <2>5, FS_Subset, FS_CardinalityType
    <2>7. QED
        BY <2>2, <2>3, <2>4, <2>6 DEF FailuresAreKept
<1>6. SetIsKept(p)'
    <2>1. \A s \in Servers : Shown(p, s)' = Shown(p, s) /\ Claim(p, s)' = Claim(p, s)
        BY DEF SameDial, Shown, Claim
    <2>2. Joined(p)' = Joined(p)
        <3>1. [s \in Servers |-> Shown(p, s)]' = [s \in Servers |-> Shown(p, s)]
            BY <2>1
        <3>2. QED
            BY <3>1 DEF Joined
    <2>3. fatal'[p] = "none" => registry'[p] = Joined(p)'
        BY <1>1, <2>2 DEF set
    <2>4. fatal'[p] = "toolset" => \/ \E s \in Servers : why'[p][s] = "toolset"
                                   \/ \E s, t \in Servers : s # t /\ Claim(p, s)' \cap Claim(p, t)' # {}
        BY <1>1, <2>1 DEF set, NamesClash, SameDial
    <2>5. fatal'[p] = "unavailable" => \E s \in required' : dial'[p][s] = "down"
        BY <1>1 DEF set, SameDial
    <2>6. QED
        BY <2>3, <2>4, <2>5 DEF SetIsKept, RegistryFollowsConfig
<1>7. QED
    BY <1>2, <1>3, <1>4, <1>5, <1>6 DEF Local

(* One more server is closed; one that is up says so.                       *)
LEMMA CloseKeeps ==
    ASSUME LifeTypeOK, NEW p \in Procs, NEW s, s = closed[p] + 1, s <= ServerCount,
           Local(p), pc[p] = "closing", SameDial(p), SameSet(p), closed'[p] = s,
           log'[p] = IF dial[p][s] = "up" THEN Append(log[p], Disconnect(s)) ELSE log[p],
           ctx'[p] = ctx[p], stopped'[p] = stopped[p], lost'[p] = lost[p], pc'[p] = pc[p],
           err'[p] = err[p], gate'[p] = gate[p]
    PROVE  Local(p)'
<1>0. /\ StopIsSeen(p) /\ GateIsKept(p) /\ DialIsKept(p) /\ LogIsKept(p) /\ FailuresAreKept(p)
      /\ log[p] # <<>>
    BY DEF Local, LogIsKept
<1>1. s \in Servers /\ ~(s <= closed[p]) /\ \A t \in Servers : t <= s <=> t <= closed[p] \/ t = s
    <2>1. closed[p] \in 0..ServerCount /\ ServerCount \in Nat /\ Servers = 1..ServerCount
        BY StartupAssumption DEF LifeTypeOK, Servers
    <2>2. QED
        BY <2>1
<1>2. StopIsSeen(p)' /\ GateIsKept(p)'
    BY <1>0 DEF StopIsSeen, GateIsKept, Interrupted, Ending, SameDial
<1>3. DialIsKept(p)'
    BY <1>0 DEF DialIsKept, SameDial, SameSet, Fresh, Settled
<1>4. LogIsKept(p)'
    <2>1. \A t \in Servers : t <= s <=> t <= closed[p] \/ t = s
        BY <1>1
    <2>2. /\ Positions(p, "run_start") = {1} /\ Positions(p, "run_end") = {}
          /\ \A t \in Servers : /\ Ups(p, t) = IF dial[p][t] \in {"connected", "up"} THEN 1 ELSE 0
                                /\ Downs(p, t) = IF dial[p][t] = "up" /\ t <= closed[p] THEN 1 ELSE 0
        BY <1>0 DEF LogIsKept, Once
    <2>3. SUFFICES
              /\ log'[p] # <<>> /\ Positions(p, "run_start")' = {1} /\ Positions(p, "run_end")' = {}
              /\ \A t \in Servers : /\ Ups(p, t)' = Ups(p, t)
                                    /\ Downs(p, t)' = IF dial[p][t] = "up" /\ (t <= closed[p] \/ t = s)
                                                        THEN 1 ELSE 0
        BY <2>1, <2>2, <2>3 DEF LogIsKept, Once, Fresh, SameDial
    <2>4. CASE dial[p][s] # "up"
        BY <1>0, <2>2, <2>4, SameLog
    <2>5. CASE dial[p][s] = "up"
        <3>1. Adds(p, Disconnect(s), {}, {s}) /\ Disconnect(s).type = "mcp_disconnect"
            BY <2>5, ConnectAdds, EventFields, Zenon
        <3>2. PICK e : log'[p] = Append(log[p], e) /\ e.type = "mcp_disconnect"
            BY <2>5, <3>1
        <3>3. log'[p] # <<>> /\ Positions(p, "run_start")' = {1} /\ Positions(p, "run_end")' = {}
            BY <2>2, <3>2, OneEvent
        <3>4. \A t \in Servers : Ups(p, t)' = Ups(p, t)
            BY <2>2, <3>1 DEF Adds
        <3>5. Downs(p, s)' = 1
            BY <1>1, <2>2, <3>1 DEF Adds
        <3>6. \A t \in Servers \ {s} : Downs(p, t)' = Downs(p, t)
            BY <2>2, <3>1 DEF Adds
        <3>7. QED
            BY <2>2, <2>5, <3>3, <3>4, <3>5, <3>6
    <2>6. QED
        BY <2>4, <2>5
<1>5. FailuresAreKept(p)' /\ SetIsKept(p)'
    BY <1>0, <1>4, SameResults DEF FailuresAreKept, SetIsKept, SameSet, Settled
<1>6. QED
    BY <1>2, <1>3, <1>4, <1>5 DEF Local

(* The last event of a log.                                                 *)
LEMMA ReportKeeps ==
    ASSUME LifeTypeOK, NEW p \in Procs, Local(p), pc[p] = "report", pc'[p] = "leaving", SameDial(p), SameSet(p),
           NEW e, e.type = "run_end", e.errors = failed[p] + lost[p], log'[p] = Append(log[p], e),
           \A s : e # Connect(s, TRUE) /\ e # Disconnect(s),
           ctx'[p] = ctx[p], stopped'[p] = stopped[p], lost'[p] = lost[p], closed'[p] = closed[p],
           err'[p] = err[p], gate'[p] = gate[p]
    PROVE  Local(p)'
<1>0. /\ StopIsSeen(p) /\ GateIsKept(p) /\ DialIsKept(p) /\ LogIsKept(p) /\ FailuresAreKept(p)
      /\ log[p] # <<>>
    BY DEF Local, LogIsKept
<1>2. StopIsSeen(p)' /\ GateIsKept(p)'
    BY <1>0 DEF StopIsSeen, GateIsKept, Interrupted, Ending, SameDial
<1>3. DialIsKept(p)'
    BY <1>0 DEF DialIsKept, SameDial, SameSet, Fresh, Settled
<1>1. /\ log'[p] # <<>> /\ Positions(p, "run_start")' = Positions(p, "run_start")
      /\ Positions(p, "run_end")' = Positions(p, "run_end") \cup {Len(log'[p])}
      /\ log'[p][Len(log'[p])] = e
    BY OneEvent
<1>4. LogIsKept(p)'
    <2>1. Positions(p, "run_start")' = {1} /\ Positions(p, "run_end")' = {Len(log'[p])}
        BY <1>0, <1>1 DEF LogIsKept, Once
    <2>2. Adds(p, e, {}, {})
        <3>1. \A s : (e = Connect(s, TRUE) <=> s \in {}) /\ (e = Disconnect(s) <=> s \in {})
            BY Zenon
        <3>2. QED
            BY <3>1, EventAdds, Zenon
    <2>3. \A s \in Servers : /\ Ups(p, s) = IF dial[p][s] \in {"connected", "up"} THEN 1 ELSE 0
                             /\ Downs(p, s) = IF dial[p][s] = "up" /\ s <= closed[p] THEN 1 ELSE 0
        BY <1>0 DEF LogIsKept
    <2>4. \A s \in Servers : Ups(p, s)' = Ups(p, s) /\ Downs(p, s)' = Downs(p, s)
        BY <2>2, <2>3 DEF Adds
    <2>5. log'[p][Len(log'[p])].errors = failed'[p] + lost'[p]
        BY <1>1 DEF SameSet
    <2>6. QED
        BY <1>1, <2>1, <2>3, <2>4, <2>5 DEF LogIsKept, Once, Fresh, SameDial
<1>5. FailuresAreKept(p)' /\ SetIsKept(p)'
    BY <1>0, <1>4, SameResults DEF FailuresAreKept, SetIsKept, SameSet, Settled
<1>6. QED
    BY <1>2, <1>3, <1>4, <1>5 DEF Local

(* A session is lost during the loop.                                       *)
LEMMA LostKeeps ==
    ASSUME LifeTypeOK, NEW p \in Procs, Local(p), pc[p] = "loop", SameDial(p), SameSet(p), log'[p] = log[p],
           ctx'[p] = ctx[p], stopped'[p] = stopped[p], closed'[p] = closed[p],
           pc'[p] = pc[p], err'[p] = err[p], gate'[p] = gate[p]
    PROVE  Local(p)'
<1>0. /\ StopIsSeen(p) /\ GateIsKept(p) /\ DialIsKept(p) /\ LogIsKept(p) /\ FailuresAreKept(p) /\ SetIsKept(p)
    BY DEF Local
<1>1. StopIsSeen(p)' /\ GateIsKept(p)'
    BY <1>0 DEF StopIsSeen, GateIsKept, Interrupted, Ending, SameDial
<1>2. DialIsKept(p)'
    BY <1>0 DEF DialIsKept, SameDial, SameSet, Fresh, Settled
<1>3. LogIsKept(p)'
    BY <1>0, SameLog DEF LogIsKept, SameDial, Fresh
<1>4. FailuresAreKept(p)' /\ SetIsKept(p)'
    BY <1>0, SameResults DEF FailuresAreKept, SetIsKept, SameSet
<1>5. QED
    BY <1>1, <1>2, <1>3, <1>4 DEF Local

(* The context ends: what the process finds when it looks at it next.       *)
LEMMA StopKeeps ==
    ASSUME LifeTypeOK, NEW p \in Procs, Local(p), pc[p] \in BeforeLoop \cup {"question", "loop"},
           ctx[p] = "live", ctx'[p] # "live",
           stopped'[p] = IF pc[p] \in BeforeLoop THEN "start" ELSE pc[p],
           SameDial(p), SameSet(p), log'[p] = log[p], lost'[p] = lost[p], closed'[p] = closed[p],
           pc'[p] = pc[p], err'[p] = err[p], gate'[p] = gate[p]
    PROVE  Local(p)'
<1>0. /\ StopIsSeen(p) /\ GateIsKept(p) /\ DialIsKept(p) /\ LogIsKept(p) /\ FailuresAreKept(p) /\ SetIsKept(p)
    BY DEF Local
<1>6. pc[p] \in {"gate", "login", "prepare", "connect", "decide", "question", "loop"}
    BY DEF BeforeLoop
<1>1. StopIsSeen(p)' /\ GateIsKept(p)'
    BY <1>0, <1>6 DEF StopIsSeen, GateIsKept, Ending, SameDial, BeforeLoop
<1>2. DialIsKept(p)'
    BY <1>0 DEF DialIsKept, SameDial, SameSet, Fresh, Settled
<1>3. LogIsKept(p)'
    BY <1>0, <1>6, SameLog DEF LogIsKept, SameDial, Fresh
<1>4. FailuresAreKept(p)'
    <2>1. stopped[p] = "never"
        BY <1>0 DEF StopIsSeen
    <2>2. QED
        BY <1>0, <1>6, <2>1, SameResults DEF FailuresAreKept, SameSet, BeforeLoop, Settled
<1>5. SetIsKept(p)'
    BY <1>0, SameResults DEF SetIsKept
<1>7. QED
    BY <1>1, <1>2, <1>3, <1>4, <1>5 DEF Local

(* A process that is no more, and one that has not been yet.                *)
Blank(p) ==
    /\ pc[p] = "none" /\ err[p] = "none" /\ gate[p] = 1 /\ ctx[p] = "live" /\ stopped[p] = "never"
    /\ log[p] = <<>> /\ dial[p] = [s \in Servers |-> "off"] /\ why[p] = [s \in Servers |-> "none"]
    /\ listed[p] = [s \in Servers |-> <<>>] /\ fatal[p] = "none" /\ failed[p] = 0
    /\ lost[p] = 0 /\ closed[p] = 0

LEMMA BlankIsKept == ASSUME NEW p \in Procs, Blank(p) PROVE Local(p)
<1> USE DEF Blank
<1>1. StopIsSeen(p) /\ GateIsKept(p)
    BY DEF StopIsSeen, GateIsKept, Ending
<1>2. DialIsKept(p)
    BY DEF DialIsKept, Fresh, Settled
<1>3. LogIsKept(p)
    <2>1. \A s : Ups(p, s) = 0 /\ Downs(p, s) = 0
        <3>1. \A x : {i \in DOMAIN log[p] : log[p][i] = x} = {}
            OBVIOUS
        <3>2. \A x : Occurs(p, x) = 0
            BY <3>1, FS_EmptySet DEF Occurs
        <3>3. QED
            BY <3>2, Zenon DEF Ups, Downs
    <2>2. \A type : Positions(p, type) = {}
        BY DEF Positions
    <2>3. QED
        BY <2>1, <2>2 DEF LogIsKept, Once
<1>4. FailuresAreKept(p) /\ SetIsKept(p)
    BY DEF FailuresAreKept, SetIsKept, Settled
<1>5. QED
    BY <1>1, <1>2, <1>3, <1>4 DEF Local

-----------------------------------------------------------------------------
(* The steps of the specification.                                          *)
LEMMA OneMoves ==
    ASSUME LifeInv, NEW p \in Procs, LifeTypeOK', Only(p), Local(p)' PROVE LifeInv'
<1>1. \A q \in Procs \ {p} : Local(q)'
    BY OthersStay DEF LifeInv, Only
<1>2. QED
    BY <1>1 DEF LifeInv

LEMMA TypeSplit ==
    LifeTypeOK <=> /\ ProcTypeOK /\ StartupTypeOK
                   /\ gate \in [Procs -> Nat] /\ lost \in [Procs -> Nat]
                   /\ closed \in [Procs -> 0..ServerCount]
                   /\ stopped \in [Procs -> {"never", "start", "question", "loop"}]
BY DEF LifeTypeOK

(* A step that only takes a process from one place to another.              *)
Moves(p) == /\ \E to : pc' = [pc EXCEPT ![p] = to]
            /\ \E cause : err' = [err EXCEPT ![p] = cause]
            /\ \E n \in Nat : gate' = [gate EXCEPT ![p] = n]
            /\ UNCHANGED <<startupVars, lost, closed, stopped>>

LEMMA Routed ==
    ASSUME LifeInv, NEW p \in Procs, ProcTypeOK', Moves(p), Route(p) PROVE LifeInv'
<1>1. LifeTypeOK
    BY DEF LifeInv
<1>2. /\ UNCHANGED <<required, ctx, log, dial, tries, listed, why, registry, fatal, failed, lost, closed, stopped>>
    BY DEF Moves, startupVars, dialVars, setVars
<1>3. StartupTypeOK' /\ gate' \in [Procs -> Nat]
    BY <1>1, <1>2 DEF LifeTypeOK, StartupTypeOK, Moves
<1>4. LifeTypeOK'
    BY <1>1, <1>2, <1>3 DEF LifeTypeOK
<1>5. \A q \in Procs \ {p} : pc'[q] = pc[q] /\ err'[q] = err[q] /\ gate'[q] = gate[q]
    BY <1>1 DEF LifeTypeOK, ProcTypeOK, Moves
<1>6. \A q \in Procs : Kept(q) /\ closed'[q] = closed[q]
    BY <1>2 DEF Kept, SameDial, SameSet
<1>7. Only(p)
    BY <1>5, <1>6 DEF Only, Stays
<1>8. Local(p)'
    BY <1>1, <1>6, RouteKeeps DEF LifeInv
<1>9. QED
    BY <1>4, <1>7, <1>8, OneMoves

(* What the helpers of an action do.                                        *)
LEMMA Goes ==
    ASSUME LifeTypeOK, NEW p \in Procs
    PROVE  /\ \A to : Goto(p, to) => pc'[p] = to /\ pc' = [pc EXCEPT ![p] = to]
           /\ \A cause : EndWith(p, cause) => err'[p] = cause /\ err' = [err EXCEPT ![p] = cause]
           /\ UNCHANGED err => err'[p] = err[p] /\ err' = [err EXCEPT ![p] = err[p]]
           /\ gate[p] \in Nat
           /\ UNCHANGED gate => gate'[p] = gate[p] /\ gate' = [gate EXCEPT ![p] = gate[p]]
           /\ gate' = [gate EXCEPT ![p] = @ + 1] =>
                  gate'[p] = gate[p] + 1 /\ gate' = [gate EXCEPT ![p] = gate[p] + 1]
BY DEF LifeTypeOK, ProcTypeOK, Goto, EndWith

LEMMA WhereTo ==
    ASSUME LifeTypeOK, NEW p \in Procs, NEW to, Goto(p, to), UNCHANGED <<startupVars, lost, closed, stopped>>
    PROVE  /\ UNCHANGED <<err, gate>> => Moves(p) /\ Passes(p, to)
           /\ \A cause : EndWith(p, cause) /\ UNCHANGED gate => Moves(p) /\ Fails(p, to, cause)
           /\ UNCHANGED err /\ gate' = [gate EXCEPT ![p] = @ + 1] =>
                  Moves(p) /\ pc'[p] = to /\ err'[p] = err[p] /\ gate'[p] = gate[p] + 1
<1>1. pc'[p] = to /\ \E t : pc' = [pc EXCEPT ![p] = t]
    BY Goes
<1>2. ASSUME UNCHANGED <<err, gate>> PROVE Moves(p) /\ Passes(p, to)
    BY <1>1, <1>2, Goes DEF Moves, Passes
<1>3. ASSUME NEW cause, EndWith(p, cause), UNCHANGED gate PROVE Moves(p) /\ Fails(p, to, cause)
    BY <1>1, <1>3, Goes DEF Moves, Fails
<1>4. ASSUME UNCHANGED err, gate' = [gate EXCEPT ![p] = @ + 1]
      PROVE  Moves(p) /\ pc'[p] = to /\ err'[p] = err[p] /\ gate'[p] = gate[p] + 1
    <2>1. gate[p] + 1 \in Nat
        BY Goes
    <2>2. QED
        BY <1>1, <1>4, <2>1, Goes DEF Moves
<1>5. QED
    BY <1>2, <1>3, <1>4

(* In front of the gate.                                                    *)
LEMMA FrontLife ==
    ASSUME LifeInv, ProcTypeOK', NEW p \in Procs, Start(p) \/ LoadFails(p) \/ Open(p) \/ Lock(p)
    PROVE  LifeInv'
<1>0. LifeTypeOK
    BY DEF LifeInv
<1>1. CASE Start(p)
    <2>1. PICK to \in {"opening", "gate"} : Goto(p, to)
        BY <1>1 DEF Start
    <2>2. pc[p] = "none" /\ UNCHANGED <<startupVars, gate, err, lost, closed, stopped>>
        BY <1>1 DEF Start, Idle
    <2>3. Moves(p) /\ Passes(p, to)
        BY <1>0, <2>1, <2>2, WhereTo
    <2>4. QED
        BY <2>1, <2>2, <2>3, Routed DEF Route
<1>2. CASE LoadFails(p)
    <2>1. /\ pc[p] \in {"opening", "gate"} /\ Goto(p, "leaving") /\ EndWith(p, "load")
          /\ UNCHANGED <<startupVars, gate, lost, closed, stopped>>
        BY <1>2 DEF LoadFails, Refuse
    <2>2. Moves(p) /\ Fails(p, "leaving", "load")
        BY <1>0, <2>1, WhereTo
    <2>3. QED
        BY <2>1, <2>2, Routed DEF Route
<1>3. CASE Open(p)
    <2>1. pc[p] = "opening" /\ Goto(p, "locking") /\ UNCHANGED <<startupVars, gate, err, lost, closed, stopped>>
        BY <1>3 DEF Open
    <2>2. Moves(p) /\ Passes(p, "locking")
        BY <1>0, <2>1, WhereTo
    <2>3. QED
        BY <2>1, <2>2, Routed DEF Route
<1>4. CASE Lock(p)
    <2>1. pc[p] = "locking" /\ UNCHANGED <<startupVars, gate, lost, closed, stopped>>
        BY <1>4 DEF Lock
    <2>2. CASE Goto(p, "gate") /\ UNCHANGED err
        <3>1. Moves(p) /\ Passes(p, "gate")
            BY <1>0, <2>1, <2>2, WhereTo
        <3>2. QED
            BY <2>1, <3>1, Routed DEF Route
    <2>3. CASE Goto(p, "leaving") /\ EndWith(p, "lock_held")
        <3>1. Moves(p) /\ Fails(p, "leaving", "lock_held")
            BY <1>0, <2>1, <2>3, WhereTo
        <3>2. QED
            BY <2>1, <3>1, Routed DEF Route
    <2>4. QED
        BY <1>4, <2>2, <2>3 DEF Lock
<1>5. QED
    BY <1>1, <1>2, <1>3, <1>4

(* The gate.                                                                *)
LEMMA GateLife ==
    ASSUME LifeInv, ProcTypeOK', NEW p \in Procs, Gate(p) \/ Answer(p) \/ Login(p)
    PROVE  LifeInv'
<1>0. LifeTypeOK /\ UNCHANGED <<startupVars, lost, closed, stopped>> /\ pc[p] \in {"gate", "question", "login"}
    BY DEF LifeInv, Gate, Answer, Login
<1>1. CASE NextServer(p)
    <2>1. Moves(p) /\ pc'[p] = "gate" /\ err'[p] = err[p] /\ gate'[p] = gate[p] + 1
        BY <1>0, <1>1, WhereTo DEF NextServer
    <2>2. QED
        BY <1>0, <2>1, Routed DEF Route
<1>2. CASE /\ gate[p] \in required /\ GateFails(p, "mcp")
           /\ pc[p] = "question" \/ ~Over(p)
    <2>1. Moves(p) /\ Fails(p, "gate_failed", "mcp")
        BY <1>0, <1>2, WhereTo DEF GateFails
    <2>2. QED
        BY <1>0, <1>2, <2>1, Routed DEF Route
<1>3. CASE pc[p] \in {"gate", "login"} /\ gate[p] \in Servers /\ Over(p) /\ GateFails(p, Interrupted(p))
    <2>1. Moves(p) /\ Fails(p, "gate_failed", Interrupted(p))
        BY <1>0, <1>3, WhereTo DEF GateFails
    <2>2. QED
        BY <1>0, <1>3, <2>1, Routed DEF Route
<1>4. CASE pc[p] = "gate" /\ gate[p] \in Servers /\ ~Over(p) /\ Goto(p, "question") /\ UNCHANGED <<gate, err>>
    <2>1. Moves(p) /\ Passes(p, "question")
        BY <1>0, <1>4, WhereTo
    <2>2. QED
        BY <1>4, <2>1, Routed DEF Route
<1>5. CASE pc[p] = "question" /\ Goto(p, "login") /\ UNCHANGED <<gate, err>>
    <2>1. Moves(p) /\ Passes(p, "login")
        BY <1>0, <1>5, WhereTo
    <2>2. QED
        BY <1>5, <2>1, Routed DEF Route
<1>6. CASE pc[p] = "gate" /\ gate[p] > ServerCount /\ Goto(p, "prepare") /\ UNCHANGED <<gate, err>>
    <2>1. Moves(p) /\ Passes(p, "prepare")
        BY <1>0, <1>6, WhereTo
    <2>2. QED
        BY <1>6, <2>1, Routed DEF Route
<1>7. CASE Gate(p)
    <2>1. CASE gate[p] > ServerCount
        BY <1>6, <1>7, <2>1 DEF Gate
    <2>2. CASE ~(gate[p] > ServerCount)
        <3>1. CASE gate[p] \in NeedsLogin /\ AskForLogin(p)
            <4>1. gate[p] \in Servers /\ pc[p] = "gate"
                BY <1>7, <3>1, LifecycleAssumption DEF Gate
            <4>2. QED
                BY <1>1, <1>2, <1>3, <1>4, <3>1, <4>1 DEF AskForLogin, NoCredential
        <3>2. QED
            BY <1>1, <1>7, <2>2, <3>1 DEF Gate
    <2>3. QED
        BY <2>1, <2>2
<1>8. CASE Answer(p)
    BY <1>1, <1>2, <1>5, <1>8 DEF Answer, NoCredential
<1>9. CASE Login(p)
    <2>1. gate[p] \in Servers /\ pc[p] = "login"
        BY <1>9 DEF Login, LifeInv, Local, GateIsKept
    <2>2. QED
        BY <1>1, <1>2, <1>3, <1>9, <2>1 DEF Login, NoCredential
<1>10. QED
    BY <1>7, <1>8, <1>9

(* Behind the servers: what ends the run, and the loop.                     *)
LEMMA LoopLife ==
    ASSUME LifeInv, ProcTypeOK', NEW p \in Procs, Decide(p) \/ LoopEnds(p)
    PROVE  LifeInv'
<1>0. LifeTypeOK /\ UNCHANGED <<startupVars, gate, lost, closed, stopped>>
    BY DEF LifeInv, Decide, LoopEnds
<1>1. CASE Decide(p) /\ fatal[p] = "none"
    <2>1. pc[p] = "decide" /\ Goto(p, "loop") /\ UNCHANGED err
        BY <1>1 DEF Decide
    <2>2. Moves(p) /\ Passes(p, "loop")
        BY <1>0, <2>1, WhereTo
    <2>3. QED
        BY <1>1, <2>1, <2>2, Routed DEF Route
<1>2. CASE Decide(p) /\ fatal[p] # "none"
    <2> DEFINE cause == IF Over(p) THEN Interrupted(p) ELSE IF fatal[p] = "toolset" THEN "toolset" ELSE "mcp"
    <2>1. pc[p] = "decide" /\ Goto(p, "closing") /\ EndWith(p, cause)
        BY <1>2 DEF Decide, CauseOf, AfterRefusal
    <2>2. Moves(p) /\ Fails(p, "closing", cause)
        BY <1>0, <2>1, WhereTo
    <2>3. QED
        BY <1>2, <2>1, <2>2, Routed DEF Route
<1>3. CASE LoopEnds(p)
    <2>1. PICK o \in OutcomesOf(p) : EndWith(p, o)
        BY <1>3 DEF LoopEnds
    <2>2. pc[p] = "loop" /\ Goto(p, "closing")
        BY <1>3 DEF LoopEnds
    <2>3. Moves(p) /\ Fails(p, "closing", o)
        BY <1>0, <2>1, <2>2, WhereTo
    <2>4. QED
        BY <2>1, <2>2, <2>3, Routed DEF Route
<1>4. QED
    BY <1>1, <1>2, <1>3

(* A step that logs an event.                                               *)
LEMMA LogTyped ==
    ASSUME StartupTypeOK, NEW p \in Procs, NEW e \in Events, Log(p, e)
    PROVE  /\ log' \in [Procs -> Seq(Events)] /\ log'[p] = Append(log[p], e)
           /\ \A q \in Procs \ {p} : log'[q] = log[q]
BY DEF StartupTypeOK, Log

LEMMA EventTypes ==
    /\ [type |-> "run_start"] \in Events
    /\ \A s \in Servers : /\ Connect(s, TRUE) \in Events /\ Connect(s, FALSE) \in Events
                          /\ Disconnect(s) \in Events /\ ToolsListed(s) \in Events
    /\ \A cause \in Causes, n \in Nat :
           [type |-> "run_end", code |-> ExitCodeOf(cause), errors |-> n] \in Events
<1>1. [type |-> "run_start"] \in Events
    BY DEF Events
<1>2. \A s \in Servers : Connect(s, TRUE) \in Events /\ Connect(s, FALSE) \in Events
    BY DEF Events, Connect
<1>3. \A s \in Servers : Disconnect(s) \in Events /\ ToolsListed(s) \in Events
    BY DEF Events, Disconnect, ToolsListed
<1>4. \A cause \in Causes, n \in Nat :
          [type |-> "run_end", code |-> ExitCodeOf(cause), errors |-> n] \in Events
    BY DEF Events
<1>5. QED
    BY <1>1, <1>2, <1>3, <1>4

(* The start of a log.                                                      *)
LEMMA StartLife ==
    ASSUME LifeInv, ProcTypeOK', NEW p \in Procs, RefuseAtGate(p) \/ Prepare(p)
    PROVE  LifeInv'
<1>0. LifeTypeOK /\ StartupTypeOK /\ ProcTypeOK /\ Local(p)
    BY DEF LifeInv, LifeTypeOK
<1>1. /\ pc[p] \in {"gate_failed", "prepare"}
      /\ UNCHANGED <<required, ctx, registry, fatal, gate, lost, closed, stopped>>
    BY DEF RefuseAtGate, Prepare, setVars
<1>2. CASE Refuse(p, "config") /\ UNCHANGED <<log, dialVars, failed>>
    <2>1. UNCHANGED startupVars
        BY <1>1, <1>2 DEF startupVars, setVars
    <2>2. Moves(p) /\ Fails(p, "leaving", "config")
        BY <1>0, <1>1, <1>2, <2>1, WhereTo DEF Refuse
    <2>3. QED
        BY <1>1, <2>2, Routed DEF Route
<1>3. ASSUME RunStart(p), NEW to, Goto(p, to)
      PROVE  /\ log' \in [Procs -> Seq(Events)] /\ log'[p] = Append(log[p], [type |-> "run_start"])
             /\ pc'[p] = to
             /\ \A q \in Procs \ {p} : log'[q] = log[q] /\ pc'[q] = pc[q]
    BY <1>0, <1>3, LogTyped, EventTypes DEF RunStart, Goto, ProcTypeOK
<1>4. CASE /\ RunStart(p) /\ Goto(p, "report") /\ UNCHANGED dialVars
           /\ \/ /\ pc[p] = "gate_failed" /\ UNCHANGED err
                 /\ failed' = [failed EXCEPT ![p] = IF err[p] = "mcp" THEN 1 ELSE 0]
              \/ pc[p] = "prepare" /\ Over(p) /\ EndWith(p, Interrupted(p)) /\ UNCHANGED failed
    <2>1. Opens(p) /\ dial'[p] = dial[p] /\ registry'[p] = registry[p] /\ pc'[p] = "report"
        BY <1>1, <1>3, <1>4 DEF Opens, dialVars
    <2>2. \/ pc[p] = "gate_failed" /\ err'[p] = err[p] /\ failed'[p] = IF err[p] = "mcp" THEN 1 ELSE 0
          \/ pc[p] = "prepare" /\ Over(p) /\ err'[p] = Interrupted(p) /\ failed'[p] = failed[p]
        BY <1>0, <1>4 DEF StartupTypeOK, ProcTypeOK, EndWith
    <2>3. Local(p)'
        BY <1>0, <2>1, <2>2, RefusalKeeps
    <2>4. /\ failed' \in [Procs -> Nat]
          /\ \A q \in Procs \ {p} : failed'[q] = failed[q] /\ err'[q] = err[q]
        <3>1. \A q \in Procs \ {p} : err'[q] = err[q]
            BY <1>0, <1>4 DEF ProcTypeOK, EndWith
        <3>2. \E n \in Nat : failed' = [failed EXCEPT ![p] = n]
            <4>1. CASE UNCHANGED failed
                BY <1>0, <4>1 DEF StartupTypeOK
            <4>2. CASE failed' = [failed EXCEPT ![p] = IF err[p] = "mcp" THEN 1 ELSE 0]
                BY <4>2
            <4>3. QED
                BY <1>4, <4>1, <4>2
        <3>3. QED
            BY <1>0, <3>1, <3>2 DEF StartupTypeOK
    <2>5. LifeTypeOK'
        BY <1>0, <1>1, <1>3, <1>4, <2>4 DEF LifeTypeOK, StartupTypeOK, dialVars
    <2>6. Only(p)
        BY <1>1, <1>3, <1>4, <2>4 DEF Only, Stays, Kept, SameDial, SameSet, dialVars
    <2>7. QED
        BY <2>3, <2>5, <2>6, OneMoves
<1>5. CASE pc[p] = "prepare" /\ Begin(p) /\ UNCHANGED failed
    <2>1. /\ RunStart(p) /\ Goto(p, "connect") /\ UNCHANGED <<err, listed, why>>
          /\ dial' = [dial EXCEPT ![p] = [s \in Servers |-> "trying"]]
          /\ tries' = [tries EXCEPT ![p] = [s \in Servers |-> 1]]
        BY <1>5 DEF Begin, DialAll
    <2>2. /\ dial'[p] = [s \in Servers |-> "trying"]
          /\ dial' \in [Procs -> [Servers -> {"off", "trying", "pausing", "connected", "up", "down"}]]
          /\ tries' \in [Procs -> [Servers -> Nat]]
          /\ \A q \in Procs \ {p} : dial'[q] = dial[q]
        BY <1>0, <2>1 DEF StartupTypeOK
    <2>3. Opens(p) /\ pc'[p] = "connect"
        BY <1>1, <1>3, <2>1 DEF Opens
    <2>4. Local(p)'
        BY <1>0, <1>5, <2>1, <2>2, <2>3, BeginKeeps
    <2>5. LifeTypeOK'
        BY <1>0, <1>1, <1>3, <1>5, <2>1, <2>2 DEF LifeTypeOK, StartupTypeOK
    <2>6. Only(p)
        BY <1>1, <1>3, <1>5, <2>1, <2>2 DEF Only, Stays, Kept, SameDial, SameSet
    <2>7. QED
        BY <2>4, <2>5, <2>6, OneMoves
<1>6. CASE RefuseAtGate(p)
    BY <1>2, <1>4, <1>6 DEF RefuseAtGate
<1>7. CASE Prepare(p)
    <2>1. UNCHANGED failed /\ pc[p] = "prepare"
        BY <1>7 DEF Prepare, setVars
    <2>2. QED
        BY <1>2, <1>4, <1>5, <1>7, <2>1 DEF Prepare, NoTask, ReadInterrupted
<1>8. QED
    BY <1>6, <1>7

(* One server of one process gets a value.                                  *)
DialStates == {"off", "trying", "pausing", "connected", "up", "down"}
Reasons == {"none", "unavailable", "toolset"}

LEMMA DialTyped ==
    ASSUME StartupTypeOK
    PROVE  /\ dial \in [Procs -> [Servers -> DialStates]] /\ listed \in [Procs -> [Servers -> Seq(Tools)]]
           /\ why \in [Procs -> [Servers -> Reasons]] /\ tries \in [Procs -> [Servers -> Nat]]
BY DEF StartupTypeOK, DialStates, Reasons

LEMMA DialSet ==
    ASSUME StartupTypeOK, NEW p \in Procs, NEW s \in Servers, NEW d \in DialStates,
           dial' = [dial EXCEPT ![p][s] = d]
    PROVE  /\ dial' \in [Procs -> [Servers -> DialStates]]
           /\ dial'[p] = [dial[p] EXCEPT ![s] = d] /\ \A q \in Procs \ {p} : dial'[q] = dial[q]
BY DialTyped

LEMMA ListedSet ==
    ASSUME StartupTypeOK, NEW p \in Procs, NEW s \in Servers, NEW tools \in Seq(Tools),
           listed' = [listed EXCEPT ![p][s] = tools]
    PROVE  /\ listed' \in [Procs -> [Servers -> Seq(Tools)]]
           /\ listed'[p] = [listed[p] EXCEPT ![s] = tools] /\ \A q \in Procs \ {p} : listed'[q] = listed[q]
BY DialTyped

LEMMA WhySet ==
    ASSUME StartupTypeOK, NEW p \in Procs, NEW s \in Servers, NEW cause \in Reasons,
           why' = [why EXCEPT ![p][s] = cause]
    PROVE  /\ why' \in [Procs -> [Servers -> Reasons]]
           /\ why'[p] = [why[p] EXCEPT ![s] = cause] /\ \A q \in Procs \ {p} : why'[q] = why[q]
BY DialTyped

LEMMA TriesSet ==
    ASSUME StartupTypeOK, NEW p \in Procs, NEW s \in Servers, NEW n \in Nat,
           tries' = [tries EXCEPT ![p][s] = n]
    PROVE  tries' \in [Procs -> [Servers -> Nat]]
BY DialTyped

(* The types that a dialing keeps, and the processes it leaves alone.       *)
DialingTyped(p) ==
    /\ dial' \in [Procs -> [Servers -> DialStates]] /\ listed' \in [Procs -> [Servers -> Seq(Tools)]]
    /\ why' \in [Procs -> [Servers -> Reasons]] /\ tries' \in [Procs -> [Servers -> Nat]]
    /\ log' \in [Procs -> Seq(Events)]
    /\ \A q \in Procs \ {p} : dial'[q] = dial[q] /\ listed'[q] = listed[q] /\ why'[q] = why[q] /\ log'[q] = log[q]

LEMMA DownDialed ==
    ASSUME StartupTypeOK, NEW p \in Procs, NEW s \in Servers, dial[p][s] \in {"trying", "pausing"},
           NEW cause \in {"unavailable", "toolset"}, Down(p, s, cause)
    PROVE  DialingTyped(p) /\ Dialed(p, s)
<1>1. /\ dial' = [dial EXCEPT ![p][s] = "down"] /\ why' = [why EXCEPT ![p][s] = cause]
      /\ tries' = [tries EXCEPT ![p][s] = 0] /\ listed' = [listed EXCEPT ![p][s] = <<>>]
      /\ Log(p, Connect(s, FALSE))
    BY DEF Down
<1>2. /\ log' \in [Procs -> Seq(Events)] /\ log'[p] = Append(log[p], Connect(s, FALSE))
      /\ \A q \in Procs \ {p} : log'[q] = log[q]
    BY <1>1, LogTyped, EventTypes
<1>3. "down" \in DialStates /\ cause \in Reasons /\ <<>> \in Seq(Tools) /\ 0 \in Nat
    BY DEF DialStates, Reasons
<1>4. /\ dial' \in [Procs -> [Servers -> DialStates]] /\ dial'[p] = [dial[p] EXCEPT ![s] = "down"]
      /\ listed' \in [Procs -> [Servers -> Seq(Tools)]] /\ listed'[p] = [listed[p] EXCEPT ![s] = <<>>]
      /\ why' \in [Procs -> [Servers -> Reasons]] /\ why'[p] = [why[p] EXCEPT ![s] = cause]
      /\ tries' \in [Procs -> [Servers -> Nat]]
      /\ \A q \in Procs \ {p} : dial'[q] = dial[q] /\ listed'[q] = listed[q] /\ why'[q] = why[q]
    <2>1. /\ dial' \in [Procs -> [Servers -> DialStates]] /\ dial'[p] = [dial[p] EXCEPT ![s] = "down"]
          /\ \A q \in Procs \ {p} : dial'[q] = dial[q]
        BY <1>1, <1>3, DialSet
    <2>2. /\ listed' \in [Procs -> [Servers -> Seq(Tools)]] /\ listed'[p] = [listed[p] EXCEPT ![s] = <<>>]
          /\ \A q \in Procs \ {p} : listed'[q] = listed[q]
        BY <1>1, <1>3, ListedSet
    <2>3. /\ why' \in [Procs -> [Servers -> Reasons]] /\ why'[p] = [why[p] EXCEPT ![s] = cause]
          /\ \A q \in Procs \ {p} : why'[q] = why[q]
        BY <1>1, <1>3, WhySet
    <2>4. tries' \in [Procs -> [Servers -> Nat]]
        BY <1>1, <1>3, TriesSet
    <2>5. QED
        BY <2>1, <2>2, <2>3, <2>4
<1>5. Becomes(p, s, "down", <<>>, cause)
    BY <1>4 DEF Becomes
<1>6. QED
    BY <1>2, <1>4, <1>5 DEF DialingTyped, Dialed

LEMMA DialingDone ==
    ASSUME StartupTypeOK, NEW p \in Procs, DialIsKept(p), NEW s \in Servers, Dialing(p, s)
    PROVE  DialingTyped(p) /\ Dialed(p, s) /\ UNCHANGED <<required, ctx, setVars>>
<1>0. UNCHANGED <<required, ctx, setVars>>
    BY DEF Dialing, List, TryFails, TryAgain, GiveUp, Connected, Announce
<1> DEFINE Typed == /\ dial[p] = [dial[p] EXCEPT ![s] = dial[p][s]]
                    /\ why[p] = [why[p] EXCEPT ![s] = why[p][s]]
                    /\ dial \in [Procs -> [Servers -> DialStates]]
                    /\ why \in [Procs -> [Servers -> Reasons]]
                    /\ listed[p][s] \in Seq(Tools) /\ tries[p][s] \in Nat
<1>1. Typed
    <2>1. dial \in [Procs -> [Servers -> DialStates]] /\ why \in [Procs -> [Servers -> Reasons]]
        BY DialTyped
    <2>2. listed[p][s] \in Seq(Tools) /\ tries[p][s] \in Nat
        BY DialTyped
    <2>3. QED
        BY <2>1, <2>2
<1>2. ASSUME dial[p][s] # "down", UNCHANGED why
      PROVE  /\ why' \in [Procs -> [Servers -> Reasons]] /\ why'[p] = [why[p] EXCEPT ![s] = "none"]
             /\ \A q \in Procs \ {p} : why'[q] = why[q]
    <2>1. why[p][s] = "none"
        BY <1>2 DEF DialIsKept
    <2>2. QED
        BY <1>2, <2>1, <1>1
<1>3. ASSUME UNCHANGED log PROVE /\ log' \in [Procs -> Seq(Events)] /\ log'[p] = log[p]
                                 /\ \A q \in Procs \ {p} : log'[q] = log[q]
    BY <1>3 DEF StartupTypeOK
<1>4. ASSUME UNCHANGED tries PROVE tries' \in [Procs -> [Servers -> Nat]]
    BY <1>4, DialTyped
<1>5. ASSUME UNCHANGED listed
      PROVE  /\ listed' \in [Procs -> [Servers -> Seq(Tools)]] /\ listed'[p] = [listed[p] EXCEPT ![s] = listed[p][s]]
             /\ \A q \in Procs \ {p} : listed'[q] = listed[q]
    BY <1>5, DialTyped
<1>6. ASSUME NEW d \in DialStates, dial' = [dial EXCEPT ![p][s] = d]
      PROVE  /\ dial' \in [Procs -> [Servers -> DialStates]] /\ dial'[p] = [dial[p] EXCEPT ![s] = d]
             /\ \A q \in Procs \ {p} : dial'[q] = dial[q]
    BY <1>6, DialSet
<1>7. {"trying", "pausing", "connected", "up"} \subseteq DialStates
    BY DEF DialStates
<1>8. CASE List(p, s)
    <2>1. dial[p][s] = "trying"
        BY <1>8 DEF List
    <2>2. PICK n \in Tools : \/ n \in Taken(p, s) /\ Down(p, s, "toolset")
                             \/ /\ n \notin Taken(p, s) /\ listed' = [listed EXCEPT ![p][s] = Append(@, n)]
                                /\ UNCHANGED <<dial, tries, why, log>>
        BY <1>8 DEF List
    <2>3. CASE Down(p, s, "toolset")
        BY <1>0, <2>1, <2>3, DownDialed
    <2>4. CASE /\ n \notin Taken(p, s) /\ listed' = [listed EXCEPT ![p][s] = Append(@, n)]
               /\ UNCHANGED <<dial, tries, why, log>>
        <3>1. Append(listed[p][s], n) \in Seq(Tools) /\ listed' = [listed EXCEPT ![p][s] = Append(listed[p][s], n)]
            BY <2>4, <1>1
        <3>2. /\ listed' \in [Procs -> [Servers -> Seq(Tools)]]
              /\ listed'[p] = [listed[p] EXCEPT ![s] = Append(listed[p][s], n)]
              /\ \A q \in Procs \ {p} : listed'[q] = listed[q]
            BY <3>1, ListedSet
        <3>3. /\ dial' \in [Procs -> [Servers -> DialStates]] /\ dial'[p] = [dial[p] EXCEPT ![s] = "trying"]
              /\ \A q \in Procs \ {p} : dial'[q] = dial[q]
            BY <2>1, <2>4, <1>1
        <3>4. Becomes(p, s, "trying", Append(listed[p][s], n), "none") /\ DialingTyped(p)
            BY <1>2, <1>3, <1>4, <2>1, <2>4, <3>2, <3>3 DEF Becomes, DialingTyped
        <3>5. n \in Tools \ ToSet(listed[p][s])
            BY <2>4 DEF Taken
        <3>6. QED
            BY <1>0, <1>3, <2>1, <2>4, <3>4, <3>5 DEF Dialed
    <2>5. QED
        BY <2>2, <2>3, <2>4
<1>9. CASE TryFails(p, s)
    <2>1. dial[p][s] = "trying"
        BY <1>9 DEF TryFails
    <2>2. CASE Down(p, s, "unavailable")
        BY <1>0, <2>1, <2>2, DownDialed
    <2>3. CASE dial' = [dial EXCEPT ![p][s] = "pausing"] /\ UNCHANGED <<tries, listed, why, log>>
        <3>1. Becomes(p, s, "pausing", listed[p][s], "none") /\ DialingTyped(p)
            BY <1>2, <1>3, <1>4, <1>5, <1>6, <1>7, <2>1, <2>3 DEF Becomes, DialingTyped
        <3>2. QED
            BY <1>0, <1>3, <2>1, <2>3, <3>1 DEF Dialed
    <2>4. QED
        BY <1>9, <2>2, <2>3 DEF TryFails
<1>10. CASE TryAgain(p, s)
    <2>1. /\ dial[p][s] = "pausing" /\ dial' = [dial EXCEPT ![p][s] = "trying"]
          /\ tries' = [tries EXCEPT ![p][s] = @ + 1]
          /\ listed' = [listed EXCEPT ![p][s] = <<>>] /\ UNCHANGED <<log, why>>
        BY <1>10 DEF TryAgain, Try
    <2>2. /\ listed' \in [Procs -> [Servers -> Seq(Tools)]] /\ listed'[p] = [listed[p] EXCEPT ![s] = <<>>]
          /\ \A q \in Procs \ {p} : listed'[q] = listed[q]
        <3>1. <<>> \in Seq(Tools)
            OBVIOUS
        <3>2. QED
            BY <2>1, <3>1, ListedSet
    <2>3. tries' \in [Procs -> [Servers -> Nat]]
        <3>1. tries[p][s] + 1 \in Nat /\ tries' = [tries EXCEPT ![p][s] = tries[p][s] + 1]
            BY <2>1, <1>1
        <3>2. QED
            BY <3>1, TriesSet
    <2>4. Becomes(p, s, "trying", <<>>, "none") /\ DialingTyped(p)
        BY <1>2, <1>3, <1>6, <1>7, <2>1, <2>2, <2>3 DEF Becomes, DialingTyped
    <2>5. QED
        BY <1>0, <1>3, <2>1, <2>4 DEF Dialed
<1>11. CASE GiveUp(p, s)
    BY <1>0, <1>11, DownDialed DEF GiveUp
<1>12. CASE Connected(p, s)
    <2>1. /\ dial[p][s] = "trying" /\ dial' = [dial EXCEPT ![p][s] = "connected"]
          /\ tries' = [tries EXCEPT ![p][s] = 0] /\ UNCHANGED <<listed, why>>
          /\ Log(p, Connect(s, TRUE))
        BY <1>12 DEF Connected
    <2>2. /\ log' \in [Procs -> Seq(Events)] /\ log'[p] = Append(log[p], Connect(s, TRUE))
          /\ \A q \in Procs \ {p} : log'[q] = log[q]
        BY <2>1, LogTyped, EventTypes
    <2>3. tries' \in [Procs -> [Servers -> Nat]]
        BY <2>1, TriesSet
    <2>4. Becomes(p, s, "connected", listed[p][s], "none") /\ DialingTyped(p)
        BY <1>2, <1>5, <1>6, <1>7, <2>1, <2>2, <2>3 DEF Becomes, DialingTyped
    <2>5. QED
        BY <1>0, <2>1, <2>2, <2>4 DEF Dialed
<1>13. CASE Announce(p, s)
    <2>1. /\ dial[p][s] = "connected" /\ dial' = [dial EXCEPT ![p][s] = "up"]
          /\ UNCHANGED <<tries, listed, why>> /\ Log(p, ToolsListed(s))
        BY <1>13 DEF Announce
    <2>2. /\ log' \in [Procs -> Seq(Events)] /\ log'[p] = Append(log[p], ToolsListed(s))
          /\ \A q \in Procs \ {p} : log'[q] = log[q]
        BY <2>1, LogTyped, EventTypes
    <2>3. Becomes(p, s, "up", listed[p][s], "none") /\ DialingTyped(p)
        BY <1>2, <1>4, <1>5, <1>6, <1>7, <2>1, <2>2 DEF Becomes, DialingTyped
    <2>4. QED
        BY <1>0, <2>1, <2>2, <2>3 DEF Dialed
<1>14. QED
    BY <1>8, <1>9, <1>10, <1>11, <1>12, <1>13 DEF Dialing

(* The servers are dialed, and what they answered is collected.             *)
LEMMA DialLife ==
    ASSUME LifeInv, ProcTypeOK', NEW p \in Procs, Dial(p) PROVE LifeInv'
<1>0. LifeTypeOK /\ StartupTypeOK /\ Local(p) /\ DialIsKept(p)
    BY DEF LifeInv, LifeTypeOK, Local
<1>1. PICK s \in Servers : Dialing(p, s)
    BY DEF Dial
<1>2. /\ pc[p] = "connect"
      /\ UNCHANGED <<pc, gate, err, lost, closed, stopped>>
    BY DEF Dial, procVars
<1>3. DialingTyped(p) /\ Dialed(p, s) /\ UNCHANGED <<required, ctx, registry, fatal, failed>>
    BY <1>0, <1>1, DialingDone DEF setVars
<1>4. Local(p)'
    BY <1>0, <1>2, <1>3, DialKeeps DEF SameSet
<1>5. LifeTypeOK'
    BY <1>0, <1>2, <1>3 DEF LifeTypeOK, StartupTypeOK, DialingTyped, DialStates, Reasons
<1>6. Only(p)
    BY <1>2, <1>3 DEF Only, Stays, Kept, SameDial, SameSet, DialingTyped
<1>7. QED
    BY <1>4, <1>5, <1>6, OneMoves

LEMMA CollectedLife ==
    ASSUME LifeInv, ProcTypeOK', NEW p \in Procs, Collected(p) PROVE LifeInv'
<1> DEFINE set == Judged(Results(p))
<1>0. LifeTypeOK /\ StartupTypeOK /\ Local(p) /\ DialIsKept(p)
    BY DEF LifeInv, LifeTypeOK, Local
<1>1. /\ pc[p] = "connect" /\ \A s \in Servers : dial[p][s] \in {"up", "down"}
      /\ registry' = [registry EXCEPT ![p] = set.tools]
      /\ fatal' = [fatal EXCEPT ![p] = set.fatal]
      /\ failed' = [failed EXCEPT ![p] = set.failed]
      /\ UNCHANGED <<required, ctx, log, dial, tries, listed, why, gate, err, lost, closed, stopped>>
      /\ pc' = [pc EXCEPT ![p] = "decide"]
    BY DEF Collected, Collect, Goto, Judged, dialVars
<1>2. set \in SetType
    BY <1>0, <1>1, JudgeAll DEF Judged, SoFar
<1> HIDE DEF set
<1>3. /\ set.tools \in Seq(Pairs) /\ set.fatal \in {"none", "unavailable", "toolset"} /\ set.failed \in Nat
    BY <1>2 DEF SetType
<1>4. /\ pc'[p] = "decide" /\ registry'[p] = set.tools /\ fatal'[p] = set.fatal /\ failed'[p] = set.failed
      /\ \A q \in Procs \ {p} : pc'[q] = pc[q] /\ SameSet(q)
    BY <1>0, <1>1 DEF LifeTypeOK, ProcTypeOK, StartupTypeOK, SameSet
<1>5. /\ registry' \in [Procs -> Seq(Pairs)] /\ fatal' \in [Procs -> {"none", "unavailable", "toolset"}]
      /\ failed' \in [Procs -> Nat]
    BY <1>0, <1>1, <1>3 DEF StartupTypeOK
<1>6. Local(p)'
    BY <1>0, <1>1, <1>4, CollectedKeeps DEF SameDial, set
<1>7. LifeTypeOK'
    BY <1>0, <1>1, <1>5 DEF LifeTypeOK, StartupTypeOK
<1>8. Only(p)
    BY <1>1, <1>4 DEF Only, Stays, Kept, SameDial
<1>9. QED
    BY <1>6, <1>7, <1>8, OneMoves

(* The close, the end of the log, a lost session.                           *)
LEMMA EndLife ==
    ASSUME LifeInv, ProcTypeOK', NEW p \in Procs, CloseNext(p) \/ Report(p) \/ SessionLost(p)
    PROVE  LifeInv'
<1>0. /\ LifeTypeOK /\ StartupTypeOK /\ ProcTypeOK /\ Local(p) /\ ServerCount \in Nat
      /\ closed \in [Procs -> 0..ServerCount] /\ lost \in [Procs -> Nat] /\ failed \in [Procs -> Nat]
    BY StartupAssumption DEF LifeInv, LifeTypeOK, StartupTypeOK
<1>1. CASE CloseNext(p)
    <2> DEFINE s == closed[p] + 1
    <2>1. /\ pc[p] = "closing"
          /\ UNCHANGED <<required, ctx, dial, tries, listed, why, registry, fatal, failed, gate, err, lost, stopped>>
        BY <1>1 DEF CloseNext, dialVars, setVars
    <2>2. CASE s > ServerCount
        <3>1. Goto(p, "report") /\ UNCHANGED <<closed, log>>
            BY <1>1, <2>2 DEF CloseNext
        <3>2. closed[p] = ServerCount
            BY <1>0, <2>2
        <3>3. UNCHANGED <<startupVars, lost, closed, stopped>>
            BY <2>1, <3>1 DEF startupVars, dialVars, setVars
        <3>4. Moves(p) /\ Passes(p, "report")
            BY <1>0, <2>1, <3>1, <3>3, WhereTo
        <3>5. QED
            BY <2>1, <3>2, <3>4, Routed DEF Route
    <2>3. CASE ~(s > ServerCount)
        <3>1. /\ closed' = [closed EXCEPT ![p] = s] /\ UNCHANGED pc
              /\ IF dial[p][s] = "up" THEN Log(p, Disconnect(s)) ELSE UNCHANGED log
            BY <1>1, <2>3 DEF CloseNext
        <3>2. s \in Servers /\ s <= ServerCount /\ s \in 0..ServerCount
            BY <1>0, <2>3 DEF Servers
        <3>3. /\ closed' \in [Procs -> 0..ServerCount] /\ closed'[p] = s
              /\ \A q \in Procs \ {p} : closed'[q] = closed[q]
            BY <1>0, <3>1, <3>2
        <3>4. /\ log' \in [Procs -> Seq(Events)] /\ \A q \in Procs \ {p} : log'[q] = log[q]
              /\ log'[p] = IF dial[p][s] = "up" THEN Append(log[p], Disconnect(s)) ELSE log[p]
            <4>1. CASE dial[p][s] = "up"
                BY <1>0, <3>1, <3>2, <4>1, LogTyped, EventTypes
            <4>2. CASE dial[p][s] # "up"
                BY <1>0, <3>1, <4>2 DEF StartupTypeOK
            <4>3. QED
                BY <4>1, <4>2
        <3> HIDE DEF s
        <3>5. Local(p)'
            BY <1>0, <2>1, <3>1, <3>2, <3>3, <3>4, CloseKeeps DEF SameDial, SameSet, s
        <3>6. LifeTypeOK'
            BY <1>0, <2>1, <3>1, <3>3, <3>4 DEF LifeTypeOK, StartupTypeOK
        <3>7. Only(p)
            BY <2>1, <3>1, <3>3, <3>4 DEF Only, Stays, Kept, SameDial, SameSet
        <3>8. QED
            BY <3>5, <3>6, <3>7, OneMoves
    <2>4. QED
        BY <2>2, <2>3
<1>2. CASE Report(p)
    <2> DEFINE e == [type |-> "run_end", code |-> ExitCodeOf(err[p]), errors |-> failed[p] + lost[p]]
    <2>1. /\ pc[p] = "report" /\ pc' = [pc EXCEPT ![p] = "leaving"] /\ Log(p, e)
          /\ UNCHANGED <<required, ctx, dial, tries, listed, why, registry, fatal, failed, gate, err,
                         lost, closed, stopped>>
        BY <1>2 DEF Report, Goto, dialVars, setVars
    <2>2. e \in Events
        <3>1. err[p] \in Causes /\ failed[p] + lost[p] \in Nat
            BY <1>0 DEF ProcTypeOK
        <3>2. QED
            BY <3>1, EventTypes
    <2>3. /\ log' \in [Procs -> Seq(Events)] /\ log'[p] = Append(log[p], e)
          /\ \A q \in Procs \ {p} : log'[q] = log[q]
        BY <1>0, <2>1, <2>2, LogTyped
    <2>4. e.type = "run_end" /\ e.errors = failed[p] + lost[p]
        OBVIOUS
    <2> HIDE DEF e
    <2>5. \A s : e # Connect(s, TRUE) /\ e # Disconnect(s)
        BY <2>4, EventFields
    <2>6. pc'[p] = "leaving" /\ \A q \in Procs \ {p} : pc'[q] = pc[q]
        BY <1>0, <2>1 DEF ProcTypeOK
    <2>7. SameDial(p) /\ SameSet(p)
        BY <2>1 DEF SameDial, SameSet
    <2>8. Local(p)'
        BY <1>0, <2>1, <2>3, <2>4, <2>5, <2>6, <2>7, ReportKeeps
    <2>9. LifeTypeOK'
        BY <1>0, <2>1, <2>3 DEF LifeTypeOK, StartupTypeOK
    <2>10. Only(p)
        BY <2>1, <2>3, <2>6 DEF Only, Stays, Kept, SameDial, SameSet
    <2>11. QED
        BY <2>8, <2>9, <2>10, OneMoves
<1>3. CASE SessionLost(p)
    <2>1. /\ pc[p] = "loop" /\ lost' = [lost EXCEPT ![p] = @ + 1]
          /\ UNCHANGED <<startupVars, pc, gate, err, closed, stopped>>
        BY <1>3 DEF SessionLost
    <2>2. UNCHANGED <<required, ctx, log, dial, tries, listed, why, registry, fatal, failed>>
        BY <2>1 DEF startupVars, dialVars, setVars
    <2>3. lost' \in [Procs -> Nat] /\ \A q \in Procs \ {p} : lost'[q] = lost[q]
        BY <1>0, <2>1
    <2>4. Local(p)'
        BY <1>0, <2>1, <2>2, LostKeeps DEF SameDial, SameSet
    <2>5. LifeTypeOK'
        BY <1>0, <2>1, <2>2, <2>3 DEF LifeTypeOK, StartupTypeOK
    <2>6. Only(p)
        BY <2>1, <2>2, <2>3 DEF Only, Stays, Kept, SameDial, SameSet
    <2>7. QED
        BY <2>4, <2>5, <2>6, OneMoves
<1>4. QED
    BY <1>1, <1>2, <1>3

(* The context ends.                                                        *)
LEMMA StopLife ==
    ASSUME LifeInv, ProcTypeOK', NEW p \in Procs, Signal(p) \/ Timeout(p) PROVE LifeInv'
<1>0. LifeTypeOK /\ StartupTypeOK /\ Local(p)
    BY DEF LifeInv, LifeTypeOK
<1>1. PICK how \in {"canceled", "deadline"} : ContextEnds(p, how)
    BY DEF Signal, Timeout
<1>2. pc[p] \in BeforeLoop \cup {"question", "loop"}
    BY DEF Signal, Timeout, Armed, BeforeLoop
<1> DEFINE at == IF pc[p] \in BeforeLoop THEN "start" ELSE pc[p]
<1>3. /\ ctx[p] = "live" /\ ctx' = [ctx EXCEPT ![p] = how] /\ stopped' = [stopped EXCEPT ![p] = at]
      /\ UNCHANGED <<required, log, dial, tries, listed, why, registry, fatal, failed, pc, gate, err, lost, closed>>
    BY <1>1 DEF ContextEnds, dialVars, setVars
<1>4. at \in {"never", "start", "question", "loop"}
    BY <1>2
<1>5. /\ ctx' \in [Procs -> {"live", "canceled", "deadline"}] /\ ctx'[p] # "live" /\ stopped'[p] = at
      /\ stopped' \in [Procs -> {"never", "start", "question", "loop"}]
      /\ \A q \in Procs \ {p} : ctx'[q] = ctx[q] /\ stopped'[q] = stopped[q]
    <2> HIDE DEF at
    <2>1. QED
        BY <1>0, <1>3, <1>4 DEF LifeTypeOK, StartupTypeOK
<1>6. Local(p)'
    BY <1>0, <1>2, <1>3, <1>5, StopKeeps DEF SameDial, SameSet
<1>7. LifeTypeOK'
    BY <1>0, <1>3, <1>5 DEF LifeTypeOK, StartupTypeOK
<1>8. Only(p)
    BY <1>3, <1>5 DEF Only, Stays, Kept, SameDial, SameSet
<1>9. QED
    BY <1>6, <1>7, <1>8, OneMoves

(* A process is gone, by itself or killed.                                  *)
LEMMA GoneLife ==
    ASSUME LifeInv, ProcTypeOK', NEW p \in Procs, Leave(p) \/ Kill(p) PROVE LifeInv'
<1>0. LifeTypeOK /\ StartupTypeOK /\ ProcTypeOK /\ ServerCount \in Nat
    BY StartupAssumption DEF LifeInv, LifeTypeOK
<1>1. Forget(p)
    BY DEF Leave, Kill
<1>2. /\ pc' = [pc EXCEPT ![p] = "none"] /\ err' = [err EXCEPT ![p] = "none"] /\ gate' = [gate EXCEPT ![p] = 1]
      /\ ctx' = [ctx EXCEPT ![p] = "live"] /\ log' = [log EXCEPT ![p] = <<>>]
      /\ dial' = [dial EXCEPT ![p] = [s \in Servers |-> "off"]]
      /\ tries' = [tries EXCEPT ![p] = [s \in Servers |-> 0]]
      /\ listed' = [listed EXCEPT ![p] = [s \in Servers |-> <<>>]]
      /\ why' = [why EXCEPT ![p] = [s \in Servers |-> "none"]]
      /\ registry' = [registry EXCEPT ![p] = <<>>] /\ fatal' = [fatal EXCEPT ![p] = "none"]
      /\ failed' = [failed EXCEPT ![p] = 0] /\ lost' = [lost EXCEPT ![p] = 0]
      /\ closed' = [closed EXCEPT ![p] = 0] /\ stopped' = [stopped EXCEPT ![p] = "never"]
      /\ UNCHANGED required
    BY <1>1 DEF Forget, Goto
<1>3. Blank(p)'
    BY <1>0, <1>2 DEF Blank, LifeTypeOK, StartupTypeOK, ProcTypeOK
<1>4. Only(p)
    BY <1>0, <1>2 DEF Only, Stays, Kept, SameDial, SameSet, LifeTypeOK, StartupTypeOK, ProcTypeOK
<1>5. StartupTypeOK'
    <2>1. /\ ctx' \in [Procs -> {"live", "canceled", "deadline"}] /\ log' \in [Procs -> Seq(Events)]
          /\ registry' \in [Procs -> Seq(Pairs)] /\ fatal' \in [Procs -> {"none", "unavailable", "toolset"}]
          /\ failed' \in [Procs -> Nat]
        BY <1>0, <1>2 DEF StartupTypeOK
    <2>2. /\ dial' \in [Procs -> [Servers -> {"off", "trying", "pausing", "connected", "up", "down"}]]
          /\ tries' \in [Procs -> [Servers -> Nat]]
        BY <1>0, <1>2 DEF StartupTypeOK
    <2>3. /\ listed' \in [Procs -> [Servers -> Seq(Tools)]]
          /\ why' \in [Procs -> [Servers -> {"none", "unavailable", "toolset"}]]
        BY <1>0, <1>2 DEF StartupTypeOK
    <2>4. required' \in SUBSET Servers
        BY <1>0, <1>2 DEF StartupTypeOK
    <2>5. QED
        BY <2>1, <2>2, <2>3, <2>4 DEF StartupTypeOK
<1>6. LifeTypeOK'
    BY <1>0, <1>2, <1>5 DEF LifeTypeOK
<1>7. Local(p)'
    BY <1>3, BlankIsKept, PTL
<1>8. QED
    BY <1>4, <1>6, <1>7, OneMoves

LEMMA InitLife == Init => LifeInv
<1> SUFFICES ASSUME Init PROVE LifeInv
    OBVIOUS
<1>1. LifeTypeOK
    <2>1. ProcTypeOK
        BY InitLInv DEF LInv
    <2>2. ServerCount \in Nat
        BY StartupAssumption
    <2>3. StartupTypeOK
        BY DEF Init, StartupInit, Each, StartupTypeOK
    <2>4. QED
        BY <2>1, <2>2, <2>3 DEF Init, LifeTypeOK
<1>2. ASSUME NEW p \in Procs PROVE Local(p)
    <2>1. Blank(p)
        BY DEF Blank, Init, StartupInit, Each
    <2>2. QED
        BY <2>1, BlankIsKept
<1>3. QED
    BY <1>1, <1>2 DEF LifeInv

LEMMA NextLife == LInv /\ LifeInv /\ [Next]_vars => LifeInv'
<1> SUFFICES ASSUME LInv, LifeInv, [Next]_vars PROVE LifeInv'
    OBVIOUS
<1>1. ProcTypeOK'
    BY NextLInv DEF LInv
<1>2. CASE UNCHANGED vars
    <2>1. LifeTypeOK'
        BY <1>2 DEF LifeInv, LifeTypeOK, ProcTypeOK, StartupTypeOK, vars, procVars, startupVars, dialVars, setVars
    <2>2. \A p \in Procs : Stays(p)
        BY <1>2 DEF Stays, Kept, SameDial, SameSet, vars, procVars, startupVars, dialVars, setVars
    <2>3. QED
        BY <2>1, <2>2, OthersStay DEF LifeInv
<1>3. ASSUME NEW p \in Procs, Start(p) \/ Step(p) \/ Signal(p) \/ Timeout(p) \/ Kill(p)
      PROVE  LifeInv'
    BY <1>1, <1>3, FrontLife, GateLife, StartLife, DialLife, CollectedLife, LoopLife, EndLife, StopLife, GoneLife
       DEF Step
<1>4. QED
    BY <1>2, <1>3 DEF Next

LEMMA AlwaysLife == Spec => []LifeInv
<1>1. LInv /\ LifeInv /\ [Next]_vars => (LInv /\ LifeInv)'
    BY NextLInv, NextLife
<1>2. QED
    BY <1>1, InitLInv, InitLife, PTL DEF Spec

-----------------------------------------------------------------------------
(* A process that was not killed leaves a log that can be audited (main.go: *)
(* 2193): one start, one end, what came up closed before it, and the errors *)
(* counted are those of the log.                                            *)
THEOREM LogsAreClosed == Spec => []LogIsClosed
<1>1. ASSUME LifeInv PROVE LogIsClosed
    <2> SUFFICES ASSUME NEW p \in Procs, pc[p] = "leaving"
                 PROVE  IF log[p] = <<>> THEN ExitCodeOf(err[p]) \in {"config", "lock_held"}
                        ELSE /\ Positions(p, "run_start") = {1} /\ Positions(p, "run_end") = {Len(log[p])}
                             /\ \A s \in Servers : Occurs(p, Connect(s, TRUE)) = Occurs(p, Disconnect(s))
                             /\ stopped[p] \notin {"start", "question"} =>
                                   log[p][Len(log[p])].errors =
                                       Cardinality(Missing(p)) + lost[p] + (IF gate[p] <= ServerCount THEN 1 ELSE 0)
        BY DEF LogIsClosed
    <2>1. LifeTypeOK /\ DialIsKept(p) /\ LogIsKept(p) /\ FailuresAreKept(p)
        BY <1>1 DEF LifeInv, Local
    <2>2. CASE log[p] = <<>>
        BY <2>1, <2>2 DEF LogIsKept, ExitCodeOf
    <2>3. CASE log[p] # <<>>
        <3>1. Positions(p, "run_start") = {1} /\ Positions(p, "run_end") = {Len(log[p])}
            BY <2>1, <2>3 DEF LogIsKept, Once
        <3>2. \A s \in Servers : Ups(p, s) = Downs(p, s)
            BY <2>1 DEF LogIsKept, DialIsKept, Settled
        <3>3. \A s \in Servers : Occurs(p, Connect(s, TRUE)) = Occurs(p, Disconnect(s))
            BY <3>2, Zenon DEF Ups, Downs
        <3>4. stopped[p] \notin {"start", "question"} =>
                  log[p][Len(log[p])].errors =
                      Cardinality(Missing(p)) + lost[p] + (IF gate[p] <= ServerCount THEN 1 ELSE 0)
            <4>1. log[p][Len(log[p])].errors = failed[p] + lost[p]
                BY <2>1, <2>3 DEF LogIsKept
            <4>2. stopped[p] \notin {"start", "question"} =>
                      failed[p] = Cardinality(Missing(p)) + (IF gate[p] <= ServerCount THEN 1 ELSE 0)
                BY <2>1, <2>3 DEF FailuresAreKept, Settled
            <4>3. lost[p] \in Nat /\ Cardinality(Missing(p)) \in Nat
                <5>1. Missing(p) \subseteq Servers /\ IsFiniteSet(Servers)
                    BY StartupAssumption, FS_Interval DEF Missing, Servers
                <5>2. QED
                    BY <2>1, <5>1, FS_Subset, FS_CardinalityType DEF LifeTypeOK
            <4>4. QED
                BY <4>1, <4>2, <4>3
        <3>5. QED
            BY <2>3, <3>1, <3>3, <3>4, Zenon
    <2>4. QED
        BY <2>2, <2>3
<1>2. QED
    BY <1>1, AlwaysLife, PTL

(* A run that is stopped before its loop ends as interrupted or out of time,*)
(* or was refused for itself, and exit 8 stands for a required server that  *)
(* is not there (main.go:2201).                                             *)
THEOREM ExitsTellTheCause == Spec => []ExitTellsTheCause
<1>1. ASSUME LifeInv PROVE ExitTellsTheCause
    <2> SUFFICES ASSUME NEW p \in Procs, pc[p] = "leaving"
                 PROVE  /\ stopped[p] = "start" =>
                              ExitCodeOf(err[p]) \in {IF ctx[p] = "deadline" THEN "budget" ELSE "task_failed",
                                                      "config", "lock_held"}
                        /\ ExitCodeOf(err[p]) = "mcp" => \E s \in required : dial[p][s] = "down" \/ gate[p] = s
        BY DEF ExitTellsTheCause
    <2>1. LifeTypeOK /\ StopIsSeen(p) /\ GateIsKept(p) /\ err[p] \in Causes
        BY <1>1 DEF LifeInv, Local, LifeTypeOK, ProcTypeOK
    <2>2. stopped[p] = "start" =>
              ExitCodeOf(err[p]) \in {IF ctx[p] = "deadline" THEN "budget" ELSE "task_failed",
                                      "config", "lock_held"}
        BY <2>1 DEF StopIsSeen, Ending, Interrupted, ExitCodeOf
    <2>3. ExitCodeOf(err[p]) = "mcp" => err[p] = "mcp"
        BY <2>1 DEF ExitCodeOf, Causes, Refused
    <2>4. QED
        BY <2>1, <2>2, <2>3 DEF GateIsKept
<1>2. QED
    BY <1>1, AlwaysLife, PTL

(* Whichever server answered first, what the model is shown and what ends   *)
(* the run depend only on what each server said (mcp_wiring.go:261).        *)
THEOREM ToolsAlwaysFollow == Spec => []ToolsFollowConfig
<1>1. LifeInv => ToolsFollowConfig
    BY DEF LifeInv, Local, SetIsKept, ToolsFollowConfig
<1>2. QED
    BY <1>1, AlwaysLife, PTL
=============================================================================
