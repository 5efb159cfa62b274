---------------------------- MODULE RunLifecycle ----------------------------
(***************************************************************************)
(* The processes that run one config over time, from the lock to the exit  *)
(* code (cmdRun, cmdChat and what they call in cmd/amele/main.go): the     *)
(* credential gate, the start of the MCP servers, the agent loop as one    *)
(* step, the orderly close, and the end of the log - whatever signal,      *)
(* timeout, refusal or kill comes in between.  A chat takes no lock and    *)
(* shares nothing with other processes, so it is only started alone.       *)
(***************************************************************************)
EXTENDS McpStartup

CONSTANTS
    NeedsLogin,    \* the servers declared with oauth
    MaxStarts,     \* bound: processes ever started
    MaxLost        \* bound: sessions lost during a loop

ASSUME LifecycleAssumption == /\ NeedsLogin \subseteq Servers
                              /\ MaxStarts \in Nat /\ MaxLost \in Nat

VARIABLES
    mode,      \* "run" or "chat"
    pc,        \* where the process is
    gate,      \* the server the credential gate looks at
    err,       \* what the run ends with: "none" or a cause
    lost,      \* the MCP errors of the loop
    closed,    \* how many servers have been closed
    stopped,   \* when the context ended: "never", "start", "question" or "loop"
    starts     \* how many processes were started

procVars == <<mode, pc, gate, err, lost, closed, stopped>>
vars == <<lockVars, startupVars, procVars, starts>>

Init ==
    /\ LockInit /\ StartupInit
    /\ mode = [p \in Procs |-> "run"] /\ pc = [p \in Procs |-> "none"]
    /\ gate = [p \in Procs |-> 1]
    /\ err = [p \in Procs |-> "none"] /\ lost = [p \in Procs |-> 0] /\ closed = [p \in Procs |-> 0]
    /\ stopped = [p \in Procs |-> "never"] /\ starts = 0

Goto(p, at) == pc' = [pc EXCEPT ![p] = at]
EndWith(p, cause) == err' = [err EXCEPT ![p] = cause]

(* An interruption is exit 1, a deadline exit 3: only limits.timeout has one.*)
Interrupted(p) == IF ctx[p] = "deadline" THEN "budget" ELSE "interrupted"
ExitCodeOf(cause) ==
    CASE cause = "none" -> "ok"
      [] cause \in {"interrupted", "failed"} -> "task_failed"
      [] cause \in {"load", "toolset"} -> "config"
      [] OTHER -> cause

-----------------------------------------------------------------------------
Idle(p) == pc[p] = "none"
Alone(p) == \A q \in Procs \ {p} : Idle(q)

Start(p) ==
    /\ Idle(p) /\ starts < MaxStarts /\ starts' = starts + 1
    /\ \E m \in {"run", "chat"} :
          /\ m = "chat" => Alone(p)
          /\ \A q \in Procs : mode[q] = "chat" => Idle(q)
          /\ mode' = [mode EXCEPT ![p] = m]
          /\ Goto(p, IF m = "run" THEN "opening" ELSE "gate")
    /\ UNCHANGED <<lockVars, startupVars, gate, err, lost, closed, stopped>>

(* A config that does not load, a lock or a session that cannot be opened:   *)
(* exit 2, with nothing logged.                                             *)
Refuse(p, cause) == EndWith(p, cause) /\ Goto(p, "leaving")
LoadFails(p) ==
    /\ \/ pc[p] = "opening"
       \/ mode[p] = "chat" /\ pc[p] = "gate" /\ gate[p] = 1
    /\ Refuse(p, "load")
    /\ UNCHANGED <<lockVars, startupVars, mode, gate, lost, closed, stopped, starts>>

Open(p) ==
    /\ pc[p] = "opening" /\ OpenLock(p) /\ Goto(p, "locking")
    /\ UNCHANGED <<startupVars, mode, gate, err, lost, closed, stopped, starts>>

(* Held by another process: exit 7, with nothing logged.                    *)
Lock(p) ==
    /\ pc[p] = "locking"
    /\ \/ Locked(p) /\ Goto(p, "gate") /\ UNCHANGED err
       \/ IsHeld(p) /\ UNCHANGED lockVars /\ Goto(p, "leaving") /\ EndWith(p, "lock_held")
    /\ UNCHANGED <<startupVars, mode, gate, lost, closed, stopped, starts>>

-----------------------------------------------------------------------------
(* The credential gate: one server after the other, before the timeout.     *)
GateFails(p, cause) == EndWith(p, cause) /\ Goto(p, "gate_failed") /\ UNCHANGED gate
NextServer(p) == gate' = [gate EXCEPT ![p] = @ + 1] /\ Goto(p, "gate") /\ UNCHANGED err

NoCredential(p) == IF gate[p] \in required THEN GateFails(p, "mcp") ELSE NextServer(p)

AskForLogin(p) ==
    IF Over(p) THEN GateFails(p, Interrupted(p))
    ELSE \/ Goto(p, "question") /\ UNCHANGED <<gate, err>>      \* stdin is a terminal, or is none
         \/ NoCredential(p)

Gate(p) ==
    /\ pc[p] = "gate"
    /\ IF gate[p] > ServerCount THEN Goto(p, "prepare") /\ UNCHANGED <<gate, err>>
       ELSE \/ NextServer(p)               \* the store has its credential, or it needs none
            \/ gate[p] \in NeedsLogin /\ AskForLogin(p)
    /\ UNCHANGED <<lockVars, startupVars, mode, lost, closed, stopped, starts>>

(* The read of the answer does not see the context.                         *)
Answer(p) ==
    /\ pc[p] = "question"
    /\ \/ Goto(p, "login") /\ UNCHANGED <<gate, err>>
       \/ NoCredential(p)
    /\ UNCHANGED <<lockVars, startupVars, mode, lost, closed, stopped, starts>>

Login(p) ==
    /\ pc[p] = "login"
    /\ \/ NextServer(p)
       \/ IF Over(p) THEN GateFails(p, Interrupted(p)) ELSE NoCredential(p)
    /\ UNCHANGED <<lockVars, startupVars, mode, lost, closed, stopped, starts>>

(* A refusal at the gate is logged like any other run: nothing was dialed.  *)
RunStart(p) == Log(p, [type |-> "run_start"])
RefuseAtGate(p) ==
    /\ pc[p] = "gate_failed"
    /\ \/ /\ RunStart(p) /\ Goto(p, "report") /\ UNCHANGED err
          /\ failed' = [failed EXCEPT ![p] = IF err[p] = "mcp" THEN 1 ELSE 0]
       \/ mode[p] = "run" /\ Refuse(p, "config") /\ UNCHANGED <<log, failed>>
    /\ UNCHANGED <<lockVars, required, ctx, dialVars, registry, fatal, mode, gate, lost,
                   closed, stopped, starts>>

-----------------------------------------------------------------------------
(* The task is read: a run may be refused for its input, or interrupted     *)
(* while it waits for it; a chat has nothing to read.                       *)
Begin(p) == RunStart(p) /\ DialAll(p) /\ Goto(p, "connect") /\ UNCHANGED err
NoTask(p) == mode[p] = "run" /\ Refuse(p, "config") /\ UNCHANGED <<log, dialVars>>
ReadInterrupted(p) ==
    /\ mode[p] = "run" /\ Over(p) /\ RunStart(p)
    /\ Goto(p, "report") /\ EndWith(p, Interrupted(p)) /\ UNCHANGED dialVars

Prepare(p) ==
    /\ pc[p] = "prepare" /\ (Begin(p) \/ NoTask(p) \/ ReadInterrupted(p))
    /\ UNCHANGED <<lockVars, required, ctx, setVars, mode, gate, lost, closed, stopped, starts>>

Dial(p) ==
    /\ pc[p] = "connect" /\ \E s \in Servers : Dialing(p, s)
    /\ UNCHANGED <<lockVars, procVars, starts>>

Collected(p) ==
    /\ pc[p] = "connect" /\ Collect(p) /\ Goto(p, "decide")
    /\ UNCHANGED <<lockVars, mode, gate, err, lost, closed, stopped, starts>>

(* An interruption reaches the servers before it reaches the loop.          *)
FirstCause(p, cause) == cause                                 \* seeded defect
CauseOf(p, cause) == IF Over(p) THEN Interrupted(p) ELSE cause

WithoutFinish == "report"                                     \* seeded defect
AfterRefusal == "closing"

Decide(p) ==
    /\ pc[p] = "decide"
    /\ IF fatal[p] = "none" THEN Goto(p, "loop") /\ UNCHANGED err
       ELSE /\ EndWith(p, CauseOf(p, IF fatal[p] = "toolset" THEN "toolset" ELSE "mcp"))
            /\ Goto(p, AfterRefusal)
    /\ UNCHANGED <<lockVars, startupVars, mode, gate, lost, closed, stopped, starts>>

-----------------------------------------------------------------------------
(* The loop, or the exchanges of a chat (AgentLoop, ChatSession): they see  *)
(* a context that is over already, and race with one that ends meanwhile.   *)
Outcomes == {"none", "budget", "denied", "provider", "schema", "failed"}
OutcomesOf(p) == IF ~Over(p) THEN Outcomes
                 ELSE {Interrupted(p)} \cup (IF stopped[p] = "loop" THEN Outcomes ELSE {})
LoopEnds(p) ==
    /\ pc[p] = "loop" /\ Goto(p, "closing")
    /\ \E o \in OutcomesOf(p) : EndWith(p, o)
    /\ UNCHANGED <<lockVars, startupVars, mode, gate, lost, closed, stopped, starts>>

SessionLost(p) ==
    /\ pc[p] = "loop" /\ lost[p] < MaxLost /\ \E s \in Servers : dial[p][s] = "up"
    /\ lost' = [lost EXCEPT ![p] = @ + 1]
    /\ UNCHANGED <<lockVars, startupVars, mode, pc, gate, err, closed, stopped, starts>>

(* The orderly close, server by server, under a context of its own.         *)
CloseNext(p) ==
    /\ pc[p] = "closing"
    /\ LET s == closed[p] + 1 IN
       IF s > ServerCount THEN Goto(p, "report") /\ UNCHANGED <<closed, log>>
       ELSE /\ closed' = [closed EXCEPT ![p] = s] /\ UNCHANGED pc
            /\ IF dial[p][s] = "up" THEN Log(p, Disconnect(s))
               ELSE UNCHANGED log
    /\ UNCHANGED <<lockVars, required, ctx, dialVars, setVars, mode, gate, err, lost, stopped, starts>>

Report(p) ==
    /\ pc[p] = "report" /\ Goto(p, "leaving")
    /\ Log(p, [type |-> "run_end", code |-> ExitCodeOf(err[p]), errors |-> failed[p] + lost[p]])
    /\ UNCHANGED <<lockVars, required, ctx, dialVars, setVars, mode, gate, err, lost, closed,
                   stopped, starts>>

(* Nothing of a process outlives it but the lock file.                      *)
Forget(p) ==
    /\ Goto(p, "none")
    /\ ctx' = [ctx EXCEPT ![p] = "live"] /\ log' = [log EXCEPT ![p] = <<>>]
    /\ dial' = [dial EXCEPT ![p] = [s \in Servers |-> "off"]]
    /\ tries' = [tries EXCEPT ![p] = [s \in Servers |-> 0]]
    /\ listed' = [listed EXCEPT ![p] = [s \in Servers |-> <<>>]]
    /\ why' = [why EXCEPT ![p] = [s \in Servers |-> "none"]]
    /\ registry' = [registry EXCEPT ![p] = <<>>] /\ fatal' = [fatal EXCEPT ![p] = "none"]
    /\ failed' = [failed EXCEPT ![p] = 0] /\ lost' = [lost EXCEPT ![p] = 0]
    /\ mode' = [mode EXCEPT ![p] = "run"]
    /\ gate' = [gate EXCEPT ![p] = 1] /\ closed' = [closed EXCEPT ![p] = 0]
    /\ err' = [err EXCEPT ![p] = "none"] /\ stopped' = [stopped EXCEPT ![p] = "never"]
    /\ UNCHANGED <<required, starts>>

(* The deferred release, then the exit with the code of err.                *)
Leave(p) == pc[p] = "leaving" /\ Release(p) /\ Forget(p)

-----------------------------------------------------------------------------
(* What comes from outside: SIGINT and SIGTERM, limits.timeout, SIGKILL.    *)
(* The context is looked at from the gate to the end of the loop; one that  *)
(* ends earlier is as one that ends at the gate, later it changes nothing.  *)
BeforeLoop == {"gate", "login", "prepare", "connect", "decide"}
Armed == {"prepare", "connect", "decide", "loop"}
ContextEnds(p, how) ==
    /\ ctx[p] = "live" /\ ctx' = [ctx EXCEPT ![p] = how]
    /\ stopped' = [stopped EXCEPT ![p] = IF pc[p] \in BeforeLoop THEN "start" ELSE pc[p]]
    /\ UNCHANGED <<lockVars, required, log, dialVars, setVars, mode, pc, gate, err, lost, closed, starts>>
Signal(p) == pc[p] \in BeforeLoop \cup {"question", "loop"} /\ ContextEnds(p, "canceled")
Timeout(p) == mode[p] = "run" /\ pc[p] \in Armed /\ ContextEnds(p, "deadline")

Kill(p) == ~Idle(p) /\ Freed(p) /\ UNCHANGED name /\ Forget(p)

Step(p) == \/ LoadFails(p) \/ Open(p) \/ Lock(p) \/ Gate(p) \/ Answer(p) \/ Login(p) \/ RefuseAtGate(p) \/ Prepare(p)
           \/ Dial(p) \/ Collected(p) \/ Decide(p) \/ LoopEnds(p) \/ SessionLost(p)
           \/ CloseNext(p) \/ Report(p) \/ Leave(p)

Next == \E p \in Procs : Start(p) \/ Step(p) \/ Signal(p) \/ Timeout(p) \/ Kill(p)

Spec == Init /\ [][Next]_vars
-----------------------------------------------------------------------------
(* runlock.go:49: two runs of one config never overlap, whoever was killed  *)
(* while it held the lock and whoever had the file open meanwhile.          *)
Inside(p) == /\ mode[p] = "run" /\ ~Idle(p)
             /\ pc[p] \notin {"opening", "locking"}
             /\ err[p] \notin {"load", "lock_held"}
OneRunAtATime == \A p, q \in Procs : Inside(p) /\ Inside(q) => p = q

(* main.go:2193: a process that was not killed leaves a log that can be     *)
(* audited, or none at all when nothing had begun: one run_start, first, one*)
(* run_end, last, every server that came up closed before it, and the       *)
(* errors it counts are those the log shows, or the refusal of the gate.    *)
Positions(p, type) == {i \in DOMAIN log[p] : log[p][i].type = type}
Occurs(p, e) == Cardinality({i \in DOMAIN log[p] : log[p][i] = e})
Missing(p) == {s \in Servers : why[p][s] = "unavailable"}

LogIsClosed == \A p \in Procs : pc[p] = "leaving" =>
    IF log[p] = <<>> THEN ExitCodeOf(err[p]) \in {"config", "lock_held"}
    ELSE LET end == log[p][Len(log[p])] IN
         /\ Positions(p, "run_start") = {1} /\ Positions(p, "run_end") = {Len(log[p])}
         /\ \A s \in Servers : Occurs(p, Connect(s, TRUE)) = Occurs(p, Disconnect(s))
         /\ stopped[p] \notin {"start", "question"} =>
               end.errors = Cardinality(Missing(p)) + lost[p] + (IF gate[p] <= ServerCount THEN 1 ELSE 0)

(* main.go:2201: a run that is stopped before its loop ends as interrupted  *)
(* or out of time - or was refused for itself - and never reports a missing *)
(* dependency; and exit 8 stands for a required server that is not there.   *)
ExitTellsTheCause == \A p \in Procs : pc[p] = "leaving" =>
    LET code == ExitCodeOf(err[p]) IN
    /\ stopped[p] = "start" =>
          code \in {IF ctx[p] = "deadline" THEN "budget" ELSE "task_failed", "config", "lock_held"}
    /\ code = "mcp" => \E s \in required : dial[p][s] = "down" \/ gate[p] = s

(* mcp_wiring.go:261, for every process past its start.                     *)
ToolsFollowConfig == \A p \in Procs : pc[p] \in {"decide", "loop"} => RegistryFollowsConfig(p)
=============================================================================
