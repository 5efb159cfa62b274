----------------------------- MODULE McpStartup -----------------------------
(***************************************************************************)
(* How a run brings up its MCP servers (connectMCP of                      *)
(* cmd/amele/mcp_wiring.go, Connect of internal/mcp/server.go): every      *)
(* server is dialed at once, each with a second try after a failure; when  *)
(* the last is done their tools join the registry in the order of the      *)
(* config, and the first cause in that order decides.  Servers are their   *)
(* positions in the config; what a server is and says is free.             *)
(***************************************************************************)
EXTENDS Integers, Sequences, SequencesExt, RunLock     \* the processes are those of RunLock

CONSTANTS
    ServerCount,      \* how many servers it declares
    Tools,            \* the effective names servers may offer
    Builtins,         \* those of them the registry already holds
    ConnectAttempts,  \* connectAttempts
    MaxListed         \* bound: the tools of one listing

ASSUME StartupAssumption == /\ ServerCount \in Nat /\ Builtins \subseteq Tools
                            /\ ConnectAttempts \in Nat \ {0} /\ MaxListed \in Nat

Servers == 1..ServerCount

VARIABLES
    required,   \* the servers declared required
    ctx,        \* "live", "canceled" or "deadline", per process
    log,        \* the session log, per process
    dial,       \* per process and server: "off", "trying", "pausing", "connected", "up" or "down"
    tries,      \* connection attempts begun, while they last
    listed,     \* the tools taken from the server so far
    why,        \* of a server that is down: "unavailable" or "toolset"
    registry,   \* the tools the model is shown, with the server of each
    fatal,      \* the cause that ends the run before it starts, or "none"
    failed      \* the failed connects that count in run_end

dialVars == <<dial, tries, listed, why>>
setVars == <<registry, fatal, failed>>
startupVars == <<required, ctx, log, dialVars, setVars>>

Each(v) == [p \in Procs |-> [s \in Servers |-> v]]
StartupInit ==
    /\ required \in SUBSET Servers
    /\ ctx = [p \in Procs |-> "live"] /\ log = [p \in Procs |-> <<>>]
    /\ dial = Each("off") /\ tries = Each(0) /\ listed = Each(<<>>) /\ why = Each("none")
    /\ registry = [p \in Procs |-> <<>>] /\ fatal = [p \in Procs |-> "none"]
    /\ failed = [p \in Procs |-> 0]

Over(p) == ctx[p] # "live"
Log(p, e) == log' = [log EXCEPT ![p] = Append(@, e)]
Connect(s, ok) == [type |-> "mcp_connect", server |-> s, ok |-> ok]
Disconnect(s) == [type |-> "mcp_disconnect", server |-> s]
ToolsListed(s) == [type |-> "mcp_tools_listed", server |-> s]

-----------------------------------------------------------------------------
(* Each pass over a server's tools starts from nothing: the one before may  *)
(* have failed half way.                                                    *)
Try(p, s) ==
    /\ dial' = [dial EXCEPT ![p][s] = "trying"]
    /\ tries' = [tries EXCEPT ![p][s] = @ + 1]
    /\ listed' = [listed EXCEPT ![p][s] = <<>>]

DialAll(p) ==
    /\ dial' = [dial EXCEPT ![p] = [s \in Servers |-> "trying"]]
    /\ tries' = [tries EXCEPT ![p] = [s \in Servers |-> 1]]
    /\ UNCHANGED <<listed, why>>

(* A server that is down leaves nothing but its cause.                      *)
Down(p, s, cause) ==
    /\ dial' = [dial EXCEPT ![p][s] = "down"] /\ why' = [why EXCEPT ![p][s] = cause]
    /\ Log(p, Connect(s, FALSE))
    /\ tries' = [tries EXCEPT ![p][s] = 0] /\ listed' = [listed EXCEPT ![p][s] = <<>>]

(* One more definition.  A name the registry or this listing already has is *)
(* a mistake of the config: no second try.                                  *)
Taken(p, s) == Builtins \cup ToSet(listed[p][s])
List(p, s) == \E n \in Tools :
    /\ dial[p][s] = "trying"
    /\ \/ n \in Taken(p, s) /\ Down(p, s, "toolset")
       \/ /\ n \notin Taken(p, s) /\ Len(listed[p][s]) < MaxListed
          /\ listed' = [listed EXCEPT ![p][s] = Append(@, n)]
          /\ UNCHANGED <<dial, tries, why, log>>
    /\ UNCHANGED <<required, ctx, setVars>>

(* The process, the handshake or the listing fails: tried once more after a *)
(* pause.                                                                   *)
TryFails(p, s) ==
    /\ dial[p][s] = "trying"
    /\ IF tries[p][s] = ConnectAttempts THEN Down(p, s, "unavailable")
       ELSE dial' = [dial EXCEPT ![p][s] = "pausing"] /\ UNCHANGED <<tries, listed, why, log>>
    /\ UNCHANGED <<required, ctx, setVars>>

TryAgain(p, s) ==
    /\ dial[p][s] = "pausing" /\ Try(p, s)
    /\ UNCHANGED <<required, ctx, log, why, setVars>>

(* The credential is refused, the window of the dialing or the context ends.*)
GiveUp(p, s) ==
    /\ dial[p][s] \in {"trying", "pausing"} /\ Down(p, s, "unavailable")
    /\ UNCHANGED <<required, ctx, setVars>>

(* Two events, and those of another server may come between them.           *)
Connected(p, s) ==
    /\ dial[p][s] = "trying"
    /\ dial' = [dial EXCEPT ![p][s] = "connected"] /\ tries' = [tries EXCEPT ![p][s] = 0]
    /\ Log(p, Connect(s, TRUE))
    /\ UNCHANGED <<required, ctx, listed, why, setVars>>

Announce(p, s) ==
    /\ dial[p][s] = "connected"
    /\ dial' = [dial EXCEPT ![p][s] = "up"]
    /\ Log(p, ToolsListed(s))
    /\ UNCHANGED <<required, ctx, tries, listed, why, setVars>>

Dialing(p, s) == \/ List(p, s) \/ TryFails(p, s) \/ TryAgain(p, s)
                 \/ GiveUp(p, s) \/ Connected(p, s) \/ Announce(p, s)

-----------------------------------------------------------------------------
(* What connectMCP goes through: the result of each dialing, with the       *)
(* server's place in the config and whether the run was interrupted.        *)
Shown(p, s) == IF dial[p][s] # "up" THEN <<>>
               ELSE [k \in DOMAIN listed[p][s] |-> [tool |-> listed[p][s][k], server |-> s]]
Result(p, s) == [up |-> dial[p][s] = "up", why |-> why[p][s], tools |-> Shown(p, s),
                 required |-> s \in required, interrupted |-> Over(p)]

NoSet == [tools |-> <<>>, fatal |-> "none", failed |-> 0, full |-> FALSE]
Fail(set, cause) == [set EXCEPT !.fatal = IF @ = "none" THEN cause ELSE @]

(* The tools of a server, up to the first whose name is taken.              *)
Owned(set) == {r.tool : r \in ToSet(set.tools)}
RegisterTool(set, tool) ==
    IF set.full THEN set
    ELSE IF tool.tool \in Owned(set) THEN [Fail(set, "toolset") EXCEPT !.full = TRUE]
    ELSE [set EXCEPT !.tools = Append(@, tool)]

Register(set, tools) == FoldLeft(RegisterTool, [set EXCEPT !.full = FALSE], tools)

(* A required server that is down ends the run; an optional one is missed.  *)
(* What an interruption broke is not the server's failure.                  *)
ConnectFailed(set, r) ==
    IF r.why = "toolset" THEN Fail(set, "toolset")
    ELSE LET counted == [set EXCEPT !.failed = IF r.interrupted THEN @ ELSE @ + 1]
         IN  IF r.required THEN Fail(counted, "unavailable") ELSE counted

Judge(set, r) == IF r.up THEN Register(set, r.tools) ELSE ConnectFailed(set, r)

ByCompletion(p) == LET done == SelectSeq(log[p], LAMBDA e : e.type = "mcp_connect")     \* seeded defect
                   IN  [k \in DOMAIN done |-> done[k].server]
JudgingOrder(p) == [s \in Servers |-> s]

Results(p) == [k \in DOMAIN JudgingOrder(p) |-> Result(p, JudgingOrder(p)[k])]

Collect(p) ==
    LET set == FoldLeft(Judge, NoSet, Results(p))
    IN  /\ \A s \in Servers : dial[p][s] \in {"up", "down"}
        /\ registry' = [registry EXCEPT ![p] = set.tools]
        /\ fatal' = [fatal EXCEPT ![p] = set.fatal]
        /\ failed' = [failed EXCEPT ![p] = set.failed]
        /\ UNCHANGED <<required, ctx, log, dialVars>>

-----------------------------------------------------------------------------
(* mcp_wiring.go:261: whichever server answered first, what the model is    *)
(* shown and what ends the run depend only on what each server said: the    *)
(* tools of a listing join once, in the order of the config, and a run is   *)
(* refused for a name only if two sources claim it.                         *)
Join(all, shown) == all \o shown
Joined(p) == FoldLeft(Join, <<>>, [s \in Servers |-> Shown(p, s)])
Claim(p, s) == {r.tool : r \in ToSet(Shown(p, s))}
RegistryFollowsConfig(p) ==
    /\ fatal[p] = "none" => registry[p] = Joined(p)
    /\ fatal[p] = "toolset" => \/ \E s \in Servers : why[p][s] = "toolset"
                               \/ \E s, t \in Servers : s # t /\ Claim(p, s) \cap Claim(p, t) # {}
    /\ fatal[p] = "unavailable" => \E s \in required : dial[p][s] = "down"
=============================================================================
