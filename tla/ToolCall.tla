------------------------------ MODULE ToolCall ------------------------------
(***************************************************************************)
(* One tool call on its way through the approver (internal/perm and the    *)
(* prompt of cmd/amele/main.go), the checks of its tool, and, for a shell  *)
(* line or a configured command, the child process with what it leaves     *)
(* behind (internal/tools), or, for a tool of an MCP server, the answer    *)
(* made into text (internal/mcp/result.go).  The run's context and the     *)
(* tool's own timer may end at any point.  A process writes to two streams,*)
(* each cut at MaxOutput; what it forks keeps them open and may leave its  *)
(* group.                                                                  *)
(***************************************************************************)
EXTENDS ToolGuards

CONSTANTS
    Setups,       \* the calls, each with the part of a config it meets
    Quiet,        \* bound: those of them whose command neither writes nor forks, and
                  \* whose server gives but one answer
    MaxOutput,    \* what is kept of a stream, and of an answer
    MaxWritten,   \* bound: what the processes write to a stream, or a server answers
    Typed         \* bound: what a human types at a question

FileTools == {"fs_read", "fs_write", "fs_list"}

ASSUME ToolCallAssumption ==
    /\ Quiet \subseteq Setups /\ MaxOutput \in Nat /\ MaxWritten \in Nat /\ Typed \subseteq Text

(* What a config and a call are made of.  Only the first component of a path*)
(* can be the root, and the name of a server leaves room for a hash.        *)
ASSUME SetupsAssumption == \A s \in Setups :
    /\ IsFiniteSet(DOMAIN s.rules) /\ DOMAIN s.rules \subseteq Text
    /\ s.rules \in [DOMAIN s.rules -> Policies] /\ s.default \in Policies
    /\ s.tool # "mcp" => s.name \in Text
    /\ s.tool = "shell" => s.command \in Seq(Text) /\ s.allow \subseteq Text /\ s.deny \subseteq Text
    /\ s.tool \in FileTools => s.path \in Text /\ \A i \in DOMAIN s.path : s.path[i] = "/" => i = 1
    /\ s.tool = "mcp" => /\ s.server \in Text /\ ToSet(s.server) \cap Foreign = {}
                         /\ Len(s.server) + Len(Separator) + Len(Digest(s.original)) <= MaxToolNameLen
                         /\ s.original \in Text /\ s.include \subseteq Text /\ s.exclude \subseteq Text

(* Digests differ where the tools do, and no tool of a server is called what*)
(* another is rewritten to: a server with such a pair is refused.           *)
ASSUME NamesAssumption == \A s, t \in {c \in Setups : c.tool = "mcp"} :
    /\ ToSet(Digest(s.original)) \subseteq Symbols \ Foreign
    /\ Digest(s.original) = Digest(t.original) => s.original = t.original
    /\ s.server = t.server /\ ValidName(Joined(s.server, s.original)) =>
           Joined(s.server, s.original) # Rewritten(t.server, t.original)

VARIABLES
    setup,      \* the call and its config, an element of Setups
    terminal,   \* is there a human to ask
    ctx,        \* the run: "live" or "over"
    pc,         \* where the call is
    answered,   \* what the human typed
    begun,      \* what the run was when the tool took effect, or "none"
    timer,      \* the tool's timeout: "off", "running" or "expired"
    child,      \* "none", "running", "ok", "nonzero" or "killed"
    heir,       \* a process the child left: "none", "grouped" or "detached"
    canceled,   \* was the group sent SIGTERM
    delay,      \* WaitDelay: "off", "running" or "expired"
    streams,    \* per stream: written, kept, and was any dropped
    waited,     \* the error of Wait: "none", "exit", "context" or "delay"
    reply,      \* what the MCP server answered
    result      \* how the call ended, and is its text marked as cut

processVars == <<timer, child, heir, canceled, delay, streams>>
vars == <<setup, terminal, ctx, pc, answered, begun, processVars, waited, reply, result>>

Streams == {"stdout", "stderr"}
Reply(form, failed, size) == [form |-> form, failed |-> failed, size |-> size]
NoReply == Reply("none", FALSE, 0)
Result(kind, cut) == [kind |-> kind, truncated |-> cut]

Init ==
    /\ setup \in Setups /\ terminal \in BOOLEAN
    /\ ctx = "live" /\ pc = "ruling" /\ answered = <<>> /\ begun = "none"
    /\ timer = "off" /\ child = "none" /\ heir = "none" /\ canceled = FALSE /\ delay = "off"
    /\ streams = [s \in Streams |-> [written |-> 0, kept |-> 0, dropped |-> FALSE]]
    /\ waited = "none" /\ reply = NoReply /\ result = Result("none", FALSE)

(* The call's context is the run's and the tool's timer.                    *)
CallOver == ctx = "over" \/ timer = "expired"

Goto(at) == pc' = at
Return(kind, cut) == Goto("returned") /\ result' = Result(kind, cut)

-----------------------------------------------------------------------------
(* The name the model, the rules and the question know a tool by.           *)
Name(s) == IF s.tool = "mcp" THEN EffectiveName(s.server, s.original) ELSE s.name

(* The approver does not look at the context, nor does an open question.    *)
AskHuman == IF terminal THEN Goto("question") /\ UNCHANGED result
            ELSE Return("denied_no_tty", FALSE)
Rule ==
    /\ pc = "ruling"
    /\ \E order \in SetToSeqs(DOMAIN setup.rules) :
          LET policy == PolicyFor(Name(setup), setup.default, setup.rules, order) IN
          \/ policy = "allow" /\ Goto("invoking") /\ UNCHANGED result
          \/ policy = "deny" /\ Return("denied_policy", FALSE)
          \/ policy = "ask" /\ AskHuman
    /\ UNCHANGED <<setup, reply, terminal, ctx, answered, begun, processVars, waited>>

(* Only a yes is one; a reader that fails ends the run.                     *)
Answer ==
    /\ pc = "question"
    /\ \/ \E typed \in Typed :
             /\ answered' = typed
             /\ IF Approves(typed) THEN Goto("invoking") /\ UNCHANGED result
                ELSE Return("ask_refused", FALSE)
       \/ Return("error", FALSE) /\ UNCHANGED answered
    /\ UNCHANGED <<setup, reply, terminal, ctx, begun, processVars, waited>>

-----------------------------------------------------------------------------
(* The file tools: a path is confined before the context is looked at.  The *)
(* system may still refuse it.                                              *)
Touch(cuts) ==
    /\ Confined(setup.path) /\ ctx = "live" /\ begun' = ctx
    /\ \E cut \in cuts : Return("ok", cut)
BadArguments == Return("error", FALSE)
FileFails == (BadArguments \/ Return("error", FALSE)) /\ UNCHANGED begun

(* A write that fails has made the directories, or emptied the file.        *)
WriteBreaks ==
    Confined(setup.path) /\ ctx = "live" /\ begun' = ctx /\ Return("error", FALSE)

ReadFile == pc = "invoking" /\ setup.tool = "fs_read" /\ (Touch(BOOLEAN) \/ FileFails)
ListFiles == pc = "invoking" /\ setup.tool = "fs_list" /\ (Touch(BOOLEAN) \/ FileFails)
WriteFile ==
    /\ pc = "invoking" /\ setup.tool = "fs_write"
    /\ (Clean(setup.path) # <<>> /\ (Touch({FALSE}) \/ WriteBreaks)) \/ FileFails

InvokeFile ==
    /\ ReadFile \/ ListFiles \/ WriteFile
    /\ UNCHANGED <<setup, reply, terminal, ctx, answered, processVars, waited>>

(* A shell line no pattern rejects; extra arguments only where the config   *)
(* lets them be.                                                            *)
RejectCommand ==
    /\ pc = "invoking" /\ setup.tool = "shell" /\ PolicyLines(setup.command) # {}
    /\ Rejects(setup.command, setup.allow, setup.deny) /\ Return("rejected", FALSE)
    /\ UNCHANGED <<setup, reply, terminal, ctx, answered, begun, processVars, waited>>

MayRun == \/ /\ setup.tool = "shell" /\ PolicyLines(setup.command) # {}
             /\ ~Rejects(setup.command, setup.allow, setup.deny)
          \/ setup.tool = "subprocess" /\ (setup.args => setup.allowArgs)

RefuseArguments ==
    /\ pc = "invoking" /\ ~MayRun
    /\ \/ setup.tool = "shell" /\ PolicyLines(setup.command) = {}
       \/ setup.tool = "subprocess"
    /\ BadArguments
    /\ UNCHANGED <<setup, reply, terminal, ctx, answered, begun, processVars, waited>>

(* Nothing starts under a context that is over.                             *)
StartChild ==
    /\ pc = "invoking" /\ MayRun
    /\ \/ ctx = "over" /\ Return("aborted", FALSE) /\ UNCHANGED <<begun, timer, child>>
       \/ Return("error", FALSE) /\ UNCHANGED <<begun, timer, child>>
       \/ /\ ctx = "live" /\ begun' = ctx /\ timer' = "running" /\ child' = "running"
          /\ Goto("running") /\ UNCHANGED result
    /\ UNCHANGED <<setup, reply, terminal, ctx, answered, heir, canceled, delay, streams, waited>>

-----------------------------------------------------------------------------
(* A tool of an MCP server: the registry has it if its filter kept it.      *)
Unknown == setup.tool = "mcp" /\ ~Kept(setup.original, setup.include, setup.exclude)
UnknownTool ==
    /\ pc = "invoking" /\ Unknown /\ Return("error", FALSE)
    /\ UNCHANGED <<setup, reply, terminal, ctx, answered, begun, processVars, waited>>

(* A dead credential and arguments that are no JSON are told at once.  The  *)
(* timer covers the wait for a session, which may fail for itself.          *)
SendCall ==
    /\ pc = "invoking" /\ setup.tool = "mcp" /\ ~Unknown
    /\ \/ Return("tool_error", FALSE) /\ UNCHANGED <<begun, timer>>
       \/ ctx = "over" /\ Return("aborted", FALSE) /\ UNCHANGED <<begun, timer>>
       \/ ctx = "live" /\ timer' = "expired" /\ Return("timed_out", FALSE) /\ UNCHANGED begun
       \/ ctx = "live" /\ Return("error", FALSE) /\ UNCHANGED <<begun, timer>>
       \/ ctx = "live" /\ begun' = ctx /\ timer' = "running" /\ Goto("sent") /\ UNCHANGED result
    /\ UNCHANGED <<setup, reply, terminal, ctx, answered, child, heir, canceled, delay, streams, waited>>

(* RenderResult: nobody is there to answer the server, and what it promised *)
(* of its output is checked.  A message of ours is put before a failure.    *)
Forms == {"content", "structured", "misfit", "input"}
Misfits(r) == r.form = "misfit" /\ setup.schema
ReplyKind(r) == IF r.form = "input" \/ Misfits(r) \/ r.failed THEN "tool_error" ELSE "ok"
TextSize(r) == IF r.form # "input" /\ ReplyKind(r) = "tool_error" THEN r.size + 1 ELSE r.size
Render(r) == Return(ReplyKind(r), r.form # "input" /\ TextSize(r) > MaxOutput)

Replies == IF setup \in Quiet THEN {Reply("content", FALSE, 0)}
           ELSE {Reply(form, failed, size) : form \in Forms, failed \in BOOLEAN, size \in 0..MaxWritten}

ReplyArrives ==
    /\ pc = "sent"
    /\ \E r \in Replies : reply' = r /\ Render(r)
    /\ UNCHANGED <<setup, terminal, ctx, answered, begun, processVars, waited>>

(* No answer: the run or the timer ended, or the server broke the call off. *)
CallExpires ==
    /\ pc = "sent" /\ CallOver
    /\ Return(IF ctx = "over" THEN "aborted" ELSE "timed_out", FALSE)
    /\ UNCHANGED <<setup, reply, terminal, ctx, answered, begun, processVars, waited>>
CallBreaks ==
    /\ pc = "sent" /\ ~CallOver
    /\ \E kind \in {"tool_error", "indeterminate"} : Return(kind, FALSE)
    /\ UNCHANGED <<setup, reply, terminal, ctx, answered, begun, processVars, waited>>

-----------------------------------------------------------------------------
(* What the processes do.                                                   *)
Piped == pc \in {"running", "draining"} /\ delay # "expired"
Live(process) == process \in {"running", "grouped", "detached"}

CutWhenFull(stream) == [written |-> stream.written + 1,                 \* seeded defect
                        kept |-> Min({stream.kept + 1, MaxOutput}),
                        dropped |-> stream.kept + 1 >= MaxOutput]
Keep(stream) == [written |-> stream.written + 1,
                 kept |-> Min({stream.kept + 1, MaxOutput}),
                 dropped |-> stream.dropped \/ stream.kept = MaxOutput]
Write(s) ==
    /\ Piped /\ (Live(child) \/ Live(heir)) /\ setup \notin Quiet
    /\ streams[s].written < MaxWritten
    /\ streams' = [streams EXCEPT ![s] = Keep(@)]
    /\ UNCHANGED <<setup, reply, terminal, ctx, pc, answered, begun, timer, child, heir, canceled, delay, waited, result>>

Fork ==
    /\ pc = "running" /\ Live(child) /\ heir = "none" /\ setup \notin Quiet
    /\ heir' \in {"grouped", "detached"}
    /\ UNCHANGED <<setup, reply, terminal, ctx, pc, answered, begun, timer, child, canceled, delay, streams, waited, result>>

HeirExits ==
    /\ Live(heir) /\ heir' = "none"
    /\ UNCHANGED <<setup, reply, terminal, ctx, pc, answered, begun, timer, child, canceled, delay, streams, waited, result>>

ChildExits ==
    /\ Live(child) /\ child' \in {"ok", "nonzero"} \cup (IF canceled THEN {"killed"} ELSE {})
    /\ UNCHANGED <<setup, reply, terminal, ctx, pc, answered, begun, timer, heir, canceled, delay, streams, waited, result>>

-----------------------------------------------------------------------------
(* When the call's context ends the group gets SIGTERM, which a process may *)
(* ignore, and WaitDelay starts.                                            *)
Cancel ==
    /\ pc = "running" /\ CallOver /\ ~canceled /\ canceled' = TRUE /\ delay' = "running"
    /\ UNCHANGED <<setup, reply, terminal, ctx, pc, answered, begun, timer, child, heir, streams, waited, result>>

(* Its end kills the child and closes the pipes, whoever still holds them.  *)
DelayExpires ==
    /\ pc \in {"running", "draining"} /\ delay = "running" /\ delay' = "expired"
    /\ child' = IF Live(child) THEN "killed" ELSE child
    /\ UNCHANGED <<setup, reply, terminal, ctx, pc, answered, begun, timer, heir, canceled, streams, waited, result>>

(* The child is reaped.  What it left may hold the pipes: WaitDelay starts  *)
(* here if it has not yet.                                                  *)
WaitForever(d) == d                                           \* seeded defect
BoundedWait(d) == IF d = "off" /\ Live(heir) THEN "running" ELSE d
Reap ==
    /\ pc = "running" /\ child \in {"ok", "nonzero", "killed"}
    /\ Goto("draining") /\ delay' = BoundedWait(delay)
    /\ UNCHANGED <<setup, reply, terminal, ctx, answered, begun, timer, child, heir, canceled, streams, waited, result>>

(* Wait: a bad exit comes first, then the cancellation, then the pipes.     *)
Drain ==
    /\ pc = "draining" /\ (~Live(heir) \/ delay = "expired") /\ Goto("judging")
    /\ waited' = IF child # "ok" THEN "exit" ELSE IF canceled THEN "context"
                 ELSE IF Live(heir) THEN "delay" ELSE "none"
    /\ UNCHANGED <<setup, reply, terminal, ctx, answered, begun, processVars, result>>

(* runCommand: the end of the run comes before the tool's own timeout, both *)
(* before the exit status.  Only a bad exit shows stderr.                   *)
Lost(shown) == \E s \in shown : streams[s].dropped
Judge ==
    /\ pc = "judging"
    /\ IF waited = "none" THEN Return("ok", Lost({"stdout"}))
       ELSE IF ctx = "over" THEN Return("aborted", Lost({"stdout"}))
       ELSE IF timer = "expired" THEN Return("timed_out", Lost({"stdout"}))
       ELSE IF waited = "exit" THEN Return("nonzero_exit", Lost(Streams))
       ELSE Return("error", FALSE)
    /\ UNCHANGED <<setup, reply, terminal, ctx, answered, begun, processVars, waited>>

-----------------------------------------------------------------------------
RunEnds ==
    /\ ctx = "live" /\ pc # "returned" /\ ctx' = "over"
    /\ UNCHANGED <<setup, reply, terminal, pc, answered, begun, processVars, waited, result>>
TimerExpires ==
    /\ timer = "running" /\ pc \in {"running", "draining", "judging", "sent"} /\ timer' = "expired"
    /\ UNCHANGED <<setup, reply, terminal, ctx, pc, answered, begun, child, heir, canceled, delay, streams, waited, result>>

Progress == \/ Rule \/ InvokeFile \/ RejectCommand \/ RefuseArguments \/ StartChild
            \/ UnknownTool \/ SendCall
            \/ CallExpires \/ Cancel \/ DelayExpires \/ Reap \/ Drain \/ Judge \/ TimerExpires
Next == \/ Progress \/ Answer \/ RunEnds \/ ReplyArrives \/ CallBreaks
        \/ (\E s \in Streams : Write(s)) \/ Fork \/ HeirExits \/ ChildExits

(* The code's own steps and its timers; no process has to end and no human  *)
(* has to answer.                                                           *)
Fairness == WF_vars(Progress)
Spec == Init /\ [][Next]_vars /\ Fairness
-----------------------------------------------------------------------------
(* What should hold of a call that takes effect, by the meaning of its rules*)
(* rather than by the way they are applied.                                 *)
SaysYes(typed) == \E n \in 0..Len(typed) :
    /\ ToSet(SubSeq(typed, 1, n)) \cap LineEnds = {}
    /\ n = Len(typed) \/ typed[n + 1] \in LineEnds
    /\ Bare(SubSeq(typed, 1, n)) \in { <<"y">>, <<"y", "e", "s">> }
McpTools == {<<s.server, s.original>> : s \in {c \in Setups : c.tool = "mcp"}}
OwnName == /\ ValidName(Name(setup))
           /\ \A t \in McpTools :
                 t[1] = setup.server /\ EffectiveName(t[1], t[2]) = Name(setup) => t[2] = setup.original
FilterAllows == /\ ~\E pattern \in setup.exclude : Means(pattern, setup.original)
                /\ setup.include = {} \/ \E pattern \in setup.include : Means(pattern, setup.original)
WholeServer == setup.server \o Separator \o <<Wild>>
ServerAllows == WholeServer \in DOMAIN setup.rules /\ Name(setup) \notin DOMAIN setup.rules =>
                    setup.rules[WholeServer] # "deny"

(* main.go:3772, perm.go:232, shell.go:164, fs.go:54, names.go:155: what    *)
(* takes effect was allowed - by the strictest of the patterns that mean the*)
(* tool, or by a human at a terminal whose first line said yes - passes the *)
(* lists line by line, stays below the workspace, is not filtered out, and  *)
(* began while the run was on, however long a question was open.  The name  *)
(* of an MCP tool is its own and a rule <server>__* covers it.              *)
OnlyThePermittedRuns == begun # "none" =>
    /\ LET ruling == Ruling(Name(setup), setup.default, setup.rules) IN
       ruling = "allow" \/ (ruling = "ask" /\ terminal /\ SaysYes(answered))
    /\ setup.tool = "shell" => Passes(setup.command, setup.allow, setup.deny)
    /\ setup.tool = "subprocess" => setup.allowArgs \/ ~setup.args
    /\ setup.tool \in FileTools => StaysBelow(setup.path)
    /\ setup.tool = "mcp" => OwnName /\ FilterAllows /\ ServerAllows
    /\ begun = "live"

(* What the text of a result should tell of the child and of the server.    *)
Missing(s) == streams[s].written > streams[s].kept
ChildIsTold == child # "none" =>
    /\ result.kind = "ok" => child = "ok" /\ ~canceled
    /\ result.kind = "nonzero_exit" => child = "nonzero"
    /\ result.kind \in {"ok", "timed_out", "aborted"} => result.truncated = Missing("stdout")
    /\ result.kind = "nonzero_exit" => result.truncated = (Missing("stdout") \/ Missing("stderr"))
ReplyIsTold == setup.tool = "mcp" =>
    /\ result.kind = "ok" => reply.form \in {"content", "structured", "misfit"} /\ ~reply.failed
    /\ result.kind = "ok" /\ reply.form = "misfit" => ~setup.schema
    /\ result.kind = "indeterminate" => reply = NoReply /\ ctx = "live" /\ timer # "expired"
    /\ result.kind = "ok" => result.truncated = (reply.size > MaxOutput)
    /\ result.truncated => reply.size >= MaxOutput

(* subprocess.go:186, result.go:60: what the model reads is what happened:  *)
(* success and failure are the child's own or the server's, a timeout is the*)
(* tool's, an abort the run's, and the text is marked as cut exactly when   *)
(* bytes of it are missing.                                                 *)
ResultTellsTheEnd == pc = "returned" /\ begun # "none" =>
    /\ ChildIsTold /\ ReplyIsTold
    /\ result.kind = "timed_out" => timer = "expired" /\ ctx = "live"
    /\ result.kind = "aborted" => ctx = "over"

(* subprocess.go:163, tool.go:135: a command or a server ends the call at   *)
(* the latest when its time is up, whatever the command started, whatever   *)
(* ignores its signals, and whether or not the server answers.              *)
CallIsBounded == child = "running" \/ pc = "sent" ~> pc = "returned"

(* "The returned error is reserved for harness-level failures (the          *)
(* executable does not exist, fork failed)" (subprocess.go:135).            *)
ErrorsAreHarnessFailures == result.kind = "error" => child = "none"
=============================================================================
