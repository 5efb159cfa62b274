# amele in TLA+

amele runs one task (or an interactive chat) through a language model that may
call tools: built-in tools, subprocesses and the tools of MCP servers. It is a
single Go process that lives for one run, keeps a budget, asks a human where the
policy says so, and writes every step to a session log from which a later
process can continue.

This directory holds TLA+ modules for its core logic, TLC configurations that
check them on small instances, and TLAPS proofs of what matters most for every
instance. Every definition is translated from the source; `PROJECT.json` maps
each one to its lines.

| module | what it is |
| --- | --- |
| `AgentLoop` | one call of `Loop.RunMessages`: turns, fallbacks, dispatch, validator, budgets |
| `LogContract` | abstract specification: the order a session log promises its readers |
| `WireHistory` | the loop's history as each client puts it on the wire, with its cache marks |
| `RequestWire` | the requests of `AgentLoop` as `WireHistory` sends them |
| `ChatSession` | `cmdChat` on top of `AgentLoop`: one budget, one history, one log |
| `ResumeLog` | what `--resume` reads back: the fold over one log and the chain of logs |
| `ResumedRun` | runs killed anywhere and continued by others, on top of `AgentLoop` and `ResumeLog` |
| `McpServer` | one MCP connection shared by concurrent tool calls, reconnect and close |
| `RunLock` | the lock of a config: an flock on whichever file its path names |
| `McpStartup` | a run's MCP servers dialled at once and registered in order, on top of `RunLock`'s processes |
| `RunLifecycle` | processes that run one config over time, from the lock to the exit code, on top of `McpStartup` |
| `OAuthRefresh` | runs that share one rotating OAuth credential: store, lock, handlers |
| `OAuthLogin` | the same credential with login and logout, on top of `OAuthRefresh` |
| `StreamAssembly` | an answer as the events of a stream, and put together again |
| `ChatCall` | one call of a model client: attempts, fallbacks, stream, sink; on top of `StreamAssembly` |
| `ToolGuards` | the rules for tool calls, each beside a plain definition of what it should decide |
| `ToolCall` | one tool call from the approver to the text the model reads, on top of `ToolGuards` |
| `LineBuffer` | what keys do to a line, beside what an operator means by them |
| `ChatPrompt` | the chat's prompt and its terminal, with reads that are abandoned, on top of `LineBuffer` |
| `AgentLoopProofs` | theorems about `AgentLoop`, `ChatSession` and `RequestWire`, with their proofs |
| `McpServerProofs`, `RunLifecycleProofs`, `OAuthLoginProofs`, `ToolCallProofs`, `ChatCallProofs`, `ChatPromptProofs` | the same for one module each |
| `FoldTheorems` | what a fold computes as its sequence grows, for any operator; instantiated where a model folds |
| `MC...` | values for TLC: answers of the provider, chains of backends, calls, keys |

"On top of" is EXTENDS throughout: the upper module's variables join the lower one's
and its actions use the lower one's.

## 1. Inventory

For each component: its state, its operations, what makes it hard, and what
makes it correct.

**Agent loop** (`internal/loop/loop.go`). State: limits, turn base, position on
the fallback chain; per run the turn, usage, tool-call and fallback counters,
the message history; per turn the calls and their results. `RunMessages` asks
the active backend, accounts, logs, checks the token budget, dispatches the
calls sequentially or in parallel, validates a final answer. Hard: tools of one
turn end in any order while log, history and counters are in call order; an
aborting ruling meets siblings that already ran; the context ends between any
two steps; a failed request is an outage or our own deadline. Correct: budgets
hold before each request, every effect is between its `tool_call` and its
`tool_result`, nothing overlaps with a question to a human, carriers (signed
reasoning) stay with the wire family that made them, the outcome names its real
cause, the run ends.

**Session log** (`internal/session/session.go`). State: a file that only grows,
one line per event. Writers call it from one goroutine (the MCP observer has a
mutex). Write errors are swallowed. Correct: the order of
`docs/contracts/jsonl-events.md`, and that a prefix is a readable history.

**Resume** (`internal/resume/resume.go`). A pure fold over one log, applied
along `resumed_from` links; no state of its own. Hard: the log may end inside a
turn, and its writer may still be alive. Correct: the history is what was sent,
a provider accepts it, no effect is forgotten, a changed parent is refused, no
payload reaches another model.

**Run command** (`cmdRun`, `prepareRun` in `cmd/amele/main.go`). Configuration,
run lock, log, MCP connect, approver, loop, MCP close, `run_end`, exit code. Hard:
each of these can fail after earlier ones have taken resources. Correct: locks and
children are released on every path, `mcp_disconnect` precedes `run_end`, exactly
one `run_end`, and the exit code is that of the cause.

**Chat command** (`cmdChat`, `repl`, `nextTurn`, `finish`). State: history, totals.
One `RunMessages` per line with what is left of the budget. Hard: a failed
exchange still costs; 0 tokens left would read as "no limit". Correct: session
budget, totals, continuous turn numbers, history of final answers.

**MCP server connection** (`internal/mcp/server.go`, `tool.go`). State under
`Server.mu`: session, kill function, `dead`, `closed`, the reconnect in flight and
its error, error count, cached authorization verdict. `Connect` tries twice
inside one window and discovers tools; `session` hands out a session or
reconnects, single-flight; `Close` races with all of it. Correct: one connection,
nothing leaks, one failure is one count, waiters always get on.

**MCP wiring** (`cmd/amele/mcp_wiring.go`). Servers are dialled in parallel,
registered sequentially in configuration order, and a failure is fatal or counted
by `required`. Correct: the same configuration gives the same tools whatever server
answers first; an interrupted connect blames no server.

**OAuth for MCP** (`internal/mcp/oauth.go`, `login.go`, `logout.go`,
`loopback.go`) and **token store** (`internal/oauthtoken`). State: one record per
resource in a file, an advisory lock beside it, a cached record and verdict per
handler. Hard: many processes share one rotating refresh token. Correct: a token
is refreshed by one process at a time and never with a burnt refresh token; a
verdict is only cached when no other process rescued the credential; the loopback
server delivers at most one callback.

**Model clients** (`internal/llm`). State per request: attempt number, the request
body with or without the fields a provider refused, what was already streamed.
Correct: a bounded number of attempts, no retry after text was shown, each field
stripped at most once, streams assembled as the plain answer would be.
**Google credentials**: a cached token with an expiry margin. **Dialects and
schemas**: pure translation.

**Permissions** (`internal/perm`). Policy per tool, a prompt on a shared reader,
`AutoApproves` as the promise that no prompt will come. Correct: the promise is
kept, a denied or unreadable answer never runs a tool.

**Tools** (`internal/tools`). Built-in file tools, `shell` with glob patterns,
subprocess tools with timeouts and bounded output buffers. Correct: a killed tool
is reaped with its process group, the wait is bounded, caps keep whole characters.

**Run lock** (`internal/runlock`). An advisory lock on a file that is never
unlinked. Correct: one holder; a dead holder does not block.

**Line editor** (`internal/lineedit`) with `readEntry` and `readAsync`. State: the line, the
cursor, the place in the history, raw mode and what restores it. Hard: a read
that was given up goes on in its goroutine while the session closes the editor.
Correct: the terminal is handed back on every path, a line is what the keys
meant, a wait ends with its context.

**Configuration, context files, output schema, explain, doctor, completions**:
sequential and mostly pure; section 7 says for each why it is left out.

### How they interact

`cmdRun` and `cmdChat` own everything. The loop calls the model client, the
approver, the tool registry and the session writer through interfaces. An MCP tool
is a tool whose `InvokeOutcome` goes through the shared `Server`; parallel
dispatch is what makes its calls concurrent. The server reports to the log
through an observer. OAuth sits inside the HTTP transport of a server, and tells
the server when a credential is dead. A log links to the log it continued; the
processes that wrote them share nothing else. Two processes share the token
store and the run lock.

`PROJECT.json` lists under "hazards" each place where this can go wrong, with the
properties that cover it.

## 2. The modules and the code

**AgentLoop.** Variables are the fields of `Loop`, the locals of `RunMessages` and
those of one dispatch; `pc` says where `RunMessages` is: at the loop head, waiting
for the provider, judging a final answer, dispatching, returned. One action is one
step that another actor can fall between: the head's three ways on
(`TurnsExhausted`, `ContextSeen`, `Ask`), the ends of a request (`AskInterrupted`,
`SwitchBackend`, `ChainExhausted`, `Respond`), the verdicts (`Accept`, `RejectLast`,
`Reject`), and the stages of a dispatch (`Announce`, `Rule`, `Start`, `Finish`,
`Publish`, `EndDispatch`). Sequential and parallel dispatch are the same stages
with different joins between them, which is how `dispatchCalls` and
`dispatchParallel` differ. Each step writes at most one event, so each state is a
point at which the process may die. The provider answers anything in `Responses`;
a ruling is part of a call, because only its moment matters.

Texts are abstracted to what is compared: role, turn, the call answered, and the
wire family of the carrier. `spent` is auxiliary: the tokens really reported,
never saturated.

**LogContract** has no code of its own: it is the section "Ordering guarantees" of
`docs/contracts/jsonl-events.md` as a state machine over `log` and the progress of
the turn in it. `AgentLoop` implements it under the mapping at its end
(`Contract`), and so does `ChatSession`, with `run_end`.

**WireHistory** is `toWire` of the three clients as operators over a history: `openai`
keeps one message per result, `anthropic` and `gemini` gather the results of a turn
into one user turn, `gemini` with or without ids. `CacheMarks` is the placement of
anthropic's cache breakpoints. **RequestWire** says of every history `AgentLoop` can be
about to send that these bodies are ones the provider accepts.

**ChatSession** drives `AgentLoop`'s own actions. `TakeLine` is `nextTurn` up to
`RunMessages`, `EndExchange` the rest of it; `applyBudget` gives the limits.

**ResumeLog** translates the builder of `resume.go`: `ReadEvent` per event type,
`CloseTurn`, `Continues`, `Chained`, all operators over sequences.

**ResumedRun** adds the files. `KillAndResume` may happen in any state: the process
is dead, or still running and its log read at an earlier point (`Readings`). The
resumed run uses `AgentLoop`'s actions again. The end of the context is left out,
since what it leaves in a log a kill leaves too.

**McpServer.** A step is one critical section of `Server.mu` or one operation
between two of them; `stage[c]` says where call `c` is. Whoever takes a session out of the `Server`
kills its transport in a later step, after `closeSession`'s grace: a reconnect
(`ReleaseCurrent`, `KillTaken`), a connection that came too late (`Adopt`, `Discard`), and `Close`
(`Close`, `CloseKills`); `taken[c]` and `closing` are their local variables. A call makes at most one
connection attempt, so the attempt, its channel and its session are named by the
call. `opened` are the transports not yet killed, `up` those whose server is still
there. `ClosesEarly` lets `Close` overtake calls, as the package's documentation
allows; the program itself joins its calls first. In that case a reconnect finds no session in
`releaseCurrent` and may connect while `Close` is still taking down the old transport, which is why
`OneConnection` speaks of the others.

**RunLock** keeps inodes apart from the path that names one of them, because a process
opens the file (`OpenLock`) before it locks it (`Locked`): a file removed in between
would be locked by its opener while another process locks its successor. `Release`
never unlinks, which is why this cannot happen.

**McpStartup** is `connectMCP` and `Connect` for one process: `dial` is where each
server's goroutine is (`Dialing`: a tool of the listing, a failure, the second try, the
two log events), `Collect` the sequential pass after the last of them, a fold in the
order of the configuration. Tools are names; a name another source holds refuses the
run.

**RunLifecycle** puts `cmdRun` around it, one action per stage: `Start`, `LoadFails`, `Open`,
`Lock`, the credential gate (`Gate`, `Answer`, `Login`, `RefuseAtGate`), `Prepare`, `Dial`,
`Collected`, `Decide`, the loop as one step with a free outcome (`LoopEnds`, `SessionLost`),
`CloseNext` per server, `Report` and `Leave`. `ContextEnds` by a signal or `limits.timeout`, and
`Kill`, come from outside. `stopped` is auxiliary: when the context ended. A chat takes
no lock and shares nothing with other processes, so it is only started alone; the
context is looked at from the gate to the end of the loop, so that one which ends
elsewhere is the same as one at the next look, or changes nothing.

**OAuthRefresh.** `stored` and `holder` are the file and its lock, `run[p]` the handler of a
run, `mu[p]` its mutex, `call[c]` one HTTP request: token asked for (`Ask`), refused and
authorized (`Authorize`), under the lock (`Acquire`), exchanged (`Refresh`, `Unavailable`,
`RefreshRefused`), saved (`Save`, `SaveFails`), sent (`Accepted`, `Refused`). The authorization
server's minted and live tokens are external. Time is a tick that ages every access
token. `spent` is auxiliary: records exchanged whose successor was not lost. **OAuthLogin**
adds `amele mcp login` (discovery, the question, the callback, the save under the lock) and
`amele mcp logout` (look up, hand back, delete without the lock).

**StreamAssembly** has the events of a stream as fragments of items, and per wire how they
are put into blocks (`Apply`) and decoded; `Finish` maps each provider's word for the end.
**ChatCall** is `chat`, `attempt` and `doOnce` of the three clients: `carries` and `strips` are the
request's optional fields and the fallbacks left (`Strip`), `attempt` the retry loop, `told`
what the sink was given. The endpoint is free to refuse, fail, ignore the wish to
stream, or cut.

**ToolGuards** holds the pure rules: `GlobMatch`, `PolicyFor`, the shell's lists, path confinement,
effective names and filters of MCP tools, the answer to a question. **ToolCall** takes one
call through them: `Rule`, `Answer`, the checks of the tool, then `StartChild` and what a child,
its heirs, the pipes, `WaitDelay` and the timers do until `Judge`; or `SendCall` and the reply
made into text. `os/exec` (`Cancel`, `DelayExpires`, `Reap`, `Drain`) is modelled from how
`subprocess.go` sets it up. A write that fails half way (`WriteBreaks`) has begun all the
same. Whether a call takes effect is `begun`.

**LineBuffer** is `state` of the line editor, one operator per key, and beside it a zipper of two texts
with a draft (`Meant`) that says what the keys are for. **ChatPrompt** has the two goroutines
that meet at the prompt: the reader (entering and leaving raw mode and bracketed paste
around the keys, one step per deferred call; `MissMarker` is the paste that reads its end marker as
text, and `meant.astray` says that this has happened) and the REPL (`StartRead`, `TakeLine`, `Abandon`,
`Send`, `Ask`, `CloseEditor` and its two further steps). A cancelled context ends the REPL's wait,
never the read, so the two overlap from then on.

## 3. What the runs show

| run | instance | distinct states | properties |
| --- | --- | --- | --- |
| `turns` | 3 turns, up to 3 calls on 2 slots, 3 backends, 5 tokens, 1 rejection | 109,170 | `LogTellsTheConversation`, `CarriersStayHome`, `AskWithinBudget`, `ConcurrencyIsGuarded`, `AccountingMatchesLog`, `RequestsAreAccepted`, `PinIsThePreviousMark`, `EffectsArePermitted`, `KeepsLogContract`, `Terminates` |
| `chat` | 3 lines, 5 turns, 4 tokens | 20,490 | `SessionWithinBudget`, `TotalsMatchLog`, `KeepsLogContract` |
| `resume` | up to 3 runs, each resumed by the next, 2 models | 241,306 | `PayloadsKeepTheirModel`, `ConversationIsRecoverable`, `HistoryIsWellFormed`, `NoEffectIsForgotten`, `InterruptedRunsContinue`, `ChangedParentIsRefused` |
| `mcp` | 3 calls, Close at any time | 213,600 | `OneConnection`, `NothingLeaks`, `OnlyTheLostAreCondemned`, `FailuresCountOnce`, `WaitersAreReleased` |
| `lifecycle` | 2 processes, 3 starts, 2 servers, 3 tool names | 1,446,688 | `OneRunAtATime`, `LogIsClosed`, `ExitTellsTheCause`, `ToolsFollowConfig` |
| `oauth` | 2 calls of one run or of two, a login or a logout, 3 tokens | 538,472 | `RefreshedOnce`, `StoreAdvances`, `CallsEnd` |
| `chat_call` | 4 items in 3 fragments, 3 attempts, 3 wires | 134,068 | `SinkTellsTheAnswer`, `AnswerIsWhole`, `EnforcementIsTold` |
| `toolcall` | every guard on its own inputs; 2 streams of 3 bytes, 2 kept | 90,562 | `OnlyThePermittedRuns`, `ResultTellsTheEnd`, `CallIsBounded` |
| `prompt` | 6 keys of 24 kinds and pastes, a line of 3, a window of 2, 0 or 2 entries of history | 720,501 | `TerminalIsHandedBack`, `EditsAreMeant`, `WaitIsInterruptible` |

`model_change`, `oauth_replaced` and `toolcall_errors` are expected to be violated; section 5
explains them. Each property is stated with a comment in the module it belongs to.

Definitions marked `seeded defect` stand beside the definition they would
replace: each is a mistake a change to the code could make, and TLC finds the
property it is listed with violated when it is put in. They are not used otherwise.

### Bounds, and why they suffice

- Turns, lines, calls: two turns show what crosses a turn; three leave room for a
  tool turn, a rejection and a fallback in one run, and for two switches of
  backend with a return to the first family. Three calls on two slots queue. The code
  treats the calls of a turn alike but for their position and ruling.
- `MaxInt = 9` makes an int that overflows within one answer; a saturated total is
  only compared with limits below it.
- `Responses` holds each mixture of rulings on one and two calls, three of three, and for
  every way out of `Respond` an answer that takes it. `usageMissing` occurs under a token
  limit, where it matters.
- `MaxRuns`, `FollowedRuns`, `MaxChainedEvents`: a chain of three logs is the first in which a
  link has a parent and a child; the last run is followed to its entry, because the
  properties of the chain are about what it is entered with, and the logs of such a chain
  are short. `Readings` lets one log of a lineage be read before its end.
- `MaxChainLinks = 32` is the code's; chains here are shorter, so the cap is modelled
  but never met.
- Three MCP calls: one that reconnects, one that waits for it, one that comes late
  and starts the next attempt.
- Two processes and three starts: one that holds the lock, one that opened the file
  meanwhile, and one that comes after either is gone. `MaxListed = 1` with three names lets
  two servers agree, differ, and clash with a built-in. Processes and the names servers
  offer are only compared, so `Interchangeable` is a sound symmetry.
- Two OAuth calls, of one run or of two (`Owners`): the first share a handler and its mutex, the
  second the file and its lock. Three calls, two of them in one run, keep `RefreshedOnce` as well,
  but take too long with the temporal property. `MaxMinted = 3` is the first record, its
  successor and one more; `Life = 2` and `Margin = 1` make a token fresh, due and expired. One
  command is a login or a logout at any point of a refresh.
- An answer of thinking, a text and two calls is the smallest with every kind and with two
  calls that can be mixed up; two attempts retry, the third may follow a stripped field.
- `Quiet`: what a child does does not depend on which rule let it run, so only one call per
  kind of tool writes, forks or gets varied replies, and all the others meet the guards.
  `MaxOutput = 2`, `MaxWritten = 3` are the first sizes at which a stream is under, at and over its cap.
- `MaxKeys = 6` types a full line and edits it, or goes back and forth through the two
  `Entries`; `MaxLine = 3` is over `Room = 2`, so the window scrolls.
- Deadlock is checked, and a run that is over stutters explicitly (`Returned`,
  `SessionOver`, `NothingFollows`, `Over`, `Stopped`, `PromptOver`). In `lifecycle` all starts may be
  used up and in `toolcall` a call that has returned does nothing more: these two say
  `CHECK_DEADLOCK FALSE`.

### Fairness

`Terminates` assumes weak fairness of `LoopStep` as a whole: the loop's goroutine
is scheduled, a request returns (each client bounds its attempts by timeouts), a
tool returns (subprocess and MCP tools have timeouts and honour the context), and
a human answers a question. The last is an assumption about the operator: the
approver ignores the context. Nothing is assumed of what is answered, and the end
of the context is never forced.

`WaitersAreReleased` assumes weak fairness of the steps of a reconnect and of a
woken waiter, per call: every step of a reconnect is bounded by `ConnectTimeout`
and the grace period of a close. It assumes neither a living server nor that any
timeout expires.

`CallsEnd` assumes weak fairness of each call's own steps: its requests have deadlines, and
the waits for the mutex and the lock end when their holder does. Neither run has to
survive, and no login or logout has to finish.

`CallIsBounded` assumes weak fairness of `Progress`, the code's own steps and its timers. No
process ever has to exit, no server has to answer, no human has to type. An open question is
the one place where a call may wait for good; the property is about a call that has left it.

`WaitIsInterruptible` assumes weak fairness of the REPL's goroutine alone. No key has to be
pressed, and the reader may never be scheduled again.

## 4. What is proved

TLAPS checks these for every value of the constants, under the named assumptions
of the modules (`LoopAssumption`, `McpAssumption`, `ProcsAssumption`, `StartupAssumption`,
`LifecycleAssumption`, `StreamAssumption`, `AttemptsAssumption`, `BufferAssumption` and so on), which
only say of what type each constant is, that a name for "none" is no member, that
there is at least one slot, one backend, one attempt, and that an entry of history fits. Two say more:

- `SetupsAssumption`: what a valid config and a call are made of. Rules, lists, paths and names are
  texts over `Symbols`, policies are the three, only the first component of a path can be the root, and
  the name of a server is of a provider's alphabet and leaves room for a hash (`config/mcp.go` caps it
  at 32 of the 64 symbols).
- `NamesAssumption`: the hash in a rewritten tool name tells two tools of a server apart, and no tool is
  plainly called what another is rewritten to. Where this fails the code refuses the server
  (`server.go:530`) before any of its tools can be called.

TLC evaluates all of them on the instances of section 3.

`AgentLoopProofs`:

- `TypeCorrect`: `TypeOK` is inductive as it stands.
- `DispatchCorrect`, with `DispatchInv`: reported <= started <= ruled <= announced, and
  how far apart they may be for each shape of dispatch; what runs was started,
  allowed and not reported; outside a dispatch nothing is left. `ConcurrencyGuarded` follows: a
  sequential turn has at most one call between `announced` and `reported`, so
  overlap means `Parallelizable`, which means every call is auto-approved.
- `CarriersHome`: `CarriersStayHome` speaks only of requests in flight; its inductive form
  (`CarriersAtHome`) says the same of every state in which a request may still follow.
- `BudgetKept`: the invariant ties the saturated usage to the true tokens: equal, or
  cut at `MaxInt`, which is over any limit below it.
- `EffectsPermitted`: what runs is announced in the log without a result, and behind a call that
  ended the run nothing starts any more. `TurnOnRecord` ties the log to the counters of a dispatch: of
  the turn in progress it holds the announcements up to `announced` and the results up to
  `reported`, and of a turn that has not begun nothing. With the order of `DispatchInv` this places every
  running call between the two.
- `AccountsMatch`: the totals are only right once the run is over, so `AccountInv` says how far they
  are from the log before that, for each `pc`: the calls announced and not reported, the results
  of the turn in progress, the attempt not answered yet, the one call that aborts.
- `LogTells`: the log leads the conversation while a turn's results come in, and carriers are cut from
  messages that are already told. `TellInv` says that at rest both folds agree and that during a dispatch
  the log has the results so far in addition. One step of either fold comes from `FoldTheorems`; that
  cutting the carriers out of a whole history changes nothing that is told is an induction over its length.
- `LogContractKept`: refinement. `LogInv` says which turn the last event has and that a final
  answer is still last while it is judged; each step then maps to one step of
  `LogContract` or a stutter.

- `RequestsAccepted` and `PreviousMarkPinned`: a request is only in flight between turns, so `WireInv` says
  what the history is at each `pc`. Between turns it is `Settled`: every body of it is one its wire
  accepts, has all its texts, and gemini's builder waits for no result. Within a turn it is
  such a history and the answer of the turn. What the loop appends is one of three things, and a lemma each
  says what they do to the bodies: a text (`SettledText`), a turn of calls with all its results
  (`SettledCalls`), a loss of carriers (`SettledStripped`). The second is an induction over the results
  for each wire: anthropic and gemini add each to the one turn they opened, gemini takes the first of
  the calls left, by id or by order alike (`OneTaken`), openai is always as far behind the calls as there
  are results (`FollowsAt`). The third rests on bodies that differ only in how an answer is echoed (`Alike`).
  For the cache `Pinned` adds that the body ends in a user turn that can hold a mark, and so did the body of
  the last request, which is still in front of the last answer: no user turn lies between the two. That
  a reasoning answer is echoed raw and can hold no mark does no harm, because marks go on user turns.

The chat runs the loop's own actions, so `AgentLoopProofs` proves it over the loop's invariants (`LoopInv`),
which every exchange enters and keeps (`LoopInvEnters`), with a `turnBase` that grows from exchange to
exchange. `ChatInv` adds where the session is: at the prompt its totals are the log's (`AtRest`),
during an exchange they are the log's before it (`TotalsFollow`), and what an exchange has done so far
is what the log is `Ahead`. From it `SessionBudgetKept`, `SessionTotalsMatch` and the refinement
`SessionLogContract`, for any number of lines. An exchange that failed has an attempt or an aborted turn
open, which is why `SuccessInv` says that one which answered has none.

`McpServerProofs` rests on one invariant `IInv`: `Owner` (at most one call is inside an
attempt and `reconnecting` names it), `Attempt` (until it adopts, the server stays dead; once
it released, there is no session, and only one that kills holds what it took) and `Transports`
(what is open is the session, one that a reconnect or `Close` took and has not killed yet, or one about
to be adopted or discarded). None of the safety properties is inductive without them: `OneConnection`
needs to know that the old session is killed before the new one is built, unless `Close` took it, and
that nobody else builds; `NothingLeaks` that whatever is open is in somebody's hands. From it:
`ServerTypeCorrect`, `ReconnectIsSingle`,
`CloseIsComplete`, `CondemnationIsJust`, and with `Handed` (who holds a session) `NoNilSession`: a
call that goes on holds a session or an error, as long as the server is open. `FailuresCounted` counts
along: each step adds nothing, a lost response, a failed connect or a denial, and one to the
counter with it (`CountsNothing` and its siblings); a call is lost only once, because it keeps its result.

`RunLifecycleProofs`: `RunsExclude`, for any number of processes, starts and kills. The invariant
`LInv` says that every process has the same file open, the one the path names (`OneFile`), that
a process has opened before it locks, that a refused one is on its way out, and that
whoever is past the lock holds the flock of its file (`InsideHolds`). One file and one holder
per file give exclusion; `OneFile` is where it matters that the file is never removed.

For what a process leaves behind, `LifeInv` says the same of each process (`Local`), and nothing of two, so that a step
keeps it for the process that moves by one lemma per kind of step (`RouteKeeps` for the many that only
go from one place to another, with the table `Route` of where from, where to and with what cause) and for
the others because they stay as they are (`OthersStay`). `StopIsSeen` ties the cause to when the
context ended, `GateIsKept` the place of the gate to the cause and to the required servers, `DialIsKept`
what a server is to where the run is, `LogIsKept` what is in the log to the dials and to how far
the close has come, and `FailuresAreKept` the count of failures to the servers that are missing. From it
`LogsAreClosed`, `ExitsTellTheCause` and, with what the fold of `connectMCP` makes of the results (`JudgeAll`: after k
servers the registry holds what the first k show, unless a name clashed or a required one is down),
`ToolsAlwaysFollow`: the order of answers is nowhere in that fold.

`OAuthLoginProofs`: `CredentialSpentOnce` and `StoreOnlyAdvances` for any number of runs and calls. `OInv` says
that exactly the holder of the store's lock exchanges or saves (`Exclusive`), and that under the lock the
file holds the record under exchange or, after a logout, nothing (`HolderSees`): a logout takes no lock,
but it never puts a record back. So what the file holds has not been exchanged unless its successor
is about to be saved (`NotYetSpent`); numbers of access tokens (`Numbered`, `GrantIsNew`) say why a
new record is no old one.

`ToolCallProofs`: `ResultIsTold`. `CallInv` puts the events in the order the code's waits give them: no child before
a call is invoked (`Early`), a child is killed only by a call that is over (`Killings`), `Wait` says `none`
only of a child that exited well and was not cancelled (`Waited`), and a stream has dropped
something exactly if more was written than kept (`Counted`).

The same module proves `OnlyPermittedCallsBegin`. Each guard is first shown to decide what its rules mean,
by induction over a pattern, a profile, a line or a path of any length:

- `GlobMatchIsMeans`: `Tracks` says, after each symbol of the pattern, which rests of the string the meaning
  still allows. Behind a star these are the ends of every occurrence of the part since that star
  (`Ends`), while the code keeps the first occurrence alone; a further star makes the two the same
  (`TakeStar`), which is why looking from the left never misses a match.
- `PolicyIsTheRuling`: after any part of the entries the fold holds the strictest of what was said
  (`Strictest`), so the order of the Go map is nowhere in the outcome.
- `UnrejectedPasses`: trimming is the only way to bare a line of its blanks (`BareIsOnly`), so no
  indentation changes which patterns mean it.
- `ConfinedStaysBelow`: unless the cleaned path climbs out at its front, it is as long as the walk is
  deep and the walk was never above the workspace (`Below`).
- `NamesAreValid`, `NamesAreOwn`, `DenialCovers`: an effective name fits the ceiling and the alphabet, belongs
  to one tool of its server, and is meant by a rule `<server>__*`.

`GuardInv` then carries this through the call: an open question means that the ruling is to ask and that
there is a terminal; an invoked call was allowed, or asked about and answered with a yes.

`ChatCallProofs`: `EnforcementTold`. `EInv` says that a schema in the body was asked for
(`SchemaWasAsked`) and that the flag is what the body says, at every point of the retries
and fallbacks (`FlagTellsTheBody`), not only when an answer arrives.

`SinkTold` and `WholeAnswerGiven` rest on `SInv`, for any answer, any split into fragments and any number of
attempts. `InOrder` says that of two items nothing tells apart the later has not begun before the
earlier is whole; `Assembled` that what has been put together is, kind by kind, what was sent of each item,
joined: one block for each item that has begun where there is an index to go by (`OneEach`), the pieces
in the order of the items where there is none (`InTurn`). The end is sent last, so an answer that
is handed out has every fragment, and until then the sink was told just the text sent so far. The
steps of the folds, and the induction over the items, come from `FoldTheorems`. A first attempt at this
failed on a model that let two texts of an openai answer alternate. They share one builder in
the client and nothing in the wire tells them apart (`Indexed`): such an answer could not be put together
by anyone, and the model now sends them one after the other.

`ChatPromptProofs`: `TerminalHandedBack`. `PInv` says that the terminal is raw exactly while there is
something to restore, and bracketed only while raw (`RawIsOwed`); that a read which has not begun or is
over owes nothing (`ReaderOwes`); that only a REPL that waits, or is closing after it gave up
waiting, has a read under way (`OneReader`); and that nothing becomes raw behind a closed editor
(`CloseOwes`). The last is what an abandoned read threatens: it may still be on its way into raw
mode, or out of it, when `Close` runs.

`EditsMeant`, in the same module, is a refinement in the small: while keys are read, buffer, cursor
and place in the history agree with the zipper and its draft (`Agrees`). One lemma per key keeps that, for lines,
pastes and histories of any size; that the window holds the cursor (`DrawnHolds`) follows from it. A paste
that has missed its end marker keeps the two in step as well, as text for text, but what is typed
then is no longer what the keys mean, so the theorem does not claim it.

Only model-checked:

- `Terminates`, `WaitersAreReleased`, `CallsEnd`, `CallIsBounded` and `WaitIsInterruptible`: liveness under fairness is
  out of this prover's reach.
- The six properties of resume. Each relates two folds over a log that was cut at any point and
  chained to others: an invariant of them has to say, for every prefix of every log the loop can write,
  what the replay makes of it. `LogTells` proves the half of that which concerns the loop's own log.

## 5. Where code and documents disagree

1. **Model change refuses an untouched chain** (`model_change`). `docs/contracts/cli.md:371` says a changed
   model only drops carriers. But an answer of nothing but reasoning is a message only if its
   carrier is restored, so under another model the parent has one message less than its
   child's `run_start` recorded, and `continues` (`resume.go:350`) refuses.
2. **A replaced token condemned** (`oauth_replaced`). `oauth.go:358` says that the refusal of a call
   which was in flight with the old token says nothing about its replacement. `token` (`oauth.go:350`)
   compares the refused token with `lastForced` alone. An unforced refresh replaces the token
   without touching `lastForced`, so a late refusal of the token before it ends the authorization
   of the run.
3. **A command that succeeded reported as a harness failure** (`toolcall_errors`). `subprocess.go:135`
   reserves the returned error for failures of the harness. A child that exits 0 and leaves a
   process holding its pipe makes `Wait` return `ErrWaitDelay` while neither the run nor the tool's
   timeout has ended; `subprocess.go:224` returns it bare and the output is dropped.
Observed while modelling, without a run:

- `jsonl-events.md:68` says each id of `tool_call_ids` reappears on its `tool_call`/`tool_result`. When the
  answer exceeds the token budget (`loop.go:487`), or an earlier call of a sequential turn
  aborts the run (`loop.go:841`), they do not. Resume copes with it (it drops them).
- `cli.md:351` says a log needs an instruction because it already produced a final answer.
  `resume.go:634` sets `Completed` for any last answer without tool calls, so a run that *failed* on
  an empty, truncated or rejected answer is refused as completed.
- `tool.go:154` says a failed reconnect already counted. One cut short by its own caller's timeout
  is not counted (`server.go:844`), yet its error goes to every waiter (`server.go:803`).
- `Close` between `adopt` and the second lock of `session()` (`server.go:782`) lets the caller
  leave with a nil session and no error. The program never closes before its calls are
  joined, and `NoNilSession` is proved for an open server.
- A slow waiter reads `reconnectErr` after a later attempt replaced it
  (`server.go:800`) and may report that attempt's error, or use its session.
- A reconnect cut short leaves an `mcp_disconnect` without a following `mcp_connect`;
  the next one writes a second, although `jsonl-events.md:258` speaks of pairs.
- `resume.go:334` says every way a log can change moves one of the compared facts. A
  `provider_fallback` appended by a writer that is still alive moves none; it only
  takes the carriers out of the replay.
- The second look at the file after `invalid_grant` happens under the lock the first look took,
  so it can only find a deletion or a record written without the lock; a refresh by another
  run cannot be there. A failed save throws the rotated token away: the next refresh uses a
  burnt one. A logout can delete the record of a login that finished after it looked, and
  be undone by a save that was under way. `lastForced` is also set when the forced path merely
  adopts a record another run wrote.
- One attempt looks at its two fallbacks once each, openai at the schema first (`openai.go:437`) and
  gemini at the stream (`gemini.go:701`). An endpoint that refuses both fields but complains of one at
  a time, in the other order, fails the call.
- The credential question does not see a signal (`mcp_wiring.go:857`): it is noticed after the answer,
  at the next server or at the next step, and a refusal wins over it. `ExitTellsTheCause` is
  therefore stated for a stop anywhere else before the loop.
- A server refused for its tool names is logged `ok: false` but not counted in `mcp_errors`, and so is one
  that failed genuinely before an interruption was noticed. `LogIsClosed` states the count for
  runs that were not stopped before their loop.
- `ReadLine` delivers a final unterminated line, but a hang-up inside an escape sequence or a paste
  loses it (`lineedit.go:265`, `lineedit.go:327` against `lineedit.go:154`). `readEntry` returns the end of
  input together with a continuation although its comment promises it for the next read.
- A paste need not end with its end marker, although `lineedit.go:322` says that it is everything up to it.
  The rune after an escape is text, an escape included (`lineedit.go:342`), and a sequence once opened
  eats what follows up to its final byte (`lineedit.go:345`). When the block ends in an escape or in the
  start of a sequence, either takes the escape of the end marker, the rest of the marker becomes
  text, and every later key, Enter and ^C included, is pasted too, until another paste or the input
  ends. `MissMarker` is this step, and `EditsAreMeant` excepts what is typed after it.
- Control keys inside a paste are text, and approval questions ignore the context.

## 6. Plan

Done: the loop with its log contract and wire; chat; resume with chains; the MCP connection; the
start of the servers, the run lock and the life of a run; OAuth with login and logout; the model
clients; permissions and tools; the line editor. Every safety property of these is proved but the six of
resume. What is left is to prove them, from lemmas about `CloseTurn`, `Continues` and `Chained` and first of all
`ChangedParentIsRefused`. They fit into `AgentLoopProofs`, whose invariants they need.

## 7. Not modelled, and why

- **Google credentials**: one token behind one mutex, replaced near its end; `Token` is a single
  critical section, so nothing about it needs an interleaving.
- **Dialects, schemas, output schema, configuration**: pure and sequential translation or
  validation of one document, covered by golden files and tables; the models take a valid
  configuration as given and what a dialect can enforce as a parameter.
- **Context files**: one blocking read given up when the context ends, the shape `ChatPrompt` has.
- **Explain, doctor, completions**: reports printed from a configuration.
- **MCP transports**: the process group, line caps, headers and body caps of a transport; their
  failures are free in `McpServer`, `McpStartup` and `ToolCall`.
- A turn of the model with neither text, calls nor carrier: gemini leaves it out of the body
  (`gemini.go:1350`), anthropic sends it without blocks (`anthropic.go:1028`). The loop ends a run on such
  an answer, so `RequestWire` never has one in a body.
- That the store's record may come back after a logout, by a save that was under way: `Delete` takes no
  lock, and `StoreAdvances` is about logins and refreshes. That a request which fails because the run's own
  context ended is no outage is one guard (`MaySwitch`), and no property restates it.
- Texts, formats, redaction and progress output; the byte caps of logged fields and the
  gates that refuse a clipped log (the logs here are written whole); swallowed write
  errors, which make holes in a log and most of the claims about it false; logs of
  schema versions before v1.11; cycles of `resumed_from` (a log here only continues an
  earlier one).
- The length of a backoff and of a refresh margin's jitter; the digest in a shortened tool name is
  one injective symbol; the loop's own cap on a result, beside the one of the tool.
- In the line editor keys are tokens, escape sequences atomic and an end marker that became text is
  one rune, and drawing is the window that is shown. The Windows lock and console are left out.

## 8. Running it

    tlc -workers 2 -config AgentLoopTurns.cfg MCAgentLoop
    tlapm AgentLoopProofs.tla

Each `.cfg` opens with a line saying what its instance is; `PROJECT.json` names the module
each belongs to.
