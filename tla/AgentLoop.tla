------------------------------ MODULE AgentLoop ------------------------------
(***************************************************************************)
(* The agent loop of amele: one call of Loop.RunMessages                   *)
(* (internal/loop/loop.go).  A turn asks the active backend once; the      *)
(* answer either requests tool calls, which are announced, ruled on, run   *)
(* and reported, or is a final answer, which the validator may send back.  *)
(*                                                                         *)
(* The environment is a provider that may answer anything in Responses or  *)
(* fail, tools that return whenever they like, and a context that ends     *)
(* (deadline or signal) between any two steps.  Texts are abstracted: a    *)
(* message is its role, the turn it belongs to, the tool call it answers   *)
(* and the wire family of the reasoning carrier it holds.                  *)
(*                                                                         *)
(* Every step writes at most one event to the session log, so each state   *)
(* is also a point where the process may be killed.                        *)
(***************************************************************************)
EXTENDS Integers, Sequences, SequencesExt, FiniteSets

CONSTANTS
    Chain,                 \* wire family of each backend: Chain[1] is the primary,
                           \* Chain[n + 1] is Fallbacks[n - 1]
    NoCarrier,             \* "this message holds no reasoning carrier"
    MaxTurns, MaxTokens,   \* limits.max_turns, limits.max_tokens (0: no token limit)
    MaxInt,                \* the largest int
    HasValidator,          \* Loop.FinalValidator is set
    MaxFinalRejections,    \* 0: no cap of its own
    ParallelTools,         \* tools.parallel
    MaxParallelToolCalls,  \* the slots of dispatchParallel
    Responses,             \* the answers the provider may give
    ErrorKinds             \* the failures it may report: does the error wrap ErrProvider?

Families == {Chain[i] : i \in 1..Len(Chain)}
Carriers == Families \cup {NoCarrier}

(* What the approver says of a call: run it, refuse it and go on, abort the *)
(* run, or fail to rule at all (an error, or a decision out of range).      *)
Rulings  == {"allow", "deny", "abort", "broken"}
Aborting == {"abort", "broken"}

(* auto: autoApproved, no human can be asked about this call. *)
Call == [auto : BOOLEAN, ruling : Rulings]

Usage == [in : 0..MaxInt, out : 0..MaxInt]
NoUsage == [in |-> 0, out |-> 0]

Response == [calls : Seq(Call), usage : Usage, usageMissing : BOOLEAN,
             finish : {"stop", "", "length", "content_filter", "error", "custom"},
             empty : BOOLEAN, reasoning : BOOLEAN]

ASSUME LoopAssumption ==
    /\ Chain \in Seq(STRING) /\ Len(Chain) >= 1
    /\ NoCarrier \notin Families
    /\ MaxTurns \in Nat /\ MaxTokens \in Nat
    /\ MaxInt \in Nat
    /\ HasValidator \in BOOLEAN /\ ParallelTools \in BOOLEAN
    /\ MaxFinalRejections \in Nat
    /\ MaxParallelToolCalls \in Nat \ {0}
    /\ Responses \subseteq Response
    /\ ErrorKinds \subseteq {"provider", "other"}

VARIABLES
    (* fields of the Loop *)
    limits, turnBase,      \* Limits, TurnBase
    active,                \* position on the chain: 0 is the primary
    (* locals of RunMessages and its Result *)
    pc, turn, rejections, usage, toolCalls, fallbacks, messages, outcome,
    (* locals of the dispatch of one turn *)
    calls, announced, ruled, started, running, reported, published, outputs, failure,
    (* shared with the rest of the process *)
    ctx, log,
    (* auxiliary: the tokens the provider really reported, never truncated *)
    spent

dispatchVars == <<calls, announced, ruled, started, running, reported, published, outputs, failure>>
resultVars   == <<usage, toolCalls, fallbacks, spent>>
vars == <<limits, turnBase, active, pc, turn, rejections, messages, outcome, ctx, log,
          resultVars, dispatchVars>>

-----------------------------------------------------------------------------
(* Events of the session log.  n is the number of requested calls of an     *)
(* llm_response, the call's position for a tool event, the new position on  *)
(* the chain for a fallback.  A tool event carries no turn of its own: it   *)
(* belongs to the llm_response it follows.  said is what an llm_response    *)
(* records of the answer: whether it has text, and its reasoning payload    *)
(* (the log is written with log_reasoning: true).                           *)
Said == [text : BOOLEAN, carrier : Carriers]
Silent == [text |-> FALSE, carrier |-> NoCarrier]
Event(type, t, n) == [type |-> type, turn |-> t, n |-> n, said |-> Silent]
Answer(t, n, said) == [Event("llm_response", t, n) EXCEPT !.said = said]
RunStart(t) == Event("run_start", t, 0)

(* The number the log gives the turn in progress. *)
Numbered == turnBase + turn
Log(type, n) == log' = Append(log, Event(type, Numbered, n))

(* Messages of the history.  A tool message carries the id of the call it   *)
(* answers (n) and the text of one call's result (of).                      *)
Message(role, t, n, of, carrier) ==
    [role |-> role, turn |-> t, n |-> n, of |-> of, carrier |-> carrier]
UserMessage(t) == Message("user", t, 0, 0, NoCarrier)
AssistantMessage(t, n, carrier) == Message("assistant", t, n, 0, carrier)
ToolMessage(t, n, of) == Message("tool", t, n, of, NoCarrier)

(* Usage.Add and Usage.Total saturate at MaxInt instead of wrapping. *)
WrappingAdd(a, b) == (a + b) % (MaxInt + 1)   \* seeded defect
SaturatingAdd(a, b) == IF b > MaxInt - a THEN MaxInt ELSE a + b
UsageAdd(u, v) == [in |-> SaturatingAdd(u.in, v.in), out |-> SaturatingAdd(u.out, v.out)]
UsageTotal(u) == SaturatingAdd(u.in, u.out)

BadFinish(r) == r.finish \in {"length", "content_filter", "error"} \/ r.empty

OverTokenBudget(r, total) ==
    limits.tokens > 0 /\ (r.usageMissing \/ UsageTotal(total) > limits.tokens)

(* wrapContextErr: only a deadline is a budget kill. *)
ContextOutcome == IF ctx = "deadline" THEN "budget" ELSE "failed"

FailureOf(ruling) == IF ruling = "abort" THEN "permission" ELSE "failed"

(* stripCarriers: a copy of the history without any reasoning carrier. *)
StripLastCarrier(msgs) == [msgs EXCEPT ![Len(msgs)].carrier = NoCarrier]   \* seeded defect
StripCarriers(msgs) == [i \in DOMAIN msgs |-> [msgs[i] EXCEPT !.carrier = NoCarrier]]

Backend(position) == Chain[position + 1]

-----------------------------------------------------------------------------
(* The state in which RunMessages is entered with a history. *)
Enter(history) ==
    /\ pc = "head" /\ turn = 0 /\ rejections = 0
    /\ messages = history /\ outcome = "none"
    /\ usage = NoUsage /\ spent = NoUsage /\ toolCalls = 0 /\ fallbacks = 0
    /\ calls = <<>> /\ announced = 0 /\ ruled = 0 /\ started = 0 /\ running = {}
    /\ reported = 0 /\ published = 0 /\ outputs = <<>> /\ failure = "none"

(* The same, as the step in which a caller enters it again. *)
Reenter(history) ==
    /\ pc' = "head" /\ turn' = 0 /\ rejections' = 0
    /\ messages' = history /\ outcome' = "none"
    /\ usage' = NoUsage /\ spent' = NoUsage /\ toolCalls' = 0 /\ fallbacks' = 0
    /\ calls' = <<>> /\ announced' = 0 /\ ruled' = 0 /\ started' = 0 /\ running' = {}
    /\ reported' = 0 /\ published' = 0 /\ outputs' = <<>> /\ failure' = "none"

(* A run opens with its task, or with the history a resumed run rebuilt,    *)
(* which may hold carriers of the primary's own family.                     *)
OpeningHistories ==
    {<<UserMessage(0)>>,
     <<UserMessage(0), AssistantMessage(0, 0, Backend(0)), UserMessage(0)>>}

Init ==
    /\ \E history \in OpeningHistories : Enter(history)
    /\ limits = [turns |-> MaxTurns, tokens |-> MaxTokens] /\ turnBase = 0
    /\ active = 0 /\ ctx = "live"
    /\ log = <<RunStart(0)>>

Return(o) == pc' = "returned" /\ outcome' = o

(* The signal handler cancels the context, or limits.timeout expires. *)
ContextEnds ==
    /\ ctx = "live" /\ pc # "returned"
    /\ ctx' \in {"cancelled", "deadline"}
    /\ UNCHANGED <<limits, turnBase, active, pc, turn, rejections, messages, outcome, log,
                   resultVars, dispatchVars>>

-----------------------------------------------------------------------------
(* The loop head: the turn budget, then the context, then the next request. *)
TurnsExhausted ==
    /\ pc = "head" /\ turn + 1 > limits.turns
    /\ Return("budget")
    /\ UNCHANGED <<limits, turnBase, active, turn, rejections, messages, ctx, log,
                   resultVars, dispatchVars>>

ContextSeen ==
    /\ pc = "head" /\ turn + 1 <= limits.turns /\ ctx # "live"
    /\ Return(ContextOutcome)
    /\ UNCHANGED <<limits, turnBase, active, turn, rejections, messages, ctx, log,
                   resultVars, dispatchVars>>

Ask ==
    /\ pc = "head" /\ turn + 1 <= limits.turns /\ ctx = "live"
    /\ turn' = turn + 1 /\ pc' = "asking"
    /\ UNCHANGED <<limits, turnBase, active, rejections, messages, outcome, ctx, log,
                   resultVars, dispatchVars>>

(* The request failed.  A failure caused by the end of our own context is   *)
(* not an outage, so the context is looked at first.                        *)
AskInterrupted ==
    /\ pc = "asking" /\ ctx # "live"
    /\ Return(ContextOutcome)
    /\ UNCHANGED <<limits, turnBase, active, turn, rejections, messages, ctx, log,
                   resultVars, dispatchVars>>

(* switchBackend: the retry is an ordinary turn on the next backend. *)
MaySwitch == pc = "asking" /\ ctx = "live"

SwitchBackend ==
    /\ MaySwitch
    /\ "provider" \in ErrorKinds /\ active < Len(Chain) - 1
    /\ active' = active + 1 /\ fallbacks' = fallbacks + 1
    /\ Log("provider_fallback", active + 1)
    /\ messages' = IF Backend(active + 1) # Backend(active)
                   THEN StripCarriers(messages) ELSE messages
    /\ pc' = "head"
    /\ UNCHANGED <<limits, turnBase, turn, rejections, outcome, ctx,
                   usage, toolCalls, spent, dispatchVars>>

ChainExhausted(kind) ==
    /\ pc = "asking" /\ ctx = "live"
    /\ kind = "other" \/ active >= Len(Chain) - 1
    /\ Return(IF kind = "provider" THEN "provider" ELSE "failed")
    /\ UNCHANGED <<limits, turnBase, active, turn, rejections, messages, ctx, log,
                   resultVars, dispatchVars>>

(* The request was answered: account, log, check the token budget, then     *)
(* look at the answer.                                                      *)
Respond(r) ==
    LET total == UsageAdd(usage, r.usage)
        carrier == IF r.reasoning THEN Backend(active) ELSE NoCarrier
        reply == AssistantMessage(Numbered, Len(r.calls), carrier)
        said == [text |-> ~r.empty, carrier |-> carrier]
    IN  /\ pc = "asking"
        /\ usage' = total
        /\ spent' = [in |-> spent.in + r.usage.in, out |-> spent.out + r.usage.out]
        /\ log' = Append(log, Answer(Numbered, Len(r.calls), said))
        /\ calls' = r.calls
        /\ announced' = 0 /\ ruled' = 0 /\ started' = 0 /\ running' = {}
        /\ reported' = 0 /\ published' = 0 /\ outputs' = <<>> /\ failure' = "none"
        /\ \/ /\ OverTokenBudget(r, total)
              /\ Return("budget") /\ UNCHANGED messages
           \/ /\ ~OverTokenBudget(r, total)
              /\ messages' = Append(messages, reply)
              /\ \/ r.calls # <<>> /\ pc' = "dispatch" /\ UNCHANGED outcome
                 \/ r.calls = <<>> /\ BadFinish(r) /\ Return("failed")
                 \/ r.calls = <<>> /\ ~BadFinish(r) /\ pc' = "judge" /\ UNCHANGED outcome
        /\ UNCHANGED <<limits, turnBase, active, turn, rejections, ctx, toolCalls, fallbacks>>

(* validateFinal accepts a clean final answer ...  *)
Accept ==
    /\ pc = "judge"
    /\ Return("success")
    /\ UNCHANGED <<limits, turnBase, active, turn, rejections, messages, ctx, log,
                   resultVars, dispatchVars>>

RejectionsSpent == MaxFinalRejections > 0 /\ rejections >= MaxFinalRejections

(* ... refuses it for the last time ... *)
RejectLast ==
    /\ pc = "judge" /\ HasValidator /\ RejectionsSpent
    /\ Return("rejected")
    /\ UNCHANGED <<limits, turnBase, active, turn, rejections, messages, ctx, log,
                   resultVars, dispatchVars>>

(* ... or sends it back with feedback, which the log records as a turn of   *)
(* the conversation.                                                        *)
Reject ==
    /\ pc = "judge" /\ HasValidator /\ ~RejectionsSpent
    /\ rejections' = rejections + 1
    /\ messages' = Append(messages, UserMessage(Numbered))
    /\ Log("validator_feedback", 0)
    /\ pc' = "head"
    /\ UNCHANGED <<limits, turnBase, active, turn, outcome, ctx, resultVars, dispatchVars>>

-----------------------------------------------------------------------------
(* Dispatch of one turn's calls.  announced, ruled, started and reported    *)
(* count how far each stage got, in call order.  dispatchCalls takes one    *)
(* call through all stages before the next; dispatchParallel takes all      *)
(* calls through one stage before the next.                                 *)
ParallelUnasked(cs) == ParallelTools /\ Len(cs) >= 2   \* seeded defect
Parallelizable(cs) == ParallelTools /\ Len(cs) >= 2 /\ \A i \in DOMAIN cs : cs[i].auto

Aborted == failure # "none" /\ ~Parallelizable(calls)

AnnounceAhead == ~Aborted                     \* seeded defect
PastTheAbort == Parallelizable(calls) \/ announced = reported   \* seeded defect
MayAnnounce == ~Aborted /\ (Parallelizable(calls) \/ announced = reported)

Announce ==
    /\ pc = "dispatch" /\ MayAnnounce
    /\ announced < Len(calls)
    /\ announced' = announced + 1
    /\ Log("tool_call", announced + 1)
    /\ UNCHANGED <<limits, turnBase, active, pc, turn, rejections, messages, outcome, ctx, resultVars,
                   calls, ruled, started, running, reported, published, outputs, failure>>

(* approveCall: the ruling is the call's own; only its moment is modelled. *)
Rule ==
    /\ pc = "dispatch"
    /\ ruled < announced
    /\ Parallelizable(calls) => announced = Len(calls)
    /\ ruled' = ruled + 1
    /\ UNCHANGED <<limits, turnBase, active, pc, turn, rejections, messages, outcome, ctx, log, resultVars,
                   calls, announced, started, running, reported, published, outputs, failure>>

(* The slot is taken before the tool is started; a refused call runs nothing. *)
Allowed(call) == call.ruling = "allow"

Start ==
    /\ pc = "dispatch"
    /\ started < ruled
    /\ Parallelizable(calls) => ruled = Len(calls)
    /\ started' = started + 1
    /\ \/ /\ Allowed(calls[started + 1])
          /\ Cardinality(running) < MaxParallelToolCalls
          /\ running' = running \cup {started + 1}
       \/ ~Allowed(calls[started + 1]) /\ UNCHANGED running
    /\ UNCHANGED <<limits, turnBase, active, pc, turn, rejections, messages, outcome, ctx, log, resultVars,
                   calls, announced, ruled, reported, published, outputs, failure>>

(* runCall returns: the tool finished, in whatever order tools finish. *)
FinishUnjoined(i) == i \in running /\ UNCHANGED vars       \* seeded defect
Finish(i) ==
    /\ i \in running
    /\ running' = running \ {i}
    /\ UNCHANGED <<limits, turnBase, active, pc, turn, rejections, messages, outcome, ctx, log, resultVars,
                   calls, announced, ruled, started, reported, published, outputs, failure>>

(* publish, once the stage before it is joined.  An aborting result is      *)
(* logged but not counted; after it nothing more reaches the history.       *)
Publish ==
    LET i == reported + 1 IN
    /\ pc = "dispatch"
    /\ reported < started /\ running = {}
    /\ Parallelizable(calls) => started = Len(calls)
    /\ reported' = i
    /\ Log("tool_result", i)
    /\ \/ /\ calls[i].ruling \in Aborting
          /\ failure' = IF failure = "none" THEN FailureOf(calls[i].ruling) ELSE failure
          /\ UNCHANGED <<published, outputs>>
       \/ /\ calls[i].ruling \notin Aborting
          /\ published' = published + 1
          /\ outputs' = IF failure = "none" THEN Append(outputs, i) ELSE outputs
          /\ UNCHANGED failure
    /\ UNCHANGED <<limits, turnBase, active, pc, turn, rejections, messages, outcome, ctx, resultVars,
                   calls, announced, ruled, started, running>>

(* Back in RunMessages: outputs[i] answers ToolCalls[i], and the Result      *)
(* counts what the log says ran, not what the model was told.               *)
CountTold == Len(outputs)                     \* seeded defect
CountPublished == published

AnswersOfTheAllowed ==                        \* seeded defect
    LET ran == SelectSeq(outputs, LAMBDA i : Allowed(calls[i]))
    IN  [i \in 1..Len(ran) |-> ToolMessage(Numbered, i, ran[i])]
ToolAnswers == [i \in 1..Len(outputs) |-> ToolMessage(Numbered, i, outputs[i])]

EndDispatch ==
    /\ pc = "dispatch"
    /\ reported = Len(calls) \/ Aborted
    /\ toolCalls' = toolCalls + CountPublished
    /\ messages' = messages \o ToolAnswers
    /\ \/ failure = "none" /\ pc' = "head" /\ UNCHANGED outcome
       \/ failure # "none" /\ Return(failure)
    /\ UNCHANGED <<limits, turnBase, active, turn, rejections, ctx, log, usage, fallbacks, spent, dispatchVars>>

-----------------------------------------------------------------------------
LoopStep ==
    \/ TurnsExhausted \/ ContextSeen \/ Ask
    \/ AskInterrupted \/ SwitchBackend
    \/ \E kind \in ErrorKinds : ChainExhausted(kind)
    \/ \E r \in Responses : Respond(r)
    \/ Accept \/ RejectLast \/ Reject
    \/ Announce \/ Rule \/ Start \/ Publish \/ EndDispatch
    \/ \E i \in running : Finish(i)

(* RunMessages has returned to its caller. *)
Returned == pc = "returned" /\ UNCHANGED vars

Next == LoopStep \/ ContextEnds \/ Returned

Spec == Init /\ [][Next]_vars

(* The loop's goroutine runs while it can; a request returns (the clients   *)
(* bound each attempt), an approval question is answered by the human, and  *)
(* every tool returns (tools honor their timeout and the context).          *)
FairSpec == Spec /\ WF_vars(LoopStep)
-----------------------------------------------------------------------------
(* Type invariant of the loop's state. *)
EventType ==
    [type : {"run_start", "llm_response", "provider_fallback", "validator_feedback",
             "tool_call", "tool_result"},
     turn : Nat, n : Nat, said : Said]
MessageType ==
    [role : {"user", "assistant", "tool"}, turn : Nat, n : Nat, of : Nat, carrier : Carriers]

TypeOK ==
    /\ limits \in [turns : Nat, tokens : Nat] /\ turnBase \in Nat
    /\ active \in 0..Len(Chain) - 1
    /\ pc \in {"head", "asking", "judge", "dispatch", "returned"}
    /\ turn \in Nat /\ rejections \in Nat /\ usage \in Usage
    /\ toolCalls \in Nat /\ fallbacks \in Nat
    /\ messages \in Seq(MessageType)
    /\ outcome \in {"none", "success", "budget", "permission", "provider", "rejected", "failed"}
    /\ calls \in Seq(Call)
    /\ announced \in Nat /\ ruled \in Nat /\ started \in Nat /\ reported \in Nat
    /\ published \in Nat
    /\ running \in SUBSET Nat
    /\ outputs \in Seq(Nat)
    /\ failure \in {"none", "permission", "failed"}
    /\ ctx \in {"live", "cancelled", "deadline"}
    /\ log \in Seq(EventType)
    /\ spent \in [in : Nat, out : Nat]

(* A request is only ever in flight while both budgets still have room, by  *)
(* the tokens the provider really reported: a total that would not fit an   *)
(* int must not look cheap (Usage.Add, checkTokenBudget).                   *)
AskWithinBudget ==
    pc = "asking" =>
        /\ turn <= limits.turns
        /\ limits.tokens \in 1..MaxInt - 1 => spent.in + spent.out <= limits.tokens

(* No backend is sent a reasoning carrier another wire family produced,     *)
(* however the run moved along the chain (stripCarriers).                   *)
CarriersStayHome ==
    pc = "asking" =>
        \A i \in DOMAIN messages : messages[i].carrier \in {NoCarrier, Backend(active)}

(* While a request is in flight the log tells the conversation the model is *)
(* having, message for message: what --resume reads back is what was sent.  *)
(* The messages a run opens with have turn 0, its own have later ones.      *)
Tell(msgs, e) ==
    CASE e.type = "llm_response"       -> Append(msgs, AssistantMessage(e.turn, e.n, NoCarrier))
      [] e.type = "tool_result"        -> Append(msgs, ToolMessage(e.turn, e.n, e.n))
      [] e.type = "validator_feedback" -> Append(msgs, UserMessage(e.turn))
      [] OTHER                         -> msgs
SinceEntered(msgs, m) == IF m.turn > 0 THEN Append(msgs, [m EXCEPT !.carrier = NoCarrier]) ELSE msgs
LogTellsTheConversation ==
    pc = "asking" => FoldLeft(SinceEntered, <<>>, messages) = FoldLeft(Tell, <<>>, log)

(* Tools overlap only on a turn nobody can be asked about, never more than  *)
(* the slots allow, and no approval question is still open while one runs.  *)
ConcurrencyIsGuarded ==
    /\ Cardinality(running) <= MaxParallelToolCalls
    /\ running # {} => ruled = announced
    /\ Cardinality(running) > 1 => \A i \in DOMAIN calls : calls[i].auto

(* A tool runs with leave only, and the log always knows which are open:    *)
(* what runs was allowed, is announced and has no result yet.  On a turn    *)
(* somebody can be asked about, or that has a forbidden call, it runs       *)
(* alone: each call before it has its result in the log, and none of them   *)
(* ended the run (dispatchCalls).                                           *)
InTurn(type) ==
    {log[k].n : k \in {k \in DOMAIN log : log[k].type = type /\ log[k].turn = Numbered}}
EffectsArePermitted ==
    \A i \in running :
        /\ calls[i].ruling = "allow"
        /\ i \in InTurn("tool_call") \ InTurn("tool_result")
        /\ (\E k \in DOMAIN calls : ~calls[k].auto) =>
              \A j \in 1..i - 1 : j \in InTurn("tool_result") /\ calls[j].ruling \notin Aborting

(* The Result agrees with the log on every way out: each announced call is  *)
(* answered, all but the aborting ones are counted, and the attempts not    *)
(* answered are the switches plus at most the last one.                     *)
Count(type) == Cardinality({i \in DOMAIN log : log[i].type = type /\ log[i].turn > turnBase})
AbortingCalls ==
    Cardinality({i \in 1..reported : failure # "none" /\ calls[i].ruling \in Aborting})
AccountingMatchesLog ==
    pc = "returned" =>
        /\ Count("tool_call") = Count("tool_result")
        /\ toolCalls = Count("tool_result") - AbortingCalls
        /\ fallbacks = Count("provider_fallback")
        /\ turn - Count("llm_response") - fallbacks \in 0..1
        /\ Count("validator_feedback") = rejections

LastEvent == log[Len(log)]
IsFinalAnswer(e) == e.type = "llm_response" /\ e.n = 0

(* Every run ends, whatever the provider and the tools answer. *)
Terminates == <>(pc = "returned")

(* The log of a run keeps the ordering contract, whatever its answers say. *)
Outline == [i \in DOMAIN log |-> [type |-> log[i].type, turn |-> log[i].turn, n |-> log[i].n]]
Contract == INSTANCE LogContract
                WITH log <- Outline,
                     Turns <- 1..MaxTurns,
                     Widths <- {Len(r.calls) : r \in Responses},
                     Positions <- 1..Len(Chain) - 1,
                     width <- Len(calls), called <- announced, answered <- reported
KeepsLogContract == Contract!Spec
=============================================================================
