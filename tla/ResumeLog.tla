------------------------------ MODULE ResumeLog ------------------------------
(***************************************************************************)
(* What --resume reads back from a session log (internal/resume): a fold   *)
(* over the events of one log, and the chain of logs a resumed run names.  *)
(* Nothing here changes state; ResumedRun runs the loop on the result.     *)
(*                                                                         *)
(* The logs are whole records (limits.max_logged_field: 0 and              *)
(* log_reasoning: true), cut at any event: a torn last line is no event.   *)
(* A model value stands for the provider identity and the model together.  *)
(***************************************************************************)
EXTENDS AgentLoop, SequencesExt

CONSTANTS
    NoFile,                  \* run_start.resumed_from of a run that continues nothing
    MaxChainLinks            \* how many logs a resume follows

ASSUME ResumeAssumption == MaxChainLinks \in Nat \ {0}

(* The operator's follow-up, told apart from the task and from feedback. *)
Instruction == Message("user", 0, 1, 0, NoCarrier)

(* A call the old run announced and never answered: the stand-in carries no *)
(* call's result.                                                           *)
PendingResult(t, n) == ToolMessage(t, n, 0)

-----------------------------------------------------------------------------
(* One log.  The builder holds the replay so far and the one open turn:     *)
(* where its assistant message is (0: nowhere), how many calls it expects,  *)
(* and which of them were called and answered.                              *)
HasFallback(events) == \E i \in DOMAIN events : events[i].type = "provider_fallback"

AnyModel(written, current, events) == ~HasFallback(events)   \* seeded defect
CarriersAllowed(written, current, events) == written = current /\ ~HasFallback(events)

NewBuilder(written, current, events) ==
    [messages |-> <<UserMessage(0)>>, lastTurn |-> 0, completed |-> FALSE, pending |-> <<>>,
     links |-> 1, refused |-> FALSE, opened |-> FALSE, fedBack |-> FALSE,
     carriers |-> CarriersAllowed(written, current, events),
     assistant |-> 0, turn |-> 0, text |-> FALSE, expected |-> 0, called |-> {}, answered |-> {}]

Refuse(b) == [b EXCEPT !.refused = TRUE]

(* closeTurn: calls that were never dispatched are dropped, and with them   *)
(* the carrier that announces them; a turn with nothing left is dropped;    *)
(* a dispatched call without a result is answered by the stand-in.          *)
NoStandIns(b) == <<>>                         \* seeded defect
EveryCalled(b) == SetToSortSeq(b.called, <)   \* seeded defect
Unanswered(b) == SetToSortSeq(b.called \ b.answered, <)

EveryRequested(b) == b.expected               \* seeded defect
KeptCalls(b) == Cardinality(b.called)

Patched(b) ==
    LET whole   == Cardinality(b.called) = b.expected   \* no call was dropped
        carrier == IF whole THEN b.messages[b.assistant].carrier ELSE NoCarrier
    IN  IF b.text \/ b.called # {} \/ carrier # NoCarrier
        THEN [b.messages EXCEPT ![b.assistant] =
                 AssistantMessage(b.turn, KeptCalls(b), carrier)]
        ELSE SubSeq(b.messages, 1, b.assistant - 1)

CloseTurn(b) ==
    LET open == Unanswered(b)
    IN  [b EXCEPT !.messages = (IF b.assistant = 0 THEN b.messages ELSE Patched(b))
                                   \o [i \in DOMAIN open |-> PendingResult(b.turn, open[i])],
                  !.pending = @ \o [i \in DOMAIN open |-> <<b.turn, open[i]>>],
                  !.assistant = 0, !.expected = 0, !.called = {}, !.answered = {}]

(* llmResponse.  Two final answers in a row without feedback between them   *)
(* mean a user turn the log does not hold.                                  *)
OpenTurn(b, e) ==
    LET c == CloseTurn(b)
    IN  IF b.opened /\ b.expected = 0 /\ ~b.fedBack
        THEN Refuse(b)
        ELSE [c EXCEPT !.messages =
                           Append(@, AssistantMessage(e.turn, 0,
                                        IF b.carriers THEN e.said.carrier ELSE NoCarrier)),
                       !.assistant = Len(c.messages) + 1,
                       !.turn = e.turn, !.text = e.said.text, !.expected = e.n,
                       !.opened = TRUE, !.fedBack = FALSE,
                       !.lastTurn = IF e.turn > @ THEN e.turn ELSE @,
                       !.completed = e.n = 0]

(* validatorFeedback: the rejected answer is not one the run finished on. *)
StillCompleted(b) == b.completed              \* seeded defect
AfterFeedback(b) == FALSE

AddFeedback(b, e) ==
    IF ~b.opened \/ b.expected # 0 \/ e.turn # b.turn \/ b.fedBack
    THEN Refuse(b)
    ELSE [CloseTurn(b) EXCEPT !.messages = Append(@, UserMessage(e.turn)),
                              !.fedBack = TRUE, !.completed = AfterFeedback(b)]

AddCall(b, e) ==
    IF e.n \notin 1..b.expected \/ e.n \in b.called
    THEN Refuse(b)
    ELSE [b EXCEPT !.called = @ \cup {e.n}]

AddResult(b, e) ==
    IF e.n \notin 1..b.expected \/ e.n \notin b.called \/ e.n \in b.answered
    THEN Refuse(b)
    ELSE [b EXCEPT !.answered = @ \cup {e.n}, !.messages = Append(@, ToolMessage(b.turn, e.n, e.n))]

(* What the harness did rather than what the model was shown is skipped. *)
ReadEvent(b, e) ==
    CASE b.refused                     -> b
      [] e.type = "run_start"          -> Refuse(b)
      [] e.type = "llm_response"       -> OpenTurn(b, e)
      [] e.type = "validator_feedback" -> AddFeedback(b, e)
      [] e.type = "tool_call"          -> AddCall(b, e)
      [] e.type = "tool_result"        -> AddResult(b, e)
      [] OTHER                         -> b

ReadOne(written, current, events) ==
    CloseTurn(FoldLeft(ReadEvent, NewBuilder(written, current, events), Tail(events)))

-----------------------------------------------------------------------------
(* A chain of logs.  A run_start says which log its run continued, whether  *)
(* it was given an instruction, and what the parent looked like then: its   *)
(* turns, its pending calls and its number of messages.                     *)
Origin(from, instruction, replay) ==
    [from |-> from, instruction |-> instruction, turn |-> replay.lastTurn,
     pending |-> replay.pending, messages |-> Len(replay.messages)]
NoOrigin == [from |-> NoFile, instruction |-> FALSE, turn |-> 0, pending |-> <<>>, messages |-> 0]

InstructionOf(origin) == IF origin.instruction THEN <<Instruction>> ELSE <<>>

UncountedMessages(origin, parent) ==          \* seeded defect
    parent.lastTurn = origin.turn /\ parent.pending = origin.pending
Continues(origin, parent) ==
    /\ parent.lastTurn = origin.turn
    /\ parent.pending = origin.pending
    /\ Len(parent.messages) = origin.messages

Chained(parent, link, origin) ==
    [link EXCEPT !.messages = parent.messages \o InstructionOf(origin) \o Tail(@),
                 !.lastTurn = @ + parent.lastTurn,
                 !.links = parent.links + 1,
                 !.completed = IF link.opened THEN @
                               ELSE parent.completed /\ ~origin.instruction]

(* Read: the replay of every log of files, as a reader running on current   *)
(* sees it who finds reads[f] events in log f.  A log only ever continues   *)
(* an earlier one; a chain of more than MaxChainLinks is refused.           *)
Replays(files, reads, current) ==
    LET replay[f \in DOMAIN files] ==
            LET origin == files[f].origin
                link   == ReadOne(files[f].model, current, SubSeq(files[f].log, 1, reads[f]))
                parent == replay[origin.from]
            IN  IF link.refused \/ origin.from = NoFile THEN link
                ELSE IF \/ parent.refused
                        \/ parent.links >= MaxChainLinks
                        \/ ~Continues(origin, parent)
                     THEN Refuse(link)
                     ELSE Chained(parent, link, origin)
    IN  replay
=============================================================================
