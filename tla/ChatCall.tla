------------------------------ MODULE ChatCall ------------------------------
(***************************************************************************)
(* One call of a model client: the attempts and their backoff, the two     *)
(* one-shot fallbacks that take a refused field out of the body, and the   *)
(* answer, read whole or from a stream that tells its text to a sink on    *)
(* the way (chat, attempt and doOnce of internal/llm/openai.go,            *)
(* anthropic.go and gemini.go).                                            *)
(* The endpoint is free: it refuses any of the fields, ignores the wish to *)
(* stream, fails for a while, cuts a stream, or lets the context end.      *)
(***************************************************************************)
EXTENDS StreamAssembly

CONSTANT MaxAttempts       \* provider.retry.max_attempts

ASSUME AttemptsAssumption == MaxAttempts \in Nat \ {0}

Wires == {"openai", "anthropic", "gemini"}
Fields == {"schema", "stream"}        \* what an endpoint may refuse to read

VARIABLES
    wire,      \* the client
    schema,    \* what the caller asked for: "none", "mode" (JSON, no schema) or "native"
    sink,      \* is the answer to be streamed
    refuses,   \* the fields this endpoint answers with a 400
    carries,   \* the fields still in the body
    strips,    \* the fallbacks not yet spent
    dropped,   \* SchemaEnforcementDropped
    attempt, stage,     \* the attempt, and how many fallbacks it has looked at
    pc,        \* "send", "stream", "backoff", "answered" or "failed"
    emitted, tail, blocks,   \* the stream: sent of each item, of its end, and what was put together
    told,      \* what the sink received
    answer,    \* what the caller received
    reason     \* the provider's word for the end of it

asked == <<wire, schema, sink, refuses>>
body == <<carries, strips, dropped>>
stream == <<emitted, tail, blocks>>
received == <<answer, reason>>
vars == <<asked, body, attempt, stage, pc, stream, told, received>>

NoAnswer == [text |-> <<>>, thought |-> <<>>, calls |-> <<>>, finish |-> "none"]

-----------------------------------------------------------------------------
(* A dialect without a native schema asks for JSON only: openai still has a *)
(* field to take out, gemini has none, and anthropic has no such mode.      *)
CarriesSchema == schema = "native" \/ (schema = "mode" /\ wire = "openai")
Stripped(field, asks) == IF asks THEN {field} ELSE {}

Init ==
    /\ wire \in Wires /\ sink \in BOOLEAN /\ refuses \in SUBSET Fields
    /\ schema \in IF wire = "anthropic" THEN {"none", "native"} ELSE {"none", "mode", "native"}
    /\ carries = Stripped("schema", CarriesSchema) \cup Stripped("stream", sink)
    /\ strips = carries
    /\ dropped = (schema = "mode")
    /\ attempt = 1 /\ stage = 0 /\ pc = "send"
    /\ emitted = [i \in Items |-> 0] /\ tail = 0 /\ blocks = <<>>
    /\ told = <<>> /\ answer = NoAnswer /\ reason = "none"

-----------------------------------------------------------------------------
(* The fallbacks of one attempt are looked at once each, in this order.     *)
Fallbacks == IF wire = "gemini" THEN <<"stream", "schema">> ELSE <<"schema", "stream">>
FallbacksFor(N) == {k \in DOMAIN Fallbacks : k > stage /\ Fallbacks[k] \in N \cap strips}

Fail == pc' = "failed" /\ UNCHANGED <<body, attempt, stage>>

KeepFlag(field) == UNCHANGED dropped                          \* seeded defect
Flag(field) == dropped' = (dropped \/ field = "schema")

(* A 400 that names a field: the body goes out again without it, at once.   *)
Strip(k) ==
    /\ carries' = carries \ {Fallbacks[k]} /\ strips' = strips \ {Fallbacks[k]}
    /\ Flag(Fallbacks[k])
    /\ stage' = k
    /\ UNCHANGED <<attempt, pc>>

Refused == \E N \in SUBSET (carries \cap refuses) \ {{}} :
    /\ pc = "send"
    /\ IF FallbacksFor(N) = {} THEN Fail
       ELSE Strip(CHOOSE k \in FallbacksFor(N) : \A j \in FallbacksFor(N) : k <= j)
    /\ UNCHANGED <<asked, stream, told, received>>

(* Another client error, a timeout of the request, the end of the context:  *)
(* final wherever it happens.                                               *)
Final ==
    /\ pc \in {"send", "backoff", "stream"} /\ Fail
    /\ UNCHANGED <<asked, stream, told, received>>

(* A 429, a 5xx or a network failure.                                       *)
Retry ==
    /\ pc' = IF attempt < MaxAttempts THEN "backoff" ELSE "failed"
    /\ UNCHANGED <<asked, body, attempt, stage, told, received>>
    /\ emitted' = [i \in Items |-> 0] /\ tail' = 0 /\ blocks' = <<>>

Transient == pc = "send" /\ Retry

NextAttempt ==
    /\ pc = "backoff" /\ pc' = "send"
    /\ attempt' = attempt + 1 /\ stage' = 0
    /\ UNCHANGED <<asked, body, stream, told, received>>

-----------------------------------------------------------------------------
(* What was read is an answer, unless its reason tells of a failure.        *)
Answered(decoded, r) ==
    /\ reason' = r
    /\ IF Finish(wire, r) = "failure" THEN Fail /\ UNCHANGED answer
       ELSE /\ pc' = "answered"
            /\ answer' = [text |-> decoded.text, thought |-> decoded.thought,
                          calls |-> decoded.calls, finish |-> Finish(wire, r)]
            /\ UNCHANGED <<body, attempt, stage>>

(* 200 with one JSON body: asked for, or from a gateway that ignores the    *)
(* wish to stream.  Either way the sink gets the text now.                  *)
WholeBody ==
    /\ pc = "send" /\ carries \cap refuses = {}
    /\ \E r \in Reasons(wire) :
          /\ Answered(WholeAnswer(wire), r)
          /\ told' = IF sink /\ pc' = "answered" THEN told \o WholeAnswer(wire).text ELSE told
    /\ UNCHANGED <<asked, stream>>

OpenStream ==
    /\ pc = "send" /\ "stream" \in carries /\ carries \cap refuses = {}
    /\ pc' = "stream"
    /\ UNCHANGED <<asked, body, attempt, stage, stream, told, received>>

Event ==
    /\ pc = "stream"
    /\ \/ \E e \in NextEvents(wire, emitted) :
             /\ blocks' = Apply(wire, blocks, e)
             /\ emitted' = [emitted EXCEPT ![e.item] = @ + Len(e.frags)]
             /\ told' = IF Kinds[e.item] = "text" THEN told \o e.frags ELSE told
             /\ UNCHANGED tail
       \/ /\ Unsent(emitted) = {} /\ tail < Len(EndEvents(wire)) /\ tail' = tail + 1
          /\ UNCHANGED <<emitted, blocks, told>>
    /\ UNCHANGED <<asked, body, attempt, stage, pc, received>>

(* The body ends, or the connection does: an answer, or a final failure.    *)
(* It is never asked for again, the sink having had a part of it.           *)
AskAgain == Retry                                             \* seeded defect
CutShort == Fail /\ UNCHANGED <<asked, stream, told, received>>

EndStream ==
    /\ pc = "stream"
    /\ IF Complete(wire, tail)
       THEN /\ \E r \in Reasons(wire) \ {""} : Answered(Decode(wire, blocks), r)
            /\ UNCHANGED <<asked, stream, told>>
       ELSE CutShort

-----------------------------------------------------------------------------
Next == \/ Refused \/ Final \/ Transient \/ NextAttempt
        \/ WholeBody \/ OpenStream \/ Event \/ EndStream

Stopped == pc \in {"answered", "failed"} /\ UNCHANGED vars

Spec == Init /\ [][Next \/ Stopped]_vars

-----------------------------------------------------------------------------
(* openai.go:330: whatever was refused, retried or cut, the sink is told    *)
(* the text of the answer once, in order: a prefix of it while it arrives,  *)
(* and exactly the text the caller gets when the call succeeds.             *)
SinkTellsTheAnswer ==
    /\ IsPrefix(told, WholeAnswer(wire).text)
    /\ pc = "answered" => told = (IF sink THEN answer.text ELSE <<>>)

(* openai_stream.go:105, gemini.go:1148: a call that succeeds brings the    *)
(* whole answer, the same whether it came in one piece or as a stream,      *)
(* however its events alternated and wherever the connection could have been*)
(* cut; and one the provider itself broke off says so in the words the loop *)
(* refuses.                                                                 *)
AnswerIsWhole == pc = "answered" =>
    /\ \A part \in {"text", "thought", "calls"} : answer[part] = WholeAnswer(wire)[part]
    /\ (answer.finish \in CutReasons) = Unfinished(reason)

(* openai.go:372: an answer that was not held to the schema by the provider *)
(* says so, and one that was does not, over every retry and fallback.       *)
Enforced == schema = "native" /\ "schema" \in carries
EnforcementIsTold == pc = "answered" => dropped = (schema # "none" /\ ~Enforced)

TypeOK ==
    /\ carries \subseteq Fields /\ strips \subseteq carries /\ dropped \in BOOLEAN
    /\ attempt \in 1..MaxAttempts /\ stage \in 0..2
    /\ pc \in {"send", "stream", "backoff", "answered", "failed"}
    /\ emitted \in [Items -> 0..Frags] /\ tail \in 0..Len(EndEvents(wire))
=============================================================================
