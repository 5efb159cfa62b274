--------------------------- MODULE StreamAssembly ---------------------------
(***************************************************************************)
(* One answer as a model client reads it: whole, or as the events of a     *)
(* stream that the client puts together again (internal/llm/sse.go,        *)
(* openai_stream.go, anthropic_stream.go, gemini_stream.go).  An answer is *)
(* a list of items - thinking, text, tool calls - each in Frags fragments. *)
(* On the openai wire the fragments of different items may alternate, but  *)
(* for two texts, or two thoughts, which no index tells apart; on the      *)
(* others they come item by item; a gemini call is never split.            *)
(***************************************************************************)
EXTENDS Integers, Sequences, SequencesExt

CONSTANTS
    Kinds,     \* the items of the answer: "thought", "text" or "call" each
    Frags      \* the fragments of an item

Items == DOMAIN Kinds

ASSUME StreamAssumption == Kinds \in Seq({"thought", "text", "call"}) /\ Frags \in Nat \ {0}

(* An event carries some fragments of one item.                             *)
EventOf(i, from, to) == [item |-> i, frags |-> [k \in 1..(to - from) |-> <<i, from + k>>]]

(* What ends a stream, in order: the finish reason, the usage, the          *)
(* terminator; anthropic sends the first two together, gemini sends no      *)
(* terminator and its usage with every event.                               *)
EndEvents(wire) == CASE wire = "openai" -> <<"finish", "usage", "done">>
                [] wire = "anthropic" -> <<"finish", "done">>
                [] OTHER -> <<"finish">>

-----------------------------------------------------------------------------
(* The events a provider can send next, given how far each item got.        *)
Unsent(emitted) == {i \in Items : emitted[i] < Frags}
Indexed(wire, i, j) == wire = "openai" /\ (Kinds[i] # Kinds[j] \/ Kinds[i] = "call")
Current(wire, emitted) ==
    {i \in Unsent(emitted) : \A j \in Unsent(emitted) : i <= j \/ Indexed(wire, i, j)}

NextEvents(wire, emitted) ==
    {EventOf(i, emitted[i], IF wire = "gemini" /\ Kinds[i] = "call" THEN Frags ELSE emitted[i] + 1) :
        i \in Current(wire, emitted)}

-----------------------------------------------------------------------------
(* The client's side: blocks in the order they were opened.                 *)
NewBlock(e) == [item |-> e.item, frags |-> e.frags]

(* By index on the openai and anthropic wires; verbatim, one part after the *)
(* other, on gemini's.                                                      *)
Opened(blocks, e) == {k \in DOMAIN blocks : blocks[k].item = e.item}
Merge(blocks, e) ==
    IF Opened(blocks, e) = {} THEN Append(blocks, NewBlock(e))
    ELSE [k \in DOMAIN blocks |->
             IF k \in Opened(blocks, e) THEN [blocks[k] EXCEPT !.frags = @ \o e.frags] ELSE blocks[k]]

Apply(wire, blocks, e) == IF wire = "gemini" THEN Append(blocks, NewBlock(e)) ELSE Merge(blocks, e)

Then(a, b) == a \o b
Joined(parts) == FoldLeft(Then, <<>>, parts)

Parts(blocks, kind) ==
    [k \in DOMAIN blocks |-> IF Kinds[blocks[k].item] = kind THEN blocks[k].frags ELSE <<>>]
Calls(blocks) ==
    [k \in DOMAIN blocks |-> IF Kinds[blocks[k].item] = "call" THEN <<blocks[k].frags>> ELSE <<>>]

(* The slots of the openai wire are filled by index, whichever came first,  *)
(* and one that was never filled is empty.                                  *)
BlockOf(blocks, i) ==
    IF \E k \in DOMAIN blocks : blocks[k].item = i
    THEN blocks[CHOOSE k \in DOMAIN blocks : blocks[k].item = i]
    ELSE [item |-> i, frags |-> <<>>]
InArrival(wire, blocks) == blocks                             \* seeded defect
InSlots(wire, blocks) ==
    IF wire = "openai" THEN [i \in Items |-> BlockOf(blocks, i)] ELSE blocks

Decode(wire, blocks) ==
    [text    |-> Joined(Parts(blocks, "text")),
     thought |-> Joined(Parts(blocks, "thought")),
     calls   |-> Joined(Calls(InSlots(wire, blocks)))]

(* The same answer in one JSON body.                                        *)
Whole == [i \in Items |-> [item |-> i, frags |-> EventOf(i, 0, Frags).frags]]
WholeAnswer(wire) == Decode(wire, Whole)

-----------------------------------------------------------------------------
(* The reasons a provider gives for the end of an answer, those of the      *)
(* anthropic and gemini wires in the words of the openai wire, which is     *)
(* what the loop reads.  A word nobody knows stays itself; on the gemini    *)
(* wire, as every reason that tells of a failure, it ends the call.         *)
CutReasons == {"length", "content_filter"}
Reasons(wire) ==
    CASE wire = "openai" -> CutReasons \cup {"stop", "tool_calls", "other"}
      [] wire = "anthropic" -> {"end_turn", "tool_use", "max_tokens", "model_context_window_exceeded",
                                "refusal", "other"}
      [] OTHER -> {"STOP", "", "MAX_TOKENS", "SAFETY", "RECITATION", "MALFORMED_FUNCTION_CALL", "OTHER", "other"}

MapStopReason(reason) ==
    CASE reason = "end_turn" -> "stop"
      [] reason \in {"max_tokens", "model_context_window_exceeded"} -> "length"
      [] reason = "refusal" -> "content_filter"
      [] reason = "tool_use" -> "tool_calls"
      [] OTHER -> reason

MapGeminiFinishReason(reason) ==
    CASE reason = "STOP" -> "stop"
      [] reason = "" -> ""
      [] reason = "MAX_TOKENS" -> "length"
      [] reason \in {"SAFETY", "RECITATION"} -> "content_filter"
      [] OTHER -> "failure"

Finish(wire, reason) == CASE wire = "openai" -> reason
                         [] wire = "anthropic" -> MapStopReason(reason)
                         [] OTHER -> MapGeminiFinishReason(reason)

(* The reasons of an answer that is not all the model would have said.      *)
Unfinished(reason) == reason \in CutReasons \cup {"max_tokens", "model_context_window_exceeded", "refusal",
                                                  "MAX_TOKENS", "SAFETY", "RECITATION"}

-----------------------------------------------------------------------------
(* The end of the body is the end of the answer, or a cut.                  *)
Complete(wire, tail) ==
    IF wire = "anthropic" THEN tail = Len(EndEvents(wire)) ELSE tail >= 1
=============================================================================
