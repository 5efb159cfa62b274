----------------------------- MODULE RequestWire -----------------------------
(***************************************************************************)
(* The requests of AgentLoop as the clients of WireHistory send them: what *)
(* the loop appends to its history, message by message, must add up to a   *)
(* body that each wire accepts, on every path of the loop.                 *)
(***************************************************************************)
EXTENDS AgentLoop, WireHistory

Grouped == {AnthropicWire(messages)} \cup {GeminiWire(ids, messages) : ids \in BOOLEAN}

(* The calls of a turn and the results of the next, as they pair up.        *)
Asked(t) == [k \in DOMAIN t.blocks |-> <<t.blocks[k].turn, t.blocks[k].of>>]
HasUses(t) == \E k \in DOMAIN t.blocks : t.blocks[k].kind = "use"
HasResults(t) == \E k \in DOMAIN t.blocks : t.blocks[k].kind = "result"

(* anthropic.go:897, gemini.go:1358: every turn of calls is followed by one *)
(* user turn that holds one result for each call and nothing else, under    *)
(* that call's own name and in the order of the calls.                      *)
CallsPairUp(wire) ==
    \A i \in DOMAIN wire :
        /\ HasUses(wire[i]) =>
              /\ i < Len(wire) /\ wire[i + 1].role = "user"
              /\ \A b \in ToSet(wire[i + 1].blocks) : b.kind = "result"
              /\ Asked(wire[i + 1]) = Asked(wire[i])
        /\ HasResults(wire[i]) => i > 1 /\ HasUses(wire[i - 1])

(* openai.go:604: there a result stands alone and follows its call.         *)
ResultsFollow(wire) ==
    \A i \in DOMAIN wire : wire[i].role = "tool" =>
        \E j \in 1..(i - 1) :
            /\ \A k \in (j + 1)..(i - 1) : wire[k].role = "tool"
            /\ HasUses(wire[j]) /\ Asked(wire[i])[1] = Asked(wire[j])[i - j]

(* Every text of the history reaches the model once, in order.              *)
AddText(texts, b) == IF b.kind = "text" THEN Append(texts, b) ELSE texts
AddTexts(texts, t) == FoldLeft(AddText, texts, t.blocks)
TextsOf(wire) == FoldLeft(AddTexts, <<>>, wire)
TextsKept(wire) == TextsOf(wire) = TextsOf(OpenAIWire(messages))

(* Whatever the loop has been through - refused and failing calls, a        *)
(* rejected answer, a switch of backends, a history it was handed - the     *)
(* next request is one its wire accepts and loses nothing of it.            *)
RequestsAreAccepted ==
    pc = "asking" =>
        /\ \A wire \in Grouped : CallsPairUp(wire) /\ TextsKept(wire)
        /\ ResultsFollow(OpenAIWire(messages))

(* anthropic.go:967: the mark of the previous request is pinned by the next *)
(* one, so the entry written then is found by an exact mark.  The previous  *)
(* request was the history before the last answer.                          *)
LastAnswer == SelectLastInSeq(messages, LAMBDA m : m.role = "assistant")
Previous == SubSeq(messages, 1, LastAnswer - 1)

PinIsThePreviousMark ==
    pc = "asking" /\ LastAnswer > 0 =>
        CacheMarks(AnthropicWire(Previous)) \cap CacheMarks(AnthropicWire(messages)) # {}
=============================================================================
