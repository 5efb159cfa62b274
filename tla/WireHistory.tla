----------------------------- MODULE WireHistory -----------------------------
(***************************************************************************)
(* How the clients put a conversation on the wire (toWire in               *)
(* internal/llm/openai.go, anthropic.go, gemini.go).  The neutral history  *)
(* of the loop - one message per tool result - becomes a list of turns,    *)
(* each a list of blocks; an assistant turn with a carrier of the wire is  *)
(* echoed as it came.  A call is named by its turn and its position.       *)
(***************************************************************************)
EXTENDS Integers, Sequences, SequencesExt

CONSTANTS
    ArrayCarriers    \* the families whose carrier is a JSON array

(* of: the call a use or a result is about; 0 for a text.                   *)
Block(kind, turn, of) == [kind |-> kind, turn |-> turn, of |-> of]
WireTurn(role, blocks, raw) == [role |-> role, blocks |-> blocks, raw |-> raw]
Texts(m) == <<Block("text", m.turn, 0)>>
Uses(m) == [k \in 1..m.n |-> Block("use", m.turn, k)]

(* What the model said: a turn of calls need not have a text, an answer     *)
(* has one (one with neither, which gemini drops, is left out).  The provider's own array holds the same blocks.                *)
AssistantBlocks(m) == IF m.n = 0 THEN Texts(m) ELSE Uses(m)
AssistantTurn(m) == WireTurn("assistant", AssistantBlocks(m), m.carrier \in ArrayCarriers)

-----------------------------------------------------------------------------
(* openai: one wire message for each neutral one.                           *)
OpenAITurn(m) ==
    CASE m.role = "assistant" -> WireTurn("assistant", AssistantBlocks(m), FALSE)
      [] m.role = "tool" -> WireTurn("tool", <<Block("result", m.turn, m.n)>>, FALSE)
      [] OTHER -> WireTurn(m.role, Texts(m), FALSE)

OpenAIWire(msgs) == [i \in DOMAIN msgs |-> OpenAITurn(msgs[i])]

(* anthropic, gemini: the results of one turn share one user turn.          *)
IsResultTurn(t) == t.role = "user" /\ t.blocks # <<>> /\ t.blocks[1].kind = "result"

NewResultTurn(out, block) == Append(out, WireTurn("user", <<block>>, FALSE))   \* seeded defect
AppendResult(out, block) ==
    IF out # <<>> /\ IsResultTurn(Last(out))
    THEN [out EXCEPT ![Len(out)].blocks = Append(@, block)]
    ELSE Append(out, WireTurn("user", <<block>>, FALSE))

AnthropicAppend(out, m) ==
    CASE m.role = "assistant" -> Append(out, AssistantTurn(m))
      [] m.role = "tool" -> AppendResult(out, Block("result", m.turn, m.n))
      [] OTHER -> Append(out, WireTurn(m.role, Texts(m), FALSE))

AnthropicWire(msgs) == FoldLeft(AnthropicAppend, <<>>, msgs)

(* gemini: a result is named after the function it answers, which only the  *)
(* calls announced so far can tell: the oldest one without an id, the one   *)
(* with the same id otherwise, and none leaves the output as plain text.    *)
(* ids: whether this model sends ids.                                       *)
Builder(contents, pending) == [contents |-> contents, pending |-> pending]

Answers(ids, pending, m) ==
    {k \in DOMAIN pending : IF ids THEN pending[k] = Block("use", m.turn, m.n) ELSE k = 1}

GeminiAppend(ids, b, m) ==
    CASE m.role = "assistant" ->
            Builder(Append(b.contents, AssistantTurn(m)), b.pending \o Uses(m))
      [] m.role = "tool" /\ Answers(ids, b.pending, m) # {} ->
            LET k == CHOOSE k \in Answers(ids, b.pending, m) : TRUE IN
            Builder(AppendResult(b.contents, [b.pending[k] EXCEPT !.kind = "result"]),
                    RemoveAt(b.pending, k))
      [] OTHER -> Builder(Append(b.contents, WireTurn("user", Texts(m), FALSE)), b.pending)

GeminiById(b, m) == GeminiAppend(TRUE, b, m)
GeminiInOrder(b, m) == GeminiAppend(FALSE, b, m)

GeminiBuilder(ids, msgs) ==
    IF ids THEN FoldLeft(GeminiById, Builder(<<>>, <<>>), msgs)
           ELSE FoldLeft(GeminiInOrder, Builder(<<>>, <<>>), msgs)
GeminiWire(ids, msgs) == GeminiBuilder(ids, msgs).contents

-----------------------------------------------------------------------------
(* placeCacheBreakpoints: the last block of the last message, unless that   *)
(* turn is echoed, and then the last block of the user turn before it.      *)
Markable(t) == ~t.raw /\ t.blocks # <<>>
Mark(wire, i) == <<i, Len(wire[i].blocks)>>

LastOnly(wire) ==                                             \* seeded defect
    IF wire = <<>> \/ ~Markable(Last(wire)) THEN {} ELSE {Mark(wire, Len(wire))}

CacheMarks(wire) ==
    LET earlier == {i \in 1..(Len(wire) - 1) : wire[i].role = "user" /\ Markable(wire[i])} IN
    IF wire = <<>> \/ ~Markable(Last(wire)) THEN {}
    ELSE {Mark(wire, Len(wire))}
            \cup {Mark(wire, i) : i \in {j \in earlier : \A k \in earlier : k <= j}}
=============================================================================
