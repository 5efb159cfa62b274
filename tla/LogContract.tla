---------------------------- MODULE LogContract ----------------------------
(***************************************************************************)
(* What one session log promises its readers about the order of its        *)
(* events, whatever wrote it (docs/contracts/jsonl-events.md, "Ordering    *)
(* guarantees").  The log only grows.  Turn numbers increase from one      *)
(* llm_response, or failed attempt, to the next.  The calls of a turn are  *)
(* logged in call order in one of two shapes: each call followed by its    *)
(* own result, or all calls and then all results.  A turn is over before   *)
(* the next begins.  run_end, if it is written, is the last event and      *)
(* counts at least the turns the log shows.                                *)
(*                                                                         *)
(* width, called and answered count the calls the last llm_response        *)
(* requested, announced and answered so far.                               *)
(***************************************************************************)
EXTENDS Integers, Sequences

CONSTANTS
    Turns,     \* the numbers a turn may have
    Widths,    \* the numbers of tool calls an answer may request
    Positions  \* the positions on the chain of backends

VARIABLES log, width, called, answered

vars == <<log, width, called, answered>>

Event(type, t, n) == [type |-> type, turn |-> t, n |-> n]
Last == log[Len(log)]

TurnComplete == called = width /\ answered = width

Init ==
    /\ log = <<Event("run_start", 0, 0)>>
    /\ width = 0 /\ called = 0 /\ answered = 0

Response ==
    \E t \in Turns, k \in Widths :
        /\ TurnComplete /\ t > Last.turn
        /\ log' = Append(log, Event("llm_response", t, k))
        /\ width' = k /\ called' = 0 /\ answered' = 0

Fallback ==
    \E t \in Turns, position \in Positions :
        /\ TurnComplete /\ t > Last.turn
        /\ log' = Append(log, Event("provider_fallback", t, position))
        /\ UNCHANGED <<width, called, answered>>

(* Only an answer without tool calls is sent back, and at most once. *)
Feedback ==
    /\ Last.type = "llm_response" /\ Last.n = 0
    /\ log' = Append(log, Event("validator_feedback", Last.turn, 0))
    /\ UNCHANGED <<width, called, answered>>

(* Sequential dispatch keeps called = answered between calls; parallel      *)
(* dispatch announces everything before the first result.                   *)
ToolCall ==
    /\ called < width
    /\ called = answered \/ answered = 0
    /\ log' = Append(log, Event("tool_call", Last.turn, called + 1))
    /\ called' = called + 1
    /\ UNCHANGED <<width, answered>>

ToolResult ==
    /\ answered < called
    /\ called = answered + 1 \/ called = width
    /\ log' = Append(log, Event("tool_result", Last.turn, answered + 1))
    /\ answered' = answered + 1
    /\ UNCHANGED <<width, called>>

RunEnd ==
    \E t \in Turns \cup {0} :
        /\ t >= Last.turn
        /\ log' = Append(log, Event("run_end", t, 0))
        /\ UNCHANGED <<width, called, answered>>

Next ==
    /\ Last.type # "run_end"
    /\ Response \/ Fallback \/ Feedback \/ ToolCall \/ ToolResult \/ RunEnd

Spec == Init /\ [][Next]_vars
=============================================================================
