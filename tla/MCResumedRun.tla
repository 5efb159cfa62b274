---------------------------- MODULE MCResumedRun ----------------------------
(* Small instances of ResumedRun. *)
EXTENDS ResumedRun

Auto    == [auto |-> TRUE,  ruling |-> "allow"]
Denied  == [auto |-> FALSE, ruling |-> "deny"]

Plain == [calls |-> <<>>, usage |-> NoUsage, usageMissing |-> FALSE, finish |-> "stop",
          empty |-> FALSE, reasoning |-> FALSE]

(* A turn of calls alone, dispatched in parallel; a turn with text and      *)
(* reasoning, dispatched in sequence; a final answer; and one that is       *)
(* nothing but reasoning.                                                   *)
ResumeResponses ==
    {[Plain EXCEPT !.calls = <<Auto, Auto>>, !.empty = TRUE],
     [Plain EXCEPT !.calls = <<Auto, Denied>>, !.reasoning = TRUE],
     Plain,
     [Plain EXCEPT !.empty = TRUE, !.reasoning = TRUE]}

TwoBackends == <<"openai", "anthropic">>
=============================================================================
