---------------------------- MODULE MCChatSession ----------------------------
(* Small instances of ChatSession. *)
EXTENDS ChatSession

Auto    == [auto |-> TRUE,  ruling |-> "allow"]
Aborts  == [auto |-> FALSE, ruling |-> "abort"]

One == [in |-> 1, out |-> 0]
Two == [in |-> 1, out |-> 1]
Plain == [calls |-> <<>>, usage |-> One, usageMissing |-> FALSE, finish |-> "stop",
          empty |-> FALSE, reasoning |-> FALSE]

ChatResponses ==
    {Plain, [Plain EXCEPT !.usage = Two, !.reasoning = TRUE], [Plain EXCEPT !.empty = TRUE],
     [Plain EXCEPT !.calls = <<Auto, Auto>>], [Plain EXCEPT !.calls = <<Auto, Aborts>>]}

TwoBackends == <<"openai", "anthropic">>
=============================================================================
