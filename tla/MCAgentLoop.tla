----------------------------- MODULE MCAgentLoop -----------------------------
(***************************************************************************)
(* Small instances of AgentLoop.  An answer is either one of the tool-call *)
(* lists below or a final answer; what an answer carries beside its calls  *)
(* only matters where the loop looks at it.                                *)
(***************************************************************************)
EXTENDS RequestWire

Auto    == [auto |-> TRUE,  ruling |-> "allow"]   \* policy "allow"
Granted == [auto |-> FALSE, ruling |-> "allow"]   \* policy "ask", the human said yes
Refused == [auto |-> FALSE, ruling |-> "deny"]    \* policy "deny", or a refused "ask"
Broken  == [auto |-> FALSE, ruling |-> "broken"]  \* the prompt could not be read
Aborts  == [auto |-> FALSE, ruling |-> "abort"]   \* DenyAbort

(* An approver that disagrees with its own AutoApprove predicate. *)
AutoRefused == [auto |-> TRUE, ruling |-> "deny"]
AutoAborts  == [auto |-> TRUE, ruling |-> "abort"]
AutoBroken  == [auto |-> TRUE, ruling |-> "broken"]

One == [in |-> 1, out |-> 0]
Two == [in |-> 1, out |-> 1]

Plain == [calls |-> <<>>, usage |-> One, usageMissing |-> FALSE, finish |-> "stop",
          empty |-> FALSE, reasoning |-> FALSE]

ToolTurn(cs, reasoning) == [Plain EXCEPT !.calls = cs, !.finish = "custom", !.reasoning = reasoning]

Finals == {Plain, [Plain EXCEPT !.finish = "length"], [Plain EXCEPT !.empty = TRUE],
           [Plain EXCEPT !.usage = Two, !.reasoning = TRUE]}

(* One call, and two or three calls in each mixture, more than there are    *)
(* slots and with rulings that contradict the predicate; token counts that  *)
(* do not fit an int together, and a usage report that is missing.          *)
Shapes == {Auto, Granted, Refused, Broken}
Overflowing == [in |-> MaxInt, out |-> 1]
TurnResponses ==
    Finals
        \cup {[ToolTurn(<<Auto>>, FALSE) EXCEPT !.usage = Overflowing],
              [ToolTurn(<<Auto>>, FALSE) EXCEPT !.usageMissing = TRUE]}
        \cup {[ToolTurn(cs, FALSE) EXCEPT !.usage = Two] :
                 cs \in {<<Auto, Auto, Auto>>, <<Granted, Refused, Auto>>,
                         <<Auto, AutoAborts, Auto>>, <<AutoRefused, AutoBroken>>}}
        \cup {ToolTurn(<<a, b>>, TRUE) : a, b \in Shapes}
        \cup {ToolTurn(<<a>>, FALSE) : a \in {Auto, Aborts}}

ThreeBackends == <<"openai", "anthropic", "openai">>
=============================================================================
