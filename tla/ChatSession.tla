----------------------------- MODULE ChatSession -----------------------------
(***************************************************************************)
(* An interactive session (cmdChat, cmd/amele/main.go): one exchange of    *)
(* the agent loop per line the human enters, one budget, one conversation  *)
(* and one session log for all of them.                                    *)
(*                                                                         *)
(* The loop is AgentLoop's, step for step; this module drives it.  Its     *)
(* context is the session's, bounded by limits.timeout during an exchange. *)
(* Reading a line, the prompt and the terminal are left out: an entry is   *)
(* there, or the input is at its end, or a signal came first.              *)
(***************************************************************************)
EXTENDS AgentLoop

CONSTANT MaxLines            \* bound: the lines the human enters

ASSUME ChatAssumption == MaxLines \in Nat /\ ~HasValidator

VARIABLES
    phase,                   \* "prompt", "exchange" or "done"
    history,                 \* chatSession.history
    total,                   \* chatSession.turns, toolCalls, tokens, fallbacks
    lastLine,                \* the entry was ended by the end of the input
    exitCode,                \* "none" until the session is over
    lines,                   \* auxiliary: the lines entered so far
    charged                  \* auxiliary: the tokens really reported in earlier exchanges

chatVars    == <<phase, history, total, lastLine, exitCode, lines, charged>>
sessionVars == <<vars, chatVars>>

ChatInit ==
    /\ Enter(<<>>)
    /\ limits = [turns |-> MaxTurns, tokens |-> MaxTokens] /\ turnBase = 0
    /\ active = 0 /\ ctx = "live" /\ log = <<RunStart(0)>>
    /\ phase = "prompt" /\ history = <<>>
    /\ total = [turns |-> 0, toolCalls |-> 0, tokens |-> 0, fallbacks |-> 0]
    /\ lastLine = FALSE /\ exitCode = "none" /\ lines = 0 /\ charged = 0

-----------------------------------------------------------------------------
(* applyBudget: what the limits leave after the exchanges so far.  A token  *)
(* limit of 0 is no limit and must stay 0.                                  *)
TurnsLeft == MaxTurns - total.turns

FullBudget == MaxTokens                       \* seeded defect
TokensLeft == IF MaxTokens > 0 THEN MaxTokens - total.tokens ELSE 0

BudgetIsSpent == TurnsLeft <= 0 \/ (MaxTokens > 0 /\ TokensLeft <= 0)

(* The log numbers the turns of all exchanges continuously. *)
RestartedNumbers == 0                         \* seeded defect
LogOffset == total.turns

(* finish: the session's one run_end carries its totals. *)
EndSession(code) ==
    /\ phase' = "done" /\ exitCode' = code
    /\ log' = Append(log, Event("run_end", total'.turns, 0))

(* A line with text in it: nextTurn, as far as the call of RunMessages.     *)
(* The line may be the last one of the input.                               *)
TakeLine ==
    /\ phase = "prompt" /\ lines < MaxLines /\ ~BudgetIsSpent
    /\ lines' = lines + 1 /\ lastLine' \in BOOLEAN
    /\ limits' = [turns |-> TurnsLeft, tokens |-> TokensLeft]
    /\ turnBase' = LogOffset
    /\ history' = Append(history, UserMessage(total.turns))
    /\ Reenter(history')   \* RunMessages is entered with the conversation so far
    /\ phase' = "exchange"
    /\ UNCHANGED <<active, ctx, log, total, exitCode, charged>>

RefuseLine ==
    /\ phase = "prompt" /\ lines < MaxLines /\ BudgetIsSpent
    /\ lines' = lines + 1
    /\ total' = total
    /\ EndSession("budget")
    /\ UNCHANGED <<limits, turnBase, active, pc, turn, rejections, messages, outcome, ctx,
                   resultVars, dispatchVars, history, lastLine, charged>>

(* The input ends with nothing to send, or a signal beats it.  A read that  *)
(* is ready may still win over a context that has ended (readAsync).        *)
EndOfInput ==
    /\ phase = "prompt"
    /\ total' = total
    /\ EndSession("success")
    /\ UNCHANGED <<limits, turnBase, active, pc, turn, rejections, messages, outcome, ctx,
                   resultVars, dispatchVars, history, lastLine, lines, charged>>

PromptInterrupted ==
    /\ phase = "prompt" /\ ctx = "cancelled"
    /\ total' = total
    /\ EndSession("failed")
    /\ UNCHANGED <<limits, turnBase, active, pc, turn, rejections, messages, outcome, ctx,
                   resultVars, dispatchVars, history, lastLine, lines, charged>>

Interrupt ==
    /\ phase = "prompt" /\ ctx = "live"
    /\ ctx' = "cancelled"
    /\ UNCHANGED <<limits, turnBase, active, pc, turn, rejections, messages, outcome, log,
                   resultVars, dispatchVars, chatVars>>

(* RunMessages has returned: account for the exchange, whether it failed or *)
(* not, then end the session or put the answer into the conversation.  The  *)
(* exchange's own timer dies with it.                                       *)
RememberAnswer == Append(history, AssistantMessage(Numbered, 0, NoCarrier))

OnlySuccessCounts(n) == IF outcome = "success" THEN n ELSE 0   \* seeded defect
Counted(n) == n

EndExchange ==
    /\ phase = "exchange" /\ pc = "returned"
    /\ total' = [turns     |-> total.turns + turn,
                 toolCalls |-> total.toolCalls + Counted(toolCalls),
                 tokens    |-> total.tokens + UsageTotal(usage),
                 fallbacks |-> total.fallbacks + Counted(fallbacks)]
    /\ charged' = charged + spent.in + spent.out
    /\ ctx' = IF ctx = "deadline" THEN "live" ELSE ctx
    /\ \/ /\ outcome # "success"
          /\ EndSession(outcome) /\ UNCHANGED history
       \/ /\ outcome = "success"
          /\ history' = RememberAnswer
          /\ \/ lastLine /\ EndSession("success")
             \/ ~lastLine /\ phase' = "prompt" /\ UNCHANGED <<log, exitCode>>
    /\ UNCHANGED <<limits, turnBase, active, pc, turn, rejections, messages, outcome,
                   resultVars, dispatchVars, lastLine, lines>>

-----------------------------------------------------------------------------
Exchange == phase = "exchange" /\ LoopStep /\ UNCHANGED chatVars

Timeout == phase = "exchange" /\ ContextEnds /\ UNCHANGED chatVars

SessionOver == phase = "done" /\ UNCHANGED sessionVars

ChatNext ==
    \/ TakeLine \/ RefuseLine \/ EndOfInput \/ PromptInterrupted \/ Interrupt
    \/ Exchange \/ Timeout \/ EndExchange \/ SessionOver

ChatSpec == ChatInit /\ [][ChatNext]_sessionVars
-----------------------------------------------------------------------------
(* The limits bound the whole session, by the tokens the provider really    *)
(* reported in every exchange: no line buys a fresh budget (applyBudget).   *)
SessionWithinBudget ==
    phase = "exchange" /\ pc = "asking" =>
        /\ total.turns + turn <= MaxTurns
        /\ MaxTokens \in 1..MaxInt - 1 => charged + spent.in + spent.out <= MaxTokens

(* The summary and run_end add up to what the log shows of all exchanges,   *)
(* the failed one included, and the session is where its switches put it.   *)
CountAll(type) == Cardinality({i \in DOMAIN log : log[i].type = type})
TotalsMatchLog ==
    phase = "done" =>
        /\ total.toolCalls = CountAll("tool_result") - AbortingCalls
        /\ total.fallbacks = CountAll("provider_fallback") /\ total.fallbacks = active
        /\ total.turns - CountAll("llm_response") - total.fallbacks \in 0..1
=============================================================================
