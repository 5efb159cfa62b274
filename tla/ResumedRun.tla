----------------------------- MODULE ResumedRun -----------------------------
(***************************************************************************)
(* Runs that continue one another through their session logs (cmdRun and   *)
(* prepareRun, cmd/amele/main.go).  A process runs AgentLoop and may be    *)
(* killed between any two of its steps; the operator then resumes any log  *)
(* there is, under any model, with or without an instruction.  The old     *)
(* process may also live on while its log is read: a reader may find any   *)
(* number of the events a log will ever hold.                              *)
(*                                                                         *)
(* The end of the context is left out: what it leaves in the log, a kill   *)
(* at the same point leaves too.                                           *)
(***************************************************************************)
EXTENDS ResumeLog

CONSTANTS
    Models,                  \* the models (with their provider) a run may be given
    ResumedTurns,            \* limits.max_turns of a resumed run
    MaxRuns,                 \* bound: the runs there may be
    MaxChainedEvents,        \* bound: the events of a log in a chain of more than two
    FollowedRuns             \* bound: the runs whose steps are taken

ASSUME ResumedAssumption ==
    /\ ResumedTurns \in Nat /\ MaxRuns \in Nat /\ MaxChainedEvents \in Nat /\ FollowedRuns \in Nat
    /\ NoFile \notin 1..MaxRuns

VARIABLES
    files,                   \* the logs of the runs that are over
    model, origin,           \* run_start of the run in progress
    opening, seen            \* auxiliary: the history it was entered with, and
                             \* how much of each log that was read from

runVars     == <<files, model, origin, opening, seen>>
processVars == <<vars, runVars>>

(* All logs, the one of the run in progress last. *)
AllFiles == Append(files, [log |-> log, model |-> model, origin |-> origin, opening |-> opening])
Current  == Len(files) + 1

RunInit ==
    /\ Init /\ messages = <<UserMessage(0)>>
    /\ model \in Models
    /\ files = <<>> /\ origin = NoOrigin
    /\ opening = messages /\ seen = <<>>

RunStep == Current <= FollowedRuns /\ LoopStep /\ UNCHANGED runVars

(* The caller of RunMessages ends the log, once. *)
EndRun ==
    /\ Current <= FollowedRuns
    /\ pc = "returned" /\ LastEvent.type # "run_end"
    /\ log' = Append(log, Event("run_end", turn, 0))
    /\ UNCHANGED <<limits, turnBase, active, pc, turn, rejections, messages, outcome, ctx,
                   resultVars, dispatchVars, runVars>>

(* The logs a resume of log f reads. *)
Lineage(fs) ==
    LET line[f \in DOMAIN fs] ==
            {f} \cup IF fs[f].origin.from = NoFile THEN {} ELSE line[fs[f].origin.from]
    IN  line

(* How much of each log a reader may find: all of it, or, of one log of the *)
(* lineage, what was there when that run was still going (bound: one).      *)
Readings(fs, f) ==
    LET whole == [g \in DOMAIN fs |-> Len(fs[g].log)]
        Cut(g, k) == [h \in DOMAIN fs |-> IF h = g THEN k ELSE whole[h]]
    IN  UNION {{Cut(g, k) : k \in 1..whole[g]} : g \in Lineage(fs)[f]}

Short == Current = 1 \/ \A f \in DOMAIN AllFiles : Len(AllFiles[f].log) <= MaxChainedEvents

(* prepareRun and logRunStart: a new process continues log f.  A replay     *)
(* that ends in a final answer takes an instruction.                        *)
Resume(f, reads, m, instruction) ==
    LET replay == Replays(AllFiles, reads, m)[f]
    IN  /\ Current < MaxRuns /\ Short
        /\ ~replay.refused
        /\ replay.completed => instruction
        /\ files' = AllFiles
        /\ model' = m /\ origin' = Origin(f, instruction, replay)
        /\ Reenter(replay.messages \o InstructionOf(origin'))
        /\ opening' = messages' /\ seen' = reads
        /\ limits' = [turns |-> ResumedTurns, tokens |-> MaxTokens] /\ turnBase' = 0
        /\ active' = 0 /\ ctx' = "live" /\ log' = <<RunStart(0)>>

KillAndResume ==
    \E f \in DOMAIN AllFiles, m \in Models, instruction \in BOOLEAN :
        \E reads \in Readings(AllFiles, f) : Resume(f, reads, m, instruction)

NothingFollows == (Current = MaxRuns \/ ~Short) /\ UNCHANGED processVars

RunNext == RunStep \/ EndRun \/ KillAndResume \/ NothingFollows

RunSpec == RunInit /\ [][RunNext]_processVars
-----------------------------------------------------------------------------
(* The run in progress as a resume under model m would read it, had it been *)
(* killed here and had no log it came from changed since.                   *)
RebuiltUnder(m) == Replays(AllFiles, Append(seen, Len(log)), m)[Current]
Rebuilt == RebuiltUnder(model)

(* Whenever the process is killed, its log can be read back, and between    *)
(* turns what is read back is the conversation the model was having.        *)
ConversationIsRecoverable ==
    /\ ~Rebuilt.refused
    /\ pc \in {"head", "asking"} => StripCarriers(Rebuilt.messages) = StripCarriers(messages)

(* A rebuilt history is one a provider accepts: the calls of an assistant   *)
(* message are answered in order, each once, right after it, and nothing    *)
(* else is answered.                                                        *)
HistoryIsWellFormed ==
    LET msgs == Rebuilt.messages
        Answered(i) == \A k \in 1..msgs[i].n :
                           /\ i + k \in DOMAIN msgs
                           /\ msgs[i + k].role = "tool" /\ msgs[i + k].n = k
        Asked(i)    == \E j \in 1..i - 1 : /\ msgs[j].role = "assistant"
                                           /\ i - j = msgs[i].n /\ msgs[i].n <= msgs[j].n
    IN  \A i \in DOMAIN msgs : /\ msgs[i].role = "assistant" => Answered(i)
                               /\ msgs[i].role = "tool" => Asked(i)

(* A tool that was running when the process died is reported as pending, so *)
(* that no effect is silently repeated or lost.                             *)
NoEffectIsForgotten ==
    \A i \in running : \E p \in DOMAIN Rebuilt.pending : Rebuilt.pending[p] = <<Numbered, i>>

(* A run that was interrupted can be continued without an instruction, a    *)
(* run that succeeded cannot.                                               *)
InterruptedRunsContinue ==
    /\ pc \in {"head", "asking", "dispatch"} /\ Len(log) > 1 => ~Rebuilt.completed
    /\ outcome = "success" => Rebuilt.completed

(* A payload restored from a log is only ever sent by a run of the model    *)
(* that log names, and never out of a log that fell back.                   *)
LinkOf(i) ==
    LET link[f \in DOMAIN files] ==
            IF files[f].origin.from = NoFile \/ i > files[f].origin.messages THEN f
            ELSE link[files[f].origin.from]
    IN  link[origin.from]
PayloadsKeepTheirModel ==
    pc \in {"head", "asking"} =>
        \A i \in 1..origin.messages :
            messages[i].carrier # NoCarrier =>
                /\ files[LinkOf(i)].model = model
                /\ ~HasFallback(SubSeq(files[LinkOf(i)].log, 1, seen[LinkOf(i)]))

(* However the logs it came from have grown or been cut since, a chain      *)
(* either is refused or still opens with what its last run was sent.        *)
ChangedParentIsRefused ==
    turn = 0 =>
        \A m \in Models, reads \in Readings(AllFiles, Current) :
            LET replay == Replays(AllFiles, reads, m)[Current]
            IN  replay.refused \/ StripCarriers(replay.messages) = StripCarriers(opening)

(* Changing the model on a resume only keeps the carriers out of the replay *)
(* (docs/contracts/cli.md, "Reasoning carriers" and "A chain of resumes").  *)
ModelChangeStillResumes == \A m \in Models : ~RebuiltUnder(m).refused
=============================================================================
