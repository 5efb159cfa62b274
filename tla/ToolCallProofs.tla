--------------------------- MODULE ToolCallProofs ---------------------------
(***************************************************************************)
(* What the model reads of a tool call is what happened, for every call,   *)
(* config, cap and length of output.  The inductive invariant says where   *)
(* in its life a call may have a child or a server's answer (Early, Sent,  *)
(* Running), why a child was killed (Killings), what Wait has found out    *)
(* (Waited), and that a stream knows whether something of it is missing    *)
(* (Counted).  And only a permitted call takes effect: each guard is shown *)
(* to decide what its rules mean, for every pattern, profile, command, path*)
(* and name, and GuardInv carries that from the ruling to the effect.      *)
(***************************************************************************)
EXTENDS ToolCall, TLAPS, SequenceTheorems, FiniteSetTheorems

Splitting == INSTANCE FoldTheorems WITH Op <- Extend
Skipping == INSTANCE FoldTheorems WITH Op <- Skip
Taking == INSTANCE FoldTheorems WITH Op <- Take
Weighing == INSTANCE FoldTheorems WITH Op <- Stricter
Following == INSTANCE FoldTheorems WITH Op <- Follow

Stream == [written: Nat, kept: Nat, dropped: BOOLEAN]
Answers == [form: Forms \cup {"none"}, failed: BOOLEAN, size: Nat]
Kinds == {"none", "ok", "tool_error", "error", "denied_no_tty", "denied_policy", "ask_refused",
          "rejected", "aborted", "timed_out", "indeterminate", "nonzero_exit"}
Results == [kind: Kinds, truncated: BOOLEAN]

(* Type invariant of a call, its processes and its answer. *)
TypeOK ==
    /\ ctx \in {"live", "over"} /\ begun \in {"none", "live"}
    /\ pc \in {"ruling", "question", "invoking", "running", "draining", "judging", "sent", "returned"}
    /\ timer \in {"off", "running", "expired"}
    /\ child \in {"none", "running", "ok", "nonzero", "killed"}
    /\ heir \in {"none", "grouped", "detached"}
    /\ canceled \in BOOLEAN /\ delay \in {"off", "running", "expired"}
    /\ streams \in [Streams -> Stream]
    /\ waited \in {"none", "exit", "context", "delay"}
    /\ reply \in Answers /\ result \in Results

(* Before it is invoked a call has done nothing. *)
Early ==
    pc \in {"ruling", "question", "invoking"} =>
        begun = "none" /\ child = "none" /\ timer = "off" /\ ~canceled /\ delay = "off"
        /\ waited = "none" /\ reply = NoReply

(* A call under way to a server has no answer yet, and one of a command     *)
(* never gets any.                                                          *)
Sent ==
    /\ pc = "sent" => reply = NoReply /\ setup.tool = "mcp"
    /\ child # "none" => setup.tool # "mcp"

(* While Wait has not begun to read, the child may be anything but nothing; *)
(* later it is gone.                                                        *)
Running ==
    /\ pc \in {"running", "draining", "judging"} => child # "none"
    /\ pc \in {"draining", "judging", "returned"} => child # "running"

(* A child is only killed for a call that is over, and no such call goes on.*)
Killings ==
    /\ canceled => CallOver
    /\ child = "killed" => canceled
    /\ pc = "running" /\ delay # "off" => canceled

(* What Wait says of the child. *)
Waited ==
    pc = "judging" =>
        /\ waited = "none" => child = "ok" /\ ~canceled
        /\ waited = "exit" => child # "ok"

(* A stream keeps the first MaxOutput of what is written, and knows whether *)
(* there was more.                                                          *)
Counted ==
    \A s \in Streams :
        /\ streams[s].kept <= MaxOutput /\ streams[s].kept <= streams[s].written
        /\ streams[s].dropped <=> streams[s].written > streams[s].kept
        /\ streams[s].dropped => streams[s].kept = MaxOutput

CallInv == TypeOK /\ Early /\ Sent /\ Running /\ Killings /\ Waited /\ Counted /\ ResultTellsTheEnd
-----------------------------------------------------------------------------
LEMMA MinOfTwo == ASSUME NEW m \in Int, NEW n \in Int PROVE Min({m, n}) = IF m <= n THEN m ELSE n
<1> DEFINE k == IF m <= n THEN m ELSE n
<1>1. k \in {m, n} /\ \A y \in {m, n} : k <= y
    OBVIOUS
<1>2. \A x \in {m, n} : (\A y \in {m, n} : x <= y) => x = k
    OBVIOUS
<1>3. QED
    BY <1>1, <1>2 DEF Min

LEMMA InitCallInv == Init => CallInv
<1> SUFFICES ASSUME Init PROVE CallInv
    OBVIOUS
<1> USE ToolCallAssumption DEF Init, NoReply, Reply, Result
<1>1. TypeOK
    BY DEF TypeOK, Stream, Answers, Kinds, Results
<1>2. Counted
    BY DEF Counted
<1>3. QED
    BY <1>1, <1>2 DEF CallInv, Early, Sent, Running, Killings, Waited, ResultTellsTheEnd

(* One more byte is kept while there is room, and otherwise missed. *)
LEMMA KeepCounts ==
    ASSUME TypeOK, Counted, NEW s \in Streams, streams' = [streams EXCEPT ![s] = Keep(@)]
    PROVE  Counted' /\ streams' \in [Streams -> Stream]
<1> DEFINE old == streams[s]
           new == Keep(old)
<1>1. /\ old \in Stream /\ MaxOutput \in Nat
      /\ old.kept <= MaxOutput /\ old.kept <= old.written
      /\ old.dropped <=> old.written > old.kept
      /\ old.dropped => old.kept = MaxOutput
    BY ToolCallAssumption DEF TypeOK, Counted
<1>0. old.written \in Nat /\ old.kept \in Nat /\ old.dropped \in BOOLEAN
    BY <1>1 DEF Stream
<1> HIDE DEF old
<1>2. Min({old.kept + 1, MaxOutput}) = IF old.kept + 1 <= MaxOutput THEN old.kept + 1 ELSE MaxOutput
    BY <1>0, <1>1, MinOfTwo
<1>3. /\ new.written = old.written + 1
      /\ new.kept = IF old.kept + 1 <= MaxOutput THEN old.kept + 1 ELSE MaxOutput
      /\ new.dropped \in BOOLEAN /\ (new.dropped <=> old.dropped \/ old.kept = MaxOutput)
      /\ new = [written |-> new.written, kept |-> new.kept, dropped |-> new.dropped]
    BY <1>2 DEF Keep
<1>4. streams' = [streams EXCEPT ![s] = new]
    BY DEF old
<1> HIDE DEF new
<1>5. /\ new.written \in Nat /\ new.kept \in Nat /\ new.dropped \in BOOLEAN
      /\ new.kept <= MaxOutput /\ new.kept <= new.written
      /\ new.dropped <=> new.written > new.kept
      /\ new.dropped => new.kept = MaxOutput
    BY <1>0, <1>1, <1>3
<1>6. new \in Stream
    BY <1>3, <1>5 DEF Stream
<1>7. QED
    BY <1>4, <1>5, <1>6 DEF Counted, TypeOK

(* A call that returns has a result. *)
LEMMA Returns ==
    ASSUME NEW kind \in Kinds, NEW cut \in BOOLEAN, Return(kind, cut)
    PROVE  /\ pc' = "returned" /\ result' \in Results
           /\ result'.kind = kind /\ result'.truncated = cut
BY DEF Return, Goto, Result, Results

(* What a server may answer. *)
LEMMA RepliesAreAnswers ==
    ASSUME NEW r \in Replies
    PROVE  r \in Answers /\ r.form \in Forms /\ r.failed \in BOOLEAN /\ r.size \in Nat
<1>1. \A form \in Forms, failed \in BOOLEAN, size \in Nat :
          LET x == Reply(form, failed, size) IN
          x \in Answers /\ x.form \in Forms /\ x.failed \in BOOLEAN /\ x.size \in Nat
    BY DEF Reply, Answers
<1>2. "content" \in Forms /\ 0..MaxWritten \subseteq Nat /\ 0 \in Nat
    BY ToolCallAssumption DEF Forms
<1>3. CASE setup \in Quiet
    <2>1. r = Reply("content", FALSE, 0)
        BY <1>3 DEF Replies
    <2>2. QED
        BY <1>1, <1>2, <2>1
<1>4. CASE setup \notin Quiet
    <2>1. r \in {Reply(form, failed, size) : form \in Forms, failed \in BOOLEAN, size \in 0..MaxWritten}
        BY <1>4 DEF Replies
    <2>2. PICK form \in Forms, failed \in BOOLEAN, size \in 0..MaxWritten : r = Reply(form, failed, size)
        BY <2>1
    <2>3. QED
        BY <1>1, <1>2, <2>2
<1>5. QED
    BY <1>3, <1>4

LEMMA ResultStep == TypeOK /\ [Next]_vars => result' \in Results
<1> SUFFICES ASSUME TypeOK, [Next]_vars PROVE result' \in Results
    OBVIOUS
<1> USE Returns DEF TypeOK, Kinds
<1>1. CASE Rule \/ Answer
    BY <1>1 DEF Rule, AskHuman, Answer
<1>2. CASE InvokeFile
    BY <1>2 DEF InvokeFile, ReadFile, ListFiles, WriteFile, Touch, WriteBreaks, FileFails, BadArguments
<1>3. CASE RejectCommand \/ RefuseArguments \/ UnknownTool
    BY <1>3 DEF RejectCommand, RefuseArguments, UnknownTool, BadArguments
<1>4. CASE StartChild \/ SendCall
    BY <1>4 DEF StartChild, SendCall
<1>5. CASE ReplyArrives
    BY <1>5 DEF ReplyArrives, Render, ReplyKind
<1>6. CASE CallExpires \/ CallBreaks
    BY <1>6 DEF CallExpires, CallBreaks
<1>7. CASE Judge
    BY <1>7 DEF Judge, Lost
<1>8. CASE UNCHANGED result
    BY <1>8
<1>9. QED
    BY <1>1, <1>2, <1>3, <1>4, <1>5, <1>6, <1>7, <1>8
    DEF Next, Progress, Write, Fork, HeirExits, ChildExits, Cancel, DelayExpires, Reap, Drain,
        RunEnds, TimerExpires, vars

(* Type correctness is inductive, given what a stream counts. *)
LEMMA TypeStep == TypeOK /\ Counted /\ [Next]_vars => TypeOK'
<1> SUFFICES ASSUME TypeOK, Counted, [Next]_vars PROVE TypeOK'
    OBVIOUS
<1>0. result' \in Results
    BY ResultStep
<1> USE <1>0 DEF TypeOK, Goto, Return, processVars
<1>1. CASE Rule \/ Answer
    BY <1>1 DEF Rule, AskHuman, Answer
<1>2. CASE InvokeFile
    <2>1. begun' \in {"none", "live"}
        BY <1>2 DEF InvokeFile, ReadFile, ListFiles, WriteFile, Touch, WriteBreaks, FileFails
    <2>2. pc' = "returned"
        BY <1>2 DEF InvokeFile, ReadFile, ListFiles, WriteFile, Touch, WriteBreaks, FileFails, BadArguments
    <2>3. QED
        BY <1>2, <2>1, <2>2 DEF InvokeFile
<1>3. CASE RejectCommand \/ RefuseArguments \/ UnknownTool
    BY <1>3 DEF RejectCommand, RefuseArguments, UnknownTool, BadArguments
<1>4. CASE StartChild \/ SendCall
    BY <1>4 DEF StartChild, SendCall
<1>5. CASE ReplyArrives
    BY <1>5, RepliesAreAnswers DEF ReplyArrives, Render
<1>6. CASE CallExpires \/ CallBreaks
    BY <1>6 DEF CallExpires, CallBreaks
<1>7. ASSUME NEW s \in Streams, Write(s) PROVE TypeOK'
    <2>1. streams' \in [Streams -> Stream]
        BY <1>7, KeepCounts DEF Write
    <2>2. QED
        BY <1>7, <2>1 DEF Write
<1>8. CASE Fork \/ HeirExits \/ ChildExits
    BY <1>8 DEF Fork, HeirExits, ChildExits
<1>9. CASE Cancel \/ DelayExpires
    BY <1>9 DEF Cancel, DelayExpires
<1>10. CASE Reap \/ Drain
    BY <1>10 DEF Reap, BoundedWait, Drain
<1>11. CASE Judge
    <2>1. pc' = "returned"
        BY <1>11 DEF Judge
    <2>2. QED
        BY <1>11, <2>1 DEF Judge
<1>12. CASE RunEnds \/ TimerExpires \/ UNCHANGED vars
    BY <1>12 DEF RunEnds, TimerExpires, vars
<1>13. QED
    BY <1>1, <1>2, <1>3, <1>4, <1>5, <1>6, <1>7, <1>8, <1>9, <1>10, <1>11, <1>12
    DEF Next, Progress
-----------------------------------------------------------------------------
Rest == Early /\ Sent /\ Running /\ Killings /\ Waited /\ ResultTellsTheEnd

(* A call that returns before it took effect, or goes on to the next point  *)
(* before that.                                                             *)
LEMMA NothingBegun ==
    ASSUME CallInv, pc \in {"ruling", "question", "invoking"},
           UNCHANGED <<setup, reply, begun, child, canceled, delay, waited>>,
           timer' \in {timer, "expired"}, timer' # timer => pc' = "returned",
           pc' \in {"question", "invoking", "returned"}
    PROVE  Rest'
BY DEF CallInv, Rest, Early, Sent, Running, Killings, Waited, ResultTellsTheEnd, CallOver

(* Write, Fork, the exits: nothing that the result is made of changes once  *)
(* the child is gone.                                                       *)
LEMMA ProcessStep ==
    ASSUME CallInv, TypeOK', (\E s \in Streams : Write(s)) \/ Fork \/ HeirExits \/ ChildExits
    PROVE  Rest'
<1> USE DEF CallInv, Rest, Early, Sent, Running, Killings, Waited, ResultTellsTheEnd, CallOver, TypeOK
<1>1. CASE Fork
    BY <1>1 DEF Fork
<1>2. CASE HeirExits
    BY <1>2 DEF HeirExits, ChildIsTold, ReplyIsTold, Missing
<1>3. CASE ChildExits
    <2>1. pc # "returned" /\ pc # "judging" /\ pc # "draining" /\ child = "running"
        BY <1>3 DEF ChildExits, Live
    <2>2. QED
        BY <1>3, <2>1 DEF ChildExits
<1>4. ASSUME NEW s \in Streams, Write(s) PROVE Rest'
    BY <1>4 DEF Write, Piped
<1>5. QED
    BY <1>1, <1>2, <1>3, <1>4

(* Cancellation, the end of WaitDelay, and Wait itself. *)
LEMMA WaitStep ==
    ASSUME CallInv, TypeOK', Cancel \/ DelayExpires \/ Reap \/ Drain
    PROVE  Rest'
<1> USE DEF CallInv, Rest, Early, Sent, Running, Killings, Waited, ResultTellsTheEnd, CallOver, TypeOK
<1>1. CASE Cancel
    BY <1>1 DEF Cancel
<1>2. CASE DelayExpires
    BY <1>2 DEF DelayExpires, Live
<1>3. CASE Reap
    BY <1>3 DEF Reap, Goto
<1>4. CASE Drain
    BY <1>4 DEF Drain, Goto, processVars
<1>5. QED
    BY <1>1, <1>2, <1>3, <1>4

(* What is missing of a stream is what it dropped. *)
LEMMA LostIsMissing ==
    ASSUME TypeOK, Counted
    PROVE  /\ Lost({"stdout"}) <=> Missing("stdout")
           /\ Lost(Streams) <=> Missing("stdout") \/ Missing("stderr")
<1>1. \A s \in Streams : streams[s].dropped <=> Missing(s)
    BY DEF Counted, Missing
<1>2. QED
    BY <1>1 DEF Lost, Streams

(* The verdict on a child. *)
LEMMA JudgeStep == ASSUME CallInv, TypeOK', Judge PROVE Rest'
<1>0. TypeOK /\ Counted
    BY DEF CallInv
<1>1. pc = "judging" /\ pc' = "returned" /\ UNCHANGED <<setup, reply, ctx, begun, processVars, waited>>
    BY DEF Judge, Return, Goto
<1>2. child \notin {"none", "running"} /\ setup.tool # "mcp"
    BY <1>1 DEF CallInv, Running, Sent
<1>3. /\ Lost({"stdout"}) \in BOOLEAN /\ Lost(Streams) \in BOOLEAN
    BY DEF Lost
<1>4. \/ waited = "none" /\ result'.kind = "ok" /\ result'.truncated = Lost({"stdout"})
      \/ waited # "none" /\ ctx = "over" /\ result'.kind = "aborted" /\ result'.truncated = Lost({"stdout"})
      \/ /\ waited # "none" /\ ctx # "over" /\ timer = "expired"
         /\ result'.kind = "timed_out" /\ result'.truncated = Lost({"stdout"})
      \/ /\ waited = "exit" /\ ctx # "over" /\ timer # "expired"
         /\ result'.kind = "nonzero_exit" /\ result'.truncated = Lost(Streams)
      \/ result'.kind = "error"
    BY <1>3, Returns DEF Judge, Kinds
<1>5. waited = "exit" /\ ctx # "over" /\ timer # "expired" => child = "nonzero"
    BY <1>0, <1>1, <1>2 DEF CallInv, Waited, Killings, CallOver, TypeOK
<1>6. ChildIsTold'
    <2>1. Missing("stdout")' = Missing("stdout") /\ Missing("stderr")' = Missing("stderr")
        BY <1>1 DEF Missing, processVars
    <2>2. waited = "none" => child = "ok" /\ ~canceled
        BY <1>1 DEF CallInv, Waited
    <2>3. /\ result'.truncated \in BOOLEAN /\ child' = child /\ canceled' = canceled
          /\ Missing("stdout") \in BOOLEAN /\ Missing("stderr") \in BOOLEAN
        BY <1>1 DEF TypeOK, Results, processVars, Missing
    <2>4. /\ result'.kind \in {"ok", "timed_out", "aborted"} => result'.truncated = Missing("stdout")
          /\ result'.kind = "nonzero_exit" => result'.truncated = (Missing("stdout") \/ Missing("stderr"))
        BY <1>0, <1>3, <1>4, <2>3, LostIsMissing
    <2>5. /\ result'.kind = "ok" => child = "ok" /\ ~canceled
          /\ result'.kind = "nonzero_exit" => child = "nonzero"
        BY <1>4, <1>5, <2>2
    <2>6. QED
        BY <2>1, <2>3, <2>4, <2>5 DEF ChildIsTold
<1>7. ReplyIsTold'
    BY <1>1, <1>2 DEF ReplyIsTold
<1>8. ResultTellsTheEnd'
    BY <1>0, <1>1, <1>4, <1>6, <1>7 DEF ResultTellsTheEnd, processVars, TypeOK
<1>9. QED
    BY <1>0, <1>1, <1>2, <1>8 DEF CallInv, Rest, Early, Sent, Running, Killings, Waited, CallOver, processVars

(* The verdict on an answer: a text marked as cut is at least as long as    *)
(* what is kept, and that of a success is exactly the server's.             *)
LEMMA ReplyStep == ASSUME CallInv, TypeOK', ReplyArrives PROVE Rest'
<1>0. TypeOK /\ MaxOutput \in Nat /\ child = "none"
    BY ToolCallAssumption DEF CallInv, ReplyArrives, Sent
<1>1. /\ pc = "sent" /\ pc' = "returned" /\ setup.tool = "mcp" /\ Render(reply')
      /\ UNCHANGED <<setup, ctx, begun, processVars, waited>>
    BY DEF ReplyArrives, Render, Return, Goto, CallInv, Sent
<1>2. /\ reply'.size \in Nat /\ reply'.failed \in BOOLEAN /\ reply'.form \in Forms
    <2>1. reply' \in Replies
        BY DEF ReplyArrives
    <2>2. QED
        BY <2>1, RepliesAreAnswers
<1>3. /\ ReplyKind(reply') \in {"ok", "tool_error"} /\ TextSize(reply') \in Nat
      /\ TextSize(reply') <= reply'.size + 1
      /\ ReplyKind(reply') = "ok" => TextSize(reply') = reply'.size
    BY <1>2 DEF ReplyKind, TextSize
<1>4. /\ result'.kind = ReplyKind(reply')
      /\ result'.truncated <=> reply'.form # "input" /\ TextSize(reply') > MaxOutput
    BY <1>1, <1>3, Returns DEF Render, Kinds
<1>5. ReplyKind(reply') = "ok" => /\ reply'.form # "input" /\ ~reply'.failed
                                  /\ reply'.form = "misfit" => ~setup.schema
    BY DEF ReplyKind, Misfits
<1>6. ReplyIsTold'
    <2>1. result'.truncated \in BOOLEAN
        BY DEF TypeOK, Results
    <2>2. QED
        BY <1>0, <1>1, <1>2, <1>3, <1>4, <1>5, <2>1 DEF ReplyIsTold, Forms
<1>7. QED
    BY <1>0, <1>1, <1>3, <1>4, <1>6
    DEF CallInv, Rest, Early, Sent, Running, Killings, Waited, CallOver, ResultTellsTheEnd, ChildIsTold, processVars

(* The steps that begin a child or send a call. *)
LEMMA BeginStep == ASSUME CallInv, TypeOK', StartChild \/ SendCall PROVE Rest'
<1>0. TypeOK /\ Early /\ pc = "invoking" /\ begun = "none" /\ child = "none" /\ timer = "off"
    BY DEF CallInv, Early, StartChild, SendCall
<1>1. CASE StartChild /\ pc' = "running"
    <2>1. /\ begun' = "live" /\ child' = "running" /\ timer' = "running" /\ setup.tool # "mcp"
          /\ UNCHANGED <<setup, reply, canceled, delay, waited>>
        BY <1>0, <1>1 DEF StartChild, Return, Goto, MayRun
    <2>2. QED
        BY <1>0, <1>1, <2>1
        DEF CallInv, Rest, Early, Sent, Running, Killings, Waited, ResultTellsTheEnd, CallOver
<1>2. CASE SendCall /\ pc' = "sent"
    BY <1>0, <1>2
    DEF CallInv, Rest, Early, Sent, Running, Killings, Waited, ResultTellsTheEnd, CallOver, SendCall, Return, Goto
<1>3. CASE pc' \notin {"running", "sent"}
    <2>1. /\ pc' = "returned" /\ timer' \in {timer, "expired"}
          /\ UNCHANGED <<setup, reply, begun, child, canceled, delay, waited>>
        BY <1>0, <1>3 DEF StartChild, SendCall, Return, Goto, CallInv, Early
    <2>2. QED
        BY <1>0, <2>1, NothingBegun
<1>4. QED
    BY <1>1, <1>2, <1>3 DEF StartChild, SendCall, Return, Goto

(* The file tools return at once, with neither a child nor an answer. *)
LEMMA FileStep == ASSUME CallInv, TypeOK', InvokeFile PROVE Rest'
<1>1. /\ pc = "invoking" /\ pc' = "returned" /\ setup.tool \in FileTools
      /\ UNCHANGED <<setup, reply, ctx, processVars, waited>>
    BY DEF InvokeFile, ReadFile, ListFiles, WriteFile, Touch, WriteBreaks, FileFails, BadArguments, Return, Goto, FileTools
<1>2. result'.kind \in {"ok", "error"}
    BY Returns DEF InvokeFile, ReadFile, ListFiles, WriteFile, Touch, WriteBreaks, FileFails, BadArguments, Kinds
<1>3. setup.tool # "mcp" /\ child = "none"
    BY <1>1 DEF FileTools, CallInv, Early
<1>4. QED
    BY <1>1, <1>2, <1>3
    DEF CallInv, Rest, Early, Sent, Running, Killings, Waited, ResultTellsTheEnd, CallOver, ChildIsTold,
        ReplyIsTold, processVars

(* A call to a server that gets no answer. *)
LEMMA UnansweredStep == ASSUME CallInv, TypeOK', CallExpires \/ CallBreaks PROVE Rest'
<1>1. /\ pc = "sent" /\ pc' = "returned" /\ setup.tool = "mcp" /\ child = "none" /\ reply = NoReply
      /\ UNCHANGED <<setup, reply, ctx, begun, processVars, waited>>
    BY DEF CallExpires, CallBreaks, Return, Goto, CallInv, Sent
<1>2. /\ result'.truncated = FALSE
      /\ \/ result'.kind = "aborted" /\ ctx = "over"
         \/ result'.kind = "timed_out" /\ ctx = "live" /\ timer = "expired"
         \/ result'.kind \in {"tool_error", "indeterminate"} /\ ~CallOver
    BY <1>1, Returns DEF CallExpires, CallBreaks, CallOver, CallInv, TypeOK, Kinds
<1>3. ReplyIsTold'
    BY <1>1, <1>2 DEF ReplyIsTold, CallOver, CallInv, TypeOK, processVars
<1>4. QED
    BY <1>1, <1>2, <1>3
    DEF CallInv, Rest, Early, Sent, Running, Killings, Waited, ResultTellsTheEnd, CallOver, ChildIsTold, processVars

(* The end of the run or of the tool's time: nothing is returned yet. *)
LEMMA TimeStep == ASSUME CallInv, TypeOK', RunEnds \/ TimerExpires PROVE Rest'
BY DEF RunEnds, TimerExpires, CallInv, TypeOK, Rest, Early, Sent, Running, Killings, Waited,
       ResultTellsTheEnd, CallOver, processVars

(* The ruling, the question and the refusals before a tool begins. *)
LEMMA RefusalStep ==
    ASSUME CallInv, TypeOK', Rule \/ Answer \/ RejectCommand \/ RefuseArguments \/ UnknownTool
    PROVE  Rest'
<1>1. /\ pc \in {"ruling", "question", "invoking"} /\ pc' \in {"question", "invoking", "returned"}
      /\ UNCHANGED <<setup, reply, begun, timer, child, canceled, delay, waited>>
    BY DEF Rule, AskHuman, Answer, RejectCommand, RefuseArguments, UnknownTool, BadArguments, Return, Goto,
           processVars
<1>2. QED
    BY <1>1, NothingBegun

LEMMA CountStep == CallInv /\ [Next]_vars => Counted'
<1> SUFFICES ASSUME CallInv, [Next]_vars PROVE Counted'
    OBVIOUS
<1>1. CASE UNCHANGED streams
    BY <1>1 DEF CallInv, Counted
<1>2. ASSUME NEW s \in Streams, Write(s) PROVE Counted'
    BY <1>2, KeepCounts DEF CallInv, Write
<1>3. QED
    BY <1>1, <1>2
    DEF Next, Progress, Rule, Answer, InvokeFile, RejectCommand, RefuseArguments, StartChild, UnknownTool,
        SendCall, ReplyArrives, CallExpires, CallBreaks, Fork, HeirExits, ChildExits, Cancel, DelayExpires,
        Reap, Drain, Judge, RunEnds, TimerExpires, vars, processVars

LEMMA CallInvStep == CallInv /\ [Next]_vars => CallInv'
<1> SUFFICES ASSUME CallInv, [Next]_vars PROVE CallInv'
    OBVIOUS
<1>1. TypeOK' /\ Counted'
    BY TypeStep, CountStep DEF CallInv
<1>2. Rest'
    <2>1. CASE UNCHANGED vars
        BY <2>1 DEF vars, processVars, CallInv, Rest, Early, Sent, Running, Killings, Waited,
                    ResultTellsTheEnd, CallOver, ChildIsTold, ReplyIsTold, Missing
    <2>2. CASE Next
        BY <1>1, <2>2, RefusalStep, FileStep, BeginStep, ReplyStep, UnansweredStep, ProcessStep, WaitStep,
           JudgeStep, TimeStep
        DEF Next, Progress
    <2>3. QED
        BY <2>1, <2>2
<1>3. QED
    BY <1>1, <1>2 DEF CallInv, Rest
-----------------------------------------------------------------------------
LEMMA CallInvariant == Spec => []CallInv
BY InitCallInv, CallInvStep, PTL DEF Spec

(* Every call that was ever made has a state of the model's types, for      *)
(* every set of configs and every cap on what is kept.                      *)
THEOREM ToolCallTypeCorrect == Spec => []TypeOK
<1>1. CallInv => TypeOK
    BY DEF CallInv
<1>2. QED
    BY <1>1, CallInvariant, PTL

(* runCommand and RenderResult (subprocess.go:186, result.go:60): what the  *)
(* model reads of a call that took effect is what happened to it, whatever  *)
(* the processes and the server do and whenever the run or the timer ends.  *)
THEOREM ResultIsTold == Spec => []ResultTellsTheEnd
<1>1. CallInv => ResultTellsTheEnd
    BY DEF CallInv
<1>2. QED
    BY <1>1, CallInvariant, PTL
-----------------------------------------------------------------------------
(* The folds of the guards, one element at a time. *)
Skipped(rests, parts) == FoldLeft(Skip, rests, parts)
Taken(s, pattern) == FoldLeft(Take, {s}, pattern)

LEMMA Skips ==
    /\ \A rests : Skipped(rests, <<>>) = rests
    /\ \A rests, part, S : \A parts \in Seq(S) : part \in S =>
           Skipped(rests, Append(parts, part)) = Skip(Skipped(rests, parts), part)
<1>1. \A rests, parts : Skipped(rests, parts) = Skipping!Fold(rests, parts)
    BY DEF Skipped, FoldLeft, Skipping!Fold, MapThenFoldSet,
           Skipping!MapThenFoldSet, Max, Skipping!Largest
<1>2. QED
    BY <1>1, Skipping!FoldEmpty, Skipping!FoldAppend

LEMMA Takes ==
    /\ \A s : Taken(s, <<>>) = {s}
    /\ \A s, c, S : \A q \in Seq(S) : c \in S => Taken(s, Append(q, c)) = Take(Taken(s, q), c)
<1>1. \A s, q : Taken(s, q) = Taking!Fold({s}, q)
    BY DEF Taken, FoldLeft, Taking!Fold, MapThenFoldSet,
           Taking!MapThenFoldSet, Max, Taking!Largest
<1>2. QED
    BY <1>1, Taking!FoldEmpty, Taking!FoldAppend

LEMMA Splits ==
    /\ Split(<<>>) = << <<>> >>
    /\ \A c, S : \A q \in Seq(S) : c \in S => Split(Append(q, c)) = Extend(Split(q), c)
<1>1. \A q : Split(q) = Splitting!Fold(<< <<>> >>, q)
    BY DEF Split, FoldLeft, Splitting!Fold, MapThenFoldSet,
           Splitting!MapThenFoldSet, Max, Splitting!Largest
<1>2. QED
    BY <1>1, Splitting!FoldEmpty, Splitting!FoldAppend

(* What is left behind n symbols, symbol by symbol. *)
LEMMA DropIs ==
    ASSUME NEW s, NEW n, s \in Text, n \in 0..Len(s)
    PROVE  /\ Drop(s, n) \in Seq(Symbols)
           /\ Len(Drop(s, n)) = IF n + 1 <= Len(s) THEN Len(s) - (n + 1) + 1 ELSE 0
           /\ \A i \in 1..Len(s) - (n + 1) + 1 : Drop(s, n)[i] = s[n + 1 + i - 1]
<1>1. n + 1 \in Int /\ Len(s) \in Int /\ n \in Nat /\ Len(s) \in Nat /\ n <= Len(s)
    BY LenProperties DEF Text
<1>2. \A i \in n + 1..Len(s) : s[i] \in Symbols
    BY <1>1, ElementOfSeq DEF Text
<1>3. QED
    BY <1>1, <1>2, SubSeqProperties DEF Drop

LEMMA DropLen ==
    ASSUME NEW s, NEW n, s \in Text, n \in 0..Len(s)
    PROVE  Drop(s, n) \in Text /\ Len(Drop(s, n)) = Len(s) - n
<1>1. Len(s) \in Nat /\ n \in Nat /\ n <= Len(s)
    BY LenProperties DEF Text
<1> DEFINE d == Drop(s, n)
<1>2. d \in Seq(Symbols) /\ Len(d) = IF n + 1 <= Len(s) THEN Len(s) - (n + 1) + 1 ELSE 0
    BY DropIs
<1> HIDE DEF d
<1>3. Len(d) = Len(s) - n
    BY <1>1, <1>2
<1>4. QED
    BY <1>2, <1>3 DEF d, Text

LEMMA DropAt ==
    ASSUME NEW s, NEW n, NEW i, s \in Text, n \in 0..Len(s), i \in 1..Len(s) - n
    PROVE  Drop(s, n)[i] = s[n + i]
<1>1. Len(s) \in Nat /\ n \in Nat /\ n <= Len(s)
    BY LenProperties DEF Text
<1>2. i \in 1..Len(s) - (n + 1) + 1 /\ n + 1 + i - 1 = n + i
    BY <1>1
<1>3. \A j \in 1..Len(s) - (n + 1) + 1 : Drop(s, n)[j] = s[n + 1 + j - 1]
    BY DropIs
<1>4. Drop(s, n)[i] = s[n + 1 + i - 1]
    BY <1>2, <1>3
<1>5. QED
    BY <1>2, <1>4

(* Dropping twice. *)
LEMMA DropTwice ==
    ASSUME NEW s, NEW n, NEW m, s \in Text, n \in 0..Len(s), m \in 0..Len(s) - n
    PROVE  Drop(Drop(s, n), m) = Drop(s, n + m)
<1> DEFINE d == Drop(s, n)
           e == Drop(d, m)
           f == Drop(s, n + m)
<1>0. Len(s) \in Nat /\ n \in Nat /\ m \in Nat
    BY LenProperties DEF Text
<1>1. d \in Text /\ Len(d) = Len(s) - n
    BY DropLen
<1>2. n + m \in 0..Len(s) /\ m \in 0..Len(d)
    BY <1>0, <1>1
<1>3. f \in Text /\ Len(f) = Len(s) - (n + m)
    BY <1>2, DropLen
<1>4. e \in Text /\ Len(e) = Len(d) - m
    BY <1>1, <1>2, DropLen
<1>5. \A i \in 1..Len(s) - (n + m) : e[i] = f[i]
    <2> TAKE i \in 1..Len(s) - (n + m)
    <2>1. /\ i \in 1..Len(d) - m /\ m + i \in 1..Len(s) - n
          /\ n + (m + i) = n + m + i
        BY <1>0, <1>1
    <2>2. f[i] = s[n + m + i]
        BY <1>2, DropAt
    <2> HIDE DEF d
    <2>a. d \in Text /\ m \in 0..Len(d) /\ i \in 1..Len(d) - m
        BY <1>1, <1>2, <2>1
    <2>3. e[i] = d[m + i]
        BY ONLY <2>a, DropAt DEF e
    <2> USE DEF d
    <2>4. d[m + i] = s[n + (m + i)]
        BY <2>1, DropAt
    <2>5. QED
        BY <2>1, <2>2, <2>3, <2>4
<1> HIDE DEF d, e, f
<1>6. Len(e) = Len(f) /\ Len(e) = Len(s) - (n + m)
    BY <1>0, <1>1, <1>3, <1>4
<1>7. e = f
    BY <1>3, <1>4, <1>5, <1>6, SeqEqual DEF Text
<1>8. QED
    BY <1>7 DEF d, e, f

(* A string with one symbol more. *)
LEMMA AppendIs ==
    ASSUME NEW s, NEW c, s \in Text, c \in Symbols
    PROVE  /\ Append(s, c) \in Text /\ Append(s, c) # <<>>
           /\ Len(Append(s, c)) = Len(s) + 1 /\ Append(s, c)[Len(s) + 1] = c
    BY AppendProperties DEF Text

LEMMA AppendAt ==
    ASSUME NEW s, NEW c, NEW k, s \in Text, c \in Symbols, k \in 1..Len(s)
    PROVE  Append(s, c)[k] = s[k]
    BY AppendProperties DEF Text

(* Where a part is found. *)
Lies(part, s, i) == \A k \in 1..Len(part) : s[i + k] = part[k]

LEMMA FoundIs ==
    ASSUME NEW part, NEW s, NEW i, part \in Text, s \in Text, i \in Nat
    PROVE  i \in Found(part, s) <=>
               i + Len(part) <= Len(s) /\ Lies(part, s, i)
<1>0. Len(s) \in Nat /\ Len(part) \in Nat
    BY LenProperties DEF Text
<1>1. CASE i + Len(part) <= Len(s)
    <2> DEFINE sub == SubSeq(s, i + 1, i + Len(part))
    <2>1. i + 1 \in Int /\ i + Len(part) \in Int /\ i \in 0..Len(s) - Len(part)
        BY <1>0, <1>1
    <2>2. sub \in Seq(Symbols) /\ Len(sub) = Len(part) /\ \A k \in 1..Len(part) : sub[k] = s[i + k]
        <3>1. \A k \in i + 1..i + Len(part) : s[k] \in Symbols
            BY <1>0, <1>1, ElementOfSeq DEF Text
        <3>2. /\ sub \in Seq(Symbols)
              /\ Len(sub) = IF i + 1 <= i + Len(part) THEN i + Len(part) - (i + 1) + 1 ELSE 0
              /\ \A k \in 1..i + Len(part) - (i + 1) + 1 : sub[k] = s[i + 1 + k - 1]
            BY <2>1, <3>1, SubSeqProperties
        <3> HIDE DEF sub
        <3>3. i + Len(part) - (i + 1) + 1 = Len(part) /\ (i + 1 > i + Len(part) => Len(part) = 0)
            BY <1>0
        <3>4. \A k \in 1..Len(part) : i + 1 + k - 1 = i + k
            BY <1>0
        <3>5. QED
            BY <3>2, <3>3, <3>4
    <2> HIDE DEF sub
    <2>3. sub = part <=> \A k \in 1..Len(part) : sub[k] = part[k]
        BY <2>2, SeqEqual DEF Text
    <2>4. i \in Found(part, s) <=> sub = part
        BY <2>1 DEF Found, sub
    <2>5. QED
        BY <2>2, <2>3, <2>4, <1>1 DEF Lies
<1>2. CASE ~(i + Len(part) <= Len(s))
    BY <1>0, <1>2 DEF Found
<1>3. QED
    BY <1>1, <1>2
-----------------------------------------------------------------------------
(* One symbol of a pattern, from a place in a string. *)
LEMMA TailDrop ==
    ASSUME NEW s, NEW n, s \in Text, n \in 0..Len(s) - 1
    PROVE  /\ Drop(s, n) # <<>> /\ Drop(s, n)[1] = s[n + 1]
           /\ Tail(Drop(s, n)) = Drop(s, n + 1)
<1> DEFINE d == Drop(s, n)
           t == Tail(d)
           e == Drop(s, n + 1)
<1>0. Len(s) \in Nat /\ n \in Nat /\ n \in 0..Len(s) /\ n + 1 \in 0..Len(s) /\ 1 \in 1..Len(s) - n
    BY LenProperties DEF Text
<1>1. d \in Text /\ Len(d) = Len(s) - n
    BY <1>0, DropLen
<1>2. e \in Text /\ Len(e) = Len(s) - (n + 1)
    BY <1>0, DropLen
<1>3. d[1] = s[n + 1]
    BY <1>0, DropAt
<1>4. \A i \in 1..Len(s) - (n + 1) : d[i + 1] = e[i]
    <2> TAKE i \in 1..Len(s) - (n + 1)
    <2>1. i + 1 \in 1..Len(s) - n /\ n + 1 + i = n + (i + 1) /\ i \in Nat
        BY <1>0
    <2>2. e[i] = s[n + 1 + i]
        BY <1>0, DropAt
    <2>3. d[i + 1] = s[n + (i + 1)]
        BY <1>0, <2>1, DropAt
    <2>4. QED
        BY <2>1, <2>2, <2>3
<1> HIDE DEF d, e
<1>5. d # <<>>
    BY <1>0, <1>1
<1>6. t \in Seq(Symbols) /\ Len(t) = Len(d) - 1 /\ \A i \in 1..Len(t) : t[i] = d[i + 1]
    BY <1>1, <1>5, HeadTailProperties DEF Text
<1> HIDE DEF t
<1>7. Len(t) = Len(e) /\ Len(t) = Len(s) - (n + 1)
    BY <1>0, <1>1, <1>2, <1>6
<1>8. \A i \in 1..Len(t) : t[i] = e[i]
    BY <1>4, <1>6, <1>7
<1>9. t = e
    BY <1>2, <1>6, <1>7, <1>8, SeqEqual DEF Text
<1>10. QED
    BY <1>3, <1>5, <1>9 DEF d, e, t

LEMMA DropAll == ASSUME NEW s, s \in Text PROVE Drop(s, Len(s)) = <<>> /\ Drop(s, 0) = s
<1>0. Len(s) \in Nat /\ 0 \in 0..Len(s) /\ Len(s) \in 0..Len(s)
    BY LenProperties DEF Text
<1>1. Drop(s, Len(s)) \in Text /\ Len(Drop(s, Len(s))) = Len(s) - Len(s)
    BY <1>0, DropLen
<1>2. Drop(s, Len(s)) = <<>>
    BY <1>0, <1>1, EmptySeq DEF Text
<1>3. Drop(s, 0) \in Text /\ Len(Drop(s, 0)) = Len(s) - 0
    BY <1>0, DropLen
<1>4. \A i \in 1..Len(s) : Drop(s, 0)[i] = s[i]
    <2> TAKE i \in 1..Len(s)
    <2>1. i \in 1..Len(s) - 0 /\ 0 + i = i
        BY <1>0
    <2>2. QED
        BY <1>0, <2>1, DropAt
<1>5. Drop(s, 0) = s
    BY <1>0, <1>3, <1>4, SeqEqual DEF Text
<1>6. QED
    BY <1>2, <1>5

LEMMA BehindWord ==
    ASSUME NEW s, NEW n, NEW c, s \in Text, n \in 0..Len(s), c # Wild
    PROVE  /\ n < Len(s) /\ s[n + 1] = c => Behind(c, Drop(s, n)) = {Drop(s, n + 1)}
           /\ ~(n < Len(s) /\ s[n + 1] = c) => Behind(c, Drop(s, n)) = {}
<1>0. Len(s) \in Nat /\ n \in Nat /\ n <= Len(s)
    BY LenProperties DEF Text
<1>1. CASE n < Len(s)
    <2>1. n \in 0..Len(s) - 1
        BY <1>0, <1>1
    <2>2. QED
        BY <1>1, <2>1, TailDrop DEF Behind
<1>2. CASE ~(n < Len(s))
    <2>1. n = Len(s)
        BY <1>0, <1>2
    <2>2. Drop(s, n) = <<>>
        BY <2>1, DropAll
    <2>3. QED
        BY <1>2, <2>2 DEF Behind
<1>3. QED
    BY <1>1, <1>2

LEMMA BehindStar ==
    ASSUME NEW s, NEW n, s \in Text, n \in 0..Len(s)
    PROVE  Behind(Wild, Drop(s, n)) = {Drop(s, m) : m \in n..Len(s)}
<1>0. Len(s) \in Nat /\ n \in Nat /\ n <= Len(s)
    BY LenProperties DEF Text
<1>1. Len(Drop(s, n)) = Len(s) - n
    BY DropLen
<1>2. Behind(Wild, Drop(s, n)) = {Drop(Drop(s, n), m) : m \in 0..Len(s) - n}
    BY <1>1 DEF Behind
<1>3. \A m \in 0..Len(s) - n : Drop(Drop(s, n), m) = Drop(s, n + m)
    BY DropTwice
<1> DEFINE T == {Drop(Drop(s, n), m) : m \in 0..Len(s) - n}
           U == {Drop(s, m) : m \in n..Len(s)}
<1>4. \A x \in T : x \in U
    <2> TAKE x \in T
    <2>1. PICK m \in 0..Len(s) - n : x = Drop(Drop(s, n), m)
        OBVIOUS
    <2>2. n + m \in n..Len(s) /\ x = Drop(s, n + m)
        BY <1>0, <1>3, <2>1
    <2>3. QED
        BY <2>2
<1>5. \A x \in U : x \in T
    <2> TAKE x \in U
    <2>1. PICK k \in n..Len(s) : x = Drop(s, k)
        OBVIOUS
    <2>2. k - n \in 0..Len(s) - n /\ n + (k - n) = k
        BY <1>0
    <2>3. x = Drop(Drop(s, n), k - n)
        BY <1>3, <2>1, <2>2
    <2>4. QED
        BY <2>2, <2>3
<1> HIDE DEF T, U
<1>6. T = U
    BY <1>4, <1>5
<1>7. QED
    BY <1>2, <1>6 DEF T, U
-----------------------------------------------------------------------------
(* The rests behind an occurrence of part in one of rests, and the rest     *)
(* behind part where a string begins with it.                               *)
Ends(part, rests) == UNION {{Drop(r, i + Len(part)) : i \in Found(part, r)} : r \in rests}
Opened(part, s) == IF IsPrefix(part, s) THEN {Drop(s, Len(part))} ELSE {}

LEMMA InEnds ==
    ASSUME NEW x, NEW part, NEW rests
    PROVE  x \in Ends(part, rests) <=> \E r \in rests : \E i \in Found(part, r) : x = Drop(r, i + Len(part))
    BY DEF Ends

LEMMA InTake ==
    ASSUME NEW x, NEW c, NEW rests PROVE x \in Take(rests, c) <=> \E r \in rests : x \in Behind(c, r)
    BY DEF Take

LEMMA FoundPlace ==
    ASSUME NEW part, NEW s, NEW i, part \in Text, s \in Text, i \in Found(part, s)
    PROVE  i \in Nat /\ i + Len(part) \in 0..Len(s)
<1>1. Len(s) \in Nat /\ Len(part) \in Nat
    BY LenProperties DEF Text
<1>2. i \in Nat /\ i <= Len(s) - Len(part)
    BY <1>1 DEF Found
<1>3. QED
    BY <1>1, <1>2

(* A longer part is found where the shorter one is and the symbol follows. *)
LEMMA FoundMore ==
    ASSUME NEW part, NEW s, NEW c, NEW i, part \in Text, s \in Text, c \in Symbols, i \in Nat
    PROVE  i \in Found(Append(part, c), s) <=>
               i \in Found(part, s) /\ i + Len(part) < Len(s) /\ s[i + Len(part) + 1] = c
<1> DEFINE n == Len(part)
           m == Append(part, c)
<1>0. Len(s) \in Nat /\ n \in Nat
    BY LenProperties DEF Text
<1>1. m \in Text /\ Len(m) = n + 1 /\ m[n + 1] = c
    BY AppendIs
<1>2. \A k \in 1..n : m[k] = part[k]
    BY AppendAt
<1> HIDE DEF m
<1>3. i \in Found(m, s) <=> i + Len(m) <= Len(s) /\ Lies(m, s, i)
    BY <1>1, FoundIs
<1>4. i \in Found(part, s) <=> i + n <= Len(s) /\ Lies(part, s, i)
    BY FoundIs
<1> HIDE DEF n
<1>5. Lies(m, s, i) <=> Lies(part, s, i) /\ s[i + n + 1] = c
    <2>1. 1..n + 1 = 1..n \cup {n + 1} /\ i + (n + 1) = i + n + 1
        BY <1>0
    <2>2. Lies(m, s, i) <=> \A k \in 1..n \cup {n + 1} : s[i + k] = m[k]
        BY <1>1, <2>1 DEF Lies
    <2>3. Lies(m, s, i) <=> (\A k \in 1..n : s[i + k] = m[k]) /\ s[i + (n + 1)] = m[n + 1]
        BY <2>2
    <2>4. (\A k \in 1..n : s[i + k] = m[k]) <=> Lies(part, s, i)
        BY <1>2 DEF Lies, n
    <2>5. QED
        BY <1>1, <2>1, <2>3, <2>4
<1>6. (i + Len(m) <= Len(s) <=> i + n < Len(s)) /\ (i + n < Len(s) => i + n <= Len(s))
    BY <1>0, <1>1
<1>7. QED
    BY <1>3, <1>4, <1>5, <1>6 DEF m, n

(* A word symbol makes the last part longer. *)
LEMMA TakeWord ==
    ASSUME NEW part, NEW rests, NEW c, part \in Text, rests \in SUBSET Text, c \in Symbols, c # Wild
    PROVE  Take(Ends(part, rests), c) = Ends(Append(part, c), rests)
<1> DEFINE n == Len(part)
           m == Append(part, c)
<1>0. n \in Nat /\ m \in Text /\ Len(m) = n + 1
    BY LenProperties, AppendIs DEF Text
<1>1. ASSUME NEW x, x \in Take(Ends(part, rests), c) PROVE x \in Ends(m, rests)
    <2>1. PICK e \in Ends(part, rests) : x \in Behind(c, e)
        BY <1>1, InTake
    <2>2. PICK r \in rests : \E i \in Found(part, r) : e = Drop(r, i + n)
        BY InEnds
    <2>3. PICK i \in Found(part, r) : e = Drop(r, i + n)
        BY <2>2
    <2>4. r \in Text /\ i \in Nat /\ i + n \in 0..Len(r)
        BY FoundPlace
    <2>5. i + n < Len(r) /\ r[i + n + 1] = c /\ x = Drop(r, i + n + 1)
        <3> DEFINE k == i + n
        <3> HIDE DEF k, n
        <3>1. x \in Behind(c, Drop(r, k))
            BY <2>1, <2>3 DEF k
        <3>2. r \in Text /\ k \in 0..Len(r)
            BY <2>4 DEF k
        <3>3. k < Len(r) /\ r[k + 1] = c
            BY <3>1, <3>2, BehindWord
        <3>4. Behind(c, Drop(r, k)) = {Drop(r, k + 1)}
            BY <3>2, <3>3, BehindWord
        <3>5. QED
            BY <3>1, <3>3, <3>4 DEF k
    <2>6. i \in Found(m, r)
        BY <2>4, <2>5, FoundMore
    <2>7. i + n + 1 = i + Len(m)
        BY <1>0, <2>4
    <2> HIDE DEF m
    <2>8. x = Drop(r, i + Len(m))
        BY <2>5, <2>7
    <2>9. QED
        BY <2>6, <2>8, InEnds
<1>2. ASSUME NEW x, x \in Ends(m, rests) PROVE x \in Take(Ends(part, rests), c)
    <2> HIDE DEF m
    <2>1. PICK r \in rests : \E i \in Found(m, r) : x = Drop(r, i + Len(m))
        BY <1>2, InEnds
    <2>2. PICK i \in Found(m, r) : x = Drop(r, i + Len(m))
        BY <2>1
    <2>3. r \in Text /\ i \in Nat
        BY <1>0, FoundPlace
    <2>4. i \in Found(part, r) /\ i + n < Len(r) /\ r[i + n + 1] = c
        BY <2>3, FoundMore DEF m
    <2>5. i + n \in 0..Len(r) /\ i + n + 1 = i + Len(m)
        BY <1>0, <2>3, <2>4, FoundPlace
    <2>6. Behind(c, Drop(r, i + n)) = {Drop(r, i + n + 1)}
        BY <2>3, <2>4, <2>5, BehindWord
    <2>7. x \in Behind(c, Drop(r, i + n))
        BY <2>2, <2>5, <2>6
    <2>8. Drop(r, i + n) \in Ends(part, rests)
        BY <2>4, InEnds
    <2>9. QED
        BY <2>7, <2>8, InTake
<1>3. QED
    BY <1>1, <1>2

(* The empty part is found everywhere. *)
LEMMA FoundNothing == ASSUME NEW s, s \in Text PROVE Found(<<>>, s) = 0..Len(s)
<1>1. <<>> \in Text /\ Len(<<>>) = 0 /\ Len(s) \in Nat
    BY LenProperties DEF Text
<1>2. \A i \in 0..Len(s) : i \in Nat /\ i + 0 <= Len(s) /\ Lies(<<>>, s, i)
    BY <1>1 DEF Lies
<1>3. \A i \in 0..Len(s) : i \in Found(<<>>, s)
    BY <1>1, <1>2, FoundIs
<1>4. \A i \in Found(<<>>, s) : i \in 0..Len(s)
    BY <1>1 DEF Found
<1>5. QED
    BY <1>3, <1>4

LEMMA LeastIs == ASSUME NEW T, T \in SUBSET Nat, T # {} PROVE Min(T) \in T /\ \A k \in T : Min(T) <= k
<1>1. \E m \in T : \A k \in T : m <= k
    BY Splitting!LeastOf
<1>2. QED
    BY <1>1 DEF Min

(* A star leaves the string behind the first occurrence of the last part,   *)
(* and all its ends.                                                        *)
LEMMA TakeStar ==
    ASSUME NEW part, NEW rests, part \in Text, rests \in SUBSET Text
    PROVE  Take(Ends(part, rests), Wild) = Ends(<<>>, Skip(rests, part))
<1> DEFINE n == Len(part)
<1>0. n \in Nat /\ <<>> \in Text /\ Len(<<>>) = 0
    BY LenProperties DEF Text
<1>1. ASSUME NEW r \in rests, Found(part, r) # {}
      PROVE  /\ r \in Text /\ Found(part, r) \subseteq Nat
             /\ Min(Found(part, r)) \in Found(part, r) /\ Min(Found(part, r)) + n \in 0..Len(r)
             /\ \A i \in Found(part, r) : Min(Found(part, r)) <= i
    <2>1. Found(part, r) \subseteq Nat
        BY FoundPlace
    <2>2. Min(Found(part, r)) \in Found(part, r) /\ \A i \in Found(part, r) : Min(Found(part, r)) <= i
        BY <1>1, <2>1, LeastIs
    <2>3. QED
        BY <2>1, <2>2, FoundPlace
<1>2. ASSUME NEW x, x \in Take(Ends(part, rests), Wild) PROVE x \in Ends(<<>>, Skip(rests, part))
    <2>1. PICK e \in Ends(part, rests) : x \in Behind(Wild, e)
        BY <1>2, InTake
    <2>2. PICK r \in rests : \E i \in Found(part, r) : e = Drop(r, i + n)
        BY InEnds
    <2>3. PICK i \in Found(part, r) : e = Drop(r, i + n)
        BY <2>2
    <2>4. r \in Text /\ i \in Nat /\ i + n \in 0..Len(r)
        BY FoundPlace
    <2>5. PICK k \in i + n..Len(r) : x = Drop(r, k)
        BY <2>1, <2>3, <2>4, BehindStar
    <2> DEFINE m == Min(Found(part, r)) + n
               w == Drop(r, m)
    <2>6. m \in 0..Len(r) /\ m <= i + n /\ Len(r) \in Nat
        BY <1>0, <1>1, <2>4, LenProperties DEF Text
    <2>7. w \in Skip(rests, part)
        BY DEF Skip
    <2> HIDE DEF m
    <2>8. k - m \in 0..Len(r) - m /\ m + (k - m) = k /\ k - m + 0 = k - m
        BY <2>4, <2>6
    <2>9. w \in Text /\ Len(w) = Len(r) - m
        BY <2>4, <2>6, DropLen
    <2>10. x = Drop(w, k - m)
        BY <2>4, <2>5, <2>6, <2>8, DropTwice
    <2> HIDE DEF w
    <2>11. k - m \in Found(<<>>, w)
        BY <2>8, <2>9, FoundNothing
    <2>12. x = Drop(w, k - m + Len(<<>>))
        BY <1>0, <2>8, <2>10
    <2>13. QED
        BY <2>7, <2>11, <2>12, InEnds
<1>3. ASSUME NEW x, x \in Ends(<<>>, Skip(rests, part)) PROVE x \in Take(Ends(part, rests), Wild)
    <2>1. PICK w \in Skip(rests, part) : \E j \in Found(<<>>, w) : x = Drop(w, j + Len(<<>>))
        BY <1>3, InEnds
    <2>2. PICK j \in Found(<<>>, w) : x = Drop(w, j + Len(<<>>))
        BY <2>1
    <2>3. PICK r \in rests : Found(part, r) # {} /\ w = Drop(r, Min(Found(part, r)) + n)
        BY DEF Skip
    <2> DEFINE i == Min(Found(part, r))
    <2>4. r \in Text /\ i \in Found(part, r) /\ i + n \in 0..Len(r) /\ i \in Nat /\ Len(r) \in Nat
        BY <1>1, <2>3, LenProperties DEF Text
    <2> HIDE DEF i
    <2>5. w = Drop(r, i + n)
        BY <2>3 DEF i
    <2>6. w \in Text /\ Len(w) = Len(r) - (i + n)
        BY <2>4, <2>5, DropLen
    <2>7. j \in 0..Len(r) - (i + n) /\ x = Drop(w, j)
        <3>1. j \in 0..Len(w)
            BY <2>6, FoundNothing
        <3>2. j + Len(<<>>) = j
            BY <1>0, <3>1
        <3>3. QED
            BY <2>2, <2>6, <3>1, <3>2
    <2>8. x = Drop(r, i + n + j)
        BY <2>4, <2>5, <2>7, DropTwice
    <2>9. i + n + j \in i + n..Len(r)
        BY <1>0, <2>4, <2>7
    <2>10. x \in Behind(Wild, Drop(r, i + n))
        BY <2>4, <2>8, <2>9, BehindStar
    <2>11. Drop(r, i + n) \in Ends(part, rests)
        BY <2>4, InEnds
    <2>12. QED
        BY <2>10, <2>11, InTake
<1>4. QED
    BY <1>2, <1>3

(* The same of the part a string begins with. *)
LEMMA PrefixIs ==
    ASSUME NEW part, NEW s, part \in Text, s \in Text PROVE IsPrefix(part, s) <=> 0 \in Found(part, s)
<1>0. Len(s) \in Nat /\ Len(part) \in Nat
    BY LenProperties DEF Text
<1>1. SubSeq(part, 1, Len(part)) = part
    BY SubSeqFull DEF Text
<1>2. SubSeq(s, 0 + 1, 0 + Len(part)) = SubSeq(s, 1, Len(part))
    BY <1>0
<1>3. IsPrefix(part, s) <=> 0 \in Found(part, s)
    BY <1>0, <1>1, <1>2 DEF IsPrefix, Found
<1>4. QED
    BY <1>3

LEMMA OpenedIs ==
    ASSUME NEW part, NEW s, part \in Text, s \in Text
    PROVE  /\ 0 \in Found(part, s) => Opened(part, s) = {Drop(s, Len(part))}
           /\ 0 \notin Found(part, s) => Opened(part, s) = {}
    BY PrefixIs DEF Opened

LEMMA OpenWord ==
    ASSUME NEW q, NEW s, NEW c, q \in Text, s \in Text, c \in Symbols, c # Wild
    PROVE  Take(Opened(q, s), c) = Opened(Append(q, c), s)
<1> DEFINE n == Len(q)
           m == Append(q, c)
<1>0. Len(s) \in Nat /\ n \in Nat /\ m \in Text /\ Len(m) = n + 1
    BY LenProperties, AppendIs DEF Text
<1>1. 0 \in Found(m, s) <=> 0 \in Found(q, s) /\ 0 + n < Len(s) /\ s[0 + n + 1] = c
    BY FoundMore
<1>2. CASE 0 \in Found(q, s)
    <2>1. Opened(q, s) = {Drop(s, n)} /\ 0 + n = n /\ n \in 0..Len(s)
        BY <1>0, <1>2, OpenedIs, FoundPlace
    <2>2. Take(Opened(q, s), c) = Behind(c, Drop(s, n))
        BY <2>1 DEF Take
    <2> HIDE DEF n, m
    <2>3. n < Len(s) /\ s[n + 1] = c => Behind(c, Drop(s, n)) = {Drop(s, n + 1)}
        BY <2>1, BehindWord
    <2>4. ~(n < Len(s) /\ s[n + 1] = c) => Behind(c, Drop(s, n)) = {}
        BY <2>1, BehindWord
    <2>5. 0 \in Found(m, s) <=> n < Len(s) /\ s[n + 1] = c
        BY <1>1, <1>2, <2>1
    <2>6. (0 \in Found(m, s) => Opened(m, s) = {Drop(s, n + 1)}) /\ (0 \notin Found(m, s) => Opened(m, s) = {})
        BY <1>0, OpenedIs
    <2>7. Take(Opened(q, s), c) = Opened(m, s)
        BY <2>2, <2>3, <2>4, <2>5, <2>6
    <2>8. QED
        BY <2>7 DEF m
<1>3. CASE 0 \notin Found(q, s)
    <2>1. Opened(q, s) = {} /\ Opened(m, s) = {}
        BY <1>0, <1>1, <1>3, OpenedIs
    <2>2. QED
        BY <2>1 DEF Take
<1>4. QED
    BY <1>2, <1>3

LEMMA OpenStar == ASSUME NEW rests, rests \in SUBSET Text PROVE Take(rests, Wild) = Ends(<<>>, rests)
<1>1. Len(<<>>) = 0
    OBVIOUS
<1>2. ASSUME NEW r \in rests PROVE Behind(Wild, r) = {Drop(r, i + Len(<<>>)) : i \in Found(<<>>, r)}
    <2>1. Found(<<>>, r) = 0..Len(r) /\ Len(r) \in Nat
        BY FoundNothing, LenProperties DEF Text
    <2>2. \A i \in 0..Len(r) : i + Len(<<>>) = i
        BY <1>1, <2>1
    <2>3. QED
        BY <2>1, <2>2 DEF Behind
<1>3. QED
    BY <1>2 DEF Take, Ends

LEMMA OpenedType == ASSUME NEW q, NEW s, q \in Text, s \in Text PROVE Opened(q, s) \in SUBSET Text
<1>1. CASE 0 \in Found(q, s)
    <2>1. 0 + Len(q) \in 0..Len(s) /\ Len(q) \in Nat
        BY <1>1, FoundPlace, LenProperties DEF Text
    <2>2. Drop(s, Len(q)) \in Text
        BY <2>1, DropLen
    <2>3. QED
        BY <1>1, <2>2, OpenedIs
<1>2. QED
    BY <1>1, OpenedIs

LEMMA SkipType ==
    ASSUME NEW rests, NEW part, rests \in SUBSET Text, part \in Text PROVE Skip(rests, part) \in SUBSET Text
<1> SUFFICES ASSUME NEW w \in Skip(rests, part) PROVE w \in Text
    OBVIOUS
<1>1. PICK r \in rests : Found(part, r) # {} /\ w = Drop(r, Min(Found(part, r)) + Len(part))
    BY DEF Skip
<1>2. Found(part, r) \in SUBSET Nat
    BY FoundPlace
<1>3. Min(Found(part, r)) \in Found(part, r)
    BY <1>1, <1>2, LeastIs
<1>4. Min(Found(part, r)) + Len(part) \in 0..Len(r)
    BY <1>3, FoundPlace
<1>5. QED
    BY <1>1, <1>4, DropLen
-----------------------------------------------------------------------------
(* What GlobMatch holds after the parts before the last. *)
Between(parts) == SubSeq(parts, 2, Len(parts) - 1)
Rests(parts, s) == Skipped(Opened(parts[1], s), Between(parts))
LiesBetween(b, parts) == \A i \in 1..Len(parts) - 2 : b[i] = parts[i + 1]

LEMMA BetweenNone == ASSUME NEW parts, Len(parts) = 1 \/ Len(parts) = 2 PROVE Between(parts) = <<>>
<1>1. SubSeq(parts, 2, 0) = <<>> /\ SubSeq(parts, 2, 1) = <<>>
    BY SubSeqEmpty
<1>2. CASE Len(parts) = 1
    BY <1>1, <1>2 DEF Between
<1>3. CASE Len(parts) = 2
    BY <1>1, <1>3 DEF Between
<1>4. QED
    BY <1>2, <1>3

LEMMA BetweenIs ==
    ASSUME NEW parts, parts \in Seq(Text), Len(parts) > 1
    PROVE  Between(parts) \in Seq(Text) /\ Len(Between(parts)) = Len(parts) - 2 /\ LiesBetween(Between(parts), parts)
<1> DEFINE k == Len(parts)
           b == Between(parts)
<1>0. k \in Nat /\ k > 1 /\ 2 \in Int /\ k - 1 \in Int
    BY LenProperties
<1>1. \A i \in 2..k - 1 : parts[i] \in Text
    BY <1>0, ElementOfSeq
<1>2. /\ b \in Seq(Text)
      /\ Len(b) = IF 2 <= k - 1 THEN k - 1 - 2 + 1 ELSE 0
      /\ \A i \in 1..k - 1 - 2 + 1 : b[i] = parts[2 + i - 1]
    BY <1>0, <1>1, SubSeqProperties DEF Between
<1> HIDE DEF b, k
<1>3. k - 1 - 2 + 1 = k - 2 /\ (~(2 <= k - 1) => k - 2 = 0)
    BY <1>0
<1>4. Len(b) = k - 2
    BY <1>2, <1>3
<1>5. \A i \in 1..k - 2 : b[i] = parts[i + 1]
    <2> TAKE i \in 1..k - 2
    <2>1. 2 + i - 1 = i + 1
        BY <1>0
    <2>2. b[i] = parts[2 + i - 1]
        BY <1>2, <1>3
    <2>3. QED
        BY <2>1, <2>2
<1>6. QED
    BY <1>2, <1>4, <1>5 DEF b, k, LiesBetween

(* Two sequences of parts that agree between their ends have the same       *)
(* between them.                                                            *)
LEMMA BetweenSame ==
    ASSUME NEW ps, NEW qs, ps \in Seq(Text), qs \in Seq(Text), Len(ps) > 1, Len(ps) = Len(qs),
           \A i \in 1..Len(ps) - 1 : ps[i] = qs[i]
    PROVE  Between(ps) = Between(qs)
<1> DEFINE a == Between(ps)
           b == Between(qs)
           k == Len(ps)
<1>0. k \in Nat /\ k > 1
    BY LenProperties
<1>1. a \in Seq(Text) /\ Len(a) = k - 2 /\ LiesBetween(a, ps)
    BY BetweenIs
<1>2. b \in Seq(Text) /\ Len(b) = k - 2 /\ LiesBetween(b, qs)
    BY BetweenIs
<1> HIDE DEF a, b, k
<1>3. \A i \in 1..k - 2 : a[i] = b[i]
    <2> TAKE i \in 1..k - 2
    <2>1. i + 1 \in 1..k - 1
        BY <1>0
    <2>2. a[i] = ps[i + 1] /\ b[i] = qs[i + 1]
        BY <1>1, <1>2 DEF LiesBetween, k
    <2>3. QED
        BY <2>1, <2>2 DEF k
<1>4. Len(a) = Len(b) /\ \A i \in 1..Len(a) : a[i] = b[i]
    BY <1>1, <1>2, <1>3
<1>5. a = b
    BY <1>1, <1>2, <1>4, SeqEqual
<1>6. QED
    BY <1>5 DEF a, b

(* The last part may grow without a change before it. *)
LEMMA RestsSame ==
    ASSUME NEW ps, NEW qs, NEW s, ps \in Seq(Text), qs \in Seq(Text), Len(ps) > 1, Len(ps) = Len(qs),
           \A i \in 1..Len(ps) - 1 : ps[i] = qs[i]
    PROVE  Rests(ps, s) = Rests(qs, s)
<1>1. Between(ps) = Between(qs)
    BY BetweenSame
<1>2. Len(ps) \in Nat /\ 1 \in 1..Len(ps) - 1
    BY LenProperties
<1>3. ps[1] = qs[1]
    BY <1>2
<1>4. QED
    BY <1>1, <1>3 DEF Rests

(* A new part leaves the one before it to be skipped. *)
LEMMA RestsMore ==
    ASSUME NEW parts, NEW more, NEW s, parts \in Seq(Text), more \in Seq(Text), Len(parts) > 1,
           Len(more) = Len(parts) + 1, \A i \in 1..Len(parts) : more[i] = parts[i]
    PROVE  Rests(more, s) = Skip(Rests(parts, s), parts[Len(parts)])
<1> DEFINE k == Len(parts)
           b == Between(parts)
           c == Between(more)
           e == parts[k]
           d == Append(b, e)
<1>0. k \in Nat /\ k > 1 /\ k \in 1..Len(parts) /\ k + 1 > 1 /\ k + 1 - 2 = k - 1
    BY LenProperties
<1>1. b \in Seq(Text) /\ Len(b) = k - 2 /\ LiesBetween(b, parts)
    BY BetweenIs
<1>2. c \in Seq(Text) /\ Len(c) = k + 1 - 2 /\ LiesBetween(c, more)
    <2>1. Len(more) > 1
        BY <1>0
    <2>2. c \in Seq(Text) /\ Len(c) = Len(more) - 2 /\ LiesBetween(c, more)
        BY <2>1, BetweenIs
    <2>3. QED
        BY <2>2
<1>3. e \in Text
    BY <1>0, ElementOfSeq
<1> HIDE DEF b, c, e
<1>4. d \in Seq(Text) /\ Len(d) = Len(b) + 1 /\ d[Len(b) + 1] = e /\ \A i \in 1..Len(b) : d[i] = b[i]
    BY <1>1, <1>3, AppendProperties
<1> HIDE DEF d, k
<1>5. Len(b) + 1 = k - 1 /\ Len(c) = k - 1
    BY <1>0, <1>1, <1>2
<1>6. \A i \in 1..k - 1 : c[i] = d[i]
    <2> TAKE i \in 1..k - 1
    <2>1. i + 1 \in 1..k
        BY <1>0
    <2>2. c[i] = parts[i + 1]
        <3>1. i \in 1..Len(more) - 2
            BY <1>0 DEF k
        <3>2. c[i] = more[i + 1]
            BY <1>2, <3>1 DEF LiesBetween
        <3>3. QED
            BY <2>1, <3>2 DEF k
    <2>3. CASE i = k - 1
        <3>1. i + 1 = k
            BY <1>0, <2>3
        <3>2. c[i] = e
            BY <2>2, <3>1 DEF e
        <3>3. QED
            BY <1>4, <1>5, <2>3, <3>2
    <2>4. CASE i # k - 1
        <3>1. i \in 1..k - 2 /\ i \in 1..Len(b)
            BY <1>0, <1>1, <2>4
        <3>2. b[i] = parts[i + 1]
            BY <1>1, <3>1 DEF LiesBetween, k
        <3>3. QED
            BY <1>4, <2>2, <3>1, <3>2
    <2>5. QED
        BY <2>3, <2>4
<1>7. Len(c) = Len(d) /\ \A i \in 1..Len(c) : c[i] = d[i]
    BY <1>4, <1>5, <1>6
<1>8. c = d
    BY <1>2, <1>4, <1>7, SeqEqual
<1>9. 1 \in 1..k
    BY <1>0
<1>10. more[1] = parts[1]
    BY <1>9 DEF k
<1>11. Rests(more, s) = Skipped(Opened(parts[1], s), Append(b, e))
    BY <1>8, <1>10 DEF Rests, c, d
<1>12. @ = Skip(Skipped(Opened(parts[1], s), b), e)
    BY <1>1, <1>3, Skips
<1>13. QED
    BY <1>11, <1>12 DEF Rests, b, e, k

(* How far GlobMatch is after a pattern: its parts are read, and what Means *)
(* has left is what lies behind the last of them.                           *)
Tracks(q, s) ==
    LET parts == Split(q) IN
    /\ parts \in Seq(Text) /\ Len(parts) >= 1
    /\ Len(parts) = 1 => parts[1] = q /\ Taken(s, q) = Opened(q, s)
    /\ Len(parts) > 1 => /\ Rests(parts, s) \in SUBSET Text
                         /\ Taken(s, q) = Ends(parts[Len(parts)], Rests(parts, s))

LEMMA TracksEmpty == ASSUME NEW s, s \in Text PROVE Tracks(<<>>, s)
<1>1. Split(<<>>) = << <<>> >> /\ Taken(s, <<>>) = {s}
    BY Splits, Takes
<1>2. <<>> \in Text /\ << <<>> >> \in Seq(Text) /\ Len(<< <<>> >>) = 1 /\ << <<>> >>[1] = <<>> /\ Len(<<>>) = 0
    BY DEF Text
<1>3. 0 \in Found(<<>>, s)
    <2>1. 0 \in 0..Len(s)
        BY LenProperties DEF Text
    <2>2. QED
        BY <2>1, FoundNothing
<1>4. Opened(<<>>, s) = {s}
    BY <1>2, <1>3, OpenedIs, DropAll
<1> DEFINE parts == Split(<<>>)
<1>5. parts \in Seq(Text) /\ Len(parts) = 1 /\ parts[1] = <<>> /\ Taken(s, <<>>) = Opened(<<>>, s)
    BY <1>1, <1>2, <1>4
<1> HIDE DEF parts
<1>6. ~(Len(parts) > 1) /\ Len(parts) >= 1
    BY <1>5
<1>7. QED
    BY <1>5, <1>6 DEF Tracks, parts

LEMMA TracksWord ==
    ASSUME NEW q, NEW s, NEW c, q \in Text, s \in Text, c \in Symbols, c # Wild, Tracks(q, s)
    PROVE  Tracks(Append(q, c), s)
<1> DEFINE parts == Split(q)
           k == Len(parts)
           last == parts[k]
           r == Append(q, c)
           ps == Split(r)
           w == Append(last, c)
<1>0. parts \in Seq(Text) /\ k \in Nat /\ k >= 1 /\ k \in 1..k /\ parts \in [1..k -> Text]
    BY LenProperties DEF Tracks
<1>1. ps = [parts EXCEPT ![k] = w]
    BY Splits DEF Extend, Text
<1>2. last \in Text /\ w \in Text
    BY <1>0, ElementOfSeq, AppendIs
<1>3. Taken(s, r) = Take(Taken(s, q), c)
    BY Takes DEF Text
<1>t. Tracks(q, s) => /\ k = 1 => last = q /\ Taken(s, q) = Opened(q, s)
                      /\ k > 1 => /\ Rests(parts, s) \in SUBSET Text
                                  /\ Taken(s, q) = Ends(last, Rests(parts, s))
    BY DEF Tracks
<1> HIDE DEF parts, ps, w, last, k
<1>4. ps \in Seq(Text) /\ Len(ps) = k
    BY <1>0, <1>1, <1>2, ExceptSeq DEF k
<1>5. ps[k] = w /\ \A i \in 1..k - 1 : ps[i] = parts[i]
    <2>1. \A i \in 1..k - 1 : i \in 1..k /\ i # k
        BY <1>0
    <2>2. QED
        BY <1>0, <1>1, <2>1
<1>6. CASE k = 1
    <2>1. w = r /\ ps[1] = r
        BY <1>5, <1>6, <1>t DEF w
    <2>2. Taken(s, r) = Opened(r, s)
        BY <1>3, <1>6, <1>t, OpenWord
    <2>3. QED
        <3>1. ps \in Seq(Text) /\ Len(ps) = 1 /\ ~(Len(ps) > 1) /\ Len(ps) >= 1
            BY <1>4, <1>6
        <3>2. QED
            BY <2>1, <2>2, <3>1 DEF Tracks, ps
<1>7. CASE k > 1
    <2>1. Rests(ps, s) = Rests(parts, s)
        <3>1. Len(parts) > 1 /\ Len(parts) = Len(ps) /\ \A i \in 1..Len(parts) - 1 : parts[i] = ps[i]
            BY <1>4, <1>5, <1>7 DEF k
        <3>2. QED
            BY <1>0, <1>4, <3>1, RestsSame
    <2>2. Taken(s, r) = Ends(w, Rests(ps, s)) /\ Rests(ps, s) \in SUBSET Text
        BY <1>2, <1>3, <1>7, <1>t, <2>1, TakeWord DEF w
    <2>3. QED
        <3>1. ps \in Seq(Text) /\ Len(ps) # 1 /\ Len(ps) > 1 /\ Len(ps) >= 1 /\ ps[Len(ps)] = w
            BY <1>0, <1>4, <1>5, <1>7
        <3>2. QED
            BY <2>2, <3>1 DEF Tracks, ps
<1>8. k = 1 \/ k > 1
    BY <1>0
<1>9. QED
    BY <1>6, <1>7, <1>8

LEMMA TracksStar ==
    ASSUME NEW q, NEW s, q \in Text, s \in Text, Tracks(q, s) PROVE Tracks(Append(q, Wild), s)
<1> DEFINE parts == Split(q)
           k == Len(parts)
           last == parts[k]
           r == Append(q, Wild)
           ps == Split(r)
<1>0. parts \in Seq(Text) /\ k \in Nat /\ k >= 1 /\ k \in 1..k /\ <<>> \in Text /\ Wild \in Symbols
    <2>1. parts \in Seq(Text) /\ k >= 1
        BY DEF Tracks
    <2>2. k \in Nat
        BY <2>1, LenProperties
    <2>3. <<>> \in Text
        BY DEF Text
    <2>4. Wild \in Symbols
        BY GuardsAssumption
    <2> HIDE DEF parts, k
    <2>5. QED
        BY <2>1, <2>2, <2>3, <2>4
<1>1. ps = Append(parts, <<>>)
    BY <1>0, Splits DEF Extend, Text
<1>2. last \in Text
    BY <1>0, ElementOfSeq
<1>3. Taken(s, r) = Take(Taken(s, q), Wild)
    BY <1>0, Takes DEF Text
<1>t. /\ k = 1 => last = q /\ Taken(s, q) = Opened(q, s)
      /\ k > 1 => Rests(parts, s) \in SUBSET Text /\ Taken(s, q) = Ends(last, Rests(parts, s))
    BY DEF Tracks
<1> HIDE DEF parts, ps, last, k
<1>4. ps \in Seq(Text) /\ Len(ps) = k + 1 /\ ps[k + 1] = <<>> /\ \A i \in 1..k : ps[i] = parts[i]
    BY <1>0, <1>1, AppendProperties DEF k
<1>5. CASE k = 1
    <2>1. Between(ps) = <<>> /\ ps[1] = q
        <3>1. Len(ps) = 2
            BY <1>4, <1>5
        <3>2. QED
            BY <1>4, <1>5, <1>t, <3>1, BetweenNone DEF last
    <2>2. Rests(ps, s) = Opened(q, s)
        BY <2>1, Skips DEF Rests
    <2>3. Opened(q, s) \in SUBSET Text
        BY OpenedType
    <2>4. Taken(s, r) = Ends(<<>>, Rests(ps, s))
        BY <1>3, <1>5, <1>t, <2>2, <2>3, OpenStar
    <2>5. QED
        <3>1. ps \in Seq(Text) /\ Len(ps) = 2 /\ ps[2] = <<>>
            BY <1>4, <1>5
        <3>2. Len(ps) # 1 /\ Len(ps) > 1 /\ Len(ps) >= 1 /\ ps[Len(ps)] = <<>>
            BY <3>1
        <3>3. QED
            BY <2>2, <2>3, <2>4, <3>1, <3>2 DEF Tracks, ps
<1>6. CASE k > 1
    <2>1. Rests(ps, s) = Skip(Rests(parts, s), last)
        <3>1. Len(parts) > 1 /\ Len(ps) = Len(parts) + 1 /\ \A i \in 1..Len(parts) : ps[i] = parts[i]
            BY <1>4, <1>6 DEF k
        <3>2. QED
            BY <1>0, <1>4, <3>1, RestsMore DEF last, k
    <2>2. Rests(ps, s) \in SUBSET Text
        BY <1>2, <1>6, <1>t, <2>1, SkipType
    <2>3. Taken(s, r) = Ends(<<>>, Rests(ps, s))
        BY <1>2, <1>3, <1>6, <1>t, <2>1, TakeStar
    <2>4. k + 1 > 1 /\ k + 1 >= 1 /\ k + 1 # 1
        BY <1>0
    <2>5. Len(ps) # 1 /\ Len(ps) > 1 /\ Len(ps) >= 1 /\ ps[Len(ps)] = <<>>
        BY <1>4, <2>4
    <2>6. QED
        BY <1>4, <2>2, <2>3, <2>5 DEF Tracks, ps
<1>7. k = 1 \/ k > 1
    BY <1>0
<1>8. QED
    BY <1>5, <1>6, <1>7

LEMMA TracksAll == ASSUME NEW s, s \in Text PROVE \A q \in Text : Tracks(q, s)
<1> DEFINE Good == {n \in Nat : \A q \in Text : Len(q) = n => Tracks(q, s)}
<1>1. 0 \in Good
    <2>1. ASSUME NEW q \in Text, Len(q) = 0 PROVE Tracks(q, s)
        BY <2>1, TracksEmpty, EmptySeq DEF Text
    <2>2. QED
        BY <2>1
<1>2. ASSUME NEW n \in Nat, n \in Good PROVE n + 1 \in Good
    <2>1. ASSUME NEW q \in Text, Len(q) = n + 1 PROVE Tracks(q, s)
        <3>1. q # <<>>
            BY <2>1
        <3>2. PICK f \in Text, c \in Symbols : q = Append(f, c)
            BY <3>1, SequenceEmptyOrAppend DEF Text
        <3>0. Len(q) = Len(f) + 1 /\ Len(f) \in Nat
            BY <3>2, AppendIs, LenProperties DEF Text
        <3>3. Tracks(f, s)
            BY <1>2, <2>1, <3>0
        <3>4. CASE c = Wild
            BY <3>2, <3>3, <3>4, TracksStar
        <3>5. CASE c # Wild
            BY <3>2, <3>3, <3>5, TracksWord
        <3>6. QED
            BY <3>4, <3>5
    <2>2. QED
        BY <2>1
<1>3. \A n \in Nat : n \in Good
    <2> HIDE DEF Good
    <2>1. QED
        BY <1>1, <1>2, Splitting!NatInd
<1>4. QED
    BY <1>3, LenProperties DEF Text

(* What ends a string is found where nothing follows it. *)
LEMMA ReverseIs ==
    ASSUME NEW s, s \in Text
    PROVE  /\ Reverse(s) \in Text /\ Len(Reverse(s)) = Len(s)
           /\ \A k \in 1..Len(s) : Reverse(s)[k] = s[Len(s) - k + 1]
<1> DEFINE n == Len(s)
           r == [k \in 1..n |-> s[n - k + 1]]
<1>1. n \in Nat
    BY LenProperties DEF Text
<1>2. \A k \in 1..n : n - k + 1 \in 1..n
    BY <1>1
<1>3. \A k \in 1..n : s[n - k + 1] \in Symbols
    BY <1>2, ElementOfSeq DEF Text
<1> HIDE DEF n
<1>4. r \in Seq(Symbols) /\ Len(r) = n
    BY <1>1, <1>3
<1>5. Reverse(s) = r
    BY DEF Reverse, n
<1>6. \A k \in 1..n : r[k] = s[n - k + 1]
    OBVIOUS
<1> HIDE DEF r
<1>7. QED
    BY <1>4, <1>5, <1>6 DEF n, Text

LEMMA SuffixIs ==
    ASSUME NEW part, NEW s, part \in Text, s \in Text
    PROVE  IsSuffix(part, s) <=> \E i \in Found(part, s) : i + Len(part) = Len(s)
<1> DEFINE n == Len(part)
           m == Len(s)
           p == Reverse(part)
           t == Reverse(s)
<1>0. n \in Nat /\ m \in Nat
    BY LenProperties DEF Text
<1>1. p \in Text /\ Len(p) = n /\ \A k \in 1..n : p[k] = part[n - k + 1]
    BY ReverseIs
<1>2. t \in Text /\ Len(t) = m /\ \A k \in 1..m : t[k] = s[m - k + 1]
    BY ReverseIs
<1> HIDE DEF p, t
<1>3. IsSuffix(part, s) <=> 0 \in Found(p, t)
    BY <1>1, <1>2, PrefixIs DEF IsSuffix, p, t
<1>4. 0 \in Found(p, t) <=> 0 + Len(p) <= Len(t) /\ Lies(p, t, 0)
    BY <1>1, <1>2, FoundIs
<1>5. (\E i \in Found(part, s) : i + n = m) <=> n <= m /\ Lies(part, s, m - n)
    <2>1. ASSUME NEW i \in Found(part, s), i + n = m PROVE n <= m /\ Lies(part, s, m - n)
        <3>1. i \in Nat /\ i = m - n
            BY <1>0, <2>1, FoundPlace
        <3>2. QED
            BY <1>0, <2>1, <3>1, FoundIs
    <2>2. ASSUME n <= m, Lies(part, s, m - n) PROVE \E i \in Found(part, s) : i + n = m
        <3>1. m - n \in Nat /\ m - n + n = m /\ m <= m
            BY <1>0, <2>2
        <3>2. m - n \in Found(part, s)
            BY <2>2, <3>1, FoundIs
        <3>3. QED
            BY <3>1, <3>2
    <2>3. QED
        BY <2>1, <2>2
<1> HIDE DEF n, m
<1>6. ASSUME n <= m PROVE Lies(p, t, 0) <=> Lies(part, s, m - n)
    <2>1. ASSUME Lies(p, t, 0), NEW j \in 1..n PROVE s[m - n + j] = part[j]
        <3> DEFINE k == n - j + 1
        <3>1. k \in 1..n /\ k \in 1..m /\ 0 + k = k /\ m - k + 1 = m - n + j /\ n - k + 1 = j
            BY <1>0, <1>6
        <3> HIDE DEF k
        <3>2. t[0 + k] = p[k]
            BY <1>1, <2>1, <3>1 DEF Lies
        <3>3. t[k] = s[m - k + 1] /\ p[k] = part[n - k + 1]
            BY <1>1, <1>2, <3>1
        <3>4. QED
            BY <3>1, <3>2, <3>3
    <2>2. ASSUME Lies(part, s, m - n), NEW k \in 1..n PROVE t[0 + k] = p[k]
        <3> DEFINE j == n - k + 1
        <3>1. k \in 1..m /\ j \in 1..n /\ 0 + k = k /\ m - k + 1 = m - n + j
            BY <1>0, <1>6
        <3> HIDE DEF j
        <3>2. s[m - n + j] = part[j]
            BY <2>2, <3>1 DEF Lies, n
        <3>3. t[k] = s[m - k + 1] /\ p[k] = part[j]
            BY <1>1, <1>2, <3>1 DEF j
        <3>4. QED
            BY <3>1, <3>2, <3>3
    <2>3. Lies(p, t, 0) => Lies(part, s, m - n)
        BY <2>1 DEF Lies, n
    <2>4. Lies(part, s, m - n) => Lies(p, t, 0)
        BY <1>1, <2>2 DEF Lies
    <2>5. QED
        BY <2>3, <2>4
<1>7. 0 + Len(p) <= Len(t) <=> n <= m
    BY <1>0, <1>1, <1>2
<1>8. QED
    BY <1>3, <1>4, <1>5, <1>6, <1>7 DEF n, m

LEMMA DropNothing ==
    ASSUME NEW s, NEW n, s \in Text, n \in 0..Len(s) PROVE Drop(s, n) = <<>> <=> n = Len(s)
<1>1. Drop(s, n) \in Text /\ Len(Drop(s, n)) = Len(s) - n /\ Len(s) \in Nat
    BY DropLen, LenProperties DEF Text
<1>2. Drop(s, n) = <<>> => Len(s) - n = 0
    BY <1>1
<1>3. QED
    BY <1>1, <1>2, DropAll

(* GlobMatch (shell.go:250): cutting a pattern at its stars and looking for *)
(* its parts from the left decides what the pattern means, for every        *)
(* pattern and every string.                                                *)
THEOREM GlobMatchIsMeans ==
    ASSUME NEW pattern, NEW s, pattern \in Text, s \in Text
    PROVE  GlobMatch(pattern, s) <=> Means(pattern, s)
<1> DEFINE parts == Split(pattern)
           k == Len(parts)
           last == parts[k]
           rests == Rests(parts, s)
<1>1. Tracks(pattern, s)
    BY TracksAll
<1>t. /\ parts \in Seq(Text) /\ k >= 1
      /\ k = 1 => Taken(s, pattern) = Opened(pattern, s)
      /\ k > 1 => rests \in SUBSET Text /\ Taken(s, pattern) = Ends(last, rests)
    BY <1>1 DEF Tracks
<1>g. /\ k = 1 => (GlobMatch(pattern, s) <=> s = pattern)
      /\ k # 1 => (GlobMatch(pattern, s) <=> \E r \in rests : IsSuffix(last, r))
    BY DEF GlobMatch, Rests, Opened, Between, Skipped
<1>m. Means(pattern, s) <=> <<>> \in Taken(s, pattern)
    BY DEF Means, Taken
<1>n. k \in Nat
    BY <1>t, LenProperties
<1> HIDE DEF parts, k, last, rests
<1>2. CASE k = 1
    <2>1. CASE 0 \in Found(pattern, s)
        <3>0. 0 + Len(pattern) \in 0..Len(s) /\ Len(pattern) \in Nat
            BY <2>1, FoundPlace, LenProperties DEF Text
        <3>1. <<>> \in Opened(pattern, s) <=> Len(pattern) = Len(s)
            BY <2>1, <3>0, OpenedIs, DropNothing
        <3>2. Lies(pattern, s, 0)
            BY <2>1, FoundIs
        <3>3. Len(pattern) = Len(s) => pattern = s
            <4>1. \A i \in 1..Len(pattern) : pattern[i] = s[0 + i] /\ 0 + i = i
                BY <3>2 DEF Lies
            <4>2. QED
                BY <4>1, SeqEqual DEF Text
        <3>4. QED
            BY <1>2, <1>t, <1>g, <1>m, <3>1, <3>3
    <2>2. CASE 0 \notin Found(pattern, s)
        <3>1. s # pattern
            <4>1. SUFFICES ASSUME s = pattern PROVE 0 \in Found(s, s)
                BY <2>2
            <4>2. Len(s) \in Nat /\ 0 + Len(s) <= Len(s) /\ Lies(s, s, 0)
                BY LenProperties DEF Text, Lies
            <4>3. QED
                BY <4>2, FoundIs
        <3>2. QED
            BY <1>2, <1>t, <1>g, <1>m, <2>2, <3>1, OpenedIs
    <2>3. QED
        BY <2>1, <2>2
<1>3. CASE k > 1
    <2>0. last \in Text /\ k # 1
        <3>1. k \in 1..k
            BY <1>n, <1>3
        <3>2. QED
            BY <1>3, <1>t, <3>1, ElementOfSeq DEF last, k
    <2>1. ASSUME NEW r \in rests
          PROVE  IsSuffix(last, r) <=> \E i \in Found(last, r) : <<>> = Drop(r, i + Len(last))
        <3>1. r \in Text
            BY <1>3, <1>t
        <3>2. \A i \in Found(last, r) : i + Len(last) \in 0..Len(r)
            BY <2>0, <3>1, FoundPlace
        <3>3. \A i \in Found(last, r) : <<>> = Drop(r, i + Len(last)) <=> i + Len(last) = Len(r)
            BY <3>1, <3>2, DropNothing
        <3>4. IsSuffix(last, r) <=> \E i \in Found(last, r) : i + Len(last) = Len(r)
            BY <2>0, <3>1, SuffixIs
        <3>5. QED
            BY <3>3, <3>4
    <2>2. <<>> \in Taken(s, pattern) <=> \E r \in rests : \E i \in Found(last, r) : <<>> = Drop(r, i + Len(last))
        BY <1>3, <1>t, InEnds
    <2>3. QED
        BY <1>g, <1>m, <2>0, <2>1, <2>2
<1>4. k = 1 \/ k > 1
    BY <1>n, <1>t
<1>5. QED
    BY <1>2, <1>3, <1>4
-----------------------------------------------------------------------------
(* Every sequence is the empty one with elements appended. *)
LEMMA SeqInd ==
    ASSUME NEW S, NEW Good, <<>> \in Good, \A q \in Seq(S), c \in S : q \in Good => Append(q, c) \in Good
    PROVE  \A q \in Seq(S) : q \in Good
<1> DEFINE Lens == {n \in Nat : \A q \in Seq(S) : Len(q) = n => q \in Good}
<1>1. 0 \in Lens
    BY EmptySeq
<1>2. ASSUME NEW n \in Nat, n \in Lens PROVE n + 1 \in Lens
    <2>1. ASSUME NEW q \in Seq(S), Len(q) = n + 1 PROVE q \in Good
        <3>1. q # <<>>
            BY <2>1
        <3>2. PICK f \in Seq(S), c \in S : q = Append(f, c)
            BY <3>1, SequenceEmptyOrAppend
        <3>3. Len(q) = Len(f) + 1 /\ Len(f) \in Nat
            BY <3>2, AppendProperties, LenProperties
        <3>4. f \in Good
            BY <1>2, <2>1, <3>3
        <3>5. QED
            BY <3>2, <3>4
    <2>2. QED
        BY <2>1
<1>3. \A n \in Nat : n \in Lens
    <2> HIDE DEF Lens
    <2>1. QED
        BY <1>1, <1>2, Splitting!NatInd
<1>4. QED
    BY <1>3, LenProperties
-----------------------------------------------------------------------------
Weighed(said) == FoldLeft(Stricter, "none", said)

LEMMA Weighs ==
    /\ Weighed(<<>>) = "none"
    /\ \A p, S : \A said \in Seq(S) : p \in S => Weighed(Append(said, p)) = Stricter(Weighed(said), p)
<1>1. \A said : Weighed(said) = Weighing!Fold("none", said)
    BY DEF Weighed, FoldLeft, Weighing!Fold, MapThenFoldSet,
           Weighing!MapThenFoldSet, Max, Weighing!Largest
<1>2. QED
    BY <1>1, Weighing!FoldEmpty, Weighing!FoldAppend

(* What was said so far, and that best is the strictest of it. *)
Votes == Policies \cup {"none"}
Strictest(best, said) ==
    /\ best \in Votes
    /\ best = "none" => \A i \in 1..Len(said) : said[i] = "none"
    /\ best # "none" => /\ \E i \in 1..Len(said) : said[i] = best
                        /\ \A i \in 1..Len(said) : said[i] # "none" =>
                               Restrictiveness(said[i]) <= Restrictiveness(best)

LEMMA Ranks ==
    /\ Restrictiveness("deny") = 2 /\ Restrictiveness("ask") = 1 /\ Restrictiveness("allow") = 0
    /\ Restrictiveness("none") = 0
BY DEF Restrictiveness

LEMMA StrictestMore ==
    ASSUME NEW best, NEW said, NEW p, Strictest(best, said), said \in Seq(Votes), p \in Votes
    PROVE  Strictest(Stricter(best, p), Append(said, p))
<1> DEFINE n == Len(said)
           more == Append(said, p)
<1>1. n \in Nat /\ Len(more) = n + 1 /\ more[n + 1] = p /\ \A i \in 1..n : more[i] = said[i]
    BY LenProperties, AppendProperties
<1>2. 1..n + 1 = 1..n \cup {n + 1} /\ \A i \in 1..n : said[i] \in Votes
    BY <1>1, ElementOfSeq
<1>3. best \in Votes
    BY DEF Strictest
<1> HIDE DEF more
<1>4. CASE best = "none"
    <2>1. Stricter(best, p) = p /\ \A i \in 1..n : said[i] = "none"
        BY <1>4 DEF Stricter, Strictest
    <2>2. CASE p = "none"
        BY <1>1, <1>2, <2>1, <2>2 DEF Strictest, more
    <2>3. CASE p # "none"
        <3>1. \A i \in 1..n + 1 : more[i] # "none" => more[i] = p
            BY <1>1, <1>2, <2>1
        <3>2. Restrictiveness(p) <= Restrictiveness(p)
            BY Ranks DEF Votes, Policies
        <3>3. n + 1 \in 1..n + 1
            BY <1>2
        <3>4. QED
            BY <1>1, <2>1, <2>3, <3>1, <3>2, <3>3 DEF Strictest, more
    <2>4. QED
        BY <2>2, <2>3
<1>5. CASE best # "none"
    <2>1. /\ \E i \in 1..n : said[i] = best
          /\ \A i \in 1..n : said[i] # "none" => Restrictiveness(said[i]) <= Restrictiveness(best)
        BY <1>5 DEF Strictest
    <2>2. CASE Restrictiveness(p) > Restrictiveness(best)
        <3>1. Stricter(best, p) = p /\ p # "none"
            BY <1>3, <1>5, <2>2, Ranks DEF Stricter, Votes, Policies
        <3>2. \A i \in 1..n : said[i] # "none" => Restrictiveness(said[i]) <= Restrictiveness(p)
            BY <1>2, <1>3, <2>1, <2>2, Ranks DEF Votes, Policies
        <3>3. Restrictiveness(p) <= Restrictiveness(p) /\ n + 1 \in 1..n + 1
            BY <1>2, Ranks DEF Votes, Policies
        <3>4. \A i \in 1..n + 1 : more[i] # "none" => Restrictiveness(more[i]) <= Restrictiveness(p)
            BY <1>1, <1>2, <3>2, <3>3
        <3>5. QED
            BY <1>1, <3>1, <3>3, <3>4 DEF Strictest, more
    <2>3. CASE ~(Restrictiveness(p) > Restrictiveness(best))
        <3>1. Stricter(best, p) = best
            BY <1>5, <2>3 DEF Stricter
        <3>2. Restrictiveness(p) <= Restrictiveness(best)
            BY <1>3, <2>3, Ranks DEF Votes, Policies
        <3>3. \A i \in 1..n + 1 : more[i] # "none" => Restrictiveness(more[i]) <= Restrictiveness(best)
            BY <1>1, <1>2, <2>1, <3>2
        <3>4. \E i \in 1..n + 1 : more[i] = best
            BY <1>1, <1>2, <2>1
        <3>5. QED
            BY <1>1, <1>3, <1>5, <3>1, <3>3, <3>4 DEF Strictest, more
    <2>4. QED
        BY <2>2, <2>3
<1>6. QED
    BY <1>4, <1>5

LEMMA WeighedIsStrictest == \A said \in Seq(Votes) : Strictest(Weighed(said), said)
<1> DEFINE Good == {said \in Seq(Votes) : Strictest(Weighed(said), said)}
<1>1. <<>> \in Good
    BY Weighs DEF Strictest, Votes
<1>2. \A said \in Seq(Votes), p \in Votes : said \in Good => Append(said, p) \in Good
    BY Weighs, StrictestMore, AppendProperties
<1>3. \A said \in Seq(Votes) : said \in Good
    <2> HIDE DEF Good
    <2>1. QED
        BY <1>1, <1>2, SeqInd
<1>4. QED
    BY <1>3

(* Every entry is somewhere in every order of them. *)
LEMMA OrderIsAll ==
    ASSUME NEW D, NEW order, IsFiniteSet(D), order \in SetToSeqs(D)
    PROVE  order \in Seq(D) /\ \A e \in D : \E i \in 1..Len(order) : order[i] = e
<1> DEFINE n == Cardinality(D)
<1>1. n \in Nat
    BY FS_CardinalityType
<1>2. order \in [1..n -> D] /\ \A i, j \in 1..n : i # j => order[i] # order[j]
    BY DEF SetToSeqs
<1>3. order \in Injection(1..n, D)
    BY <1>2 DEF Injection, IsInjective
<1>4. IsFiniteSet(1..n) /\ Cardinality(1..n) = n
    BY <1>1, FS_Interval
<1>5. order \in Surjection(1..n, D)
    BY <1>3, <1>4, FS_Injection
<1>6. \A e \in D : \E i \in 1..n : order[i] = e
    BY <1>5 DEF Surjection
<1> HIDE DEF n
<1>7. order \in Seq(D) /\ Len(order) = n
    BY <1>1, <1>2
<1>8. QED
    BY <1>6, <1>7

(* policyFor (perm.go:232): whatever the order of the map, the entry that   *)
(* rules a name is its literal one, else the strictest pattern that means   *)
(* it, else the default.                                                    *)
THEOREM PolicyIsTheRuling ==
    ASSUME NEW name, NEW default, NEW rules, NEW order,
           name \in Text, default \in Policies, IsFiniteSet(DOMAIN rules), DOMAIN rules \subseteq Text,
           rules \in [DOMAIN rules -> Policies], order \in SetToSeqs(DOMAIN rules)
    PROVE  PolicyFor(name, default, rules, order) = Ruling(name, default, rules)
<1> DEFINE D == DOMAIN rules
           by == RuledBy(name, rules)
           of == {rules[e] : e \in by}
           said == [i \in DOMAIN order |-> IF IsPattern(order[i]) /\ GlobMatch(order[i], name)
                                           THEN rules[order[i]] ELSE "none"]
           n == Len(order)
           best == Weighed(said)
<1>1. CASE name \in D
    <2>1. by = {name} /\ of = {rules[name]} /\ rules[name] \in Policies
        BY <1>1 DEF RuledBy
    <2>2. (CHOOSE p \in of : \A q \in of : Restrictiveness(p) >= Restrictiveness(q)) = rules[name]
        <3>1. Restrictiveness(rules[name]) >= Restrictiveness(rules[name])
            BY <2>1, Ranks DEF Policies
        <3>2. QED
            BY <2>1, <3>1
    <2>3. of # {}
        BY <2>1
    <2>4. QED
        BY <1>1, <2>2, <2>3 DEF PolicyFor, Ruling
<1>2. CASE name \notin D
    <2>1. by = {e \in D : IsPattern(e) /\ GlobMatch(e, name)}
        BY <1>2, GlobMatchIsMeans DEF RuledBy
    <2>2. order \in Seq(D) /\ (\A e \in D : \E i \in 1..n : order[i] = e) /\ n \in Nat
        BY OrderIsAll, LenProperties
    <2>3. DOMAIN order = 1..n /\ \A i \in 1..n : order[i] \in D
        BY <2>2, LenProperties, ElementOfSeq
    <2> HIDE DEF n, D
    <2>4. said \in Seq(Votes) /\ Len(said) = n
        <3>1. \A i \in 1..n : said[i] \in Votes
            BY <2>3 DEF Votes, D
        <3>2. said \in [1..n -> Votes]
            BY <2>3, <3>1
        <3> HIDE DEF said
        <3>3. QED
            BY <2>2, <3>2
    <2>5. Strictest(best, said)
        BY <2>4, WeighedIsStrictest
    <2>6. \A i \in 1..n : /\ order[i] \in by => said[i] = rules[order[i]]
                          /\ order[i] \notin by => said[i] = "none"
        BY <2>1, <2>3
    <2>7. \A e \in by : e \in D /\ rules[e] \in Policies /\ rules[e] # "none"
        BY <2>1 DEF D, Policies
    <2>p. PolicyFor(name, default, rules, order) = IF best = "none" THEN default ELSE best
        BY <1>2 DEF PolicyFor, Weighed, D
    <2>r. Ruling(name, default, rules) = IF of = {} THEN default
              ELSE CHOOSE p \in of : \A q \in of : Restrictiveness(p) >= Restrictiveness(q)
        BY DEF Ruling
    <2> HIDE DEF said, best, by
    <2>8. CASE best = "none"
        <3>1. \A i \in 1..n : said[i] = "none"
            BY <2>4, <2>5, <2>8 DEF Strictest
        <3>2. by = {}
            <4>1. SUFFICES ASSUME NEW e \in by PROVE FALSE
                OBVIOUS
            <4>2. PICK i \in 1..n : order[i] = e
                BY <2>2, <2>7
            <4>3. QED
                BY <2>6, <2>7, <3>1, <4>2
        <3>3. of = {}
            BY <3>2
        <3> HIDE DEF of
        <3>4. QED
            BY <2>8, <2>p, <2>r, <3>3
    <2>9. CASE best # "none"
        <3>1. PICK k \in 1..n : said[k] = best
            BY <2>4, <2>5, <2>9 DEF Strictest
        <3>2. order[k] \in by /\ best = rules[order[k]] /\ best \in of
            BY <2>6, <2>9, <3>1
        <3>3. \A e \in by : Restrictiveness(rules[e]) <= Restrictiveness(best)
            <4> TAKE e \in by
            <4>1. PICK i \in 1..n : order[i] = e
                BY <2>2, <2>7
            <4>2. said[i] = rules[e] /\ said[i] # "none"
                BY <2>6, <2>7, <4>1
            <4>3. QED
                BY <2>4, <2>5, <2>9, <4>2 DEF Strictest
        <3>4. of \subseteq Policies /\ best \in Policies
            BY <2>7, <3>2
        <3>5. \A q \in of : Restrictiveness(best) >= Restrictiveness(q)
            <4>1. \A q \in of : Restrictiveness(q) <= Restrictiveness(best)
                BY <3>3
            <4> HIDE DEF of
            <4>2. QED
                BY <3>4, <4>1, Ranks DEF Policies
        <3> HIDE DEF of
        <3>6. \A p \in of : (\A q \in of : Restrictiveness(p) >= Restrictiveness(q)) => p = best
            <4> SUFFICES ASSUME NEW p \in of, Restrictiveness(p) >= Restrictiveness(best) PROVE p = best
                BY <3>2
            <4>1. Restrictiveness(best) >= Restrictiveness(p)
                BY <3>5
            <4>2. QED
                BY <3>4, <4>1, Ranks DEF Policies
        <3>7. (CHOOSE p \in of : \A q \in of : Restrictiveness(p) >= Restrictiveness(q)) = best
            BY <3>2, <3>5, <3>6
        <3>8. of # {}
            BY <3>2
        <3>9. QED
            BY <2>9, <2>p, <2>r, <3>7, <3>8
    <2>10. QED
        BY <2>8, <2>9
<1>3. QED
    BY <1>1, <1>2
-----------------------------------------------------------------------------
LEMMA SubSeqIs ==
    ASSUME NEW s, NEW i, NEW j, s \in Text, i \in 1..Len(s) + 1, j \in 0..Len(s)
    PROVE  /\ SubSeq(s, i, j) \in Text
           /\ i <= j => Len(SubSeq(s, i, j)) = j - i + 1
           /\ ~(i <= j) => SubSeq(s, i, j) = <<>>
<1>0. Len(s) \in Nat /\ i \in Int /\ j \in Int /\ i >= 1 /\ j <= Len(s)
    BY LenProperties DEF Text
<1>1. \A k \in i..j : s[k] \in Symbols
    BY <1>0, ElementOfSeq DEF Text
<1>2. SubSeq(s, i, j) \in Seq(Symbols) /\ Len(SubSeq(s, i, j)) = IF i <= j THEN j - i + 1 ELSE 0
    BY <1>0, <1>1, SubSeqProperties
<1>3. ~(i <= j) => SubSeq(s, i, j) = <<>>
    BY <1>2, EmptySeq
<1>4. QED
    BY <1>2, <1>3 DEF Text

LEMMA SubSeqAt ==
    ASSUME NEW s, NEW i, NEW j, NEW k, s \in Text, i \in 1..Len(s) + 1, j \in 0..Len(s), k \in 1..j - i + 1
    PROVE  SubSeq(s, i, j)[k] = s[i + k - 1]
<1>0. Len(s) \in Nat /\ i \in Int /\ j \in Int /\ i >= 1 /\ j <= Len(s)
    BY LenProperties DEF Text
<1>1. \A n \in i..j : s[n] \in Symbols
    BY <1>0, ElementOfSeq DEF Text
<1>2. \A n \in 1..j - i + 1 : SubSeq(s, i, j)[n] = s[i + n - 1]
    BY <1>0, <1>1, SubSeqProperties
<1>3. QED
    BY <1>2
-----------------------------------------------------------------------------
(* The ink of a piece of a line is what of the line's ink lies in it. *)
LEMMA InkOfPiece ==
    ASSUME NEW line, NEW i, NEW j, line \in Text, i \in 1..Len(line) + 1, j \in 0..Len(line)
    PROVE  Cardinality(Ink(SubSeq(line, i, j))) = Cardinality(Ink(line) \cap (i..j))
<1> DEFINE t == SubSeq(line, i, j)
           A == Ink(line) \cap (i..j)
           B == Ink(t)
           f == [k \in A |-> k - i + 1]
<1>0. /\ Len(line) \in Nat /\ i \in Nat /\ j \in Nat /\ i >= 1 /\ j <= Len(line)
      /\ DOMAIN line = 1..Len(line)
    BY LenProperties DEF Text
<1>1. \A k \in A : k \in Nat /\ i <= k /\ k <= j /\ line[k] # Space
    BY <1>0 DEF Ink
<1>2. IsFiniteSet(A)
    <2>1. IsFiniteSet(i..j)
        BY <1>0, FS_Interval
    <2>2. QED
        BY <2>1, FS_Intersection
<1>3. t \in Text /\ DOMAIN t = 1..Len(t) /\ Len(t) \in Nat
    BY SubSeqIs, LenProperties DEF Text
<1>4. \A k \in 1..j - i + 1 : t[k] = line[i + k - 1]
    BY SubSeqAt
<1>5. CASE i <= j
    <2>1. Len(t) = j - i + 1
        BY <1>5, SubSeqIs
    <2> HIDE DEF t
    <2>2. \A k \in B : k \in 1..j - i + 1 /\ t[k] # Space
        BY <1>3, <2>1 DEF Ink
    <2>3. \A k \in A : k - i + 1 \in B
        <3> TAKE k \in A
        <3>1. k - i + 1 \in 1..j - i + 1 /\ i + (k - i + 1) - 1 = k
            BY <1>0, <1>1
        <3>2. t[k - i + 1] # Space
            BY <1>1, <1>4, <3>1
        <3>3. QED
            BY <1>3, <2>1, <3>1, <3>2 DEF Ink
    <2>4. \A k \in B : i + k - 1 \in A /\ (i + k - 1) - i + 1 = k
        <3> TAKE k \in B
        <3>1. k \in 1..j - i + 1 /\ t[k] # Space
            BY <2>2
        <3>2. i + k - 1 \in i..j /\ i + k - 1 \in 1..Len(line) /\ (i + k - 1) - i + 1 = k
            BY <1>0, <3>1
        <3>3. line[i + k - 1] # Space
            BY <1>4, <3>1
        <3>4. QED
            BY <1>0, <3>2, <3>3 DEF Ink
    <2> HIDE DEF A, B
    <2>5. f \in [A -> B]
        BY <2>3
    <2>6. \A k, m \in A : f[k] = f[m] => k = m
        BY <1>0, <1>1
    <2>7. \A m \in B : \E k \in A : f[k] = m
        <3> TAKE m \in B
        <3>1. f[i + m - 1] = m
            BY <2>4
        <3>2. QED
            BY <2>4, <3>1
    <2>8. f \in Injection(A, B)
        <3>1. DOMAIN f = A
            OBVIOUS
        <3>2. IsInjective(f)
            BY <2>6, <3>1 DEF IsInjective
        <3>3. QED
            BY <2>5, <3>2 DEF Injection
    <2>9. f \in Surjection(A, B)
        BY <2>5, <2>7 DEF Surjection
    <2> HIDE DEF f
    <2>10. ExistsBijection(A, B)
        BY <2>8, <2>9 DEF ExistsBijection, Bijection
    <2>11. Cardinality(B) = Cardinality(A)
        BY <1>2, <2>10, FS_Bijection
    <2>12. QED
        BY <2>11 DEF A, B, t
<1>6. CASE ~(i <= j)
    <2>1. t = <<>>
        BY <1>6, SubSeqIs
    <2>2. A = {} /\ B = {}
        BY <1>0, <1>6, <2>1 DEF Ink
    <2>3. QED
        BY <2>2
<1>7. QED
    BY <1>5, <1>6

LEMMA LargestIs ==
    ASSUME NEW T, NEW n, n \in Nat, T \in SUBSET (1..n), T # {} PROVE Max(T) \in T /\ \A k \in T : k <= Max(T)
<1>1. T \in Splitting!Upto(n)
    BY DEF Splitting!Upto
<1>2. Splitting!Largest(T) \in T /\ \A i \in T : i <= Splitting!Largest(T)
    BY <1>1, Splitting!MaxOf
<1>3. Splitting!Largest(T) = Max(T)
    BY DEF Max, Splitting!Largest
<1>4. QED
    BY <1>2, <1>3

(* policyLines trims a line to what lies between its blanks. *)
IsBare(t, line) ==
    /\ t # <<>> => t[1] # Space /\ t[Len(t)] # Space
    /\ Cardinality(Ink(t)) = Cardinality(Ink(line))

LEMMA BareIs == ASSUME NEW line PROVE Bare(line) = CHOOSE t \in Padded(line) : IsBare(t, line)
BY DEF Bare, IsBare, Ink

LEMMA InkIs ==
    ASSUME NEW line, line \in Text
    PROVE  /\ Ink(line) \in SUBSET (1..Len(line)) /\ Len(line) \in Nat /\ IsFiniteSet(Ink(line))
           /\ \A k \in 1..Len(line) : k \in Ink(line) <=> line[k] # Space
<1>1. Len(line) \in Nat /\ DOMAIN line = 1..Len(line)
    BY LenProperties DEF Text
<1>2. Ink(line) \in SUBSET (1..Len(line))
    BY <1>1 DEF Ink
<1>3. IsFiniteSet(1..Len(line))
    BY <1>1, FS_Interval
<1>4. QED
    BY <1>1, <1>2, <1>3, FS_Subset DEF Ink

LEMMA TrimIsPiece ==
    ASSUME NEW line, line \in Text, Ink(line) # {}
    PROVE  LET a == Min(Ink(line)) b == Max(Ink(line)) IN
           /\ Trim(line) = SubSeq(line, a, b) /\ a \in 1..Len(line) /\ b \in 1..Len(line) /\ a <= b
           /\ a \in Ink(line) /\ b \in Ink(line) /\ \A k \in Ink(line) : a <= k /\ k <= b
<1>1. Ink(line) \in SUBSET (1..Len(line)) /\ Len(line) \in Nat /\ Ink(line) \in SUBSET Nat
    BY InkIs
<1>2. Min(Ink(line)) \in Ink(line) /\ \A k \in Ink(line) : Min(Ink(line)) <= k
    BY <1>1, LeastIs
<1>3. Max(Ink(line)) \in Ink(line) /\ \A k \in Ink(line) : k <= Max(Ink(line))
    BY <1>1, LargestIs
<1>4. QED
    BY <1>1, <1>2, <1>3 DEF Trim

LEMMA TrimFits == ASSUME NEW line, line \in Text PROVE Trim(line) \in Padded(line) /\ IsBare(Trim(line), line)
<1>0. Len(line) \in Nat /\ Ink(line) \in SUBSET (1..Len(line))
    BY InkIs
<1>1. CASE Ink(line) = {}
    <2>1. Trim(line) = <<>> /\ Ink(<<>>) = {}
        BY <1>1 DEF Trim, Ink
    <2>2. SubSeq(line, 1, 0) = <<>> /\ 1 \in 1..Len(line) + 1 /\ 0 \in 0..Len(line)
        BY <1>0, SubSeqEmpty
    <2>3. <<>> \in Padded(line)
        BY <2>2 DEF Padded
    <2>4. QED
        BY <1>1, <2>1, <2>3 DEF IsBare
<1>2. CASE Ink(line) # {}
    <2> DEFINE a == Min(Ink(line))
               b == Max(Ink(line))
               t == SubSeq(line, a, b)
    <2>1. /\ Trim(line) = t /\ a \in 1..Len(line) /\ b \in 1..Len(line) /\ a <= b
          /\ a \in Ink(line) /\ b \in Ink(line) /\ \A k \in Ink(line) : a <= k /\ k <= b
        BY <1>2, TrimIsPiece
    <2> HIDE DEF a, b
    <2>2. a \in 1..Len(line) + 1 /\ b \in 0..Len(line) /\ 1 \in 1..b - a + 1 /\ b - a + 1 \in 1..b - a + 1
          /\ a + 1 - 1 = a /\ a + (b - a + 1) - 1 = b
        BY <1>0, <2>1
    <2>3. Trim(line) \in Padded(line)
        BY <2>1, <2>2 DEF Padded
    <2>4. Len(t) = b - a + 1 /\ t[1] = line[a + 1 - 1] /\ t[b - a + 1] = line[a + (b - a + 1) - 1]
        BY <2>1, <2>2, SubSeqIs, SubSeqAt
    <2>5. line[a] # Space /\ line[b] # Space
        BY <2>1, InkIs
    <2>6. Ink(line) \cap (a..b) = Ink(line)
        BY <1>0, <2>1
    <2>7. Cardinality(Ink(t)) = Cardinality(Ink(line))
        BY <2>2, <2>6, InkOfPiece
    <2> HIDE DEF t
    <2>8. QED
        BY <2>1, <2>2, <2>3, <2>4, <2>5, <2>7 DEF IsBare
<1>3. QED
    BY <1>1, <1>2

LEMMA BareIsOnly ==
    ASSUME NEW line, NEW t, line \in Text, t \in Padded(line), IsBare(t, line) PROVE t = Trim(line)
<1> DEFINE I == Ink(line)
<1>0. Len(line) \in Nat /\ I \in SUBSET (1..Len(line)) /\ IsFiniteSet(I)
    BY InkIs
<1>1. PICK i \in 1..Len(line) + 1, j \in 0..Len(line) : t = SubSeq(line, i, j)
    BY DEF Padded
<1>2. Cardinality(I \cap (i..j)) = Cardinality(I)
    BY <1>1, InkOfPiece DEF IsBare
<1>3. I \cap (i..j) = I
    BY <1>0, <1>2, FS_Subset
<1>4. CASE t = <<>>
    <2>1. ~(i <= j)
        <3>1. i <= j => Len(t) = j - i + 1
            BY <1>1, SubSeqIs
        <3>2. QED
            BY <1>4, <3>1
    <2>2. I = {}
        BY <1>0, <1>3, <2>1
    <2>3. QED
        BY <1>4, <2>2 DEF Trim
<1>5. CASE t # <<>>
    <2>1. i <= j /\ Len(t) = j - i + 1
        BY <1>1, <1>5, SubSeqIs
    <2>2. /\ 1 \in 1..j - i + 1 /\ j - i + 1 \in 1..j - i + 1 /\ i + 1 - 1 = i /\ i + (j - i + 1) - 1 = j
          /\ i \in 1..Len(line) /\ j \in 1..Len(line)
        BY <1>0, <2>1
    <2>3. t[1] = line[i + 1 - 1] /\ t[j - i + 1] = line[i + (j - i + 1) - 1]
        <3>1. \A k \in 1..j - i + 1 : SubSeq(line, i, j)[k] = line[i + k - 1]
            BY SubSeqAt
        <3>2. QED
            BY <1>1, <2>2, <3>1
    <2>4. line[i] # Space /\ line[j] # Space
        BY <1>5, <2>1, <2>2, <2>3 DEF IsBare
    <2>5. i \in I /\ j \in I
        BY <2>2, <2>4, InkIs
    <2> DEFINE a == Min(I)
               b == Max(I)
    <2>6. /\ Trim(line) = SubSeq(line, a, b) /\ a \in 1..Len(line) /\ b \in 1..Len(line)
          /\ a \in I /\ b \in I /\ \A k \in I : a <= k /\ k <= b
        BY <2>5, TrimIsPiece
    <2> HIDE DEF a, b
    <2>7. a = i /\ b = j
        <3>1. a \in i..j /\ b \in i..j /\ a <= i /\ j <= b
            BY <1>3, <2>5, <2>6
        <3>2. QED
            BY <2>2, <3>1
    <2>8. QED
        BY <1>1, <2>6, <2>7
<1>6. QED
    BY <1>4, <1>5

LEMMA TrimIsBare == ASSUME NEW line, line \in Text PROVE Bare(line) = Trim(line)
BY BareIs, TrimFits, BareIsOnly
-----------------------------------------------------------------------------
LEMMA TrimIsText == ASSUME NEW line, line \in Text PROVE Trim(line) \in Text
<1>1. PICK i \in 1..Len(line) + 1, j \in 0..Len(line) : Trim(line) = SubSeq(line, i, j)
    BY TrimFits DEF Padded
<1>2. QED
    BY <1>1, SubSeqIs

(* reject (shell.go:164): a command it lets pass has no line that a deny    *)
(* pattern means, and if there is an allow list a pattern of it means every *)
(* line, however the lines are indented.                                    *)
THEOREM UnrejectedPasses ==
    ASSUME NEW command, NEW allow, NEW deny, command \in Seq(Text), allow \in SUBSET Text, deny \in SUBSET Text,
           ~Rejects(command, allow, deny)
    PROVE  Passes(command, allow, deny)
<1> SUFFICES ASSUME NEW i \in DOMAIN command, Bare(command[i]) # <<>>
             PROVE  /\ ~\E pattern \in deny : Means(pattern, Bare(command[i]))
                    /\ allow = {} \/ \E pattern \in allow : Means(pattern, Bare(command[i]))
    BY DEF Passes
<1> DEFINE line == Trim(command[i])
<1>1. command[i] \in Text
    BY LenProperties, ElementOfSeq
<1>2. Bare(command[i]) = line /\ line \in Text
    BY <1>1, TrimIsBare, TrimIsText
<1>3. line \in PolicyLines(command)
    BY <1>2 DEF PolicyLines
<1> HIDE DEF line
<1>4. ~MatchesAny(deny, line) /\ (allow = {} \/ MatchesAny(allow, line))
    BY <1>3 DEF Rejects
<1>5. QED
    BY <1>2, <1>4, GlobMatchIsMeans DEF MatchesAny
-----------------------------------------------------------------------------
LEMMA Follows ==
    /\ Clean(<<>>) = <<>>
    /\ \A c, S : \A q \in Seq(S) : c \in S => Clean(Append(q, c)) = Follow(Clean(q), c)
<1>1. \A q : Clean(q) = Following!Fold(<<>>, q)
    BY DEF Clean, FoldLeft, Following!Fold, MapThenFoldSet,
           Following!MapThenFoldSet, Max, Following!Largest
<1>2. QED
    BY <1>1, Following!FoldEmpty, Following!FoldAppend

(* The components that go down and those that go up. *)
Downs(q, n) == {i \in 1..n : q[i] \notin {".", ".."}}
Ups(q, n) == {i \in 1..n : q[i] = ".."}

LEMMA DepthIs ==
    ASSUME NEW q, NEW n, n \in Nat
    PROVE  /\ Depth(q, n) = Cardinality(Downs(q, n)) - Cardinality(Ups(q, n))
           /\ IsFiniteSet(Downs(q, n)) /\ IsFiniteSet(Ups(q, n))
           /\ Cardinality(Downs(q, n)) \in Nat /\ Cardinality(Ups(q, n)) \in Nat
<1>1. IsFiniteSet(1..n)
    BY FS_Interval
<1>2. Downs(q, n) \in SUBSET (1..n) /\ Ups(q, n) \in SUBSET (1..n)
    BY DEF Downs, Ups
<1>3. IsFiniteSet(Downs(q, n)) /\ IsFiniteSet(Ups(q, n))
    BY <1>1, <1>2, FS_Subset
<1>4. QED
    BY <1>3, FS_CardinalityType DEF Depth, Downs, Ups

LEMMA DepthSame ==
    ASSUME NEW q, NEW c, NEW n, q \in Text, c \in Symbols, n \in 0..Len(q)
    PROVE  Depth(Append(q, c), n) = Depth(q, n)
<1>1. \A i \in 1..n : Append(q, c)[i] = q[i]
    BY AppendAt, LenProperties DEF Text
<1>2. QED
    BY <1>1 DEF Depth

LEMMA DepthMore ==
    ASSUME NEW q, NEW c, q \in Text, c \in Symbols
    PROVE  /\ c = "." => Depth(Append(q, c), Len(q) + 1) = Depth(q, Len(q))
           /\ c = ".." => Depth(Append(q, c), Len(q) + 1) = Depth(q, Len(q)) - 1
           /\ c \notin {".", ".."} => Depth(Append(q, c), Len(q) + 1) = Depth(q, Len(q)) + 1
           /\ Depth(q, Len(q)) \in Int
<1> DEFINE n == Len(q)
           r == Append(q, c)
           D == Downs(q, n)
           U == Ups(q, n)
<1>0. n \in Nat /\ 1..n + 1 = 1..n \cup {n + 1} /\ n + 1 \notin 1..n /\ n + 1 \in Nat
    BY LenProperties DEF Text
<1>1. r[n + 1] = c /\ \A i \in 1..n : r[i] = q[i]
    BY AppendIs, AppendAt
<1> HIDE DEF r, n
<1>2. (c \in {".", ".."} => Downs(r, n + 1) = D) /\ (c \notin {".", ".."} => Downs(r, n + 1) = D \cup {n + 1})
    BY <1>0, <1>1 DEF Downs
<1>3. (c = ".." => Ups(r, n + 1) = U \cup {n + 1}) /\ (c # ".." => Ups(r, n + 1) = U)
    BY <1>0, <1>1 DEF Ups
<1>4. n + 1 \notin D /\ n + 1 \notin U
    BY <1>0 DEF Downs, Ups
<1>5. /\ Depth(q, n) = Cardinality(D) - Cardinality(U)
      /\ IsFiniteSet(D) /\ IsFiniteSet(U) /\ Cardinality(D) \in Nat /\ Cardinality(U) \in Nat
    BY <1>0, DepthIs
<1>6. Depth(r, n + 1) = Cardinality(Downs(r, n + 1)) - Cardinality(Ups(r, n + 1))
    BY <1>0, DepthIs
<1> HIDE DEF D, U
<1>7. Cardinality(D \cup {n + 1}) = Cardinality(D) + 1 /\ Cardinality(U \cup {n + 1}) = Cardinality(U) + 1
    BY <1>4, <1>5, FS_AddElement
<1> DEFINE x == Cardinality(D)
           y == Cardinality(U)
<1>a. x \in Nat /\ y \in Nat /\ Depth(q, n) = x - y
    BY <1>5
<1>b. Downs(r, n + 1) = D \cup {n + 1} /\ Ups(r, n + 1) = U => Depth(r, n + 1) = (x + 1) - y
    BY <1>6, <1>7
<1>c. Downs(r, n + 1) = D /\ Ups(r, n + 1) = U \cup {n + 1} => Depth(r, n + 1) = x - (y + 1)
    BY <1>6, <1>7
<1> HIDE DEF x, y
<1>d. (x + 1) - y = (x - y) + 1 /\ x - (y + 1) = (x - y) - 1
    BY <1>a
<1>8. CASE c = "."
    <2>1. Depth(r, n + 1) = Depth(q, n)
        BY <1>2, <1>3, <1>5, <1>6, <1>8
    <2>2. QED
        BY <1>5, <1>8, <2>1 DEF r, n
<1>9. CASE c = ".."
    <2>0. Downs(r, n + 1) = D /\ Ups(r, n + 1) = U \cup {n + 1}
        BY <1>2, <1>3, <1>9
    <2>1. Depth(r, n + 1) = Depth(q, n) - 1
        BY <1>a, <1>c, <1>d, <2>0
    <2>2. QED
        BY <1>5, <1>9, <2>1 DEF r, n
<1>10. CASE c \notin {".", ".."}
    <2>0. Downs(r, n + 1) = D \cup {n + 1} /\ Ups(r, n + 1) = U
        BY <1>2, <1>3, <1>10
    <2>1. Depth(r, n + 1) = Depth(q, n) + 1
        BY <1>a, <1>b, <1>d, <2>0
    <2>2. QED
        BY <1>5, <1>10, <2>1 DEF r, n
<1>11. QED
    BY <1>8, <1>9, <1>10

(* A cleaned path that does not climb out at its front climbs nowhere, and  *)
(* is as long as its walk is deep.                                          *)
Climbs(d) == d # <<>> /\ d[1] = ".."
Below(q) ==
    /\ Clean(q) \in Text
    /\ ~Climbs(Clean(q)) =>
           /\ \A i \in 1..Len(Clean(q)) : Clean(q)[i] # ".."
           /\ Len(Clean(q)) = Depth(q, Len(q))
           /\ \A n \in 1..Len(q) : Depth(q, n) >= 0

LEMMA FrontOf ==
    ASSUME NEW d, d \in Text, d # <<>>
    PROVE  /\ SubSeq(d, 1, Len(d) - 1) \in Text /\ Len(SubSeq(d, 1, Len(d) - 1)) = Len(d) - 1
           /\ \A i \in 1..Len(d) - 1 : SubSeq(d, 1, Len(d) - 1)[i] = d[i]
           /\ Len(d) \in Nat /\ Len(d) >= 1
<1>1. Len(d) \in Nat /\ Len(d) >= 1
    BY EmptySeq DEF Text
<1>2. 1 \in 1..Len(d) + 1 /\ Len(d) - 1 \in 0..Len(d) /\ Len(d) - 1 - 1 + 1 = Len(d) - 1
    BY <1>1
<1>3. SubSeq(d, 1, Len(d) - 1) \in Text
    BY <1>2, SubSeqIs
<1>4. 1 <= Len(d) - 1 => Len(SubSeq(d, 1, Len(d) - 1)) = Len(d) - 1 - 1 + 1
    BY <1>2, SubSeqIs
<1>5. ~(1 <= Len(d) - 1) => SubSeq(d, 1, Len(d) - 1) = <<>> /\ Len(d) - 1 = 0
    BY <1>1, <1>2, SubSeqIs
<1>6. Len(SubSeq(d, 1, Len(d) - 1)) = Len(d) - 1
    BY <1>2, <1>4, <1>5
<1>7. \A i \in 1..Len(d) - 1 : SubSeq(d, 1, Len(d) - 1)[i] = d[i]
    <2> TAKE i \in 1..Len(d) - 1
    <2>1. i \in 1..Len(d) - 1 - 1 + 1 /\ 1 + i - 1 = i
        BY <1>2
    <2>2. QED
        BY <1>2, <2>1, SubSeqAt
<1>8. QED
    BY <1>1, <1>3, <1>6, <1>7

LEMMA BelowMore ==
    ASSUME NEW q, NEW c, q \in Text, c \in Symbols, Below(q) PROVE Below(Append(q, c))
<1> DEFINE r == Append(q, c)
           d == Clean(q)
           e == Clean(r)
           n == Len(q)
<1>1. e = Follow(d, c)
    BY Follows DEF Text
<1>2. d \in Text /\ n \in Nat /\ r \in Text /\ Len(r) = n + 1 /\ Len(d) \in Nat
    BY AppendIs, LenProperties DEF Below, Text
<1>3. ~Climbs(d) => /\ \A i \in 1..Len(d) : d[i] # ".."
                    /\ Len(d) = Depth(q, n) /\ \A m \in 1..n : Depth(q, m) >= 0
    BY DEF Below
<1>4. \A m \in 1..n : Depth(r, m) = Depth(q, m)
    BY DepthSame, <1>2
<1>5. /\ c = "." => Depth(r, n + 1) = Depth(q, n)
      /\ c = ".." => Depth(r, n + 1) = Depth(q, n) - 1
      /\ c \notin {".", ".."} => Depth(r, n + 1) = Depth(q, n) + 1
      /\ Depth(q, n) \in Int
    BY DepthMore
<1> HIDE DEF r, d, e, n

(* It is enough to know what the cleaned path has become. *)
<1>6. ASSUME e \in Text, ~Climbs(e) => /\ ~Climbs(d) /\ \A i \in 1..Len(e) : e[i] # ".."
                                       /\ Len(e) = Depth(r, n + 1)
      PROVE  Below(r)
    <2>1. ASSUME ~Climbs(e), NEW m \in 1..n + 1 PROVE Depth(r, m) >= 0
        <3>1. CASE m = n + 1
            <4>1. Len(e) \in Nat /\ Len(e) = Depth(r, m)
                BY <1>6, <2>1, <3>1, LenProperties DEF Text
            <4>2. QED
                BY <4>1
        <3>2. CASE m # n + 1
            <4>1. m \in 1..n
                BY <1>2, <3>2
            <4>2. QED
                BY <1>3, <1>4, <1>6, <2>1, <4>1
        <3>3. QED
            BY <3>1, <3>2
    <2>2. QED
        BY <1>2, <1>6, <2>1 DEF Below, e
<1>7. CASE c = "."
    <2>1. e = d
        BY <1>1, <1>7 DEF Follow
    <2>2. ~Climbs(e) => ~Climbs(d) /\ (\A i \in 1..Len(e) : e[i] # "..") /\ Len(e) = Depth(r, n + 1)
        BY <1>3, <1>5, <1>7, <2>1
    <2>3. QED
        BY <1>2, <1>6, <2>1, <2>2 DEF r
<1>8. CASE c = ".." /\ d # <<>> /\ d[Len(d)] # ".."
    <2>1. e = SubSeq(d, 1, Len(d) - 1)
        BY <1>1, <1>8 DEF Follow
    <2>2. /\ e \in Text /\ Len(e) = Len(d) - 1 /\ Len(d) >= 1
          /\ \A i \in 1..Len(d) - 1 : e[i] = d[i]
        BY <1>2, <1>8, <2>1, FrontOf
    <2>3. Climbs(d) => Climbs(e)
        <3>1. SUFFICES ASSUME Climbs(d) PROVE Climbs(e)
            OBVIOUS
        <3>2. Len(d) # 1
            BY <1>8, <3>1 DEF Climbs
        <3>3. 1 \in 1..Len(d) - 1 /\ Len(e) # 0
            BY <1>2, <2>2, <3>2
        <3>4. e[1] = d[1] /\ e # <<>>
            BY <2>2, <3>3
        <3>5. QED
            BY <3>1, <3>4 DEF Climbs
    <2>4. ASSUME ~Climbs(d) PROVE (\A i \in 1..Len(e) : e[i] # "..") /\ Len(e) = Depth(r, n + 1)
        <3>1. \A i \in 1..Len(e) : i \in 1..Len(d) /\ i \in 1..Len(d) - 1
            BY <1>2, <2>2
        <3>2. QED
            BY <1>3, <1>5, <1>8, <2>2, <2>4, <3>1
    <2>5. QED
        BY <1>6, <2>2, <2>3, <2>4 DEF r
<1>9. CASE c # "." /\ ~(c = ".." /\ d # <<>> /\ d[Len(d)] # "..")
    <2>1. e = Append(d, c)
        BY <1>1, <1>9 DEF Follow
    <2>2. e \in Text /\ e # <<>> /\ Len(e) = Len(d) + 1 /\ e[Len(d) + 1] = c
        BY <1>2, <2>1, AppendIs
    <2>3. \A i \in 1..Len(d) : e[i] = d[i]
        BY <1>2, <2>1, AppendAt
    <2>4. Climbs(d) => Climbs(e)
        <3>1. SUFFICES ASSUME Climbs(d) PROVE Climbs(e)
            OBVIOUS
        <3>2. 1 \in 1..Len(d)
            BY <1>2, <3>1, FrontOf DEF Climbs
        <3>3. QED
            BY <2>2, <2>3, <3>1, <3>2 DEF Climbs
    <2>5. ASSUME ~Climbs(d), ~Climbs(e) PROVE (\A i \in 1..Len(e) : e[i] # "..") /\ Len(e) = Depth(r, n + 1)
        <3>1. c # ".."
            <4>1. SUFFICES ASSUME c = ".." PROVE FALSE
                OBVIOUS
            <4>2. CASE d = <<>>
                BY <2>2, <2>5, <4>1, <4>2 DEF Climbs
            <4>3. CASE d # <<>>
                <5>1. Len(d) \in 1..Len(d)
                    BY <1>2, <4>3, FrontOf
                <5>2. QED
                    BY <1>3, <1>9, <2>5, <4>1, <4>3, <5>1
            <4>4. QED
                BY <4>2, <4>3
        <3>2. \A i \in 1..Len(e) : i \in 1..Len(d) \/ i = Len(d) + 1
            BY <1>2, <2>2
        <3>3. \A i \in 1..Len(e) : e[i] # ".."
            BY <1>3, <2>2, <2>3, <2>5, <3>1, <3>2
        <3>4. QED
            BY <1>3, <1>5, <1>9, <2>2, <2>5, <3>1, <3>3
    <2>6. QED
        BY <1>6, <2>2, <2>4, <2>5 DEF r
<1>10. QED
    BY <1>7, <1>8, <1>9 DEF r

LEMMA BelowAll == \A q \in Text : Below(q)
<1> DEFINE Good == {q \in Text : Below(q)}
<1>1. <<>> \in Good
    <2>1. Clean(<<>>) = <<>> /\ <<>> \in Text /\ Len(<<>>) = 0
        BY Follows DEF Text
    <2>2. Depth(<<>>, 0) = 0
        <3>1. Downs(<<>>, 0) = {} /\ Ups(<<>>, 0) = {}
            BY DEF Downs, Ups
        <3>2. Depth(<<>>, 0) = Cardinality({}) - Cardinality({})
            BY <3>1, DepthIs
        <3>3. QED
            BY <3>2, FS_EmptySet
    <2>3. QED
        BY <2>1, <2>2 DEF Below
<1>2. \A q \in Seq(Symbols), c \in Symbols : q \in Good => Append(q, c) \in Good
    BY BelowMore, AppendIs DEF Text
<1>3. \A q \in Seq(Symbols) : q \in Good
    <2> HIDE DEF Good
    <2>1. QED
        BY <1>1, <1>2, SeqInd
<1>4. QED
    BY <1>3 DEF Text

(* clean (fs.go:54): a path it accepts never stands above the workspace, at *)
(* none of its components.                                                  *)
THEOREM ConfinedStaysBelow ==
    ASSUME NEW path, path \in Text, \A i \in DOMAIN path : path[i] = "/" => i = 1, Confined(path)
    PROVE  StaysBelow(path)
<1>1. Below(path) /\ DOMAIN path = 1..Len(path) /\ Len(path) \in Nat
    BY BelowAll, LenProperties DEF Text
<1>2. CASE path = <<>>
    BY <1>2 DEF StaysBelow
<1>3. CASE path # <<>>
    <2>1. path[1] # "/" /\ ~Climbs(Clean(path))
        BY <1>3 DEF Confined, Climbs
    <2>2. \A n \in 1..Len(path) : Depth(path, n) >= 0
        BY <1>1, <2>1 DEF Below
    <2>3. \A n \in 1..Len(path) : path[n] # "/"
        BY <1>1, <2>1
    <2>4. QED
        BY <1>1, <2>2, <2>3 DEF StaysBelow
<1>4. QED
    BY <1>2, <1>3
-----------------------------------------------------------------------------
(* The line a terminal sends is what comes before the first end of a line.  *)
LineOf(t, typed) ==
    \E n \in 0..Len(typed) :
        /\ t = SubSeq(typed, 1, n) /\ ToSet(SubSeq(typed, 1, n)) \cap LineEnds = {}
        /\ n = Len(typed) \/ typed[n + 1] \in LineEnds

LEMMA WholeIs == ASSUME NEW s, s \in Text PROVE SubSeq(s, 1, Len(s)) = s
<1>1. Len(s) \in Nat
    BY LenProperties DEF Text
<1>2. 1 \in 1..Len(s) + 1 /\ Len(s) \in 0..Len(s)
    BY <1>1
<1>3. SubSeq(s, 1, Len(s)) \in Text /\ Len(SubSeq(s, 1, Len(s))) = Len(s)
    <2>1. CASE 1 <= Len(s)
        BY <1>1, <1>2, <2>1, SubSeqIs
    <2>2. CASE ~(1 <= Len(s))
        <3>1. SubSeq(s, 1, Len(s)) = <<>>
            BY <1>2, <2>2, SubSeqIs
        <3>2. s = <<>>
            BY <1>1, <2>2, EmptySeq DEF Text
        <3>3. QED
            BY <3>1, <3>2
    <2>3. QED
        BY <2>1, <2>2
<1>4. \A k \in 1..Len(s) : SubSeq(s, 1, Len(s))[k] = s[k]
    <2> TAKE k \in 1..Len(s)
    <2>1. k \in 1..Len(s) - 1 + 1 /\ 1 + k - 1 = k
        BY <1>1
    <2>2. QED
        BY <1>2, <2>1, SubSeqAt
<1>5. QED
    BY <1>3, <1>4, SeqEqual DEF Text

LEMMA InToSet ==
    ASSUME NEW s, NEW x, s \in Text, x \in ToSet(s) PROVE \E k \in 1..Len(s) : s[k] = x
BY LenProperties DEF ToSet, Text

LEMMA TerminalLineIs == ASSUME NEW typed, typed \in Text PROVE LineOf(TerminalLine(typed), typed)
<1> DEFINE ends == {i \in DOMAIN typed : typed[i] \in LineEnds}
           m == Min(ends)
<1>1. Len(typed) \in Nat /\ DOMAIN typed = 1..Len(typed) /\ ends \in SUBSET Nat
    BY LenProperties DEF Text
<1>2. CASE ends = {}
    <2>1. TerminalLine(typed) = typed /\ SubSeq(typed, 1, Len(typed)) = typed
        BY <1>2, WholeIs DEF TerminalLine
    <2>2. ToSet(typed) \cap LineEnds = {}
        BY <1>1, <1>2, InToSet
    <2>3. Len(typed) \in 0..Len(typed)
        BY <1>1
    <2>4. ToSet(SubSeq(typed, 1, Len(typed))) \cap LineEnds = {} /\ TerminalLine(typed) = SubSeq(typed, 1, Len(typed))
        BY <2>1, <2>2
    <2> HIDE DEF ends
    <2>5. QED
        BY <2>3, <2>4 DEF LineOf
<1>3. CASE ends # {}
    <2>1. m \in ends /\ \A k \in ends : m <= k
        BY <1>1, <1>3, LeastIs
    <2>2. TerminalLine(typed) = SubSeq(typed, 1, m - 1)
        BY <1>3 DEF TerminalLine
    <2>3. m \in 1..Len(typed) /\ typed[m] \in LineEnds
        BY <1>1, <2>1
    <2>3a. \A k \in 1..Len(typed) : typed[k] \in LineEnds => m <= k
        BY <1>1, <2>1
    <2> HIDE DEF m, ends
    <2> DEFINE n == m - 1
    <2>4. n \in 0..Len(typed) /\ n + 1 = m /\ 1 \in 1..Len(typed) + 1 /\ n - 1 + 1 = n
        BY <1>1, <2>3
    <2>5. SubSeq(typed, 1, n) \in Text
        BY <2>4, SubSeqIs
    <2>6. ToSet(SubSeq(typed, 1, n)) \cap LineEnds = {}
        <3> SUFFICES ASSUME NEW x \in ToSet(SubSeq(typed, 1, n)), x \in LineEnds PROVE FALSE
            OBVIOUS
        <3>1. PICK k \in 1..Len(SubSeq(typed, 1, n)) : SubSeq(typed, 1, n)[k] = x
            BY <2>5, InToSet
        <3>2. k \in 1..n
            <4>1. CASE 1 <= n
                BY <2>4, <4>1, SubSeqIs
            <4>2. CASE ~(1 <= n)
                BY <2>4, <4>2, SubSeqIs, EmptySeq
            <4>3. QED
                BY <4>1, <4>2
        <3> HIDE DEF n
        <3>3. k \in 1..n - 1 + 1 /\ 1 + k - 1 = k
            BY <2>4, <3>2
        <3>4. typed[k] = x
            BY <2>4, <3>1, <3>3, SubSeqAt
        <3>5. k \in 1..Len(typed) /\ k < m
            BY <1>1, <2>4, <3>2
        <3>6. QED
            BY <2>3a, <2>3, <3>4, <3>5
    <2>7. QED
        BY <2>2, <2>3, <2>4, <2>6 DEF LineOf
<1>4. QED
    BY <1>2, <1>3

(* newPrompter (main.go:3820): what is taken for a yes is one. *)
LEMMA ApprovalIsAYes == ASSUME NEW typed, typed \in Text, Approves(typed) PROVE SaysYes(typed)
<1>1. PICK n \in 0..Len(typed) :
          /\ TerminalLine(typed) = SubSeq(typed, 1, n) /\ ToSet(SubSeq(typed, 1, n)) \cap LineEnds = {}
          /\ n = Len(typed) \/ typed[n + 1] \in LineEnds
    BY TerminalLineIs DEF LineOf
<1>2. Len(typed) \in Nat /\ 1 \in 1..Len(typed) + 1
    BY LenProperties DEF Text
<1>3. SubSeq(typed, 1, n) \in Text
    BY <1>2, SubSeqIs
<1>4. Bare(SubSeq(typed, 1, n)) = Trim(TerminalLine(typed))
    BY <1>1, <1>3, TrimIsBare
<1>5. QED
    BY <1>1, <1>4 DEF Approves, SaysYes
-----------------------------------------------------------------------------
(* What a filter keeps it means to keep. *)
LEMMA KeptIsAllowed ==
    ASSUME NEW o, NEW include, NEW exclude, o \in Text, include \subseteq Text, exclude \subseteq Text,
           Kept(o, include, exclude)
    PROVE  /\ ~\E pattern \in exclude : Means(pattern, o)
           /\ include = {} \/ \E pattern \in include : Means(pattern, o)
<1>1. \A pattern \in include \cup exclude : GlobMatch(pattern, o) <=> Means(pattern, o)
    BY GlobMatchIsMeans
<1>2. QED
    BY <1>1 DEF Kept, MatchesAny

(* The pieces of a joined text. *)
LEMMA ConcatIs ==
    ASSUME NEW s, NEW t, s \in Text, t \in Text
    PROVE  /\ s \o t \in Text /\ Len(s \o t) = Len(s) + Len(t)
           /\ \A k \in 1..Len(s) : (s \o t)[k] = s[k]
           /\ \A k \in 1..Len(t) : (s \o t)[Len(s) + k] = t[k]
<1>1. s \o t \in Text /\ Len(s \o t) = Len(s) + Len(t)
    BY ConcatProperties DEF Text
<1>2. \A k \in 1..Len(s) + Len(t) : (s \o t)[k] = IF k <= Len(s) THEN s[k] ELSE t[k - Len(s)]
    BY ConcatProperties DEF Text
<1>3. Len(s) \in Nat /\ Len(t) \in Nat
    BY LenProperties DEF Text
<1>4. \A k \in 1..Len(s) : (s \o t)[k] = s[k]
    BY <1>2, <1>3
<1>5. \A k \in 1..Len(t) : (s \o t)[Len(s) + k] = t[k]
    <2> TAKE k \in 1..Len(t)
    <2>1. Len(s) + k \in 1..Len(s) + Len(t) /\ ~(Len(s) + k <= Len(s)) /\ Len(s) + k - Len(s) = k
        BY <1>3
    <2>2. QED
        BY <1>2, <2>1
<1>6. QED
    BY <1>1, <1>4, <1>5

LEMMA InConcat ==
    ASSUME NEW s, NEW t, s \in Text, t \in Text
    PROVE  ToSet(s \o t) = ToSet(s) \cup ToSet(t)
<1>1. /\ Len(s) \in Nat /\ Len(t) \in Nat /\ DOMAIN s = 1..Len(s) /\ DOMAIN t = 1..Len(t)
      /\ DOMAIN (s \o t) = 1..Len(s) + Len(t)
    BY LenProperties, ConcatIs DEF Text
<1>2. /\ \A k \in 1..Len(s) : (s \o t)[k] = s[k]
      /\ \A k \in 1..Len(t) : (s \o t)[Len(s) + k] = t[k]
    BY ConcatIs
<1>3. ASSUME NEW x \in ToSet(s \o t) PROVE x \in ToSet(s) \cup ToSet(t)
    <2>1. PICK k \in 1..Len(s) + Len(t) : (s \o t)[k] = x
        BY <1>1 DEF ToSet
    <2>2. CASE k <= Len(s)
        BY <1>1, <1>2, <2>1, <2>2 DEF ToSet
    <2>3. CASE ~(k <= Len(s))
        <3>1. PICK j \in 1..Len(t) : k = Len(s) + j
            <4>1. k - Len(s) \in 1..Len(t) /\ k = Len(s) + (k - Len(s))
                BY <1>1, <2>3
            <4>2. QED
                BY <4>1
        <3>2. t[j] = x
            BY <1>2, <2>1, <3>1
        <3>3. QED
            BY <1>1, <3>2 DEF ToSet
    <2>4. QED
        BY <2>2, <2>3
<1>4. ASSUME NEW x \in ToSet(s) PROVE x \in ToSet(s \o t)
    <2>1. PICK k \in 1..Len(s) : s[k] = x
        BY <1>1 DEF ToSet
    <2>2. k \in DOMAIN (s \o t) /\ (s \o t)[k] = x
        BY <1>1, <1>2, <2>1
    <2>3. QED
        BY <2>2 DEF ToSet
<1>5. ASSUME NEW x \in ToSet(t) PROVE x \in ToSet(s \o t)
    <2>1. PICK k \in 1..Len(t) : t[k] = x
        BY <1>1 DEF ToSet
    <2>2. Len(s) + k \in DOMAIN (s \o t) /\ (s \o t)[Len(s) + k] = x
        BY <1>1, <1>2, <2>1
    <2>3. QED
        BY <2>2 DEF ToSet
<1>6. QED
    BY <1>3, <1>4, <1>5
-----------------------------------------------------------------------------
(* The names of a server's tools. *)
McpCall(s) == s \in Setups /\ s.tool = "mcp"

LEMMA PairIs ==
    ASSUME NEW x, NEW y, x \in Symbols, y \in Symbols
    PROVE  <<x, y>> \in Text /\ Len(<<x, y>>) = 2 /\ ToSet(<<x, y>>) \subseteq {x, y}
<1>1. <<x, y>> \in Seq(Symbols) /\ Len(<<x, y>>) = 2
    OBVIOUS
<1>2. DOMAIN <<x, y>> = 1..2 /\ <<x, y>>[1] = x /\ <<x, y>>[2] = y
    OBVIOUS
<1>3. \A k \in 1..2 : k = 1 \/ k = 2
    OBVIOUS
<1>4. QED
    BY <1>1, <1>2, <1>3 DEF Text, ToSet

LEMMA PairHas == ASSUME NEW x, NEW y PROVE x \in ToSet(<<x, y>>) /\ y \in ToSet(<<x, y>>)
<1>1. DOMAIN <<x, y>> = 1..2 /\ <<x, y>>[1] = x /\ <<x, y>>[2] = y
    OBVIOUS
<1>2. 1 \in 1..2 /\ 2 \in 1..2
    OBVIOUS
<1>3. QED
    BY <1>1, <1>2 DEF ToSet

LEMMA DigestIs ==
    ASSUME NEW s, McpCall(s)
    PROVE  /\ Digest(s.original) \in Text /\ Len(Digest(s.original)) = 2
           /\ Digest(s.original) = <<"_", ToString(s.original)>>
           /\ ToSet(Digest(s.original)) \cap Foreign = {}
<1>1. Digest(s.original) = <<"_", ToString(s.original)>>
    BY DEF Digest
<1>2. ToSet(Digest(s.original)) \subseteq Symbols \ Foreign
    BY NamesAssumption DEF McpCall
<1>3. "_" \in Symbols /\ ToString(s.original) \in Symbols
    BY <1>1, <1>2, PairHas
<1>4. <<"_", ToString(s.original)>> \in Text /\ Len(<<"_", ToString(s.original)>>) = 2
    BY <1>3, PairIs
<1>5. QED
    BY <1>1, <1>2, <1>4

LEMMA SeparatorIs == Separator \in Text /\ Len(Separator) = 2 /\ ToSet(Separator) \cap Foreign = {}
<1>1. "_" \in Symbols /\ "_" \notin Foreign
    BY GuardsAssumption
<1>2. <<"_", "_">> \in Text /\ Len(<<"_", "_">>) = 2 /\ ToSet(<<"_", "_">>) \subseteq {"_", "_"}
    BY <1>1, PairIs
<1>3. QED
    BY <1>1, <1>2 DEF Separator

LEMMA CleanedIs ==
    ASSUME NEW s, s \in Text PROVE Cleaned(s) \in Text /\ Len(Cleaned(s)) = Len(s) /\ ToSet(Cleaned(s)) \cap Foreign = {}
<1>1. Len(s) \in Nat /\ DOMAIN s = 1..Len(s) /\ \A k \in 1..Len(s) : s[k] \in Symbols
    BY LenProperties, ElementOfSeq DEF Text
<1>2. /\ DOMAIN Cleaned(s) = 1..Len(s)
      /\ \A k \in 1..Len(s) : Cleaned(s)[k] = IF s[k] \in Foreign THEN "_" ELSE s[k]
    BY <1>1 DEF Cleaned
<1>3. \A k \in 1..Len(s) : Cleaned(s)[k] \in Symbols /\ Cleaned(s)[k] \notin Foreign
    BY <1>1, <1>2, GuardsAssumption
<1>4. Cleaned(s) \in [1..Len(s) -> Symbols]
    BY <1>2, <1>3 DEF Cleaned
<1>5. Cleaned(s) \in Text /\ Len(Cleaned(s)) = Len(s)
    <2> DEFINE l == Len(s)
               c == Cleaned(s)
    <2>1. l \in Nat /\ c \in [1..l -> Symbols]
        BY <1>1, <1>4
    <2> HIDE DEF l, c
    <2>2. c \in Seq(Symbols) /\ Len(c) = l
        BY <2>1
    <2>3. QED
        BY <2>2 DEF l, c, Text
<1>6. QED
    BY <1>2, <1>3, <1>5 DEF ToSet

(* A text that is cut is a piece of it, no longer than what is left for it. *)
LEMMA CutIs ==
    ASSUME NEW s, NEW n, s \in Text, n \in Int
    PROVE  /\ CutTo(s, n) \in Text /\ ToSet(CutTo(s, n)) \subseteq ToSet(s)
           /\ 0 <= n => Len(CutTo(s, n)) <= n
           /\ Len(s) <= n => CutTo(s, n) = s
<1>1. Len(s) \in Nat /\ DOMAIN s = 1..Len(s)
    BY LenProperties DEF Text
<1> DEFINE l == Len(s)
           m == Min({n, l})
           c == SubSeq(s, 1, m)
<1>2. m = (IF n <= l THEN n ELSE l) /\ l \in Nat
    BY <1>1, MinOfTwo
<1>3. CutTo(s, n) = c
    BY DEF CutTo
<1> HIDE DEF l, m
<1>4. m \in Int /\ m <= l /\ m <= n /\ (l <= n => m = l)
    BY <1>2
<1>5. CASE 1 <= m
    <2>1. 1 \in 1..l + 1 /\ m \in 0..l /\ m - 1 + 1 = m /\ m \in Nat
        BY <1>2, <1>4, <1>5
    <2>2. c \in Text /\ Len(c) = m
        BY <1>5, <2>1, SubSeqIs DEF l
    <2>3. \A k \in 1..m : c[k] = s[k]
        <3> TAKE k \in 1..m
        <3>1. k \in 1..m - 1 + 1 /\ 1 + k - 1 = k
            BY <2>1
        <3>2. QED
            BY <2>1, <3>1, SubSeqAt DEF l
    <2> HIDE DEF c
    <2>4. DOMAIN c = 1..m /\ 1..m \subseteq 1..l
        BY <1>2, <1>4, <2>1, <2>2, LenProperties DEF Text
    <2>5. ToSet(c) \subseteq ToSet(s)
        BY <1>1, <2>3, <2>4 DEF ToSet, l
    <2>6. l <= n => c = s
        BY <1>4, <2>2, <2>3, SeqEqual DEF Text, l
    <2>7. 0 <= n => Len(c) <= n
        BY <1>4, <2>2
    <2>8. QED
        BY <1>3, <2>2, <2>5, <2>6, <2>7 DEF l
<1>6. CASE ~(1 <= m)
    <2>1. \A k \in 1..m : s[k] \in Symbols
        BY <1>4, <1>6
    <2>2. c \in Seq(Symbols) /\ Len(c) = 0
        BY <1>4, <1>6, <2>1, SubSeqProperties
    <2>3. c = <<>>
        BY <2>2, EmptySeq
    <2>4. ToSet(c) = {}
        <3>1. DOMAIN <<>> = {}
            OBVIOUS
        <3>2. ToSet(<<>>) = {}
            BY <3>1 DEF ToSet
        <3>3. QED
            BY <2>3, <3>2
    <2>5. l <= n => l = 0
        BY <1>2, <1>4, <1>6
    <2>6. l = 0 => s = <<>>
        BY EmptySeq DEF Text, l
    <2> HIDE DEF c
    <2>7. QED
        BY <1>3, <2>2, <2>3, <2>4, <2>5, <2>6 DEF Text, l
<1>7. QED
    BY <1>5, <1>6

(* What a name is rewritten to. *)
Half(s) == CutTo(Cleaned(s.server), MaxToolNameLen - Len(Separator) - Len(Digest(s.original)))
Budget(s) == Min({MaxToolNameLen - Len(Half(s)) - Len(Separator) - Len(Digest(s.original)), MaxCleanedLen})
Part(s) == CutTo(Cleaned(s.original), Budget(s))

LEMMA RewrittenIs ==
    ASSUME NEW s, McpCall(s)
    PROVE  /\ Rewritten(s.server, s.original) = Half(s) \o Separator \o Part(s) \o Digest(s.original)
           /\ Half(s) \in Text /\ Part(s) \in Text
           /\ Len(Half(s)) + 2 + Len(Part(s)) + 2 <= MaxToolNameLen
           /\ ToSet(Half(s)) \cap Foreign = {} /\ ToSet(Part(s)) \cap Foreign = {}
           /\ Half(s) = s.server
<1>1. Rewritten(s.server, s.original) = Half(s) \o Separator \o Part(s) \o Digest(s.original)
    BY DEF Rewritten, Half, Budget, Part
<1>2. /\ s.server \in Text /\ s.original \in Text /\ ToSet(s.server) \cap Foreign = {}
      /\ Len(s.server) + Len(Separator) + Len(Digest(s.original)) <= MaxToolNameLen
    BY SetupsAssumption DEF McpCall
<1>3. Len(Separator) = 2 /\ Len(Digest(s.original)) = 2
    BY DigestIs, SeparatorIs
<1>4. MaxToolNameLen \in Nat /\ MaxCleanedLen \in Nat /\ Len(s.server) \in Nat
    BY <1>2, GuardsAssumption, LenProperties DEF Text
<1>5. MaxToolNameLen - Len(Separator) - Len(Digest(s.original)) = MaxToolNameLen - 4
    BY <1>3, <1>4
<1>6. MaxToolNameLen - 4 \in Int /\ Len(s.server) <= MaxToolNameLen - 4 /\ 0 <= MaxToolNameLen - 4
    BY <1>2, <1>3, <1>4
<1>7. /\ Half(s) = CutTo(Cleaned(s.server), MaxToolNameLen - 4)
      /\ Cleaned(s.server) \in Text /\ Len(Cleaned(s.server)) = Len(s.server)
      /\ ToSet(Cleaned(s.server)) \cap Foreign = {}
    BY <1>2, <1>5, CleanedIs DEF Half
<1>8. Half(s) = Cleaned(s.server)
    BY <1>6, <1>7, CutIs
<1>9. Cleaned(s.server) = s.server
    <2>1. DOMAIN s.server = 1..Len(s.server) /\ \A k \in 1..Len(s.server) : s.server[k] \notin Foreign
        BY <1>2, LenProperties DEF ToSet, Text
    <2>2. \A k \in 1..Len(s.server) : Cleaned(s.server)[k] = s.server[k]
        BY <2>1 DEF Cleaned
    <2>3. QED
        BY <1>2, <1>7, <2>2, SeqEqual DEF Text
<1>10. Budget(s) = Min({MaxToolNameLen - Len(s.server) - 2 - 2, MaxCleanedLen})
    BY <1>3, <1>8, <1>9 DEF Budget
<1>11. /\ Budget(s) \in Int /\ 0 <= Budget(s) /\ Budget(s) <= MaxToolNameLen - Len(s.server) - 4
    <2> DEFINE l == Len(s.server)
               a == MaxToolNameLen - l - 2 - 2
    <2>1. Budget(s) = Min({a, MaxCleanedLen}) /\ l \in Nat /\ l <= MaxToolNameLen - 4
        BY <1>4, <1>6, <1>10
    <2> HIDE DEF l
    <2>2. a \in Int /\ 0 <= a /\ a = MaxToolNameLen - l - 4
        BY <1>4, <2>1
    <2> HIDE DEF a
    <2>3. Budget(s) = IF a <= MaxCleanedLen THEN a ELSE MaxCleanedLen
        BY <1>4, <2>1, <2>2, MinOfTwo
    <2>4. Budget(s) \in Int /\ 0 <= Budget(s) /\ Budget(s) <= a
        BY <1>4, <2>2, <2>3
    <2>5. QED
        BY <2>2, <2>4 DEF l
<1>12. /\ Cleaned(s.original) \in Text /\ ToSet(Cleaned(s.original)) \cap Foreign = {}
    BY <1>2, CleanedIs
<1>13. /\ Part(s) \in Text /\ ToSet(Part(s)) \cap Foreign = {} /\ Len(Part(s)) <= Budget(s)
    BY <1>11, <1>12, CutIs DEF Part
<1>14. Len(Part(s)) \in Nat
    BY <1>13, LenProperties DEF Text
<1>15. Len(s.server) + 2 + Len(Part(s)) + 2 <= MaxToolNameLen
    BY <1>4, <1>11, <1>13, <1>14
<1>16. QED
    BY <1>1, <1>2, <1>7, <1>8, <1>9, <1>13, <1>15

(* Whatever a server calls its tool, a provider accepts the name made of it.*)
THEOREM NamesAreValid == ASSUME NEW s, McpCall(s) PROVE ValidName(EffectiveName(s.server, s.original))
<1> DEFINE h == Half(s)
           p == Part(s)
           d == Digest(s.original)
           r == Rewritten(s.server, s.original)
<1>1. /\ r = h \o Separator \o p \o d /\ h \in Text /\ p \in Text
      /\ Len(h) + 2 + Len(p) + 2 <= MaxToolNameLen
      /\ ToSet(h) \cap Foreign = {} /\ ToSet(p) \cap Foreign = {}
    BY RewrittenIs
<1>2. d \in Text /\ Len(d) = 2 /\ ToSet(d) \cap Foreign = {}
    BY DigestIs
<1>3. Separator \in Text /\ Len(Separator) = 2 /\ ToSet(Separator) \cap Foreign = {}
    BY SeparatorIs
<1> HIDE DEF h, p, d
<1>4. h \o Separator \in Text /\ h \o Separator \o p \in Text /\ h \o Separator \o p \o d \in Text
    BY <1>1, <1>2, <1>3, ConcatIs
<1>5. /\ Len(h \o Separator) = Len(h) + 2 /\ Len(h \o Separator \o p) = Len(h \o Separator) + Len(p)
      /\ Len(h \o Separator \o p \o d) = Len(h \o Separator \o p) + 2
    <2>1. Len(h \o Separator) = Len(h) + Len(Separator)
        BY <1>1, <1>3, ConcatIs
    <2>2. Len(h \o Separator \o p) = Len(h \o Separator) + Len(p)
        BY <1>1, <1>4, ConcatIs
    <2>3. Len(h \o Separator \o p \o d) = Len(h \o Separator \o p) + Len(d)
        BY <1>2, <1>4, ConcatIs
    <2>4. QED
        BY <1>2, <1>3, <2>1, <2>2, <2>3
<1>6. /\ ToSet(h \o Separator) = ToSet(h) \cup ToSet(Separator)
      /\ ToSet(h \o Separator \o p) = ToSet(h \o Separator) \cup ToSet(p)
      /\ ToSet(h \o Separator \o p \o d) = ToSet(h \o Separator \o p) \cup ToSet(d)
    BY <1>1, <1>2, <1>3, <1>4, InConcat
<1>7. Len(h) \in Nat /\ Len(p) \in Nat /\ MaxToolNameLen \in Nat
    BY <1>1, LenProperties, GuardsAssumption DEF Text
<1>8. Len(r) = Len(h) + 2 + Len(p) + 2
    BY <1>1, <1>5
<1>9. Len(r) \in 1..MaxToolNameLen
    BY <1>1, <1>7, <1>8
<1>10. ToSet(r) \cap Foreign = {}
    BY <1>1, <1>2, <1>3, <1>6
<1>11. ValidName(r)
    BY <1>9, <1>10 DEF ValidName
<1>12. QED
    BY <1>11 DEF EffectiveName

(* And it is told apart from the names of the server's other tools. *)
LEMMA EndsInDigest ==
    ASSUME NEW s, McpCall(s)
    PROVE  LET r == Rewritten(s.server, s.original) IN r[Len(r)] = ToString(s.original)
<1> DEFINE r == Rewritten(s.server, s.original)
           f == Half(s) \o Separator \o Part(s)
<1>1. r = f \o Digest(s.original) /\ Half(s) \in Text /\ Part(s) \in Text
    BY RewrittenIs
<1>2. Digest(s.original) = <<"_", ToString(s.original)>> /\ Digest(s.original) \in Text
    BY DigestIs
<1>3. Separator \in Text
    BY SeparatorIs
<1>4. Half(s) \o Separator \in Text
    BY <1>1, <1>3, ConcatIs
<1>5. f \in Text
    BY <1>1, <1>4, ConcatIs
<1>6. Len(Digest(s.original)) = 2 /\ Digest(s.original)[2] = ToString(s.original)
    <2>1. Len(Digest(s.original)) = 2
        BY DigestIs
    <2>2. <<"_", ToString(s.original)>>[2] = ToString(s.original)
        OBVIOUS
    <2>3. QED
        BY <1>2, <2>1, <2>2
<1> HIDE DEF f
<1>7. Len(r) = Len(f) + 2 /\ r[Len(f) + 2] = ToString(s.original)
    <2> DEFINE d == Digest(s.original)
    <2>1. d \in Text
        BY <1>2
    <2>2. Len(d) = 2 /\ d[2] = ToString(s.original)
        BY <1>6
    <2>3. r = f \o d
        BY <1>1
    <2> HIDE DEF d, r
    <2>4. Len(f \o d) = Len(f) + Len(d)
        BY <1>5, <2>1, ConcatIs
    <2>5. \A k \in 1..Len(d) : (f \o d)[Len(f) + k] = d[k]
        BY <1>5, <2>1, ConcatIs
    <2>6. 2 \in 1..Len(d)
        BY <2>2
    <2>7. QED
        BY <2>2, <2>3, <2>4, <2>5, <2>6
<1>8. QED
    BY <1>7

LEMMA SameRest ==
    ASSUME NEW s, NEW t, NEW u, s \in Text, t \in Text, u \in Text, s \o t = s \o u PROVE t = u
<1>1. Len(s) \in Nat /\ Len(t) \in Nat /\ Len(u) \in Nat
    BY LenProperties DEF Text
<1>2. Len(s) + Len(t) = Len(s) + Len(u)
    BY ConcatIs
<1>3. Len(t) = Len(u)
    BY <1>1, <1>2
<1>4. \A k \in 1..Len(t) : t[k] = u[k]
    BY <1>3, ConcatIs
<1>5. QED
    BY <1>3, <1>4, SeqEqual DEF Text

LEMMA NamesAreOwn ==
    ASSUME NEW s, NEW t, McpCall(s), McpCall(t), s.server = t.server,
           EffectiveName(s.server, s.original) = EffectiveName(t.server, t.original)
    PROVE  s.original = t.original
<1> DEFINE plain(c) == c.original # <<>> /\ ValidName(Joined(c.server, c.original))
<1>1. \A c : /\ plain(c) => EffectiveName(c.server, c.original) = Joined(c.server, c.original)
             /\ ~plain(c) => EffectiveName(c.server, c.original) = Rewritten(c.server, c.original)
    BY DEF EffectiveName
<1>2. s.server \in Text /\ s.original \in Text /\ t.original \in Text /\ Separator \in Text
    BY SetupsAssumption, SeparatorIs DEF McpCall
<1>3. CASE plain(s) /\ plain(t)
    <2>1. (s.server \o Separator) \o s.original = (s.server \o Separator) \o t.original
        BY <1>1, <1>3 DEF Joined
    <2>2. s.server \o Separator \in Text
        BY <1>2, ConcatIs
    <2>3. QED
        BY <1>2, <2>1, <2>2, SameRest
<1>4. CASE ~plain(s) /\ ~plain(t)
    <2>1. Rewritten(s.server, s.original) = Rewritten(t.server, t.original)
        BY <1>1, <1>4
    <2>2. ToString(s.original) = ToString(t.original)
        BY <2>1, EndsInDigest
    <2>3. Digest(s.original) = Digest(t.original)
        BY <2>2 DEF Digest
    <2>4. QED
        BY <2>3, NamesAssumption DEF McpCall
<1>5. CASE plain(s) /\ ~plain(t)
    <2>1. Joined(s.server, s.original) = Rewritten(t.server, t.original) /\ ValidName(Joined(s.server, s.original))
        BY <1>1, <1>5
    <2>2. QED
        BY <2>1, NamesAssumption DEF McpCall
<1>6. CASE ~plain(s) /\ plain(t)
    <2>1. Joined(t.server, t.original) = Rewritten(s.server, s.original) /\ ValidName(Joined(t.server, t.original))
        BY <1>1, <1>6
    <2>2. QED
        BY <2>1, NamesAssumption DEF McpCall
<1>7. QED
    BY <1>3, <1>4, <1>5, <1>6

(* A pattern without a star, read from the start of a text it starts.       *)
Starts(q, s) == Len(q) <= Len(s) /\ \A k \in 1..Len(q) : q[k] = s[k] /\ q[k] # Wild
Reaches(q, s) == Starts(q, s) => Drop(s, Len(q)) \in Taken(s, q)

LEMMA ReachesMore ==
    ASSUME NEW q, NEW c, NEW s, q \in Text, c \in Symbols, s \in Text, Reaches(q, s)
    PROVE  Reaches(Append(q, c), s)
<1> DEFINE r == Append(q, c)
           n == Len(q)
<1> SUFFICES ASSUME Starts(r, s) PROVE Drop(s, Len(r)) \in Taken(s, r)
    BY DEF Reaches
<1>1. n \in Nat /\ Len(s) \in Nat /\ Len(r) = n + 1 /\ r[n + 1] = c /\ \A k \in 1..n : r[k] = q[k]
    BY AppendIs, AppendAt, LenProperties DEF Text
<1>2. Taken(s, r) = Take(Taken(s, q), c)
    BY Takes DEF Text
<1> HIDE DEF r, n
<1>3. /\ n + 1 <= Len(s) /\ n + 1 \in 1..n + 1 /\ n \in 0..Len(s) /\ n < Len(s)
      /\ \A k \in 1..n + 1 : r[k] = s[k] /\ r[k] # Wild
    BY <1>1 DEF Starts
<1>4. s[n + 1] = c /\ c # Wild
    BY <1>1, <1>3
<1>5. \A k \in 1..n : k \in 1..n + 1
    BY <1>1
<1>6. Starts(q, s)
    BY <1>1, <1>3, <1>5 DEF Starts, n
<1>7. Drop(s, n) \in Taken(s, q)
    BY <1>6 DEF Reaches, n
<1>8. Behind(c, Drop(s, n)) = {Drop(s, n + 1)}
    BY <1>3, <1>4, BehindWord
<1>9. Drop(s, n + 1) \in Take(Taken(s, q), c)
    BY <1>7, <1>8, InTake
<1>10. QED
    BY <1>1, <1>2, <1>9

LEMMA StartReaches == ASSUME NEW s, s \in Text PROVE \A q \in Text : Reaches(q, s)
<1> DEFINE Good == {q \in Text : Reaches(q, s)}
<1>1. <<>> \in Good
    <2>1. Taken(s, <<>>) = {s} /\ Drop(s, 0) = s /\ Len(<<>>) = 0 /\ <<>> \in Text
        BY Takes, DropAll, EmptySeq DEF Text
    <2>2. QED
        BY <2>1 DEF Reaches
<1>2. \A q \in Seq(Symbols), c \in Symbols : q \in Good => Append(q, c) \in Good
    BY ReachesMore, AppendIs DEF Text
<1>3. \A q \in Seq(Symbols) : q \in Good
    <2> HIDE DEF Good
    <2>1. QED
        BY <1>1, <1>2, SeqInd
<1>4. QED
    BY <1>3 DEF Text

LEMMA PrefixMeans ==
    ASSUME NEW q, NEW s, q \in Text, s \in Text, Starts(q, s)
    PROVE  Means(q \o <<Wild>>, s)
<1> DEFINE n == Len(q)
<1>1. q \o <<Wild>> = Append(q, Wild) /\ Wild \in Symbols
    BY GuardsAssumption, AppendIsConcat DEF Text
<1>2. Taken(s, Append(q, Wild)) = Take(Taken(s, q), Wild)
    BY <1>1, Takes DEF Text
<1>3. Drop(s, n) \in Taken(s, q)
    BY StartReaches DEF Reaches
<1>4. n \in Nat /\ Len(s) \in Nat /\ n \in 0..Len(s) /\ Len(s) \in n..Len(s)
    BY LenProperties DEF Text, Starts
<1>5. Drop(s, Len(s)) \in Behind(Wild, Drop(s, n)) /\ Drop(s, Len(s)) = <<>>
    BY <1>4, BehindStar, DropAll
<1>6. <<>> \in Take(Taken(s, q), Wild)
    BY <1>3, <1>5, InTake
<1>7. QED
    BY <1>1, <1>2, <1>6 DEF Means, Taken

(* A rule for the tools of a server means each of them. *)
Prefix(s) == s.server \o Separator

LEMMA StartsJoined ==
    ASSUME NEW q, NEW t, q \in Text, t \in Text, ToSet(q) \cap Foreign = {}
    PROVE  Starts(q, q \o t)
<1>1. Len(q) \in Nat /\ Len(t) \in Nat /\ DOMAIN q = 1..Len(q)
    BY LenProperties DEF Text
<1>2. Len(q \o t) = Len(q) + Len(t) /\ \A k \in 1..Len(q) : (q \o t)[k] = q[k]
    BY ConcatIs
<1>3. \A k \in 1..Len(q) : q[k] # Wild
    BY <1>1, GuardsAssumption DEF ToSet
<1>4. Len(q) <= Len(q \o t)
    BY <1>1, <1>2
<1>5. QED
    BY <1>2, <1>3, <1>4 DEF Starts

LEMMA Regroup == ASSUME NEW a, NEW b, NEW c, a \in Text, b \in Text, c \in Text PROVE (a \o b) \o c = a \o (b \o c)
<1>1. a \in Seq(Symbols) /\ b \in Seq(Symbols) /\ c \in Seq(Symbols)
    BY DEF Text
<1>2. QED
    BY <1>1, ConcatAssociative

LEMMA NamesStart ==
    ASSUME NEW s, McpCall(s)
    PROVE  /\ EffectiveName(s.server, s.original) \in Text
           /\ Starts(Prefix(s), EffectiveName(s.server, s.original)) /\ Prefix(s) \in Text
           /\ Prefix(s) \o <<Wild>> \in Text
<1> DEFINE q == Prefix(s)
           e == EffectiveName(s.server, s.original)
<1>1. s.server \in Text /\ s.original \in Text /\ ToSet(s.server) \cap Foreign = {}
    BY SetupsAssumption DEF McpCall
<1>2. Separator \in Text /\ ToSet(Separator) \cap Foreign = {}
    BY SeparatorIs
<1>3. q \in Text /\ ToSet(q) \cap Foreign = {}
    BY <1>1, <1>2, ConcatIs, InConcat DEF Prefix
<1>4. \E t \in Text : e = q \o t
    <2>1. CASE e = Joined(s.server, s.original)
        BY <1>1, <2>1 DEF Joined, Prefix
    <2>2. CASE e = Rewritten(s.server, s.original)
        <3>1. e = q \o Part(s) \o Digest(s.original) /\ Part(s) \in Text
            BY <2>2, RewrittenIs DEF Prefix
        <3>2. Digest(s.original) \in Text
            BY DigestIs
        <3>3. \A a, b, c \in Text : (a \o b) \o c = a \o (b \o c)
            BY Regroup
        <3>4. (q \o Part(s)) \o Digest(s.original) = q \o (Part(s) \o Digest(s.original))
            BY <1>3, <3>1, <3>2, <3>3
        <3>5. Part(s) \o Digest(s.original) \in Text
            BY <3>1, <3>2, ConcatIs
        <3>6. QED
            BY <3>1, <3>4, <3>5
    <2>3. QED
        BY <2>1, <2>2 DEF EffectiveName
<1>5. PICK t \in Text : e = q \o t
    BY <1>4
<1>6. e \in Text /\ Starts(q, e)
    <2> HIDE DEF q, e
    <2>1. QED
        BY <1>3, <1>5, StartsJoined, ConcatIs
<1>7. q \o <<Wild>> \in Text
    <2>1. <<Wild>> \in Text
        <3>1. Wild \in Symbols
            BY GuardsAssumption
        <3>2. <<Wild>> \in Seq(Symbols)
            BY <3>1
        <3>3. QED
            BY <3>2 DEF Text
    <2> HIDE DEF q
    <2>2. QED
        BY <1>3, <2>1, ConcatIs
<1>8. QED
    BY <1>3, <1>6, <1>7

LEMMA DenialCovers ==
    ASSUME NEW s, McpCall(s), Prefix(s) \o <<Wild>> \in DOMAIN s.rules,
           EffectiveName(s.server, s.original) \notin DOMAIN s.rules, s.rules[Prefix(s) \o <<Wild>>] = "deny"
    PROVE  Ruling(EffectiveName(s.server, s.original), s.default, s.rules) = "deny"
<1> DEFINE e == EffectiveName(s.server, s.original)
           w == Prefix(s) \o <<Wild>>
           said == {s.rules[x] : x \in RuledBy(e, s.rules)}
           Top(p) == p \in said /\ \A q \in said : Restrictiveness(p) >= Restrictiveness(q)
<1>1. /\ e \in Text /\ Starts(Prefix(s), e) /\ Prefix(s) \in Text /\ w \in Text
    BY NamesStart
<1>2. Means(w, e)
    BY <1>1, PrefixMeans
<1>3. IsPattern(w)
    <2>1. <<Wild>> \in Text /\ Wild \in ToSet(<<Wild>>)
        <3>1. Wild \in Symbols
            BY GuardsAssumption
        <3>2. <<Wild>> \in Seq(Symbols) /\ DOMAIN <<Wild>> = 1..1 /\ <<Wild>>[1] = Wild
            BY <3>1
        <3>3. 1 \in 1..1
            OBVIOUS
        <3>4. QED
            BY <3>2, <3>3 DEF Text, ToSet
    <2>2. ToSet(w) = ToSet(Prefix(s)) \cup ToSet(<<Wild>>)
        BY <1>1, <2>1, InConcat
    <2>3. QED
        BY <2>1, <2>2 DEF IsPattern
<1>4. RuledBy(e, s.rules) = {x \in DOMAIN s.rules : IsPattern(x) /\ Means(x, e)}
    BY DEF RuledBy
<1>5. s.rules \in [DOMAIN s.rules -> Policies]
    BY SetupsAssumption DEF McpCall
<1> HIDE DEF e, w
<1>6. w \in RuledBy(e, s.rules) /\ s.rules[w] = "deny"
    BY <1>2, <1>3, <1>4 DEF w
<1>7. "deny" \in said
    BY <1>6
<1>8. said \subseteq Policies
    BY <1>4, <1>5
<1>9. \A p \in said : /\ p = "deny" => Restrictiveness(p) = 2
                      /\ p # "deny" => Restrictiveness(p) \in {0, 1}
    BY <1>8, Ranks DEF Policies
<1>10. Ruling(e, s.default, s.rules) = CHOOSE p \in said : \A q \in said : Restrictiveness(p) >= Restrictiveness(q)
    BY <1>7 DEF Ruling
<1> HIDE DEF said
<1>11. \A q \in said : 2 >= Restrictiveness(q)
    <2> TAKE q \in said
    <2>1. Restrictiveness(q) = 2 \/ Restrictiveness(q) = 0 \/ Restrictiveness(q) = 1
        BY <1>9
    <2>2. QED
        BY <2>1
<1>12. Top("deny")
    BY <1>7, <1>9, <1>11
<1>13. Top(Ruling(e, s.default, s.rules))
    BY <1>10, <1>12
<1>14. \A p : Top(p) => p = "deny"
    <2> SUFFICES ASSUME NEW p, Top(p), p # "deny" PROVE FALSE
        OBVIOUS
    <2>1. Restrictiveness(p) >= 2 /\ Restrictiveness(p) \in {0, 1}
        BY <1>7, <1>9
    <2>2. QED
        BY <2>1
<1>15. QED
    BY <1>13, <1>14 DEF e
-----------------------------------------------------------------------------
(* The guards of the call, at each point of its way.                        *)
Ruled == Ruling(Name(setup), setup.default, setup.rules)
Consented == Ruled = "allow" \/ (Ruled = "ask" /\ terminal /\ SaysYes(answered))
GuardInv ==
    /\ setup \in Setups
    /\ pc = "question" => Ruled = "ask" /\ terminal
    /\ pc = "invoking" => Consented
    /\ OnlyThePermittedRuns

LEMMA NameIsText == ASSUME NEW s \in Setups PROVE Name(s) \in Text
<1>1. CASE s.tool = "mcp"
    BY <1>1, NamesStart DEF Name, McpCall
<1>2. CASE s.tool # "mcp"
    BY <1>2, SetupsAssumption DEF Name
<1>3. QED
    BY <1>1, <1>2

LEMMA RuleIsTheRuling ==
    ASSUME NEW s \in Setups, NEW order \in SetToSeqs(DOMAIN s.rules)
    PROVE  PolicyFor(Name(s), s.default, s.rules, order) = Ruling(Name(s), s.default, s.rules)
BY NameIsText, SetupsAssumption, PolicyIsTheRuling

(* What an MCP call that is sent was let through by. *)
LEMMA SentIsPermitted ==
    ASSUME setup \in Setups, setup.tool = "mcp", ~Unknown, Ruled # "deny"
    PROVE  OwnName /\ FilterAllows /\ ServerAllows
<1>1. McpCall(setup) /\ Name(setup) = EffectiveName(setup.server, setup.original)
    BY DEF McpCall, Name
<1>2. OwnName
    <2>1. ValidName(Name(setup))
        BY <1>1, NamesAreValid
    <2>2. ASSUME NEW t \in McpTools, t[1] = setup.server, EffectiveName(t[1], t[2]) = Name(setup)
          PROVE  t[2] = setup.original
        <3>1. PICK s \in {c \in Setups : c.tool = "mcp"} : t = <<s.server, s.original>>
            BY DEF McpTools
        <3>2. t[1] = s.server /\ t[2] = s.original /\ McpCall(s)
            BY <3>1 DEF McpCall
        <3>3. s.original = setup.original
            BY <1>1, <2>2, <3>2, NamesAreOwn
        <3>4. QED
            BY <3>2, <3>3
    <2>3. QED
        BY <2>1, <2>2 DEF OwnName
<1>3. FilterAllows
    <2>1. Kept(setup.original, setup.include, setup.exclude)
        BY DEF Unknown
    <2>2. setup.original \in Text /\ setup.include \subseteq Text /\ setup.exclude \subseteq Text
        BY SetupsAssumption
    <2>3. QED
        BY <2>1, <2>2, KeptIsAllowed DEF FilterAllows
<1>4. ServerAllows
    <2>1. WholeServer = Prefix(setup) \o <<Wild>>
        BY DEF WholeServer, Prefix
    <2>2. QED
        BY <1>1, <2>1, DenialCovers DEF ServerAllows, Ruled
<1>5. QED
    BY <1>2, <1>3, <1>4

LEMMA InitGuards == Init => GuardInv
BY DEF Init, GuardInv, OnlyThePermittedRuns

(* A step that begins nothing and lets nothing further. *)
LEMMA GuardsStay ==
    ASSUME GuardInv, UNCHANGED <<setup, terminal, answered, begun>>,
           pc' \in {"question", "invoking"} => pc' = pc
    PROVE  GuardInv'
BY DEF GuardInv, Consented, Ruled, OnlyThePermittedRuns, OwnName, FilterAllows, ServerAllows, WholeServer

(* One that lets the call further, to a human or to its tool. *)
LEMMA RuleKeepsGuards == ASSUME GuardInv, Rule PROVE GuardInv'
<1>1. setup \in Setups /\ UNCHANGED <<setup, terminal, answered, begun>> /\ OnlyThePermittedRuns
    BY DEF Rule, GuardInv
<1>2. OnlyThePermittedRuns'
    BY <1>1 DEF OnlyThePermittedRuns, OwnName, FilterAllows, ServerAllows, WholeServer
<1>3. PICK order \in SetToSeqs(DOMAIN setup.rules) :
          LET policy == PolicyFor(Name(setup), setup.default, setup.rules, order) IN
          \/ policy = "allow" /\ Goto("invoking") /\ UNCHANGED result
          \/ policy = "deny" /\ Return("denied_policy", FALSE)
          \/ policy = "ask" /\ AskHuman
    BY DEF Rule
<1>4. PolicyFor(Name(setup), setup.default, setup.rules, order) = Ruled
    BY <1>1, RuleIsTheRuling DEF Ruled
<1>5. Ruled' = Ruled
    BY <1>1 DEF Ruled
<1>6. CASE Ruled = "allow" /\ pc' = "invoking"
    BY <1>1, <1>2, <1>5, <1>6 DEF GuardInv, Consented
<1>7. CASE pc' = "returned"
    BY <1>1, <1>2, <1>7 DEF GuardInv
<1>8. CASE Ruled = "ask" /\ terminal /\ pc' = "question"
    BY <1>1, <1>2, <1>5, <1>8 DEF GuardInv
<1>9. QED
    BY <1>3, <1>4, <1>6, <1>7, <1>8 DEF AskHuman, Goto, Return

LEMMA AnswerKeepsGuards == ASSUME GuardInv, begun = "none", Answer PROVE GuardInv'
<1>1. setup \in Setups /\ UNCHANGED <<setup, terminal, begun>> /\ Ruled = "ask" /\ terminal /\ begun' = "none"
    BY DEF Answer, GuardInv
<1>2. Ruled' = Ruled
    BY <1>1 DEF Ruled
<1>3. OnlyThePermittedRuns'
    BY <1>1 DEF OnlyThePermittedRuns
<1>4. (\E typed \in Typed : answered' = typed /\ Approves(typed) /\ pc' = "invoking") \/ pc' = "returned"
    BY DEF Answer, Goto, Return
<1>5. CASE \E typed \in Typed : answered' = typed /\ Approves(typed) /\ pc' = "invoking"
    <2>1. PICK typed \in Typed : answered' = typed /\ Approves(typed) /\ pc' = "invoking"
        BY <1>5
    <2>2. typed \in Text
        BY ToolCallAssumption
    <2>3. SaysYes(typed)
        BY <2>1, <2>2, ApprovalIsAYes
    <2>4. SaysYes(answered')
        BY <2>1, <2>3
    <2>5. Consented'
        BY <1>1, <1>2, <2>4 DEF Consented
    <2>6. QED
        BY <1>1, <1>3, <2>1, <2>5 DEF GuardInv
<1>6. CASE pc' = "returned"
    BY <1>1, <1>3, <1>6 DEF GuardInv
<1>7. QED
    BY <1>4, <1>5, <1>6

(* What is checked of a call by its tool. *)
Checked ==
    /\ setup.tool = "shell" => Passes(setup.command, setup.allow, setup.deny)
    /\ setup.tool = "subprocess" => setup.allowArgs \/ ~setup.args
    /\ setup.tool \in FileTools => StaysBelow(setup.path)
    /\ setup.tool = "mcp" => OwnName /\ FilterAllows /\ ServerAllows

LEMMA CheckedBegins ==
    ASSUME GuardInv, pc = "invoking", Checked, UNCHANGED <<setup, terminal, answered>>, begun' = "live",
           pc' \notin {"question", "invoking"}
    PROVE  GuardInv'
<1>1. setup \in Setups /\ Consented
    BY DEF GuardInv
<1>2. setup' \in Setups /\ Consented' /\ Checked'
    BY <1>1 DEF Consented, Ruled, Checked, OwnName, FilterAllows, ServerAllows, WholeServer
<1>3. OnlyThePermittedRuns'
    BY <1>2 DEF OnlyThePermittedRuns, Consented, Ruled, Checked
<1>4. QED
    BY <1>2, <1>3 DEF GuardInv

LEMMA FileKeepsGuards == ASSUME GuardInv, InvokeFile PROVE GuardInv'
<1>1. /\ UNCHANGED <<setup, terminal, answered>> /\ setup.tool \in FileTools /\ pc = "invoking" /\ setup \in Setups
    BY DEF InvokeFile, ReadFile, ListFiles, WriteFile, FileTools, GuardInv
<1>2. Touch(BOOLEAN) \/ Touch({FALSE}) \/ WriteBreaks \/ FileFails
    BY DEF InvokeFile, ReadFile, ListFiles, WriteFile
<1>3. CASE FileFails
    <2>1. pc' = "returned" /\ UNCHANGED begun
        BY <1>3 DEF FileFails, BadArguments, Return, Goto
    <2>2. QED
        BY <1>1, <2>1, GuardsStay
<1>4. CASE Touch(BOOLEAN) \/ Touch({FALSE}) \/ WriteBreaks
    <2>1. Confined(setup.path) /\ begun' = "live" /\ pc' = "returned"
        BY <1>4 DEF Touch, WriteBreaks, Return, Goto
    <2>2. setup.path \in Text /\ \A i \in DOMAIN setup.path : setup.path[i] = "/" => i = 1
        BY <1>1, SetupsAssumption
    <2>3. StaysBelow(setup.path)
        BY <2>1, <2>2, ConfinedStaysBelow
    <2>4. Checked
        BY <1>1, <2>3 DEF Checked, FileTools
    <2>5. QED
        BY <1>1, <2>1, <2>4, CheckedBegins
<1>5. QED
    BY <1>2, <1>3, <1>4

LEMMA ChildKeepsGuards == ASSUME GuardInv, StartChild PROVE GuardInv'
<1>1. /\ UNCHANGED <<setup, terminal, answered>> /\ pc = "invoking" /\ setup \in Setups /\ MayRun
    BY DEF StartChild, GuardInv
<1>2. \/ pc' = "returned" /\ UNCHANGED begun
      \/ begun' = "live" /\ pc' = "running"
    BY DEF StartChild, Return, Goto
<1>3. CASE pc' = "returned" /\ UNCHANGED begun
    BY <1>1, <1>3, GuardsStay
<1>4. CASE begun' = "live" /\ pc' = "running"
    <2>0. /\ setup.tool = "shell" => setup.tool \notin FileTools /\ setup.tool # "mcp" /\ setup.tool # "subprocess"
          /\ setup.tool = "subprocess" => setup.tool \notin FileTools /\ setup.tool # "mcp" /\ setup.tool # "shell"
        BY DEF FileTools
    <2>1. ASSUME setup.tool = "shell" PROVE Checked
        <3>1. ~Rejects(setup.command, setup.allow, setup.deny)
            BY <1>1, <2>0, <2>1, Zenon DEF MayRun
        <3>2. setup.command \in Seq(Text) /\ setup.allow \in SUBSET Text /\ setup.deny \in SUBSET Text
            BY <1>1, <2>1, SetupsAssumption
        <3>3. Passes(setup.command, setup.allow, setup.deny)
            BY <3>1, <3>2, UnrejectedPasses
        <3>4. QED
            BY <2>0, <2>1, <3>3, Zenon DEF Checked
    <2>2. ASSUME setup.tool = "subprocess" PROVE Checked
        BY <1>1, <2>0, <2>2, Zenon DEF MayRun, Checked
    <2>3. Checked
        BY <1>1, <2>1, <2>2, Zenon DEF MayRun
    <2>4. QED
        BY <1>1, <1>4, <2>3, CheckedBegins
<1>5. QED
    BY <1>2, <1>3, <1>4

LEMMA SendKeepsGuards == ASSUME GuardInv, SendCall PROVE GuardInv'
<1>1. /\ UNCHANGED <<setup, terminal, answered>> /\ pc = "invoking" /\ setup \in Setups
      /\ setup.tool = "mcp" /\ ~Unknown /\ Consented
    BY DEF SendCall, GuardInv
<1>2. \/ pc' = "returned" /\ UNCHANGED begun
      \/ begun' = "live" /\ pc' = "sent"
    BY DEF SendCall, Return, Goto
<1>3. CASE pc' = "returned" /\ UNCHANGED begun
    BY <1>1, <1>3, GuardsStay
<1>4. CASE begun' = "live" /\ pc' = "sent"
    <2>1. OwnName /\ FilterAllows /\ ServerAllows
        BY <1>1, SentIsPermitted DEF Consented
    <2>2. Checked
        BY <1>1, <2>1 DEF Checked, FileTools
    <2>3. QED
        BY <1>1, <1>4, <2>2, CheckedBegins
<1>5. QED
    BY <1>2, <1>3, <1>4

(* The rest of the steps neither ask nor begin. *)
LEMMA OthersKeepGuards ==
    ASSUME GuardInv, [Next]_vars, ~Rule, ~Answer, ~InvokeFile, ~StartChild, ~SendCall
    PROVE  GuardInv'
<1>1. CASE RejectCommand \/ RefuseArguments \/ UnknownTool \/ CallExpires \/ ReplyArrives \/ CallBreaks \/ Judge
    BY <1>1, GuardsStay DEF RejectCommand, RefuseArguments, UnknownTool, CallExpires, ReplyArrives, CallBreaks,
                            Judge, Return, BadArguments, Goto, Render
<1>2. CASE Cancel \/ DelayExpires \/ Reap \/ Drain \/ TimerExpires \/ RunEnds \/ Fork \/ HeirExits \/ ChildExits
    BY <1>2, GuardsStay DEF Cancel, DelayExpires, Reap, Drain, TimerExpires, RunEnds, Fork, HeirExits, ChildExits, Goto
<1>3. CASE \E s \in Streams : Write(s)
    BY <1>3, GuardsStay DEF Write
<1>4. CASE UNCHANGED vars
    BY <1>4, GuardsStay DEF vars
<1>5. QED
    BY <1>1, <1>2, <1>3, <1>4 DEF Next, Progress

LEMMA GuardInvStep == GuardInv /\ Early /\ [Next]_vars => GuardInv'
<1> SUFFICES ASSUME GuardInv, Early, [Next]_vars PROVE GuardInv'
    OBVIOUS
<1>1. Answer => begun = "none"
    BY DEF Answer, Early
<1>2. QED
    BY <1>1, RuleKeepsGuards, AnswerKeepsGuards, FileKeepsGuards, ChildKeepsGuards, SendKeepsGuards, OthersKeepGuards

(* Resolve, newPrompter, reject, clean, Keep and EffectiveName (perm.go:232,*)
(* main.go:3820, shell.go:164, fs.go:54, names.go:61,155): whatever the     *)
(* rules and the lists, whatever a human types and a server calls its tools,*)
(* only a call takes effect that the meaning of its rules permits, while    *)
(* the run is on.                                                           *)
THEOREM OnlyPermittedCallsBegin == Spec => []OnlyThePermittedRuns
<1>1. GuardInv => OnlyThePermittedRuns
    BY DEF GuardInv
<1>2. CallInv => Early
    BY DEF CallInv
<1>3. Spec => []GuardInv
    BY <1>2, CallInvariant, InitGuards, GuardInvStep, PTL DEF Spec
<1>4. QED
    BY <1>1, <1>3, PTL
=============================================================================
