--------------------------- MODULE AgentLoopProofs ---------------------------
(***************************************************************************)
(* Proofs about AgentLoop for every chain, every limit and every set of    *)
(* answers, about ChatSession, which drives it, and about RequestWire, the *)
(* requests that the loop sends.  What is proved of the loop and of its    *)
(* requests uses LoopAssumption only.                                      *)
(***************************************************************************)
EXTENDS ChatSession, RequestWire, TLAPS, SequenceTheorems, FiniteSetTheorems

(* Stripping keeps a history a history, and leaves it without carriers      *)
(* (stripCarriers).                                                         *)
LEMMA StripCarriersType ==
    ASSUME NEW msgs \in Seq(MessageType)
    PROVE  /\ StripCarriers(msgs) \in Seq(MessageType)
           /\ Len(StripCarriers(msgs)) = Len(msgs)
           /\ \A i \in 1..Len(msgs) : StripCarriers(msgs)[i].carrier = NoCarrier
<1>1. \A m \in MessageType : /\ [m EXCEPT !.carrier = NoCarrier] \in MessageType
                             /\ [m EXCEPT !.carrier = NoCarrier].carrier = NoCarrier
    BY DEF MessageType, Carriers
<1>2. \A i \in 1..Len(msgs) : msgs[i] \in MessageType
    OBVIOUS
<1> QED
    BY <1>1, <1>2 DEF StripCarriers

(* Every position of the chain has a wire family. *)
LEMMA BackendType ==
    ASSUME NEW position \in 0..Len(Chain) - 1
    PROVE  Backend(position) \in Carriers
BY LoopAssumption DEF Backend, Carriers, Families

(* Saturating sums never leave the range of int (llm.saturatingAdd). *)
LEMMA SaturatingAddType ==
    ASSUME NEW a \in 0..MaxInt, NEW b \in 0..MaxInt
    PROVE  SaturatingAdd(a, b) \in 0..MaxInt
BY LoopAssumption DEF SaturatingAdd

(* ... and neither do the sums of two usages (Usage.Add). *)
LEMMA UsageAddType ==
    ASSUME NEW u \in Usage, NEW v \in Usage
    PROVE  UsageAdd(u, v) \in Usage
BY SaturatingAddType DEF UsageAdd, Usage

(* What the loop appends to the log is an event. *)
LEMMA LogType ==
    ASSUME TypeOK, NEW type, NEW n \in Nat, Log(type, n),
           type \in {"llm_response", "provider_fallback", "validator_feedback",
                     "tool_call", "tool_result"}
    PROVE  log' \in Seq(EventType)
<1>1. Event(type, Numbered, n) \in EventType
    BY DEF TypeOK, Event, EventType, Numbered, Said, Silent, Carriers
<1> QED
    BY <1>1 DEF TypeOK, Log

(* ... and so is the answer it appends (session.LLMResponse). *)
LEMMA AnswerType ==
    ASSUME TypeOK, NEW n \in Nat, NEW said \in Said
    PROVE  Answer(Numbered, n, said) \in EventType
<1>1. Answer(Numbered, n, said) =
          [type |-> "llm_response", turn |-> Numbered, n |-> n, said |-> said]
    BY DEF Answer, Event
<1>2. Numbered \in Nat
    BY DEF TypeOK, Numbered
<1> QED
    BY <1>1, <1>2 DEF EventType
-----------------------------------------------------------------------------
(* The state RunMessages is entered in has the types. *)
LEMMA TypeInit == Init => TypeOK
<1> SUFFICES ASSUME Init PROVE TypeOK
    OBVIOUS
<1> PICK opening \in OpeningHistories : Enter(opening)
    BY DEF Init
<1>1. opening \in Seq(MessageType)
  <2>1. Backend(0) \in Carriers
      BY LoopAssumption, BackendType
  <2>2. UserMessage(0) \in MessageType /\ AssistantMessage(0, 0, Backend(0)) \in MessageType
      BY <2>1 DEF UserMessage, AssistantMessage, Message, MessageType, Carriers
  <2>3. \A u, a \in MessageType : <<u>> \in Seq(MessageType) /\ <<u, a, u>> \in Seq(MessageType)
      OBVIOUS
  <2> QED
      BY <2>2, <2>3 DEF OpeningHistories
<1>2. NoUsage \in Usage
    BY LoopAssumption DEF NoUsage, Usage
<1>3. log \in Seq(EventType)
    BY DEF Init, RunStart, Event, EventType, Said, Silent, Carriers
<1> QED
    BY <1>1, <1>2, <1>3, LoopAssumption DEF Init, Enter, TypeOK, NoUsage

(* Each step keeps the types. *)
LEMMA TypeNext ==
    ASSUME TypeOK, [Next]_vars
    PROVE  TypeOK'
<1> USE LoopAssumption
<1>1. CASE TurnsExhausted
    BY <1>1 DEF TypeOK, TurnsExhausted, Return, resultVars, dispatchVars
<1>2. CASE ContextSeen
    BY <1>2 DEF TypeOK, ContextSeen, Return, ContextOutcome, resultVars, dispatchVars
<1>3. CASE Ask
    BY <1>3 DEF TypeOK, Ask, resultVars, dispatchVars
<1>4. CASE AskInterrupted
    BY <1>4 DEF TypeOK, AskInterrupted, Return, ContextOutcome, resultVars, dispatchVars
<1>5. CASE SwitchBackend
  <2>1. log' \in Seq(EventType)
      BY <1>5, LogType DEF SwitchBackend, TypeOK
  <2>2. messages' \in Seq(MessageType)
      BY <1>5, StripCarriersType DEF SwitchBackend, TypeOK
  <2>3. active' \in 0..Len(Chain) - 1 /\ fallbacks' \in Nat
      BY <1>5 DEF SwitchBackend, TypeOK
  <2> QED
      BY <1>5, <2>1, <2>2, <2>3 DEF SwitchBackend, TypeOK, dispatchVars
<1>6. ASSUME NEW kind \in ErrorKinds, ChainExhausted(kind)
      PROVE  TypeOK'
    BY <1>6 DEF TypeOK, ChainExhausted, Return, resultVars, dispatchVars
<1>7. ASSUME NEW r \in Responses, Respond(r)
      PROVE  TypeOK'
  <2> DEFINE reply == AssistantMessage(Numbered, Len(r.calls),
                                       IF r.reasoning THEN Backend(active) ELSE NoCarrier)
  <2>1. r.calls \in Seq(Call) /\ r.usage \in Usage
      BY DEF Response
  <2>2. usage' \in Usage
      BY <1>7, <2>1, UsageAddType DEF Respond, TypeOK
  <2>3. spent' \in [in : Nat, out : Nat]
    <3>1. /\ spent' = [in |-> spent.in + r.usage.in, out |-> spent.out + r.usage.out]
          /\ spent.in \in Nat /\ spent.out \in Nat
        BY <1>7 DEF Respond, TypeOK
    <3>2. r.usage.in \in Nat /\ r.usage.out \in Nat
        BY <2>1 DEF Usage
    <3> QED
        BY <3>1, <3>2
  <2>4. log' \in Seq(EventType)
    <3>1. r.reasoning \in BOOLEAN /\ r.empty \in BOOLEAN
        BY DEF Response
    <3>2. (IF r.reasoning THEN Backend(active) ELSE NoCarrier) \in Carriers
        BY BackendType DEF TypeOK, Carriers
    <3>3. PICK said \in Said : log' = Append(log, Answer(Numbered, Len(r.calls), said))
        BY <1>7, <3>1, <3>2 DEF Respond, Said
    <3>4. Answer(Numbered, Len(r.calls), said) \in EventType
        BY <2>1, AnswerType
    <3> QED
        BY <3>3, <3>4 DEF TypeOK
  <2>5. reply \in MessageType
      BY <2>1, BackendType DEF TypeOK, AssistantMessage, Message, MessageType, Carriers, Numbered
  <2>6. messages' \in Seq(MessageType)
    <3>1. messages' = messages \/ messages' = Append(messages, reply)
        BY <1>7 DEF Respond
    <3>2. messages \in Seq(MessageType)
        BY DEF TypeOK
    <3> HIDE DEF reply
    <3> QED
        BY <2>5, <3>1, <3>2
  <2>7. /\ pc' \in {"judge", "dispatch", "returned"}
        /\ outcome' \in {outcome, "budget", "failed"}
      BY <1>7 DEF Respond, Return
  <2>8. /\ calls' \in Seq(Call)
        /\ announced' \in Nat /\ ruled' \in Nat /\ started' \in Nat /\ reported' \in Nat
        /\ published' \in Nat /\ running' \in SUBSET Nat /\ outputs' \in Seq(Nat)
        /\ failure' = "none"
      BY <1>7, <2>1 DEF Respond
  <2>9. UNCHANGED <<limits, turnBase, active, turn, rejections, ctx, toolCalls, fallbacks>>
      BY <1>7 DEF Respond
  <2> QED
      BY <2>2, <2>3, <2>4, <2>6, <2>7, <2>8, <2>9 DEF TypeOK
<1>8. CASE Accept
    BY <1>8 DEF TypeOK, Accept, Return, resultVars, dispatchVars
<1>9. CASE RejectLast
    BY <1>9 DEF TypeOK, RejectLast, Return, resultVars, dispatchVars
<1>10. CASE Reject
  <2>1. log' \in Seq(EventType)
      BY <1>10, LogType DEF Reject, TypeOK
  <2>2. messages' \in Seq(MessageType)
    <3>1. UserMessage(Numbered) \in MessageType
        BY DEF TypeOK, UserMessage, Message, MessageType, Carriers, Numbered
    <3> QED
        BY <1>10, <3>1 DEF Reject, TypeOK
  <2> QED
      BY <1>10, <2>1, <2>2 DEF Reject, TypeOK, resultVars, dispatchVars
<1>11. CASE Announce
  <2>1. log' \in Seq(EventType)
      BY <1>11, LogType DEF Announce, TypeOK
  <2> QED
      BY <1>11, <2>1 DEF Announce, TypeOK, resultVars
<1>12. CASE Rule
    BY <1>12 DEF Rule, TypeOK, resultVars
<1>13. CASE Start
  <2>1. started' \in Nat /\ running' \in SUBSET Nat
    <3>1. started' = started + 1 /\ (running' = running \cup {started + 1} \/ running' = running)
        BY <1>13 DEF Start
    <3>2. started \in Nat /\ running \in SUBSET Nat
        BY DEF TypeOK
    <3>3. started + 1 \in Nat
        BY <3>2
    <3> QED
        BY <3>1, <3>2, <3>3
  <2> QED
      BY <1>13, <2>1 DEF Start, TypeOK, resultVars
<1>14. CASE Publish
  <2>1. log' \in Seq(EventType)
      BY <1>14, LogType DEF Publish, TypeOK
  <2>2. /\ failure' \in {"none", "permission", "failed"}
        /\ published' \in Nat /\ outputs' \in Seq(Nat) /\ reported' \in Nat
    <3>1. /\ failure' = failure \/ \E ruling \in Rulings : failure' = FailureOf(ruling)
          /\ published' = published \/ published' = published + 1
          /\ outputs' = outputs \/ outputs' = Append(outputs, reported + 1)
          /\ reported' = reported + 1
        BY <1>14 DEF Publish, Aborting, Rulings
    <3>2. /\ failure \in {"none", "permission", "failed"}
          /\ published \in Nat /\ outputs \in Seq(Nat) /\ reported \in Nat
        BY DEF TypeOK
    <3>3. \A ruling \in Rulings : FailureOf(ruling) \in {"permission", "failed"}
        BY DEF FailureOf
    <3>4. Append(outputs, reported + 1) \in Seq(Nat)
        BY <3>2
    <3>5. failure' \in {"none", "permission", "failed"}
        BY <3>1, <3>2, <3>3
    <3>6. outputs' \in Seq(Nat)
        BY <3>1, <3>2, <3>4
    <3> QED
        BY <3>1, <3>2, <3>5, <3>6
  <2> QED
      BY <1>14, <2>1, <2>2 DEF Publish, TypeOK, resultVars
<1>15. CASE EndDispatch
  <2>1. ToolAnswers \in Seq(MessageType)
    <3>1. \A i \in 1..Len(outputs) : ToolMessage(Numbered, i, outputs[i]) \in MessageType
      <4>0. outputs \in Seq(Nat)
          BY DEF TypeOK
      <4>1. \A i \in 1..Len(outputs) : i \in Nat /\ outputs[i] \in Nat
          BY <4>0
      <4>2. Numbered \in Nat
          BY DEF TypeOK, Numbered
      <4> QED
          BY <4>1, <4>2 DEF ToolMessage, Message, MessageType, Carriers
    <3> QED
        BY <3>1 DEF ToolAnswers, TypeOK
  <2>2. messages' \in Seq(MessageType)
      BY <1>15, <2>1 DEF EndDispatch, TypeOK
  <2>3. toolCalls' \in Nat
      BY <1>15 DEF EndDispatch, TypeOK, CountPublished
  <2> QED
      BY <1>15, <2>2, <2>3 DEF EndDispatch, TypeOK, Return, dispatchVars
<1>16. ASSUME NEW i \in running, Finish(i)
       PROVE  TypeOK'
    BY <1>16 DEF Finish, TypeOK, resultVars
<1>17. CASE ContextEnds
    BY <1>17 DEF ContextEnds, TypeOK, resultVars, dispatchVars
<1>18. CASE UNCHANGED vars
    BY <1>18 DEF vars, TypeOK, resultVars, dispatchVars
<1> QED
    BY <1>1, <1>2, <1>3, <1>4, <1>5, <1>6, <1>7, <1>8, <1>9, <1>10, <1>11, <1>12, <1>13,
       <1>14, <1>15, <1>16, <1>17, <1>18 DEF Next, LoopStep, Returned

(* The loop's state keeps its type, whatever the provider answers. *)
THEOREM TypeCorrect == Spec => []TypeOK
BY TypeInit, TypeNext, PTL DEF Spec
-----------------------------------------------------------------------------
(* The dispatch of a turn.  Each stage follows the one before it; the two   *)
(* shapes of dispatch differ in how far apart the stages may be.            *)
StagesInOrder ==
    /\ reported <= started /\ started <= ruled /\ ruled <= announced
    /\ announced <= Len(calls)
    /\ Parallelizable(calls) =>
          /\ ruled > 0 => announced = Len(calls)
          /\ started > 0 => ruled = Len(calls)
          /\ reported > 0 => started = Len(calls)
    /\ ~Parallelizable(calls) => announced <= reported + 1
    /\ Aborted => announced = reported

(* What runs was started, allowed and not yet reported. *)
RunningIsOpen ==
    /\ running \subseteq reported + 1 .. started
    /\ Cardinality(running) <= MaxParallelToolCalls
    /\ \A i \in running : calls[i].ruling = "allow"

(* Outside dispatch nothing runs, and a new turn starts with all answered. *)
TurnsAreComplete ==
    /\ pc # "dispatch" => running = {}
    /\ pc \in {"head", "asking"} => announced = Len(calls) /\ reported = Len(calls)
    /\ pc = "judge" => calls = <<>>

DispatchInv == StagesInOrder /\ RunningIsOpen /\ TurnsAreComplete

(* A run opens with no turn in progress. *)
LEMMA DispatchInit == Init => DispatchInv
<1> SUFFICES ASSUME Init PROVE DispatchInv
    OBVIOUS
<1>1. /\ calls = <<>> /\ announced = 0 /\ ruled = 0 /\ started = 0 /\ running = {}
      /\ reported = 0 /\ failure = "none" /\ pc = "head"
    BY DEF Init, Enter
<1>2. Cardinality(running) = 0
    BY <1>1, FS_EmptySet
<1> QED
    BY <1>1, <1>2, LoopAssumption
       DEF DispatchInv, StagesInOrder, RunningIsOpen, TurnsAreComplete, Aborted

(* The steps taken outside dispatch leave it alone. *)
LEMMA DispatchQuiet ==
    ASSUME TypeOK, DispatchInv, UNCHANGED dispatchVars,
           \/ pc' = pc
           \/ /\ pc \in {"head", "asking", "judge"}
              /\ pc' \in {"head", "asking", "returned"}
    PROVE  DispatchInv'
<1>1. UNCHANGED <<calls, announced, ruled, started, running, reported, failure>>
    BY DEF dispatchVars
<1>2. StagesInOrder' /\ RunningIsOpen'
    BY <1>1 DEF DispatchInv, StagesInOrder, RunningIsOpen, Parallelizable, Aborted
<1>3. pc = "judge" => announced = 0 /\ reported = 0 /\ Len(calls) = 0
    BY DEF DispatchInv, TurnsAreComplete, StagesInOrder, TypeOK
<1>4. TurnsAreComplete'
    BY <1>1, <1>3 DEF DispatchInv, TurnsAreComplete
<1> QED
    BY <1>2, <1>4 DEF DispatchInv

(* The running tools are finitely many. *)
LEMMA RunningFinite ==
    ASSUME TypeOK, RunningIsOpen
    PROVE  IsFiniteSet(running)
<1>1. IsFiniteSet(reported + 1 .. started)
    BY FS_Interval DEF TypeOK
<1> QED
    BY <1>1, FS_Subset DEF RunningIsOpen

(* Each step keeps the dispatch invariant. *)
LEMMA DispatchNext ==
    ASSUME TypeOK, DispatchInv, [Next]_vars
    PROVE  DispatchInv'
<1> USE LoopAssumption
<1>1. CASE TurnsExhausted \/ ContextSeen \/ Ask
    BY <1>1, DispatchQuiet DEF TurnsExhausted, ContextSeen, Ask, Return
<1>2. CASE AskInterrupted \/ SwitchBackend
    BY <1>2, DispatchQuiet DEF AskInterrupted, SwitchBackend, MaySwitch, Return
<1>3. ASSUME NEW kind \in ErrorKinds, ChainExhausted(kind)
      PROVE  DispatchInv'
    BY <1>3, DispatchQuiet DEF ChainExhausted, Return
<1>4. ASSUME NEW r \in Responses, Respond(r)
      PROVE  DispatchInv'
  <2>1. /\ calls' = r.calls
        /\ announced' = 0 /\ ruled' = 0 /\ started' = 0 /\ running' = {}
        /\ reported' = 0 /\ failure' = "none"
      BY <1>4 DEF Respond
  <2>2. pc' \in {"returned", "dispatch"} \/ (pc' = "judge" /\ r.calls = <<>>)
    <3>1. CASE OverTokenBudget(r, UsageAdd(usage, r.usage))
        BY <1>4, <3>1 DEF Respond, Return
    <3>2. CASE ~OverTokenBudget(r, UsageAdd(usage, r.usage))
        BY <1>4, <3>2 DEF Respond, Return
    <3> QED
        BY <3>1, <3>2
  <2>3. Cardinality(running') = 0
      BY <2>1, FS_EmptySet
  <2> QED
    <3>1. r.calls \in Seq(Call)
        BY DEF Response
    <3> QED
        BY <2>1, <2>2, <2>3, <3>1
           DEF DispatchInv, StagesInOrder, RunningIsOpen, TurnsAreComplete, Aborted
<1>5. CASE Accept \/ RejectLast \/ Reject
    BY <1>5, DispatchQuiet DEF Accept, RejectLast, Reject, Return
<1>6. CASE Announce
  <2>1. /\ announced' = announced + 1 /\ announced < Len(calls) /\ pc = "dispatch" /\ pc' = pc
        /\ UNCHANGED <<calls, ruled, started, running, reported, failure>>
        /\ ~Aborted /\ (Parallelizable(calls) \/ announced = reported)
      BY <1>6 DEF Announce, MayAnnounce
  <2>2. StagesInOrder'
      BY <2>1 DEF DispatchInv, StagesInOrder, TypeOK, Aborted, Parallelizable
  <2> QED
      BY <2>1, <2>2 DEF DispatchInv, RunningIsOpen, TurnsAreComplete
<1>7. CASE Rule
  <2>1. /\ ruled' = ruled + 1 /\ ruled < announced /\ pc = "dispatch" /\ pc' = pc
        /\ Parallelizable(calls) => announced = Len(calls)
        /\ UNCHANGED <<calls, announced, started, running, reported, failure>>
      BY <1>7 DEF Rule
  <2>2. StagesInOrder'
      BY <2>1 DEF DispatchInv, StagesInOrder, TypeOK, Aborted, Parallelizable
  <2> QED
      BY <2>1, <2>2 DEF DispatchInv, RunningIsOpen, TurnsAreComplete
<1>8. CASE Start
  <2>1. /\ started' = started + 1 /\ started < ruled /\ pc = "dispatch" /\ pc' = pc
        /\ Parallelizable(calls) => ruled = Len(calls)
        /\ UNCHANGED <<calls, announced, ruled, reported, failure>>
      BY <1>8 DEF Start
  <2>4. started \in Nat /\ ruled \in Nat /\ reported \in Nat /\ Len(calls) \in Nat
      BY DEF TypeOK
  <2>5. Parallelizable(calls') <=> Parallelizable(calls)
      BY <2>1
  <2>6. Aborted' <=> Aborted
      BY <2>1 DEF Aborted
  <2>2. StagesInOrder'
      BY <2>1, <2>4, <2>5, <2>6 DEF DispatchInv, StagesInOrder
  <2>3. RunningIsOpen'
    <3>1. CASE UNCHANGED running
        BY <2>1, <3>1 DEF DispatchInv, RunningIsOpen, StagesInOrder, TypeOK
    <3>2. CASE /\ Allowed(calls[started + 1]) /\ Cardinality(running) < MaxParallelToolCalls
               /\ running' = running \cup {started + 1}
      <4>1. started + 1 \notin running
          BY <2>4 DEF DispatchInv, RunningIsOpen
      <4>2. Cardinality(running') = Cardinality(running) + 1 /\ Cardinality(running) \in Nat
          BY <3>2, <4>1, RunningFinite, FS_AddElement, FS_CardinalityType DEF DispatchInv
      <4>3. running' \subseteq reported' + 1 .. started'
          BY <2>1, <3>2 DEF DispatchInv, RunningIsOpen, StagesInOrder, TypeOK
      <4>4. \A i \in running' : calls'[i].ruling = "allow"
          BY <2>1, <3>2 DEF DispatchInv, RunningIsOpen, Allowed
      <4> QED
          BY <3>2, <4>2, <4>3, <4>4 DEF RunningIsOpen
    <3> QED
        BY <1>8, <3>1, <3>2 DEF Start
  <2> QED
      BY <2>1, <2>2, <2>3 DEF DispatchInv, TurnsAreComplete
<1>9. CASE Publish
  <2>1. /\ reported' = reported + 1 /\ reported < started /\ running = {} /\ running' = {}
        /\ Parallelizable(calls) => started = Len(calls)
        /\ pc = "dispatch" /\ pc' = pc
        /\ UNCHANGED <<calls, announced, ruled, started>>
      BY <1>9 DEF Publish
  <2>2. StagesInOrder'
      BY <2>1 DEF DispatchInv, StagesInOrder, TypeOK, Aborted, Parallelizable
  <2>3. RunningIsOpen'
      BY <2>1 DEF DispatchInv, RunningIsOpen
  <2> QED
      BY <2>1, <2>2, <2>3 DEF DispatchInv, TurnsAreComplete
<1>10. CASE EndDispatch
  <2>1. /\ pc = "dispatch" /\ (reported = Len(calls) \/ Aborted)
        /\ (pc' = "head" /\ failure = "none") \/ pc' = "returned"
        /\ UNCHANGED <<calls, announced, ruled, started, running, reported, failure>>
      BY <1>10 DEF EndDispatch, Return, dispatchVars
  <2>2. StagesInOrder' /\ RunningIsOpen'
      BY <2>1 DEF DispatchInv, StagesInOrder, RunningIsOpen, Parallelizable, Aborted
  <2>3. started = reported
      BY <2>1 DEF DispatchInv, StagesInOrder, TypeOK
  <2>4. running = {}
      BY <2>3 DEF DispatchInv, RunningIsOpen, TypeOK
  <2>5. TurnsAreComplete'
      BY <2>1, <2>4 DEF DispatchInv, StagesInOrder, TurnsAreComplete, TypeOK, Aborted
  <2> QED
      BY <2>2, <2>5 DEF DispatchInv
<1>11. ASSUME NEW i \in running, Finish(i)
       PROVE  DispatchInv'
  <2>1. /\ running' = running \ {i} /\ pc' = pc
        /\ UNCHANGED <<calls, announced, ruled, started, reported, failure>>
      BY <1>11 DEF Finish
  <2>2. Cardinality(running') <= Cardinality(running) /\ Cardinality(running) \in Nat /\ Cardinality(running') \in Nat
      BY <2>1, RunningFinite, FS_RemoveElement, FS_CardinalityType, FS_Subset DEF DispatchInv
  <2>3. StagesInOrder'
      BY <2>1 DEF DispatchInv, StagesInOrder, Aborted, Parallelizable
  <2>4. RunningIsOpen'
      BY <2>1, <2>2 DEF DispatchInv, RunningIsOpen
  <2> QED
      BY <2>1, <2>3, <2>4 DEF DispatchInv, TurnsAreComplete
<1>12. CASE ContextEnds
    BY <1>12, DispatchQuiet DEF ContextEnds
<1>13. CASE UNCHANGED vars
  <2>1. pc' = pc /\ UNCHANGED dispatchVars
      BY <1>13 DEF vars
  <2> QED
      BY <2>1, DispatchQuiet
<1> QED
    BY <1>1, <1>2, <1>3, <1>4, <1>5, <1>6, <1>7, <1>8, <1>9, <1>10, <1>11, <1>12, <1>13
       DEF Next, LoopStep, Returned

(* The stages of every dispatch stay in order and every turn ends complete. *)
THEOREM DispatchCorrect == Spec => []DispatchInv
BY TypeCorrect, DispatchInit, DispatchNext, PTL DEF Spec

(* Tools overlap only on a turn nobody can be asked about, and never more   *)
(* of them than there are slots (parallelizable, dispatchParallel).         *)
THEOREM ConcurrencyGuarded == Spec => []ConcurrencyIsGuarded
<1>1. TypeOK /\ DispatchInv => ConcurrencyIsGuarded
  <2> SUFFICES ASSUME TypeOK, DispatchInv PROVE ConcurrencyIsGuarded
      OBVIOUS
  <2>1. running # {} => ruled = announced
    <3> SUFFICES ASSUME running # {} PROVE ruled = announced
        OBVIOUS
    <3> PICK i \in running : i \in reported + 1 .. started
        BY DEF DispatchInv, RunningIsOpen
    <3>1. reported < started
        BY DEF TypeOK
    <3> QED
        BY <3>1 DEF DispatchInv, StagesInOrder, TypeOK
  <2>2. Cardinality(running) > 1 => \A i \in DOMAIN calls : calls[i].auto
    <3>1. CASE Parallelizable(calls)
        BY <3>1 DEF Parallelizable
    <3>2. CASE ~Parallelizable(calls)
      <4>1. running \subseteq {reported + 1}
          BY <3>2 DEF DispatchInv, RunningIsOpen, StagesInOrder, TypeOK
      <4>2. IsFiniteSet({reported + 1}) /\ Cardinality({reported + 1}) = 1
          BY FS_Singleton
      <4>3. Cardinality(running) <= 1 /\ Cardinality(running) \in Nat
          BY <4>1, <4>2, FS_Subset, FS_CardinalityType
      <4> QED
          BY <4>3
    <3> QED
        BY <3>1, <3>2
  <2> QED
      BY <2>1, <2>2 DEF ConcurrencyIsGuarded, DispatchInv, RunningIsOpen
<1> QED
    BY <1>1, TypeCorrect, DispatchCorrect, PTL
-----------------------------------------------------------------------------
(* The history holds no carrier but the active backend's, at every step and *)
(* not only while a request is in flight.                                   *)
CarriersAtHome ==
    \A i \in 1..Len(messages) : messages[i].carrier \in {NoCarrier, Backend(active)}

(* A run opens on the primary, with carriers of the primary's family only.  *)
LEMMA CarriersInit == Init => CarriersAtHome
<1> SUFFICES ASSUME Init PROVE CarriersAtHome
    OBVIOUS
<1>1. messages \in OpeningHistories /\ active = 0
    BY DEF Init, Enter
<1>2. UserMessage(0).carrier = NoCarrier
    BY DEF UserMessage, Message
<1>3. AssistantMessage(0, 0, Backend(0)).carrier = Backend(0)
    BY DEF AssistantMessage, Message
<1>4. CASE messages = <<UserMessage(0)>>
    BY <1>1, <1>2, <1>4 DEF CarriersAtHome
<1>5. CASE messages = <<UserMessage(0), AssistantMessage(0, 0, Backend(0)), UserMessage(0)>>
  <2>1. Len(messages) = 3
      BY <1>5
  <2>2. /\ messages[1].carrier = NoCarrier
        /\ messages[2].carrier = Backend(0)
        /\ messages[3].carrier = NoCarrier
      BY <1>2, <1>3, <1>5
  <2> QED
      BY <1>1, <2>1, <2>2 DEF CarriersAtHome
<1> QED
    BY <1>1, <1>4, <1>5 DEF OpeningHistories

(* Appending a message of the active backend keeps the history at home. *)
LEMMA CarriersAppend ==
    ASSUME TypeOK, CarriersAtHome, active' = active, NEW m,
           m.carrier \in {NoCarrier, Backend(active)}, messages' = Append(messages, m)
    PROVE  CarriersAtHome'
<1>1. messages \in Seq(MessageType)
    BY DEF TypeOK
<1>2. /\ Len(messages') = Len(messages) + 1
      /\ \A i \in 1..Len(messages) : messages'[i] = messages[i]
      /\ messages'[Len(messages) + 1] = m
    BY <1>1
<1> QED
    BY <1>1, <1>2 DEF CarriersAtHome, Backend

(* Each step keeps the history at home. *)
LEMMA CarriersNext ==
    ASSUME TypeOK, CarriersAtHome, [Next]_vars
    PROVE  CarriersAtHome'
<1>1. ASSUME UNCHANGED <<messages, active>>
      PROVE  CarriersAtHome'
    BY <1>1 DEF CarriersAtHome, Backend
<1>2. CASE SwitchBackend
  <2>1. messages \in Seq(MessageType)
      BY DEF TypeOK
  <2>2. CASE Backend(active + 1) # Backend(active)
    <3>1. messages' = StripCarriers(messages)
        BY <1>2, <2>2 DEF SwitchBackend
    <3> QED
        BY <2>1, <3>1, StripCarriersType DEF CarriersAtHome
  <2>3. CASE Backend(active + 1) = Backend(active)
    <3>1. messages' = messages /\ Backend(active') = Backend(active)
        BY <1>2, <2>3 DEF SwitchBackend, Backend
    <3> QED
        BY <3>1 DEF CarriersAtHome, Backend
  <2> QED
      BY <2>2, <2>3
<1>3. ASSUME NEW r \in Responses, Respond(r)
      PROVE  CarriersAtHome'
  <2> DEFINE reply == AssistantMessage(Numbered, Len(r.calls),
                                       IF r.reasoning THEN Backend(active) ELSE NoCarrier)
  <2>1. /\ active' = active
        /\ messages' = messages \/ messages' = Append(messages, reply)
      BY <1>3 DEF Respond
  <2>2. reply.carrier \in {NoCarrier, Backend(active)}
      BY DEF AssistantMessage, Message
  <2> HIDE DEF reply
  <2> QED
      BY <1>1, <2>1, <2>2, CarriersAppend
<1>4. CASE Reject
  <2>1. UserMessage(Numbered).carrier = NoCarrier
      BY DEF UserMessage, Message
  <2>2. active' = active /\ messages' = Append(messages, UserMessage(Numbered))
      BY <1>4 DEF Reject
  <2> QED
      BY <2>1, <2>2, CarriersAppend
<1>5. CASE EndDispatch
  <2>0. messages \in Seq(MessageType) /\ outputs \in Seq(Nat)
      BY DEF TypeOK
  <2>1. /\ messages \in Seq(MessageType) /\ Len(outputs) \in Nat
        /\ active' = active /\ messages' = messages \o ToolAnswers
      BY <1>5, <2>0 DEF EndDispatch
  <2>2. /\ Len(ToolAnswers) = Len(outputs)
        /\ \A i \in 1..Len(outputs) : ToolAnswers[i].carrier = NoCarrier
      BY <2>1 DEF ToolAnswers, ToolMessage, Message
  <2>3. ToolAnswers \in Seq(Range(ToolAnswers))
    <3>1. ToolAnswers = [i \in 1..Len(outputs) |-> ToolAnswers[i]]
        BY DEF ToolAnswers
    <3>2. \A i \in 1..Len(outputs) : ToolAnswers[i] \in Range(ToolAnswers)
        BY <3>1 DEF Range
    <3> QED
        BY <2>1, <3>1, <3>2
  <2>4. /\ Len(messages') = Len(messages) + Len(ToolAnswers)
        /\ \A i \in 1..Len(messages') :
              messages'[i] = IF i <= Len(messages) THEN messages[i]
                                                   ELSE ToolAnswers[i - Len(messages)]
      BY <2>1, <2>3, ConcatProperties
  <2> QED
      BY <2>1, <2>2, <2>4 DEF CarriersAtHome, Backend
<1>6. ASSUME NEW kind \in ErrorKinds, ChainExhausted(kind)
      PROVE  CarriersAtHome'
    BY <1>1, <1>6 DEF ChainExhausted
<1>7. ASSUME NEW i \in running, Finish(i)
      PROVE  CarriersAtHome'
    BY <1>1, <1>7 DEF Finish
<1>8. CASE \/ TurnsExhausted \/ ContextSeen \/ Ask \/ AskInterrupted
           \/ Accept \/ RejectLast \/ ContextEnds
    BY <1>1, <1>8 DEF TurnsExhausted, ContextSeen, Ask, AskInterrupted, Accept, RejectLast, ContextEnds
<1>9. CASE Announce \/ Rule \/ Start \/ Publish \/ UNCHANGED vars
    BY <1>1, <1>9 DEF Announce, Rule, Start, Publish, vars
<1> QED
    BY <1>2, <1>3, <1>4, <1>5, <1>6, <1>7, <1>8, <1>9 DEF Next, LoopStep, Returned

(* No backend is sent a reasoning carrier of another wire family, for any   *)
(* chain and any history (switchBackend, stripCarriers).                    *)
THEOREM CarriersHome == Spec => []CarriersStayHome
<1>1. TypeOK /\ CarriersAtHome => CarriersStayHome
    BY DEF TypeOK, CarriersAtHome, CarriersStayHome
<1> QED
    BY <1>1, TypeCorrect, CarriersInit, CarriersNext, PTL DEF Spec
-----------------------------------------------------------------------------
(* The int-sized totals are the true totals cut at MaxInt, and a run that   *)
(* goes on has been charged no more than its token limit.                   *)
Cut(n) == IF n > MaxInt THEN MaxInt ELSE n

BudgetInv ==
    /\ usage.in = Cut(spent.in) /\ usage.out = Cut(spent.out)
    /\ limits.tokens > 0 /\ pc # "returned" => UsageTotal(usage) <= limits.tokens
    /\ pc = "asking" => turn <= limits.turns

(* Adding to a cut total is cutting the true one (llm.saturatingAdd). *)
LEMMA SaturatingAddCuts ==
    ASSUME NEW n \in Nat, NEW b \in 0..MaxInt
    PROVE  SaturatingAdd(Cut(n), b) = Cut(n + b)
BY LoopAssumption DEF SaturatingAdd, Cut

(* A run opens with nothing spent. *)
LEMMA BudgetInit == Init => BudgetInv
<1> SUFFICES ASSUME Init PROVE BudgetInv
    OBVIOUS
<1>1. /\ usage = NoUsage /\ spent = NoUsage /\ pc = "head"
      /\ limits.tokens = MaxTokens
    BY DEF Init, Enter
<1>2. usage.in = 0 /\ usage.out = 0 /\ spent.in = 0 /\ spent.out = 0
    BY <1>1 DEF NoUsage
<1> QED
    BY <1>1, <1>2, LoopAssumption DEF BudgetInv, Cut, UsageTotal, SaturatingAdd

(* Each step keeps the totals in agreement and the run within its limit. *)
LEMMA BudgetNext ==
    ASSUME TypeOK, BudgetInv, [Next]_vars
    PROVE  BudgetInv'
<1>1. ASSUME UNCHANGED <<limits, usage, spent>>, pc # "returned" \/ pc' = "returned",
             pc' = "asking" => (turn' <= limits.turns)
      PROVE  BudgetInv'
    BY <1>1 DEF BudgetInv, UsageTotal
<1>2. CASE TurnsExhausted \/ ContextSeen \/ Ask
    BY <1>1, <1>2 DEF TurnsExhausted, ContextSeen, Ask, Return, resultVars, TypeOK
<1>3. CASE AskInterrupted \/ SwitchBackend
    BY <1>1, <1>3 DEF AskInterrupted, SwitchBackend, MaySwitch, Return, resultVars
<1>4. ASSUME NEW kind \in ErrorKinds, ChainExhausted(kind)
      PROVE  BudgetInv'
    BY <1>1, <1>4 DEF ChainExhausted, Return, resultVars
<1>5. ASSUME NEW r \in Responses, Respond(r)
      PROVE  BudgetInv'
  <2>1. /\ usage' = UsageAdd(usage, r.usage)
        /\ spent' = [in |-> spent.in + r.usage.in, out |-> spent.out + r.usage.out]
        /\ limits' = limits
      BY <1>5 DEF Respond
  <2>2. r.usage \in Usage /\ spent \in [in : Nat, out : Nat]
      BY LoopAssumption DEF Response, TypeOK
  <2>3. usage'.in = Cut(spent'.in) /\ usage'.out = Cut(spent'.out)
      BY <2>1, <2>2, SaturatingAddCuts DEF BudgetInv, UsageAdd, Usage
  <2>4. limits.tokens > 0 /\ pc' # "returned" => UsageTotal(usage') <= limits.tokens
    <3>1. CASE OverTokenBudget(r, UsageAdd(usage, r.usage))
        BY <1>5, <3>1 DEF Respond, Return
    <3>2. CASE ~OverTokenBudget(r, UsageAdd(usage, r.usage))
      <4>1. UsageTotal(usage') \in Nat /\ limits.tokens \in Nat
        <5>1. usage' \in Usage
            BY <2>1, <2>2, UsageAddType DEF TypeOK
        <5>2. UsageTotal(usage') \in 0..MaxInt
            BY <5>1, SaturatingAddType DEF UsageTotal, Usage
        <5> QED
            BY <5>2 DEF TypeOK
      <4> QED
          BY <2>1, <3>2, <4>1 DEF OverTokenBudget
    <3> QED
        BY <3>1, <3>2
  <2>5. pc' # "asking"
      BY <1>5 DEF Respond, Return
  <2> QED
      BY <2>1, <2>3, <2>4, <2>5 DEF BudgetInv, UsageTotal
<1>6. CASE Accept \/ RejectLast \/ Reject
    BY <1>1, <1>6 DEF Accept, RejectLast, Reject, Return, resultVars
<1>7. CASE Announce \/ Rule \/ Start \/ Publish
    BY <1>1, <1>7 DEF Announce, Rule, Start, Publish, resultVars, BudgetInv
<1>8. CASE EndDispatch
    BY <1>1, <1>8 DEF EndDispatch, Return
<1>9. ASSUME NEW i \in running, Finish(i)
      PROVE  BudgetInv'
    BY <1>1, <1>9 DEF Finish, resultVars, BudgetInv
<1>10. CASE ContextEnds \/ UNCHANGED vars
    BY <1>1, <1>10 DEF ContextEnds, vars, resultVars, BudgetInv
<1> QED
    BY <1>2, <1>3, <1>4, <1>5, <1>6, <1>7, <1>8, <1>9, <1>10 DEF Next, LoopStep, Returned

(* No request is in flight beyond max_turns or, by the tokens the provider  *)
(* really reported, beyond max_tokens (checkTokenBudget, Usage.Add).        *)
THEOREM BudgetKept == Spec => []AskWithinBudget
<1>1. TypeOK /\ BudgetInv => AskWithinBudget
  <2> SUFFICES ASSUME TypeOK, BudgetInv, pc = "asking", limits.tokens \in 1..MaxInt - 1
               PROVE  spent.in + spent.out <= limits.tokens
      BY DEF AskWithinBudget, BudgetInv
  <2>1. SaturatingAdd(usage.in, usage.out) <= limits.tokens
      BY DEF BudgetInv, UsageTotal
  <2>2. usage.in \in 0..MaxInt /\ usage.out \in 0..MaxInt /\ spent.in \in Nat /\ spent.out \in Nat
      BY DEF TypeOK, Usage
  <2>3. usage.in + usage.out <= limits.tokens
      BY <2>1, <2>2, LoopAssumption DEF SaturatingAdd
  <2>4. usage.in < MaxInt /\ usage.out < MaxInt
      BY <2>2, <2>3, LoopAssumption
  <2> QED
      BY <2>2, <2>3, <2>4, LoopAssumption DEF BudgetInv, Cut
<1> QED
    BY <1>1, TypeCorrect, BudgetInit, BudgetNext, PTL DEF Spec
-----------------------------------------------------------------------------
(* What the log says of the turn in progress: it never runs ahead of the    *)
(* turn counter, and a request is in flight before its turn is logged.      *)
LogInv ==
    /\ turnBase + limits.turns = MaxTurns /\ turn <= limits.turns
    /\ Len(log) >= 1
    /\ LastEvent.turn <= Numbered
    /\ pc = "asking" => LastEvent.turn < Numbered
    /\ pc = "judge" => IsFinalAnswer(LastEvent) /\ LastEvent.turn = Numbered
    /\ pc = "dispatch" => LastEvent.turn = Numbered

(* What the contract sees of an event. *)
Seen(type, t, n) == [type |-> type, turn |-> t, n |-> n]
Outlined(e) == Seen(e.type, e.turn, e.n)

(* Appending an event appends its outline, and makes it the last one. *)
LEMMA Appends ==
    ASSUME TypeOK, NEW e, log' = Append(log, e)
    PROVE  /\ Len(log') = Len(log) + 1 /\ Len(log) \in Nat
           /\ LastEvent' = e
           /\ Outline' = Append(Outline, Outlined(e))
<1>1. log \in Seq(EventType)
    BY DEF TypeOK
<1>2. /\ Len(log') = Len(log) + 1 /\ log'[Len(log) + 1] = e /\ Len(log) \in Nat
      /\ \A i \in 1..Len(log) : log'[i] = log[i]
      /\ DOMAIN log' = 1..Len(log) + 1 /\ DOMAIN log = 1..Len(log)
    BY <1>1
<1>3. Outline = [i \in 1..Len(log) |-> Outlined(log[i])]
    BY <1>2 DEF Outline, Outlined, Seen
<1>4. Outline' = [i \in 1..Len(log) + 1 |-> Outlined(log'[i])]
    BY <1>2 DEF Outline, Outlined, Seen
<1>5. Len(Outline) = Len(log)
    BY <1>2, <1>3
<1>6. Append(Outline, Outlined(e)) =
          [i \in 1..Len(log) + 1 |-> IF i = Len(log) + 1 THEN Outlined(e) ELSE Outline[i]]
    BY <1>2, <1>3, <1>5
<1>7. \A i \in 1..Len(log) + 1 :
          Outlined(log'[i]) = IF i = Len(log) + 1 THEN Outlined(e) ELSE Outline[i]
    BY <1>2, <1>3
<1>8. Outline' = Append(Outline, Outlined(e))
    BY <1>4, <1>6, <1>7
<1> QED
    BY <1>2, <1>8 DEF LastEvent

(* What logging an event does to the log and to its outline. *)
LEMMA LogAppends ==
    ASSUME TypeOK, NEW type, NEW n, Log(type, n)
    PROVE  /\ Len(log') = Len(log) + 1 /\ Len(log) \in Nat
           /\ LastEvent' = Event(type, Numbered, n)
           /\ LastEvent'.turn = Numbered
           /\ Outline' = Append(Outline, Seen(type, Numbered, n))
<1>1. log' = Append(log, Event(type, Numbered, n))
    BY DEF Log
<1>2. Outlined(Event(type, Numbered, n)) = Seen(type, Numbered, n)
    BY DEF Outlined, Seen, Event
<1> QED
    BY <1>1, <1>2, Appends DEF Event

(* ... and what an answer does. *)
LEMMA AnswerAppends ==
    ASSUME TypeOK, NEW n, NEW said,
           log' = Append(log, Answer(Numbered, n, said))
    PROVE  /\ Len(log') = Len(log) + 1 /\ Len(log) \in Nat
           /\ LastEvent'.type = "llm_response" /\ LastEvent'.turn = Numbered /\ LastEvent'.n = n
           /\ Outline' = Append(Outline, Seen("llm_response", Numbered, n))
<1>1. Answer(Numbered, n, said) =
          [type |-> "llm_response", turn |-> Numbered, n |-> n, said |-> said]
    BY DEF Answer, Event
<1>2. Outlined(Answer(Numbered, n, said)) = Seen("llm_response", Numbered, n)
    BY <1>1 DEF Outlined, Seen
<1> QED
    BY <1>1, <1>2, Appends

(* The last line of the outline is the last event's. *)
LEMMA LastSeen ==
    ASSUME TypeOK, Len(log) >= 1
    PROVE  Contract!Last = Outlined(LastEvent)
<1>1. log \in Seq(EventType) /\ Len(log) \in Nat /\ DOMAIN log = 1..Len(log)
    BY DEF TypeOK
<1>2. Outline = [i \in 1..Len(log) |-> Outlined(log[i])]
    BY <1>1 DEF Outline, Outlined, Seen
<1>3. Len(Outline) = Len(log)
    BY <1>1, <1>2
<1> QED
    BY <1>1, <1>2, <1>3 DEF Contract!Last, LastEvent

(* A log has a last event, that event a turn, and it does not end the run:  *)
(* run_end is written by RunMessages' caller.                               *)
LEMMA LastEventTurn ==
    ASSUME TypeOK, LogInv
    PROVE  LastEvent.turn \in Nat /\ LastEvent.type # "run_end"
<1>1. log \in Seq(EventType) /\ Len(log) \in 1..Len(log)
    BY DEF TypeOK, LogInv
<1>2. LastEvent \in EventType
    BY <1>1 DEF LastEvent
<1> QED
    BY <1>2 DEF EventType

(* A log opens with its run_start. *)
LEMMA LogInit == Init => LogInv
<1> SUFFICES ASSUME Init PROVE LogInv
    OBVIOUS
<1>1. /\ turnBase = 0 /\ limits.turns = MaxTurns /\ turn = 0 /\ Numbered = 0
      /\ log = <<RunStart(0)>> /\ pc = "head"
    BY DEF Init, Enter, Numbered
<1>2. LastEvent.turn = 0 /\ Len(log) = 1
    BY <1>1 DEF LastEvent, RunStart, Event
<1> QED
    BY <1>1, <1>2, LoopAssumption DEF LogInv

(* An event of the turn in progress keeps it. *)
LEMMA LogKeepsUp ==
    ASSUME TypeOK, LogInv, UNCHANGED <<limits, turnBase, turn>>,
           Len(log') = Len(log) + 1, LastEvent'.turn = Numbered,
           pc' # "asking", pc' = "judge" => IsFinalAnswer(LastEvent')
    PROVE  LogInv'
<1>1. Numbered' = Numbered /\ Numbered \in Nat /\ Len(log) \in Nat
    BY DEF Numbered, TypeOK
<1>2. Len(log') >= 1 /\ LastEvent'.turn <= Numbered'
    BY <1>1
<1>3. (turnBase + limits.turns = MaxTurns /\ turn <= limits.turns)'
    BY DEF LogInv
<1>4. pc' = "judge" => IsFinalAnswer(LastEvent)'
    BY DEF IsFinalAnswer
<1>5. QED
    BY <1>1, <1>2, <1>3, <1>4 DEF LogInv

(* Each step keeps the log in step with the turns. *)
LEMMA LogNext ==
    ASSUME TypeOK, LogInv, [Next]_vars
    PROVE  LogInv'
<1>1. ASSUME UNCHANGED <<limits, turnBase, turn, log>>,
             pc' \in {pc, "head", "returned"}
      PROVE  LogInv'
    BY <1>1 DEF LogInv, Numbered, LastEvent
<1>2. CASE TurnsExhausted \/ ContextSeen
    BY <1>1, <1>2 DEF TurnsExhausted, ContextSeen, Return
<1>3. CASE Ask
  <2>1. /\ UNCHANGED <<limits, turnBase, log>> /\ turn' = turn + 1 /\ turn + 1 <= limits.turns
        /\ pc' = "asking"
      BY <1>3 DEF Ask
  <2>2. LastEvent' = LastEvent /\ LastEvent.turn \in Nat
      BY <2>1, LastEventTurn DEF LastEvent
  <2>3. turn \in Nat /\ turnBase \in Nat /\ Numbered' = Numbered + 1
      BY <2>1 DEF Numbered, TypeOK
  <2>4. LastEvent.turn <= Numbered /\ Numbered \in Nat
      BY <2>3 DEF LogInv, Numbered
  <2>5. LastEvent'.turn < Numbered'
      BY <2>2, <2>3, <2>4
  <2> QED
      BY <2>1, <2>2, <2>3, <2>4, <2>5 DEF LogInv
<1>4. CASE AskInterrupted \/ Accept \/ RejectLast \/ EndDispatch
    BY <1>1, <1>4 DEF AskInterrupted, Accept, RejectLast, EndDispatch, Return
<1>5. ASSUME NEW kind \in ErrorKinds, ChainExhausted(kind)
      PROVE  LogInv'
    BY <1>1, <1>5 DEF ChainExhausted, Return
<1>6. CASE SwitchBackend
  <2>1. /\ Log("provider_fallback", active + 1) /\ pc' = "head"
        /\ UNCHANGED <<limits, turnBase, turn>>
      BY <1>6 DEF SwitchBackend
  <2> QED
      BY <2>1, LogAppends, LogKeepsUp
<1>7. ASSUME NEW r \in Responses, Respond(r)
      PROVE  LogInv'
  <2>1. /\ \E said : log' = Append(log, Answer(Numbered, Len(r.calls), said))
        /\ UNCHANGED <<limits, turnBase, turn>>
        /\ pc' \in {"returned", "dispatch"} \/ (pc' = "judge" /\ r.calls = <<>>)
    <3>1. CASE OverTokenBudget(r, UsageAdd(usage, r.usage))
        BY <1>7, <3>1 DEF Respond, Return
    <3>2. CASE ~OverTokenBudget(r, UsageAdd(usage, r.usage))
        BY <1>7, <3>2 DEF Respond, Return
    <3> QED
        BY <3>1, <3>2
  <2>2. r.calls = <<>> => Len(r.calls) = 0
      OBVIOUS
  <2>3. /\ Len(log') = Len(log) + 1 /\ LastEvent'.turn = Numbered
        /\ LastEvent'.type = "llm_response" /\ LastEvent'.n = Len(r.calls)
      BY <2>1, AnswerAppends
  <2> QED
      BY <2>1, <2>2, <2>3, LogKeepsUp DEF IsFinalAnswer
<1>8. CASE Reject
  <2>1. Log("validator_feedback", 0) /\ pc' = "head" /\ UNCHANGED <<limits, turnBase, turn>>
      BY <1>8 DEF Reject
  <2> QED
      BY <2>1, LogAppends, LogKeepsUp
<1>9. CASE Announce
  <2>1. /\ Log("tool_call", announced + 1) /\ pc = "dispatch" /\ pc' = pc
        /\ UNCHANGED <<limits, turnBase, turn>>
      BY <1>9 DEF Announce
  <2> QED
      BY <2>1, LogAppends, LogKeepsUp
<1>10. CASE Publish
  <2>1. /\ Log("tool_result", reported + 1) /\ pc = "dispatch" /\ pc' = pc
        /\ UNCHANGED <<limits, turnBase, turn>>
      BY <1>10 DEF Publish
  <2> QED
      BY <2>1, LogAppends, LogKeepsUp
<1>11. CASE Rule \/ Start \/ ContextEnds \/ UNCHANGED vars
    BY <1>1, <1>11 DEF Rule, Start, ContextEnds, vars
<1>12. ASSUME NEW i \in running, Finish(i)
       PROVE  LogInv'
    BY <1>1, <1>12 DEF Finish
<1> QED
    BY <1>2, <1>3, <1>4, <1>5, <1>6, <1>7, <1>8, <1>9, <1>10, <1>11, <1>12
       DEF Next, LoopStep, Returned

(* A run starts where the contract starts. *)
LEMMA ContractInit == Init => Contract!Init
<1> SUFFICES ASSUME Init PROVE Contract!Init
    OBVIOUS
<1>1. log = <<Event("run_start", 0, 0)>> /\ Len(calls) = 0 /\ announced = 0 /\ reported = 0
    BY DEF Init, Enter, RunStart
<1>2. DOMAIN log = {1} /\ Outlined(log[1]) = Seen("run_start", 0, 0)
    BY <1>1 DEF Outlined, Seen, Event
<1>3. Outline = [i \in 1..1 |-> Seen("run_start", 0, 0)]
    BY <1>2 DEF Outline, Outlined, Seen
<1>4. Outline = <<Seen("run_start", 0, 0)>>
    BY <1>3
<1> QED
    BY <1>1, <1>4 DEF Contract!Init, Contract!Event, Seen

(* Each step of the loop is a step of the contract, or no step of it. *)
LEMMA ContractNext ==
    ASSUME TypeOK, DispatchInv, LogInv, [Next]_vars
    PROVE  [Contract!Next]_(Contract!vars)
<1> DEFINE silent == UNCHANGED <<log, calls, announced, reported>>
<1>1. ASSUME silent
      PROVE  [Contract!Next]_(Contract!vars)
    BY <1>1 DEF Contract!vars, Outline
<1>2. CASE TurnsExhausted \/ ContextSeen \/ Ask \/ AskInterrupted
    BY <1>1, <1>2 DEF TurnsExhausted, ContextSeen, Ask, AskInterrupted, dispatchVars
<1>3. ASSUME NEW kind \in ErrorKinds, ChainExhausted(kind)
      PROVE  silent
    BY <1>3 DEF ChainExhausted, dispatchVars
<1>4. CASE Accept \/ RejectLast \/ EndDispatch \/ ContextEnds
    BY <1>1, <1>4 DEF Accept, RejectLast, EndDispatch, ContextEnds, dispatchVars
<1>5. CASE Rule \/ Start
    BY <1>1, <1>5 DEF Rule, Start
<1>6. ASSUME NEW i \in running, Finish(i)
      PROVE  silent
    BY <1>6 DEF Finish
<1>7. CASE UNCHANGED vars
    BY <1>1, <1>7 DEF vars, dispatchVars
<1>0. Contract!Last = Outlined(LastEvent) /\ Contract!Last.type # "run_end"
      /\ Contract!Last.type = LastEvent.type /\ Contract!Last.turn = LastEvent.turn
      /\ Contract!Last.n = LastEvent.n
    BY LastSeen, LastEventTurn DEF LogInv, Outlined, Seen
<1>8. pc = "asking" => /\ announced = Len(calls) /\ reported = Len(calls)
                       /\ Numbered \in 1..MaxTurns /\ Numbered > LastEvent.turn
  <2> SUFFICES ASSUME pc = "asking"
               PROVE  /\ announced = Len(calls) /\ reported = Len(calls)
                      /\ Numbered \in 1..MaxTurns /\ Numbered > LastEvent.turn
      OBVIOUS
  <2>1. LastEvent.turn \in Nat /\ LastEvent.turn < Numbered
      BY LastEventTurn DEF LogInv
  <2>2. turn \in Nat /\ turnBase \in Nat /\ limits.turns \in Nat
      BY DEF TypeOK
  <2>3. Numbered \in 1..MaxTurns
      BY <2>1, <2>2 DEF LogInv, Numbered
  <2>4. announced = Len(calls) /\ reported = Len(calls)
      BY DEF DispatchInv, TurnsAreComplete
  <2> QED
      BY <2>1, <2>3, <2>4
<1>9. CASE SwitchBackend
  <2>1. /\ pc = "asking" /\ Log("provider_fallback", active + 1)
        /\ active + 1 \in 1..Len(Chain) - 1
        /\ UNCHANGED <<calls, announced, reported>>
      BY <1>9 DEF SwitchBackend, MaySwitch, dispatchVars, TypeOK
  <2>2. Outline' = Append(Outline, Seen("provider_fallback", Numbered, active + 1))
      BY <2>1, LogAppends DEF LogInv
  <2>3. Contract!Fallback
      BY <1>0, <1>8, <2>1, <2>2
         DEF Contract!Fallback, Contract!TurnComplete, Contract!Event, Seen, IsFinalAnswer
  <2> QED
      BY <2>3, <1>0 DEF Contract!Next
<1>10. ASSUME NEW r \in Responses, Respond(r)
       PROVE  Contract!Next
  <2>1. /\ pc = "asking" /\ \E said : log' = Append(log, Answer(Numbered, Len(r.calls), said))
        /\ calls' = r.calls /\ announced' = 0 /\ reported' = 0
      BY <1>10 DEF Respond
  <2>2. Outline' = Append(Outline, Seen("llm_response", Numbered, Len(r.calls)))
      BY <2>1, AnswerAppends DEF LogInv
  <2>3. Contract!Response
      BY <1>0, <1>8, <2>1, <2>2
         DEF Contract!Response, Contract!TurnComplete, Contract!Event, Seen, IsFinalAnswer
  <2> QED
      BY <2>3, <1>0 DEF Contract!Next
<1>11. CASE Reject
  <2>1. pc = "judge" /\ Log("validator_feedback", 0) /\ UNCHANGED <<calls, announced, reported>>
      BY <1>11 DEF Reject, dispatchVars
  <2>2. /\ Outline' = Append(Outline, Seen("validator_feedback", Numbered, 0))
        /\ IsFinalAnswer(LastEvent) /\ LastEvent.turn = Numbered
      BY <2>1, LogAppends DEF LogInv
  <2>3. Contract!Feedback
      BY <1>0, <2>1, <2>2 DEF Contract!Feedback, Contract!Event, Seen, IsFinalAnswer
  <2> QED
      BY <2>3, <1>0 DEF Contract!Next
<1>12. CASE Announce
  <2>1. /\ pc = "dispatch" /\ Log("tool_call", announced + 1) /\ announced' = announced + 1
        /\ announced < Len(calls) /\ UNCHANGED <<calls, reported>>
        /\ Parallelizable(calls) \/ announced = reported
      BY <1>12 DEF Announce, MayAnnounce
  <2>2. /\ Outline' = Append(Outline, Seen("tool_call", Numbered, announced + 1))
        /\ LastEvent.turn = Numbered
      BY <2>1, LogAppends DEF LogInv, TypeOK
  <2>3. announced = reported \/ reported = 0
      BY <2>1 DEF DispatchInv, StagesInOrder, TypeOK
  <2>4. Contract!ToolCall
      BY <1>0, <2>1, <2>2, <2>3 DEF Contract!ToolCall, Contract!Event, Seen, IsFinalAnswer
  <2> QED
      BY <2>4, <1>0 DEF Contract!Next
<1>13. CASE Publish
  <2>1. /\ pc = "dispatch" /\ Log("tool_result", reported + 1) /\ reported' = reported + 1
        /\ reported < started /\ UNCHANGED <<calls, announced>>
        /\ Parallelizable(calls) => started = Len(calls)
      BY <1>13 DEF Publish
  <2>2. /\ Outline' = Append(Outline, Seen("tool_result", Numbered, reported + 1))
        /\ LastEvent.turn = Numbered
      BY <2>1, LogAppends DEF LogInv, TypeOK
  <2>3. reported < announced /\ (announced = reported + 1 \/ announced = Len(calls))
      BY <2>1 DEF DispatchInv, StagesInOrder, TypeOK
  <2>4. Contract!ToolResult
      BY <1>0, <2>1, <2>2, <2>3 DEF Contract!ToolResult, Contract!Event, Seen, IsFinalAnswer
  <2> QED
      BY <2>4, <1>0 DEF Contract!Next
<1> QED
    BY <1>1, <1>2, <1>3, <1>4, <1>5, <1>6, <1>7, <1>9, <1>10, <1>11, <1>12, <1>13
       DEF Next, LoopStep, Returned

(* The loop implements the ordering contract of its log, for every limit,   *)
(* every chain and every answer (docs/contracts/jsonl-events.md).           *)
THEOREM LogContractKept == Spec => KeepsLogContract
<1>1. Spec => [](TypeOK /\ DispatchInv /\ LogInv)
    BY TypeCorrect, DispatchCorrect, LogInit, LogNext, PTL DEF Spec
<1> QED
    BY <1>1, ContractInit, ContractNext, PTL DEF Spec, KeepsLogContract, Contract!Spec
-----------------------------------------------------------------------------
(* The counts of the Result follow the log at every step, and not only when *)
(* the run is over: what a turn in progress has published is not in the     *)
(* Result yet, and a turn with an aborting call is the last one.            *)
AccountInv ==
    /\ pc \in {"asking", "judge", "dispatch"} => turn > 0
    /\ \A i \in DOMAIN log : log[i].turn <= Numbered
    /\ Count("tool_call") - Count("tool_result") = announced - reported
    /\ pc = "returned" => announced = reported
    /\ pc \in {"head", "asking", "judge"} => failure = "none"
    /\ failure = "none" => \A i \in 1..reported : calls[i].ruling \notin Aborting
    /\ published + AbortingCalls = reported
    /\ pc = "dispatch" => toolCalls = Count("tool_result") - reported
    /\ pc # "dispatch" => toolCalls = Count("tool_result") - AbortingCalls
    /\ fallbacks = Count("provider_fallback")
    /\ pc \in {"head", "judge", "dispatch"} => turn = Count("llm_response") + fallbacks
    /\ pc = "asking" => turn = Count("llm_response") + fallbacks + 1
    /\ pc = "returned" => turn - Count("llm_response") - fallbacks \in 0..1
    /\ rejections = Count("validator_feedback")


(* A position more in a set of positions is one more of them. *)
LEMMA OneMore ==
    ASSUME NEW n \in Nat, NEW T \in SUBSET (1..n)
    PROVE  /\ Cardinality(T) \in Nat /\ Cardinality(T) <= n
           /\ Cardinality(T \cup {n + 1}) = Cardinality(T) + 1
<1>1. IsFiniteSet(1..n) /\ Cardinality(1..n) = n
    BY FS_Interval
<1>2. IsFiniteSet(T) /\ Cardinality(T) \in Nat /\ Cardinality(T) <= n
    BY <1>1, FS_Subset, FS_CardinalityType
<1>3. n + 1 \notin T
    OBVIOUS
<1>4. QED
    BY <1>2, <1>3, FS_AddElement

(* What the log counts of a type of event is a number. *)
LEMMA CountType == ASSUME TypeOK, NEW type PROVE Count(type) \in Nat
<1>1. DOMAIN log = 1..Len(log) /\ Len(log) \in Nat
    BY DEF TypeOK
<1>2. {i \in DOMAIN log : log[i].type = type /\ log[i].turn > turnBase} \in SUBSET (1..Len(log))
    BY <1>1
<1>3. QED
    BY <1>1, <1>2, OneMore DEF Count

(* An event of the run counts once, for its own type. *)
LEMMA CountAppend ==
    ASSUME TypeOK, NEW e, e.turn > turnBase, log' = Append(log, e), turnBase' = turnBase, NEW type
    PROVE  Count(type)' = Count(type) + (IF e.type = type THEN 1 ELSE 0)
<1>0. Count(type) \in Nat
    BY CountType
<1> DEFINE n == Len(log)
           old == {i \in DOMAIN log : log[i].type = type /\ log[i].turn > turnBase}
           new == {i \in DOMAIN log' : log'[i].type = type /\ log'[i].turn > turnBase'}
<1>1. /\ n \in Nat /\ DOMAIN log = 1..n /\ DOMAIN log' = 1..n + 1
      /\ log'[n + 1] = e /\ \A i \in 1..n : log'[i] = log[i]
    BY DEF TypeOK
<1>2. old \in SUBSET (1..n)
    BY <1>1
<1>3. CASE e.type = type
    <2>1. new = old \cup {n + 1}
        BY <1>1, <1>3
    <2> HIDE DEF n, old, new
    <2>2. Cardinality(new) = Cardinality(old) + 1
        BY <1>1, <1>2, <2>1, OneMore
    <2>3. QED
        BY <1>0, <1>3, <2>2 DEF Count, old, new
<1>4. CASE e.type # type
    <2>1. new = old
        BY <1>1, <1>4
    <2>2. Count(type)' = Count(type)
        BY <2>1 DEF Count
    <2>3. QED
        BY <1>0, <1>4, <2>2
<1>5. QED
    BY <1>3, <1>4

(* While nothing failed no call aborted. *)
LEMMA AbortingType ==
    ASSUME TypeOK PROVE AbortingCalls \in Nat /\ (failure = "none" => AbortingCalls = 0)
<1> DEFINE T == {i \in 1..reported : failure # "none" /\ calls[i].ruling \in Aborting}
<1>1. reported \in Nat /\ T \in SUBSET (1..reported)
    BY DEF TypeOK
<1>2. Cardinality(T) \in Nat
    BY <1>1, OneMore
<1>3. failure = "none" => T = {}
    OBVIOUS
<1>4. QED
    BY <1>2, <1>3, FS_EmptySet DEF AbortingCalls

(* A run opens with nothing counted. *)
LEMMA AccountInit == Init => AccountInv
<1> SUFFICES ASSUME Init PROVE AccountInv
    OBVIOUS
<1>1. /\ log = <<Event("run_start", 0, 0)>> /\ turnBase = 0 /\ turn = 0 /\ pc = "head" /\ Numbered = 0
      /\ announced = 0 /\ reported = 0 /\ published = 0 /\ toolCalls = 0 /\ fallbacks = 0
      /\ rejections = 0 /\ failure = "none"
    BY DEF Init, Enter, RunStart, Numbered
<1>2. DOMAIN log = {1} /\ log[1].turn = 0
    BY <1>1 DEF Event
<1>3. \A type : Count(type) = 0
    <2>1. \A type : {i \in DOMAIN log : log[i].type = type /\ log[i].turn > turnBase} = {}
        BY <1>1, <1>2
    <2>2. QED
        BY <2>1, FS_EmptySet DEF Count
<1>4. AbortingCalls = 0
    BY <1>1, AbortingType, TypeInit
<1>5. QED
    BY <1>1, <1>2, <1>3, <1>4 DEF AccountInv

(* The steps that neither log nor count. *)
LEMMA AccountStill ==
    ASSUME TypeOK, DispatchInv, AccountInv,
           UNCHANGED <<log, turnBase, turn, rejections, toolCalls, fallbacks, calls, announced, reported,
                       published, failure>>,
           pc' = pc \/ (pc \in {"head", "asking", "judge"} /\ pc' = "returned")
    PROVE  AccountInv'
<1>1. /\ Count("tool_call")' = Count("tool_call") /\ Count("tool_result")' = Count("tool_result")
      /\ Count("provider_fallback")' = Count("provider_fallback")
      /\ Count("llm_response")' = Count("llm_response")
      /\ Count("validator_feedback")' = Count("validator_feedback")
      /\ AbortingCalls' = AbortingCalls /\ Numbered' = Numbered
    BY DEF Count, AbortingCalls, Numbered
<1>2. pc \in {"head", "asking", "judge"} => announced = reported
    BY DEF DispatchInv, TurnsAreComplete, StagesInOrder, TypeOK
<1>3. turn \in Nat /\ Count("llm_response") \in Nat /\ fallbacks \in Nat
    BY CountType DEF TypeOK
<1>4. QED
    BY <1>1, <1>2, <1>3 DEF AccountInv

(* An event of the turn in progress is counted once, for its own type. *)
Grow(type, logged) == Count(type)' = Count(type) + (IF logged = type THEN 1 ELSE 0)
CountsGrow(logged) ==
    /\ \A i \in DOMAIN log' : log'[i].turn <= Numbered'
    /\ Grow("tool_call", logged) /\ Grow("tool_result", logged) /\ Grow("provider_fallback", logged)
    /\ Grow("llm_response", logged) /\ Grow("validator_feedback", logged)

LEMMA AccountLogs ==
    ASSUME TypeOK, AccountInv, turn > 0, NEW e, e.turn = Numbered, log' = Append(log, e),
           UNCHANGED <<turnBase, turn>>
    PROVE  CountsGrow(e.type)
<1>1. e.turn > turnBase /\ Numbered' = Numbered /\ Numbered \in Nat
    BY DEF Numbered, TypeOK
<1>2. /\ DOMAIN log' = 1..Len(log) + 1 /\ DOMAIN log = 1..Len(log) /\ Len(log) \in Nat
      /\ log'[Len(log) + 1] = e /\ \A i \in 1..Len(log) : log'[i] = log[i]
    BY DEF TypeOK
<1>3. \A i \in DOMAIN log' : log'[i].turn <= Numbered'
    BY <1>1, <1>2 DEF AccountInv
<1>4. QED
    BY <1>1, <1>3, CountAppend DEF CountsGrow, Grow

(* Each step keeps the accounts. *)
LEMMA AccountNext ==
    ASSUME TypeOK, TypeOK', DispatchInv, AccountInv, [Next]_vars
    PROVE  AccountInv'
<1>0. /\ turn \in Nat /\ rejections \in Nat /\ toolCalls \in Nat /\ fallbacks \in Nat
      /\ announced \in Nat /\ reported \in Nat /\ published \in Nat /\ Numbered \in Nat
    BY DEF TypeOK, Numbered
<1>a. /\ AbortingCalls \in Nat /\ (failure = "none" => AbortingCalls = 0)
      /\ Count("tool_call") \in Nat /\ Count("tool_result") \in Nat /\ Count("provider_fallback") \in Nat
      /\ Count("llm_response") \in Nat /\ Count("validator_feedback") \in Nat
    BY AbortingType, CountType
<1>1. CASE TurnsExhausted \/ ContextSeen \/ AskInterrupted \/ Accept \/ RejectLast
    BY <1>1, AccountStill
    DEF TurnsExhausted, ContextSeen, AskInterrupted, Accept, RejectLast, Return, resultVars, dispatchVars
<1>2. ASSUME NEW kind \in ErrorKinds, ChainExhausted(kind) PROVE AccountInv'
    BY <1>2, AccountStill DEF ChainExhausted, Return, resultVars, dispatchVars
<1>3. CASE Rule \/ Start \/ ContextEnds
    BY <1>3, AccountStill DEF Rule, Start, ContextEnds, resultVars, dispatchVars
<1>4. ASSUME NEW i \in running, Finish(i) PROVE AccountInv'
    BY <1>4, AccountStill DEF Finish, resultVars
<1>5. CASE UNCHANGED vars
    BY <1>5, AccountStill DEF vars, resultVars, dispatchVars
<1>6. CASE Ask
    <2>1. /\ turn' = turn + 1 /\ pc = "head" /\ pc' = "asking"
          /\ UNCHANGED <<log, turnBase, rejections, toolCalls, fallbacks, calls, announced, reported,
                         published, failure>>
        BY <1>6 DEF Ask, resultVars, dispatchVars
    <2>2. /\ Count("tool_call")' = Count("tool_call") /\ Count("tool_result")' = Count("tool_result")
          /\ Count("provider_fallback")' = Count("provider_fallback")
          /\ Count("llm_response")' = Count("llm_response")
          /\ Count("validator_feedback")' = Count("validator_feedback")
          /\ AbortingCalls' = AbortingCalls
        BY <2>1 DEF Count, AbortingCalls
    <2>3. \A i \in DOMAIN log' : log'[i].turn <= Numbered'
        <3>1. \A i \in DOMAIN log : log[i].turn \in Nat
            <4>1. log \in Seq(EventType)
                BY DEF TypeOK
            <4>2. \A i \in DOMAIN log : log[i] \in EventType
                BY <4>1
            <4>3. QED
                BY <4>2 DEF EventType
        <3>2. Numbered' = Numbered + 1
            BY <2>1 DEF Numbered, TypeOK
        <3>3. \A i \in DOMAIN log : log[i].turn <= Numbered
            BY DEF AccountInv
        <3>4. QED
            BY <1>0, <2>1, <3>1, <3>2, <3>3
    <2>4. QED
        BY <1>0, <1>a, <2>1, <2>2, <2>3 DEF AccountInv
<1>7. CASE SwitchBackend
    <2>0. log' = Append(log, Event("provider_fallback", Numbered, active + 1))
        BY <1>7 DEF SwitchBackend, Log
    <2>1. /\ pc = "asking" /\ pc' = "head"
          /\ fallbacks' = fallbacks + 1
          /\ UNCHANGED <<turnBase, turn, rejections, toolCalls, calls, announced, reported, published, failure>>
        BY <1>7 DEF SwitchBackend, MaySwitch, Log, dispatchVars
    <2>2. /\ Event("provider_fallback", Numbered, active + 1).turn = Numbered
          /\ Event("provider_fallback", Numbered, active + 1).type = "provider_fallback"
        BY DEF Event
    <2>3. AbortingCalls' = AbortingCalls
        BY <2>1 DEF AbortingCalls
    <2>4. turn > 0
        BY <2>1 DEF AccountInv
    <2>5. CountsGrow("provider_fallback")
        BY <2>0, <2>1, <2>2, <2>3, <2>4, AccountLogs
    <2>6. QED
        BY <1>0, <1>a, <2>1, <2>2, <2>3, <2>4, <2>5 DEF AccountInv, CountsGrow, Grow
<1>8. ASSUME NEW r \in Responses, Respond(r) PROVE AccountInv'
    <2>1. /\ pc = "asking" /\ pc' \in {"returned", "dispatch", "judge"}
          /\ announced' = 0 /\ reported' = 0 /\ published' = 0 /\ failure' = "none"
          /\ UNCHANGED <<turnBase, turn, rejections, toolCalls, fallbacks>>
        BY <1>8 DEF Respond, Return
    <2>2. PICK said : log' = Append(log, Answer(Numbered, Len(r.calls), said))
        BY <1>8 DEF Respond
    <2>3. /\ Answer(Numbered, Len(r.calls), said).turn = Numbered
          /\ Answer(Numbered, Len(r.calls), said).type = "llm_response"
        BY DEF Answer, Event
    <2>4. AbortingCalls' = 0
        <3>1. {i \in 1..reported' : failure' # "none" /\ calls'[i].ruling \in Aborting} = {}
            BY <2>1
        <3>2. QED
            BY <3>1, FS_EmptySet DEF AbortingCalls
    <2>5. announced = reported /\ failure = "none" /\ AbortingCalls = 0 /\ turn > 0
        BY <2>1, AbortingType DEF DispatchInv, TurnsAreComplete, AccountInv
    <2>6. CountsGrow("llm_response")
        BY <2>1, <2>2, <2>3, <2>4, <2>5, AccountLogs
    <2>7. /\ Count("tool_call")' - Count("tool_result")' = 0 /\ toolCalls' = Count("tool_result")'
          /\ fallbacks' = Count("provider_fallback")' /\ rejections' = Count("validator_feedback")'
          /\ turn' = Count("llm_response")' + fallbacks'
        BY <1>0, <1>a, <2>1, <2>5, <2>6 DEF AccountInv, CountsGrow, Grow
    <2>8. \A i \in DOMAIN log' : log'[i].turn <= Numbered'
        BY <2>6 DEF CountsGrow
    <2>9. /\ Count("tool_call")' \in Nat /\ Count("llm_response")' \in Nat /\ Count("tool_result")' \in Nat
        BY <1>a, <2>6 DEF CountsGrow, Grow
    <2>10. \A i \in 1..reported' : FALSE
        BY <2>1
    <2>11. /\ pc' \in {"asking", "judge", "dispatch"} => turn' > 0
           /\ failure' = "none" /\ reported' = 0 /\ announced' = reported'
           /\ published' + AbortingCalls' = reported'
           /\ pc' \notin {"head", "asking"}
        BY <2>1, <2>4, <2>5
    <2>12. /\ Count("tool_call")' - Count("tool_result")' = announced' - reported'
           /\ toolCalls' = Count("tool_result")' - reported'
           /\ toolCalls' = Count("tool_result")' - AbortingCalls'
           /\ turn' - Count("llm_response")' - fallbacks' = 0
        BY <1>0, <2>1, <2>4, <2>7, <2>9
    <2>13. QED
        BY <2>7, <2>8, <2>10, <2>11, <2>12 DEF AccountInv
<1>9. CASE Reject
    <2>0. log' = Append(log, Event("validator_feedback", Numbered, 0))
        BY <1>9 DEF Reject, Log
    <2>1. /\ pc = "judge" /\ pc' = "head"
          /\ rejections' = rejections + 1
          /\ UNCHANGED <<turnBase, turn, toolCalls, fallbacks, calls, announced, reported, published, failure>>
        BY <1>9 DEF Reject, Log, resultVars, dispatchVars
    <2>2. /\ Event("validator_feedback", Numbered, 0).turn = Numbered
          /\ Event("validator_feedback", Numbered, 0).type = "validator_feedback"
        BY DEF Event
    <2>3. AbortingCalls' = AbortingCalls /\ turn > 0
        BY <2>1 DEF AbortingCalls, AccountInv
    <2>4. CountsGrow("validator_feedback")
        BY <2>0, <2>1, <2>2, <2>3, AccountLogs
    <2>5. QED
        BY <1>0, <1>a, <2>1, <2>2, <2>3, <2>4 DEF AccountInv, CountsGrow, Grow
<1>10. CASE Announce
    <2>0. log' = Append(log, Event("tool_call", Numbered, announced + 1))
        BY <1>10 DEF Announce, Log
    <2>1. /\ pc = "dispatch" /\ pc' = pc
          /\ announced' = announced + 1
          /\ UNCHANGED <<turnBase, turn, rejections, toolCalls, fallbacks, calls, reported, published, failure>>
        BY <1>10 DEF Announce, Log, resultVars
    <2>2. /\ Event("tool_call", Numbered, announced + 1).turn = Numbered
          /\ Event("tool_call", Numbered, announced + 1).type = "tool_call"
        BY DEF Event
    <2>3. AbortingCalls' = AbortingCalls /\ turn > 0
        BY <2>1 DEF AbortingCalls, AccountInv
    <2>4. CountsGrow("tool_call")
        BY <2>0, <2>1, <2>2, <2>3, AccountLogs
    <2>5. QED
        BY <1>0, <1>a, <2>1, <2>2, <2>3, <2>4 DEF AccountInv, CountsGrow, Grow
<1>11. CASE Publish
    <2>0. log' = Append(log, Event("tool_result", Numbered, reported + 1))
        BY <1>11 DEF Publish, Log
    <2>1. /\ pc = "dispatch" /\ pc' = pc
          /\ reported' = reported + 1
          /\ UNCHANGED <<turnBase, turn, rejections, toolCalls, fallbacks, calls, announced>>
        BY <1>11 DEF Publish, Log, resultVars
    <2>2. /\ Event("tool_result", Numbered, reported + 1).turn = Numbered
          /\ Event("tool_result", Numbered, reported + 1).type = "tool_result"
        BY DEF Event
    <2>3. /\ failure' = "none" => failure = "none" /\ \A i \in 1..reported' : calls'[i].ruling \notin Aborting
          /\ published' + AbortingCalls' = reported'
        <3> DEFINE T == {i \in 1..reported : calls[i].ruling \in Aborting}
        <3>1. /\ T \in SUBSET (1..reported) /\ 1..reported + 1 = 1..reported \cup {reported + 1}
              /\ failure = "none" => T = {}
              /\ failure # "none" => AbortingCalls = Cardinality(T)
              /\ Cardinality(T) \in Nat /\ Cardinality(T \cup {reported + 1}) = Cardinality(T) + 1
            <4>1. failure = "none" => T = {}
                BY DEF AccountInv
            <4>2. failure # "none" => AbortingCalls = Cardinality(T)
                BY DEF AbortingCalls
            <4>3. T \in SUBSET (1..reported) /\ 1..reported + 1 = 1..reported \cup {reported + 1}
                BY <1>0
            <4>4. QED
                BY <1>0, <4>1, <4>2, <4>3, OneMore
        <3>2. CASE calls[reported + 1].ruling \in Aborting
            <4>1. published' = published /\ failure' # "none"
                BY <1>11, <3>2 DEF Publish, FailureOf
            <4>2. {i \in 1..reported' : failure' # "none" /\ calls'[i].ruling \in Aborting}
                      = T \cup {reported + 1}
                BY <2>1, <3>1, <3>2, <4>1
            <4>3. AbortingCalls' = Cardinality(T) + 1
                BY <3>1, <4>2 DEF AbortingCalls
            <4>4. published + Cardinality(T) = reported
                BY <3>1, AbortingType, FS_EmptySet DEF AccountInv
            <4>5. QED
                BY <1>0, <2>1, <3>1, <4>1, <4>3, <4>4
        <3>3. CASE calls[reported + 1].ruling \notin Aborting
            <4>1. published' = published + 1 /\ failure' = failure
                BY <1>11, <3>3 DEF Publish
            <4>2. {i \in 1..reported' : failure' # "none" /\ calls'[i].ruling \in Aborting}
                      = {i \in 1..reported : failure # "none" /\ calls[i].ruling \in Aborting}
                BY <2>1, <3>1, <3>3, <4>1
            <4>3. AbortingCalls' = AbortingCalls
                BY <4>2 DEF AbortingCalls
            <4>4. failure = "none" => \A i \in 1..reported' : calls'[i].ruling \notin Aborting
                BY <2>1, <3>1, <3>3 DEF AccountInv
            <4>5. published + AbortingCalls = reported
                BY DEF AccountInv
            <4>6. QED
                BY <1>0, <1>a, <2>1, <4>1, <4>3, <4>4, <4>5
        <3>4. QED
            BY <3>2, <3>3
    <2>4. turn > 0
        BY <2>1 DEF AccountInv
    <2>5. CountsGrow("tool_result")
        BY <2>0, <2>1, <2>2, <2>3, <2>4, AccountLogs
    <2>6. QED
        BY <1>0, <1>a, <2>1, <2>2, <2>3, <2>4, <2>5 DEF AccountInv, CountsGrow, Grow
<1>12. CASE EndDispatch
    <2>1. /\ pc = "dispatch" /\ toolCalls' = toolCalls + published
          /\ pc' = IF failure = "none" THEN "head" ELSE "returned"
          /\ UNCHANGED <<log, turnBase, turn, rejections, fallbacks, calls, announced, reported, published,
                         failure>>
        BY <1>12 DEF EndDispatch, CountPublished, Return, dispatchVars
    <2>2. /\ Count("tool_call")' = Count("tool_call") /\ Count("tool_result")' = Count("tool_result")
          /\ Count("provider_fallback")' = Count("provider_fallback")
          /\ Count("llm_response")' = Count("llm_response")
          /\ Count("validator_feedback")' = Count("validator_feedback")
          /\ AbortingCalls' = AbortingCalls /\ Numbered' = Numbered
        BY <2>1 DEF Count, AbortingCalls, Numbered
    <2>3. announced = reported
        <3>1. reported = Len(calls) \/ Aborted
            BY <1>12 DEF EndDispatch
        <3>2. /\ reported <= started /\ started <= ruled /\ ruled <= announced
              /\ announced <= Len(calls) /\ (Aborted => announced = reported)
            BY DEF DispatchInv, StagesInOrder
        <3>3. started \in Nat /\ ruled \in Nat /\ Len(calls) \in Nat
            BY DEF TypeOK
        <3>4. QED
            BY <1>0, <3>1, <3>2, <3>3
    <2>4. /\ \A i \in DOMAIN log' : log'[i].turn <= Numbered'
          /\ failure' = "none" => \A i \in 1..reported' : calls'[i].ruling \notin Aborting
        BY <2>1, <2>2 DEF AccountInv
    <2>5. toolCalls' = Count("tool_result")' - AbortingCalls'
        BY <1>0, <1>a, <2>1, <2>2 DEF AccountInv
    <2>6. failure = "none" => turn = Count("llm_response") + fallbacks
        BY <2>1 DEF AccountInv
    <2>7. pc' = "returned" => turn' - Count("llm_response")' - fallbacks' \in 0..1
        BY <1>0, <1>a, <2>1, <2>2 DEF AccountInv
    <2>8. QED
        BY <2>1, <2>2, <2>3, <2>4, <2>5, <2>6, <2>7 DEF AccountInv
<1>13. QED
    BY <1>1, <1>2, <1>3, <1>4, <1>5, <1>6, <1>7, <1>8, <1>9, <1>10, <1>11, <1>12
    DEF Next, LoopStep, Returned

(* The counts are kept in step throughout a run. *)
LEMMA AccountHolds == Spec => []AccountInv
<1>1. TypeOK /\ DispatchInv /\ AccountInv /\ TypeOK' /\ [Next]_vars => AccountInv'
    BY AccountNext
<1> QED
    BY <1>1, TypeCorrect, DispatchCorrect, AccountInit, PTL DEF Spec

(* The Result agrees with the log on every way out of RunMessages: with the *)
(* calls it announced and answered, the backends it left, the answers it    *)
(* got and the ones it sent back (loop.go, Result).                         *)
THEOREM AccountsMatch == Spec => []AccountingMatchesLog
<1>1. TypeOK /\ AccountInv => AccountingMatchesLog
    <2> SUFFICES ASSUME TypeOK, AccountInv, pc = "returned" PROVE AccountingMatchesLog
        BY DEF AccountingMatchesLog
    <2>1. Count("tool_call") \in Nat /\ Count("tool_result") \in Nat /\ announced \in Nat
        BY CountType DEF TypeOK
    <2>2. QED
        BY <2>1 DEF AccountInv, AccountingMatchesLog
<1>2. QED
    BY <1>1, TypeCorrect, AccountHolds, PTL
-----------------------------------------------------------------------------
(* What the log has of the turn in progress: nothing before its answer, and *)
(* then the calls announced and the results reported so far.                *)
TurnOnRecord ==
    /\ pc = "asking" => \A k \in DOMAIN log : log[k].turn < Numbered
    /\ pc = "dispatch" => InTurn("tool_call") = 1..announced /\ InTurn("tool_result") = 1..reported

(* The turn in progress has an event when there is one of that type.        *)
LEMMA InTurnHas ==
    ASSUME NEW type, NEW n
    PROVE  n \in InTurn(type) <=>
               \E k \in DOMAIN log : log[k].type = type /\ log[k].turn = Numbered /\ log[k].n = n
BY DEF InTurn

(* An event of the turn in progress adds itself to what the turn has.       *)
LEMMA InTurnAppends ==
    ASSUME TypeOK, NEW e, e.turn = Numbered, log' = Append(log, e), UNCHANGED <<turnBase, turn>>,
           NEW type
    PROVE  InTurn(type)' = IF e.type = type THEN InTurn(type) \cup {e.n} ELSE InTurn(type)
<1> DEFINE last == Len(log)
<1>1. /\ last \in Nat /\ DOMAIN log = 1..last /\ DOMAIN log' = 1..last + 1
      /\ log'[last + 1] = e /\ \A k \in 1..last : log'[k] = log[k]
    BY DEF TypeOK
<1>2. Numbered' = Numbered
    BY DEF Numbered
<1> HIDE DEF last
<1>3. ASSUME NEW n
      PROVE  n \in InTurn(type)' <=> n \in InTurn(type) \/ (e.type = type /\ e.n = n)
  <2>1. n \in InTurn(type)' <=>
            \E k \in DOMAIN log' : log'[k].type = type /\ log'[k].turn = Numbered' /\ log'[k].n = n
      BY DEF InTurn
  <2>2. (\E k \in 1..last + 1 : log'[k].type = type /\ log'[k].turn = Numbered /\ log'[k].n = n)
        <=> \/ \E k \in 1..last : log[k].type = type /\ log[k].turn = Numbered /\ log[k].n = n
            \/ e.type = type /\ e.n = n
      BY <1>1
  <2> QED
      BY <1>1, <1>2, <2>1, <2>2, InTurnHas
<1> QED
    BY <1>3

(* Turns are numbers. *)
LEMMA EventTurns ==
    ASSUME TypeOK
    PROVE  Numbered \in Nat /\ \A k \in DOMAIN log : log[k].turn \in Nat
<1>1. turn \in Nat /\ turnBase \in Nat /\ log \in Seq(EventType)
    BY DEF TypeOK
<1>2. \A k \in DOMAIN log : log[k] \in EventType
    BY <1>1
<1>3. \A k \in DOMAIN log : log[k].turn \in Nat
    BY <1>2 DEF EventType
<1> QED
    BY <1>1, <1>3 DEF Numbered

(* One more makes the next interval. *)
LEMMA NextInterval == \A n \in Nat : 1..n + 1 = (1..n) \cup {n + 1}
OBVIOUS

(* A run opens with no turn in progress. *)
LEMMA RecordInit == Init => TurnOnRecord
<1> SUFFICES ASSUME Init PROVE TurnOnRecord
    OBVIOUS
<1>1. pc = "head"
    BY DEF Init, Enter
<1> QED
    BY <1>1 DEF TurnOnRecord

(* Each step keeps the record of the turn. *)
LEMMA RecordNext ==
    ASSUME TypeOK, AccountInv, TurnOnRecord, [Next]_vars
    PROVE  TurnOnRecord'
<1>1. ASSUME UNCHANGED <<turnBase, turn, log, announced, reported>>, pc' \in {pc, "head", "returned"}
      PROVE  TurnOnRecord'
    BY <1>1 DEF TurnOnRecord, Numbered, InTurn
<1>2. CASE TurnsExhausted \/ ContextSeen \/ AskInterrupted \/ Accept \/ RejectLast \/ EndDispatch
    BY <1>1, <1>2 DEF TurnsExhausted, ContextSeen, AskInterrupted, Accept, RejectLast, EndDispatch,
                      Return, dispatchVars
<1>3. CASE Ask
  <2>1. UNCHANGED <<turnBase, log>> /\ turn' = turn + 1 /\ pc' = "asking"
      BY <1>3 DEF Ask
  <2>2. Numbered' = Numbered + 1 /\ Numbered \in Nat
      BY <2>1 DEF Numbered, TypeOK
  <2>3. \A k \in DOMAIN log' : log'[k].turn < Numbered'
      BY <2>1, <2>2, EventTurns DEF AccountInv
  <2> QED
      BY <2>1, <2>3 DEF TurnOnRecord
<1>4. ASSUME NEW kind \in ErrorKinds, ChainExhausted(kind)
      PROVE  TurnOnRecord'
    BY <1>1, <1>4 DEF ChainExhausted, Return, dispatchVars
<1>5. CASE SwitchBackend \/ Reject
    BY <1>5 DEF SwitchBackend, Reject, TurnOnRecord
<1>6. ASSUME NEW r \in Responses, Respond(r)
      PROVE  TurnOnRecord'
  <2> DEFINE e == Answer(Numbered, Len(r.calls),
                         [text |-> ~r.empty,
                          carrier |-> IF r.reasoning THEN Backend(active) ELSE NoCarrier])
  <2>1. /\ pc = "asking" /\ log' = Append(log, e) /\ UNCHANGED <<turnBase, turn>>
        /\ announced' = 0 /\ reported' = 0
      BY <1>6 DEF Respond
  <2>2. e.turn = Numbered /\ e.type = "llm_response"
      BY DEF Answer, Event
  <2>3. pc' # "asking"
    <3>1. CASE OverTokenBudget(r, UsageAdd(usage, r.usage))
        BY <1>6, <3>1 DEF Respond, Return
    <3>2. CASE ~OverTokenBudget(r, UsageAdd(usage, r.usage))
        BY <1>6, <3>2 DEF Respond, Return
    <3> QED
        BY <3>1, <3>2
  <2> HIDE DEF e
  <2>4. InTurn("tool_call") = {} /\ InTurn("tool_result") = {}
      BY <2>1, EventTurns DEF TurnOnRecord, InTurn
  <2>5. InTurn("tool_call")' = {}
      BY <2>1, <2>2, <2>4, InTurnAppends
  <2>6. InTurn("tool_result")' = {}
      BY <2>1, <2>2, <2>4, InTurnAppends
  <2> QED
      BY <2>1, <2>3, <2>5, <2>6 DEF TurnOnRecord
<1>7. CASE Announce
  <2>1. /\ Log("tool_call", announced + 1) /\ announced' = announced + 1
        /\ pc = "dispatch" /\ pc' = pc
        /\ UNCHANGED <<turnBase, turn, reported>>
      BY <1>7 DEF Announce
  <2> DEFINE e == Event("tool_call", Numbered, announced + 1)
  <2>2. log' = Append(log, e) /\ e.turn = Numbered /\ e.type = "tool_call" /\ e.n = announced + 1
      BY <2>1 DEF Log, Event
  <2> HIDE DEF e
  <2>3. InTurn("tool_call")' = InTurn("tool_call") \cup {announced + 1}
      BY <2>1, <2>2, InTurnAppends
  <2>4. InTurn("tool_result")' = InTurn("tool_result")
      BY <2>1, <2>2, InTurnAppends
  <2>5. InTurn("tool_call") = 1..announced /\ announced \in Nat
      BY <2>1 DEF TurnOnRecord, TypeOK
  <2>6. InTurn("tool_call")' = 1..announced'
      BY <2>1, <2>3, <2>5, NextInterval
  <2> QED
      BY <2>1, <2>4, <2>6 DEF TurnOnRecord
<1>8. CASE Publish
  <2>1. /\ Log("tool_result", reported + 1) /\ reported' = reported + 1
        /\ pc = "dispatch" /\ pc' = pc
        /\ UNCHANGED <<turnBase, turn, announced>>
      BY <1>8 DEF Publish
  <2> DEFINE e == Event("tool_result", Numbered, reported + 1)
  <2>2. log' = Append(log, e) /\ e.turn = Numbered /\ e.type = "tool_result" /\ e.n = reported + 1
      BY <2>1 DEF Log, Event
  <2> HIDE DEF e
  <2>3. InTurn("tool_result")' = InTurn("tool_result") \cup {reported + 1}
      BY <2>1, <2>2, InTurnAppends
  <2>4. InTurn("tool_call")' = InTurn("tool_call")
      BY <2>1, <2>2, InTurnAppends
  <2>5. InTurn("tool_result") = 1..reported /\ reported \in Nat
      BY <2>1 DEF TurnOnRecord, TypeOK
  <2>6. InTurn("tool_result")' = 1..reported'
      BY <2>1, <2>3, <2>5, NextInterval
  <2> QED
      BY <2>1, <2>4, <2>6 DEF TurnOnRecord
<1>9. CASE Rule \/ Start \/ ContextEnds \/ UNCHANGED vars
    BY <1>1, <1>9 DEF Rule, Start, ContextEnds, vars, dispatchVars
<1>10. ASSUME NEW i \in running, Finish(i)
       PROVE  TurnOnRecord'
    BY <1>1, <1>10 DEF Finish
<1> QED
    BY <1>2, <1>3, <1>4, <1>5, <1>6, <1>7, <1>8, <1>9, <1>10 DEF Next, LoopStep, Returned

(* A tool runs with leave only, while its call is open in the log; on a     *)
(* turn somebody can be asked about it runs alone, after every call before  *)
(* it has its result and none of them ended the run.                        *)
THEOREM EffectsPermitted == Spec => []EffectsArePermitted
<1>1. TypeOK /\ DispatchInv /\ AccountInv /\ TurnOnRecord => EffectsArePermitted
  <2> SUFFICES ASSUME TypeOK, DispatchInv, AccountInv, TurnOnRecord, NEW i \in running
               PROVE  /\ calls[i].ruling = "allow"
                      /\ i \in InTurn("tool_call") \ InTurn("tool_result")
                      /\ (\E k \in DOMAIN calls : ~calls[k].auto) =>
                            \A j \in 1..i - 1 : /\ j \in InTurn("tool_result")
                                                /\ calls[j].ruling \notin Aborting
      BY DEF EffectsArePermitted
  <2>1. pc = "dispatch" /\ i \in reported + 1 .. started /\ calls[i].ruling = "allow"
      BY DEF DispatchInv, TurnsAreComplete, RunningIsOpen
  <2>2. reported < i /\ i <= announced /\ i \in Nat /\ 1 <= i
      BY <2>1 DEF DispatchInv, StagesInOrder, TypeOK
  <2>3. i \in InTurn("tool_call") \ InTurn("tool_result")
      BY <2>1, <2>2 DEF TurnOnRecord, TypeOK
  <2>4. ASSUME \E k \in DOMAIN calls : ~calls[k].auto, NEW j \in 1..i - 1
        PROVE  j \in InTurn("tool_result") /\ calls[j].ruling \notin Aborting
    <3>1. ~Parallelizable(calls)
        BY <2>4 DEF Parallelizable
    <3>2. announced <= reported + 1 /\ announced # reported
        BY <2>2, <3>1 DEF DispatchInv, StagesInOrder, TypeOK
    <3>3. failure = "none"
        BY <3>1, <3>2 DEF DispatchInv, StagesInOrder, Aborted
    <3>4. j \in 1..reported
        BY <2>2, <3>2 DEF TypeOK
    <3> QED
        BY <2>1, <3>3, <3>4 DEF TurnOnRecord, AccountInv
  <2> QED
      BY <2>1, <2>3, <2>4
<1> QED
    BY <1>1, TypeCorrect, DispatchCorrect, AccountHolds, RecordInit, RecordNext, PTL DEF Spec
-----------------------------------------------------------------------------
(* The conversation since the run was entered, as the model is sent it and  *)
(* as the log records it.  Between two requests the log may be ahead by the *)
(* results of the turn in progress, which are then its outputs.             *)
Sent == FoldLeft(SinceEntered, <<>>, messages)
Recorded == FoldLeft(Tell, <<>>, log)
Results == [i \in 1..reported |-> ToolMessage(Numbered, i, i)]

TellInv ==
    /\ Sent \in Seq(MessageType)
    /\ pc \in {"head", "asking", "judge"} => Recorded = Sent
    /\ pc = "dispatch" /\ failure = "none" =>
           outputs = [i \in 1..reported |-> i] /\ Recorded = Sent \o Results


OnMessages == INSTANCE FoldTheorems WITH Op <- SinceEntered
OnEvents == INSTANCE FoldTheorems WITH Op <- Tell

Told(msgs) == FoldLeft(SinceEntered, <<>>, msgs)
Retold(events) == FoldLeft(Tell, <<>>, events)

(* A message more, and an event more. *)
LEMMA OneMessage ==
    /\ Told(<<>>) = <<>>
    /\ \A msgs \in Seq(MessageType), m \in MessageType : Told(Append(msgs, m)) = SinceEntered(Told(msgs), m)
<1>1. \A s : Told(s) = OnMessages!Fold(<<>>, s)
    BY DEF Told, FoldLeft, OnMessages!Fold, MapThenFoldSet,
           OnMessages!MapThenFoldSet, Max, OnMessages!Largest
<1>2. QED
    BY <1>1, OnMessages!FoldEmpty, OnMessages!FoldAppend

LEMMA OneEvent ==
    /\ Retold(<<>>) = <<>>
    /\ \A events \in Seq(EventType), e \in EventType : Retold(Append(events, e)) = Tell(Retold(events), e)
<1>1. \A s : Retold(s) = OnEvents!Fold(<<>>, s)
    BY DEF Retold, FoldLeft, OnEvents!Fold, MapThenFoldSet,
           OnEvents!MapThenFoldSet, Max, OnEvents!Largest
<1>2. QED
    BY <1>1, OnEvents!FoldEmpty, OnEvents!FoldAppend

(* The first k messages, and one more of them. *)
LEMMA FirstOnes ==
    ASSUME NEW s \in Seq(MessageType), NEW k \in Nat
    PROVE  /\ SubSeq(s, 1, 0) = <<>> /\ SubSeq(s, 1, Len(s)) = s
           /\ k + 1 <= Len(s) => /\ SubSeq(s, 1, k) \in Seq(MessageType) /\ Len(SubSeq(s, 1, k)) = k
                                 /\ s[k + 1] \in MessageType
                                 /\ SubSeq(s, 1, k + 1) = Append(SubSeq(s, 1, k), s[k + 1])
OBVIOUS

(* A message more is one more to strip. *)
LEMMA StripOneMore ==
    ASSUME NEW msgs \in Seq(MessageType), NEW m \in MessageType
    PROVE  StripCarriers(Append(msgs, m)) = Append(StripCarriers(msgs), [m EXCEPT !.carrier = NoCarrier])
<1> DEFINE bare(x) == [x EXCEPT !.carrier = NoCarrier]
           n == Len(msgs)
<1>1. /\ n \in Nat /\ Len(Append(msgs, m)) = n + 1 /\ Append(msgs, m) \in Seq(MessageType)
      /\ Append(msgs, m)[n + 1] = m /\ \A i \in 1..n : Append(msgs, m)[i] = msgs[i]
      /\ DOMAIN msgs = 1..n /\ DOMAIN Append(msgs, m) = 1..n + 1
    OBVIOUS
<1>2. StripCarriers(msgs) = [i \in 1..n |-> bare(msgs[i])]
    BY <1>1 DEF StripCarriers
<1>3. StripCarriers(Append(msgs, m)) = [i \in 1..n + 1 |-> bare(Append(msgs, m)[i])]
    BY <1>1 DEF StripCarriers
<1> HIDE DEF bare, n
<1>4. Len([i \in 1..n |-> bare(msgs[i])]) = n
    BY <1>1
<1>5. Append([i \in 1..n |-> bare(msgs[i])], bare(m)) =
          [i \in 1..n + 1 |-> IF i = n + 1 THEN bare(m) ELSE bare(msgs[i])]
    BY <1>1, <1>4
<1>6. \A i \in 1..n + 1 : bare(Append(msgs, m)[i]) = IF i = n + 1 THEN bare(m) ELSE bare(msgs[i])
    BY <1>1
<1>7. [i \in 1..n + 1 |-> bare(Append(msgs, m)[i])] =
          [i \in 1..n + 1 |-> IF i = n + 1 THEN bare(m) ELSE bare(msgs[i])]
    BY <1>6
<1>8. QED
    BY <1>2, <1>3, <1>5, <1>7 DEF bare

(* Stripping carriers changes nothing of what the model was told (the log   *)
(* keeps no carrier in its conversation).                                   *)
LEMMA StrippedTellsTheSame ==
    ASSUME NEW s \in Seq(MessageType)
    PROVE  Told(StripCarriers(s)) = Told(s)
<1> DEFINE part(k) == SubSeq(s, 1, k)
           S == {k \in Nat : k <= Len(s) =>
                    Told(StripCarriers(part(k))) = Told(part(k))}
<1>1. 0 \in S
    <2>1. part(0) = <<>>
        OBVIOUS
    <2>2. StripCarriers(<<>>) = <<>>
        BY DEF StripCarriers
    <2>3. QED
        BY <2>1, <2>2
<1>2. ASSUME NEW k \in Nat, k \in S PROVE k + 1 \in S
    <2> SUFFICES ASSUME k + 1 <= Len(s)
                 PROVE  Told(StripCarriers(part(k + 1))) =
                            Told(part(k + 1))
        OBVIOUS
    <2> DEFINE m == s[k + 1]
               bare == [m EXCEPT !.carrier = NoCarrier]
    <2>1. /\ part(k) \in Seq(MessageType) /\ m \in MessageType /\ part(k + 1) = Append(part(k), m)
        BY FirstOnes
    <2>2. bare \in MessageType /\ bare.turn = m.turn /\ [bare EXCEPT !.carrier = NoCarrier] = bare
        BY <2>1 DEF MessageType, Carriers
    <2>3. k <= Len(s) /\ k \in Nat
        OBVIOUS
    <2>4. Told(StripCarriers(part(k))) = Told(part(k))
        BY <1>2, <2>3
    <2> HIDE DEF part
    <2>5. StripCarriers(part(k + 1)) = Append(StripCarriers(part(k)), bare)
        BY <2>1, StripOneMore
    <2>6. StripCarriers(part(k)) \in Seq(MessageType)
        BY <2>1, StripCarriersType
    <2> HIDE DEF m, bare
    <2>7. Told(StripCarriers(part(k + 1))) =
              SinceEntered(Told(StripCarriers(part(k))), bare)
        BY <2>2, <2>5, <2>6, OneMessage
    <2>8. Told(part(k + 1)) = SinceEntered(Told(part(k)), m)
        BY <2>1, OneMessage
    <2>9. QED
        BY <2>2, <2>4, <2>7, <2>8 DEF SinceEntered, bare
<1> HIDE DEF S
<1>3. \A k \in Nat : k \in S
    BY <1>1, <1>2, OnMessages!NatInd
<1>4. Len(s) \in S /\ Len(s) \in Nat
    BY <1>3
<1>5. SubSeq(s, 1, Len(s)) = s
    BY FirstOnes, <1>4
<1>6. Told(StripCarriers(part(Len(s)))) = Told(part(Len(s)))
    <2>1. Len(s) <= Len(s)
        BY <1>4
    <2> HIDE DEF part
    <2>2. QED
        BY <1>4, <2>1 DEF S
<1>7. QED
    BY <1>5, <1>6

(* A message at the end of the second half is one at the end. *)
LEMMA ConcatAppend ==
    ASSUME NEW a \in Seq(MessageType), NEW b \in Seq(MessageType), NEW m \in MessageType
    PROVE  a \o Append(b, m) = Append(a \o b, m) /\ a \o b \in Seq(MessageType)
<1>1. Append(b, m) = b \o <<m>> /\ <<m>> \in Seq(MessageType)
    BY AppendIsConcat
<1>2. a \o b \in Seq(MessageType)
    BY ConcatProperties
<1>3. Append(a \o b, m) = (a \o b) \o <<m>>
    BY <1>2, AppendIsConcat
<1>4. a \o (b \o <<m>>) = (a \o b) \o <<m>>
    BY <1>1, ConcatAssociative
<1>5. QED
    BY <1>1, <1>2, <1>3, <1>4

(* Messages of the run without carriers are told as they are. *)
LEMMA OwnMessagesAreTold ==
    ASSUME NEW s \in Seq(MessageType), Told(s) \in Seq(MessageType),
           NEW own \in Seq(MessageType),
           \A i \in 1..Len(own) : own[i].turn > 0 /\ own[i].carrier = NoCarrier
    PROVE  Told(s \o own) = Told(s) \o own
<1> DEFINE told == Told(s)
<1> DEFINE part(k) == SubSeq(own, 1, k)
           S == {k \in Nat : k <= Len(own) => Told(s \o part(k)) = told \o part(k)}
<1> HIDE DEF told
<1>0. told \in Seq(MessageType)
    BY DEF told
<1>1. 0 \in S
    <2>1. part(0) = <<>> /\ s \o <<>> = s /\ told \o <<>> = told
        BY <1>0
    <2>2. QED
        BY <2>1 DEF told
<1>2. ASSUME NEW k \in Nat, k \in S PROVE k + 1 \in S
    <2> SUFFICES ASSUME k + 1 <= Len(own)
                 PROVE  Told(s \o part(k + 1)) = told \o part(k + 1)
        OBVIOUS
    <2> DEFINE m == own[k + 1]
    <2>1. /\ part(k) \in Seq(MessageType) /\ m \in MessageType /\ part(k + 1) = Append(part(k), m)
        BY FirstOnes
    <2>2. m.turn > 0 /\ m.carrier = NoCarrier
        OBVIOUS
    <2>3. k <= Len(own)
        OBVIOUS
    <2>4. Told(s \o part(k)) = told \o part(k)
        BY <1>2, <2>3
    <2> HIDE DEF part
    <2>5. [m EXCEPT !.carrier = NoCarrier] = m
        BY <2>1, <2>2 DEF MessageType
    <2> HIDE DEF m
    <2>6. s \o part(k + 1) = Append(s \o part(k), m) /\ s \o part(k) \in Seq(MessageType)
        <3>1. s \o Append(part(k), m) = Append(s \o part(k), m) /\ s \o part(k) \in Seq(MessageType)
            BY <2>1, ConcatAppend
        <3>2. QED
            BY <2>1, <3>1
    <2>7. Told(s \o part(k + 1)) = SinceEntered(told \o part(k), m)
        BY <2>1, <2>4, <2>6, OneMessage
    <2>8. SinceEntered(told \o part(k), m) = Append(told \o part(k), m)
        BY <2>2, <2>5 DEF SinceEntered
    <2>9. Append(told \o part(k), m) = told \o part(k + 1)
        <3>1. told \o Append(part(k), m) = Append(told \o part(k), m)
            BY <1>0, <2>1, ConcatAppend
        <3>2. QED
            BY <2>1, <3>1
    <2>10. QED
        BY <2>7, <2>8, <2>9
<1> HIDE DEF S
<1>3. \A k \in Nat : k \in S
    BY <1>1, <1>2, OnMessages!NatInd
<1>4. Len(own) \in S /\ Len(own) \in Nat
    BY <1>3
<1>5. SubSeq(own, 1, Len(own)) = own
    BY FirstOnes, <1>4
<1>6. Told(s \o part(Len(own))) = told \o part(Len(own))
    <2>1. Len(own) <= Len(own)
        BY <1>4
    <2> HIDE DEF part
    <2>2. QED
        BY <1>4, <2>1 DEF S
<1>7. QED
    BY <1>5, <1>6 DEF told

(* What a new event, and a new message, of the turn in progress tell. *)
LEMMA EventTold ==
    ASSUME TypeOK, turn > 0, NEW e \in EventType, log' = Append(log, e)
    PROVE  Recorded' = Tell(Recorded, e)
BY OneEvent DEF TypeOK, Recorded, Retold

LEMMA MessageTold ==
    ASSUME TypeOK, NEW m \in MessageType, m.turn > 0, messages' = Append(messages, m)
    PROVE  Sent' = Append(Sent, [m EXCEPT !.carrier = NoCarrier])
<1>1. Sent' = SinceEntered(Sent, m)
    BY OneMessage DEF TypeOK, Sent, Told
<1>2. QED
    BY <1>1 DEF SinceEntered

(* A run opens with nothing told. *)
LEMMA TellInit == Init => TellInv
<1> SUFFICES ASSUME Init PROVE TellInv
    OBVIOUS
<1>1. messages \in OpeningHistories /\ pc = "head" /\ log = <<Event("run_start", 0, 0)>> /\ TypeOK
    BY TypeInit DEF Init, Enter, RunStart
<1>2. Recorded = <<>>
    <2> DEFINE e == Event("run_start", 0, 0)
    <2>1. e.type = "run_start" /\ e \in EventType
        BY DEF Event, EventType, Said, Silent, Carriers
    <2> HIDE DEF e
    <2>2. log = Append(<<>>, e) /\ <<>> \in Seq(EventType)
        BY <1>1 DEF e
    <2>3. Recorded = Tell(<<>>, e)
        BY <2>1, <2>2, OneEvent DEF Recorded, Retold
    <2>4. QED
        BY <2>1, <2>3 DEF Tell
<1>3. Sent = <<>>
    <2> DEFINE u == UserMessage(0)
               a == AssistantMessage(0, 0, Backend(0))
    <2>1. u.turn = 0 /\ a.turn = 0
        BY DEF UserMessage, AssistantMessage, Message
    <2>2. u \in MessageType /\ a \in MessageType
        <3>1. Backend(0) \in Carriers
            BY LoopAssumption, BackendType
        <3>2. QED
            BY <3>1 DEF UserMessage, AssistantMessage, Message, MessageType, Carriers
    <2>3. messages = <<u>> \/ messages = <<u, a, u>>
        BY <1>1 DEF OpeningHistories
    <2> HIDE DEF u, a
    <2>4. <<>> \in Seq(MessageType) /\ <<u>> \in Seq(MessageType) /\ <<u, a>> \in Seq(MessageType)
        BY <2>2
    <2>5. <<u>> = Append(<<>>, u) /\ <<u, a>> = Append(<<u>>, a) /\ <<u, a, u>> = Append(<<u, a>>, u)
        OBVIOUS
    <2>6. Told(<<u>>) = SinceEntered(Told(<<>>), u)
        BY <2>2, <2>4, <2>5, OneMessage
    <2>7. Told(<<u, a>>) = SinceEntered(Told(<<u>>), a)
        BY <2>2, <2>4, <2>5, OneMessage
    <2>8. Told(<<u, a, u>>) = SinceEntered(Told(<<u, a>>), u)
        BY <2>2, <2>4, <2>5, OneMessage
    <2>9. Told(<<u>>) = <<>> /\ Told(<<u, a>>) = <<>> /\ Told(<<u, a, u>>) = <<>>
        BY <2>1, <2>6, <2>7, <2>8, OneMessage DEF SinceEntered
    <2>10. Sent = Told(messages)
        BY DEF Sent, Told
    <2>11. QED
        BY <2>3, <2>9, <2>10
<1>4. QED
    BY <1>1, <1>2, <1>3 DEF TellInv

(* Each step keeps the log and the conversation together. *)
LEMMA TellNext ==
    ASSUME TypeOK, TypeOK', DispatchInv, AccountInv, TellInv, [Next]_vars
    PROVE  TellInv'
<1>0. /\ turn \in Nat /\ turnBase \in Nat /\ Numbered \in Nat /\ (turn > 0 => Numbered > 0)
      /\ reported \in Nat /\ Sent \in Seq(MessageType) /\ messages \in Seq(MessageType)
    BY DEF TypeOK, Numbered, TellInv
<1>s. ASSUME UNCHANGED <<log, messages, reported, outputs, failure, turnBase>>,
             \/ pc' \in {pc, "returned"} /\ (turn' = turn \/ pc # "dispatch")
             \/ pc = "head" /\ pc' = "asking"
      PROVE  TellInv'
    <2>1. Sent' = Sent /\ Recorded' = Recorded /\ (turn' = turn => Results' = Results)
        BY <1>s DEF Sent, Recorded, Results, Numbered
    <2>2. QED
        BY <1>s, <2>1 DEF TellInv
<1>1. CASE TurnsExhausted \/ ContextSeen \/ Ask \/ AskInterrupted \/ Accept \/ RejectLast
    BY <1>1, <1>s
    DEF TurnsExhausted, ContextSeen, Ask, AskInterrupted, Accept, RejectLast, Return, dispatchVars
<1>2. ASSUME NEW kind \in ErrorKinds, ChainExhausted(kind) PROVE TellInv'
    BY <1>2, <1>s DEF ChainExhausted, Return, dispatchVars
<1>3. CASE Rule \/ Start \/ ContextEnds
    BY <1>3, <1>s DEF Rule, Start, ContextEnds, dispatchVars
<1>4. ASSUME NEW i \in running, Finish(i) PROVE TellInv'
    BY <1>4, <1>s DEF Finish
<1>5. CASE UNCHANGED vars
    BY <1>5, <1>s DEF vars, dispatchVars
<1>6. CASE SwitchBackend
    <2>1. /\ pc = "asking" /\ pc' = "head" /\ log' = Append(log, Event("provider_fallback", Numbered, active + 1))
          /\ messages' \in {messages, StripCarriers(messages)} /\ active + 1 \in Nat
        BY <1>6 DEF SwitchBackend, MaySwitch, Log, TypeOK
    <2>2. /\ Event("provider_fallback", Numbered, active + 1) \in EventType
          /\ Event("provider_fallback", Numbered, active + 1).type = "provider_fallback"
        BY <1>0, <2>1 DEF Event, EventType, Said, Silent, Carriers
    <2>3. Recorded' = Recorded
        <3>1. Recorded' = Tell(Recorded, Event("provider_fallback", Numbered, active + 1))
            BY <2>1, <2>2, EventTold DEF AccountInv
        <3>2. QED
            BY <2>2, <3>1 DEF Tell
    <2>4. Sent' = Sent
        BY <1>0, <2>1, StrippedTellsTheSame DEF Sent, Told
    <2>5. QED
        BY <2>1, <2>3, <2>4 DEF TellInv
<1>7. ASSUME NEW r \in Responses, Respond(r) PROVE TellInv'
    <2>1. /\ pc = "asking" /\ pc' \in {"returned", "dispatch", "judge"} /\ turn > 0
          /\ reported' = 0 /\ outputs' = <<>> /\ turn' = turn /\ turnBase' = turnBase
        BY <1>7 DEF Respond, Return, AccountInv
    <2> DEFINE n == Len(r.calls)
               carrier == IF r.reasoning THEN Backend(active) ELSE NoCarrier
               said == [text |-> ~r.empty, carrier |-> carrier]
               e == Answer(Numbered, n, said)
               m == AssistantMessage(Numbered, n, carrier)
    <2>2. /\ log' = Append(log, e)
          /\ \/ messages' = messages /\ pc' = "returned"
             \/ messages' = Append(messages, m)
        BY <1>7 DEF Respond, Return
    <2>3. n \in Nat /\ carrier \in Carriers /\ r.empty \in BOOLEAN
        <3>1. r.calls \in Seq(Call) /\ r.empty \in BOOLEAN
            BY LoopAssumption DEF Response
        <3>2. Backend(active) \in Carriers
            BY BackendType DEF TypeOK
        <3>3. NoCarrier \in Carriers
            BY DEF Carriers
        <3>4. QED
            BY <3>1, <3>2, <3>3
    <2> HIDE DEF n, carrier
    <2>4. e \in EventType /\ e.type = "llm_response" /\ e.turn = Numbered /\ e.n = n
        <3>1. said \in Said
            BY <2>3 DEF Said
        <3> HIDE DEF said
        <3>2. e = [type |-> "llm_response", turn |-> Numbered, n |-> n, said |-> said]
            BY DEF Answer, Event
        <3>3. QED
            BY <1>0, <2>3, <3>1, <3>2 DEF EventType
    <2>5. /\ m \in MessageType /\ m.turn > 0
          /\ [m EXCEPT !.carrier = NoCarrier] = AssistantMessage(Numbered, n, NoCarrier)
        <3>1. m = [role |-> "assistant", turn |-> Numbered, n |-> n, of |-> 0, carrier |-> carrier]
            BY DEF AssistantMessage, Message
        <3>2. AssistantMessage(Numbered, n, NoCarrier) =
                  [role |-> "assistant", turn |-> Numbered, n |-> n, of |-> 0, carrier |-> NoCarrier]
            BY DEF AssistantMessage, Message
        <3> HIDE DEF m
        <3>3. m.turn > 0 /\ [m EXCEPT !.carrier = NoCarrier] = AssistantMessage(Numbered, n, NoCarrier)
            BY <1>0, <2>1, <3>1, <3>2
        <3>4. Numbered \in Nat /\ n \in Nat /\ 0 \in Nat /\ carrier \in Carriers
            BY <1>0, <2>3
        <3>5. m \in MessageType
            BY <3>1, <3>4 DEF MessageType
        <3>6. QED
            BY <3>3, <3>5
    <2> HIDE DEF e, m
    <2>6. Recorded' = Append(Recorded, AssistantMessage(Numbered, n, NoCarrier))
        <3>1. Recorded' = Tell(Recorded, e)
            BY <2>1, <2>2, <2>4, EventTold
        <3>2. QED
            BY <2>4, <3>1 DEF Tell
    <2>7. CASE messages' = messages /\ pc' = "returned"
        BY <2>7 DEF TellInv, Sent
    <2>8. CASE messages' = Append(messages, m)
        <3>1. Sent' = Append(Sent, AssistantMessage(Numbered, n, NoCarrier))
            BY <2>5, <2>8, MessageTold
        <3>2. AssistantMessage(Numbered, n, NoCarrier) \in MessageType
            BY <1>0, <2>3 DEF AssistantMessage, Message, MessageType, Carriers
        <3>3. Sent' \in Seq(MessageType) /\ Recorded' = Sent'
            BY <1>0, <2>1, <2>6, <3>1, <3>2 DEF TellInv
        <3>4. Results' = <<>> /\ outputs' = [i \in 1..reported' |-> i]
            BY <2>1 DEF Results
        <3>5. Sent' \o <<>> = Sent'
            BY <3>3
        <3>6. QED
            BY <2>1, <3>3, <3>4, <3>5 DEF TellInv
    <2>9. QED
        BY <2>2, <2>7, <2>8
<1>8. CASE Reject
    <2> DEFINE e == Event("validator_feedback", Numbered, 0)
               m == UserMessage(Numbered)
    <2>1. /\ pc = "judge" /\ pc' = "head" /\ log' = Append(log, e) /\ messages' = Append(messages, m) /\ turn > 0
        BY <1>8 DEF Reject, Log, AccountInv
    <2>2. e \in EventType /\ e.type = "validator_feedback" /\ e.turn = Numbered
        BY <1>0 DEF Event, EventType, Said, Silent, Carriers
    <2>3. m \in MessageType /\ m.turn > 0 /\ [m EXCEPT !.carrier = NoCarrier] = m
        BY <1>0, <2>1 DEF UserMessage, Message, MessageType, Carriers
    <2> HIDE DEF e
    <2>4. Recorded' = Append(Recorded, m)
        <3>1. Recorded' = Tell(Recorded, e)
            BY <2>1, <2>2, EventTold
        <3>2. QED
            BY <2>2, <3>1 DEF Tell
    <2> HIDE DEF m
    <2>5. Sent' = Append(Sent, m)
        BY <2>1, <2>3, MessageTold
    <2>6. Sent' \in Seq(MessageType)
        BY <1>0, <2>3, <2>5
    <2>7. QED
        BY <2>1, <2>4, <2>5, <2>6 DEF TellInv
<1>9. CASE Announce
    <2> DEFINE e == Event("tool_call", Numbered, announced + 1)
    <2>1. /\ pc = "dispatch" /\ pc' = pc /\ log' = Append(log, e) /\ turn > 0
          /\ UNCHANGED <<turn, turnBase, messages, outputs, reported, failure>>
        BY <1>9 DEF Announce, Log, AccountInv
    <2>2. e \in EventType /\ e.type = "tool_call"
        BY <1>0 DEF Event, EventType, Said, Silent, Carriers, TypeOK
    <2> HIDE DEF e
    <2>3. Recorded' = Recorded
        <3>1. Recorded' = Tell(Recorded, e)
            BY <2>1, <2>2, EventTold
        <3>2. QED
            BY <2>2, <3>1 DEF Tell
    <2>4. Sent' = Sent /\ Results' = Results
        BY <2>1 DEF Sent, Results, Numbered
    <2>5. QED
        BY <2>1, <2>3, <2>4 DEF TellInv
<1>10. CASE Publish
    <2> DEFINE i == reported + 1
               e == Event("tool_result", Numbered, i)
               m == ToolMessage(Numbered, i, i)
    <2>1. /\ pc = "dispatch" /\ pc' = pc /\ log' = Append(log, e) /\ turn > 0 /\ reported' = i
          /\ UNCHANGED <<turn, turnBase, messages>>
        BY <1>10 DEF Publish, Log, AccountInv
    <2>2. e \in EventType /\ e.type = "tool_result" /\ e.turn = Numbered /\ e.n = i
        BY <1>0 DEF Event, EventType, Said, Silent, Carriers
    <2>3. m \in MessageType
        BY <1>0 DEF ToolMessage, Message, MessageType, Carriers
    <2> HIDE DEF e, m
    <2>4. Recorded' = Append(Recorded, m)
        <3>1. Recorded' = Tell(Recorded, e)
            BY <2>1, <2>2, EventTold
        <3>2. QED
            BY <2>2, <3>1 DEF Tell, m
    <2>5. Sent' = Sent
        BY <2>1 DEF Sent
    <2>6. CASE failure' # "none"
        BY <1>0, <2>1, <2>5, <2>6 DEF TellInv
    <2>7. CASE failure' = "none"
        <3>1. failure = "none" /\ outputs' = Append(outputs, i)
            BY <1>10, <2>7 DEF Publish, FailureOf
        <3>2. outputs = [j \in 1..reported |-> j] /\ Recorded = Sent \o Results
            BY <2>1, <3>1 DEF TellInv
        <3>3. outputs' = [j \in 1..i |-> j]
            BY <1>0, <3>1, <3>2
        <3>4. Results \in Seq(MessageType) /\ Results' = Append(Results, m)
            <4>1. \A j \in 1..reported : ToolMessage(Numbered, j, j) \in MessageType
                BY <1>0 DEF ToolMessage, Message, MessageType, Carriers
            <4>2. Results \in Seq(MessageType) /\ Len(Results) = reported
                BY <1>0, <4>1 DEF Results
            <4>3. Results' = [j \in 1..i |-> ToolMessage(Numbered, j, j)]
                BY <2>1 DEF Results, Numbered
            <4>4. Append(Results, m) = [j \in 1..i |-> IF j = i THEN m ELSE Results[j]]
                <5>1. Results = [j \in 1..reported |-> ToolMessage(Numbered, j, j)]
                    BY DEF Results
                <5>2. QED
                    BY <1>0, <4>2, <5>1
            <4>5. \A j \in 1..i : ToolMessage(Numbered, j, j) = IF j = i THEN m ELSE Results[j]
                BY <1>0 DEF m, Results
            <4>6. QED
                BY <4>2, <4>3, <4>4, <4>5
        <3>5. Recorded' = Sent \o Append(Results, m)
            BY <1>0, <2>3, <2>4, <3>2, <3>4, ConcatAppend
        <3>6. QED
            BY <1>0, <2>1, <2>5, <3>3, <3>4, <3>5 DEF TellInv
    <2>8. QED
        BY <2>6, <2>7
<1>11. CASE EndDispatch
    <2>1. /\ pc = "dispatch" /\ messages' = messages \o ToolAnswers /\ log' = log /\ turn > 0
          /\ pc' = IF failure = "none" THEN "head" ELSE "returned"
        BY <1>11 DEF EndDispatch, Return, AccountInv
    <2>2. /\ ToolAnswers \in Seq(MessageType)
          /\ \A i \in 1..Len(ToolAnswers) : ToolAnswers[i].turn > 0 /\ ToolAnswers[i].carrier = NoCarrier
        <3>0. outputs \in Seq(Nat)
            BY DEF TypeOK
        <3>1. Len(outputs) \in Nat /\ \A i \in 1..Len(outputs) : outputs[i] \in Nat
            BY <3>0
        <3>2. \A i \in 1..Len(outputs) : /\ ToolMessage(Numbered, i, outputs[i]) \in MessageType
                                         /\ ToolMessage(Numbered, i, outputs[i]).turn > 0
                                         /\ ToolMessage(Numbered, i, outputs[i]).carrier = NoCarrier
            BY <1>0, <2>1, <3>1 DEF ToolMessage, Message, MessageType, Carriers
        <3>3. QED
            BY <3>1, <3>2 DEF ToolAnswers
    <2>3. Told(messages) = Sent /\ Told(messages') = Sent'
        BY DEF Told, Sent
    <2>4. Sent' = Sent \o ToolAnswers
        BY <1>0, <2>1, <2>2, <2>3, OwnMessagesAreTold
    <2>5. Sent' \in Seq(MessageType)
        BY <1>0, <2>2, <2>4, ConcatProperties
    <2>6. failure = "none" => ToolAnswers = Results
        <3> SUFFICES ASSUME failure = "none" PROVE ToolAnswers = Results
            OBVIOUS
        <3>1. outputs = [j \in 1..reported |-> j]
            BY <2>1 DEF TellInv
        <3>2. Len(outputs) = reported /\ \A j \in 1..reported : outputs[j] = j
            BY <1>0, <3>1
        <3>3. QED
            BY <3>2 DEF ToolAnswers, Results
    <2>7. Recorded' = Recorded
        BY <2>1 DEF Recorded
    <2>8. QED
        BY <2>1, <2>4, <2>5, <2>6, <2>7 DEF TellInv
<1>12. QED
    BY <1>1, <1>2, <1>3, <1>4, <1>5, <1>6, <1>7, <1>8, <1>9, <1>10, <1>11
    DEF Next, LoopStep, Returned

(* What --resume reads back from the log is what the model was sent, for    *)
(* every chain, any limits and any answers (session.LLMResponse and its     *)
(* fellows, loop.go).                                                       *)
THEOREM LogTells == Spec => []LogTellsTheConversation
<1>1. TellInv => LogTellsTheConversation
    BY DEF TellInv, LogTellsTheConversation, Sent, Recorded
<1>2. TypeOK /\ DispatchInv /\ AccountInv /\ TellInv /\ TypeOK' /\ [Next]_vars => TellInv'
    BY TellNext
<1>3. TypeOK /\ DispatchInv /\ AccountInv /\ TypeOK' /\ [Next]_vars => AccountInv'
    BY AccountNext
<1>4. QED
    BY <1>1, <1>2, <1>3, TypeCorrect, DispatchCorrect, AccountInit, TellInit, PTL DEF Spec
-----------------------------------------------------------------------------
(* The chat session.  A loop that answered has nothing in progress, and     *)
(* every attempt of it is in the log.                                       *)
SuccessInv ==
    outcome = "success" =>
        /\ pc = "returned" /\ calls = <<>> /\ failure = "none"
        /\ turn = Count("llm_response") + fallbacks

LoopInv == TypeOK /\ DispatchInv /\ LogInv /\ BudgetInv /\ AccountInv /\ SuccessInv

SessionType ==
    /\ phase \in {"prompt", "exchange", "done"}
    /\ history \in Seq(MessageType)
    /\ total \in [turns : Nat, toolCalls : Nat, tokens : Nat, fallbacks : Nat]
    /\ charged \in Nat

(* During an exchange the session is where its totals put it, plus what the *)
(* exchange has done so far.                                                *)
Ahead(type) == CountAll(type) - Count(type)

TotalsFollow ==
    /\ turnBase = total.turns
    /\ limits.tokens = TokensLeft /\ (MaxTokens > 0 => limits.tokens > 0)
    /\ Ahead("tool_result") = total.toolCalls
    /\ Ahead("provider_fallback") = total.fallbacks
    /\ Ahead("llm_response") + total.fallbacks = total.turns
    /\ active = total.fallbacks + fallbacks

(* At the prompt it is exactly where its totals put it. *)
AtRest ==
    /\ calls = <<>> /\ failure = "none" /\ pc \in {"head", "returned"}
    /\ total.turns = Numbered
    /\ CountAll("tool_result") = total.toolCalls
    /\ CountAll("provider_fallback") = total.fallbacks
    /\ CountAll("llm_response") + total.fallbacks = total.turns
    /\ active = total.fallbacks

ChatInv ==
    /\ SessionType
    /\ total.tokens < MaxInt => charged = total.tokens
    /\ phase # "done" => LoopInv
    /\ phase = "exchange" => TotalsFollow
    /\ phase = "prompt" => AtRest
    /\ TotalsMatchLog

(* An event counts once in the whole log, for its own type. *)
LEMMA CountAllAppend ==
    ASSUME TypeOK, NEW e, log' = Append(log, e), NEW type
    PROVE  /\ CountAll(type) \in Nat
           /\ CountAll(type)' = CountAll(type) + (IF e.type = type THEN 1 ELSE 0)
<1> DEFINE n == Len(log)
           old == {i \in DOMAIN log : log[i].type = type}
           new == {i \in DOMAIN log' : log'[i].type = type}
<1>1. /\ n \in Nat /\ DOMAIN log = 1..n /\ DOMAIN log' = 1..n + 1
      /\ log'[n + 1] = e /\ \A i \in 1..n : log'[i] = log[i]
    BY DEF TypeOK
<1>2. old \in SUBSET (1..n)
    BY <1>1
<1>3. Cardinality(old) \in Nat /\ Cardinality(old \cup {n + 1}) = Cardinality(old) + 1
  <2> HIDE DEF n, old
  <2> QED
      BY <1>1, <1>2, OneMore
<1>4. e.type = type => new = old \cup {n + 1}
    BY <1>1
<1>5. e.type # type => new = old
    BY <1>1
<1>6. CountAll(type) = Cardinality(old) /\ CountAll(type)' = Cardinality(new)
    BY DEF CountAll
<1>7. CASE e.type = type
  <2> HIDE DEF n, old, new
  <2> QED
      BY <1>3, <1>4, <1>6, <1>7
<1>8. CASE e.type # type
  <2>1. Cardinality(new) = Cardinality(old)
      BY <1>5, <1>8
  <2> HIDE DEF n, old, new
  <2> QED
      BY <1>3, <1>6, <1>8, <2>1
<1> QED
    BY <1>7, <1>8

(* What the whole log counts of a type is a number. *)
LEMMA CountAllType ==
    ASSUME TypeOK, NEW type
    PROVE  CountAll(type) \in Nat
<1>1. DOMAIN log = 1..Len(log) /\ Len(log) \in Nat
    BY DEF TypeOK
<1>2. {i \in DOMAIN log : log[i].type = type} \in SUBSET (1..Len(log))
    BY <1>1
<1> QED
    BY <1>1, <1>2, OneMore DEF CountAll

(* A step of the loop logs at most one event, of the turn in progress, and  *)
(* moves along the chain as often as it counts.                             *)
LEMMA LoopAppends ==
    ASSUME TypeOK, AccountInv, DispatchInv, [Next]_vars
    PROVE  /\ UNCHANGED <<turnBase, limits>>
           /\ active' - fallbacks' = active - fallbacks
           /\ \/ log' = log
              \/ turn > 0 /\ \E e : e.turn = Numbered /\ log' = Append(log, e)
<1>0. active \in Int /\ fallbacks \in Int /\ (pc \in {"asking", "judge", "dispatch"} => turn > 0)
    BY LoopAssumption DEF TypeOK, AccountInv
<1> DEFINE still == UNCHANGED <<turnBase, limits, active, fallbacks>>
<1>1. CASE TurnsExhausted \/ ContextSeen \/ Ask \/ AskInterrupted
    BY <1>1 DEF TurnsExhausted, ContextSeen, Ask, AskInterrupted, resultVars
<1>2. CASE SwitchBackend
  <2>1. /\ log' = Append(log, Event("provider_fallback", Numbered, active + 1))
        /\ pc = "asking" /\ active' = active + 1 /\ fallbacks' = fallbacks + 1
        /\ UNCHANGED <<turnBase, limits>>
      BY <1>2 DEF SwitchBackend, MaySwitch, Log
  <2>2. Event("provider_fallback", Numbered, active + 1).turn = Numbered
      BY DEF Event
  <2> QED
      BY <1>0, <2>1, <2>2
<1>3. ASSUME NEW kind \in ErrorKinds, ChainExhausted(kind)
      PROVE  still /\ log' = log
    BY <1>3 DEF ChainExhausted, resultVars
<1>4. ASSUME NEW r \in Responses, Respond(r)
      PROVE  still /\ turn > 0 /\ \E e : e.turn = Numbered /\ log' = Append(log, e)
  <2>1. still /\ pc = "asking" /\ \E said : log' = Append(log, Answer(Numbered, Len(r.calls), said))
      BY <1>4 DEF Respond
  <2>2. \A said : Answer(Numbered, Len(r.calls), said).turn = Numbered
      BY DEF Answer, Event
  <2> QED
      BY <1>0, <2>1, <2>2
<1>5. CASE Accept \/ RejectLast \/ EndDispatch \/ ContextEnds
    BY <1>5 DEF Accept, RejectLast, EndDispatch, ContextEnds, resultVars
<1>6. CASE Reject \/ Announce \/ Publish
  <2>1. still /\ pc \in {"judge", "dispatch"}
        /\ \E type, n : log' = Append(log, Event(type, Numbered, n))
      BY <1>6 DEF Reject, Announce, Publish, Log, resultVars
  <2>2. \A type, n : Event(type, Numbered, n).turn = Numbered
      BY DEF Event
  <2> QED
      BY <1>0, <2>1, <2>2
<1>7. CASE Rule \/ Start \/ UNCHANGED vars
    BY <1>7 DEF Rule, Start, resultVars, vars
<1>8. ASSUME NEW i \in running, Finish(i)
      PROVE  still /\ log' = log
    BY <1>8 DEF Finish, resultVars
<1> QED
    BY <1>1, <1>2, <1>3, <1>4, <1>5, <1>6, <1>7, <1>8 DEF Next, LoopStep, Returned

(* Only Accept reports success, and nothing moves after it. *)
LEMMA SuccessNext ==
    ASSUME TypeOK, DispatchInv, AccountInv, SuccessInv, [Next]_vars
    PROVE  SuccessInv'
<1>1. ASSUME outcome' # "success" \/ (UNCHANGED outcome /\ pc # "returned")
      PROVE  SuccessInv'
    BY <1>1 DEF SuccessInv
<1>2. CASE TurnsExhausted \/ ContextSeen \/ Ask \/ AskInterrupted \/ SwitchBackend
    BY <1>1, <1>2
       DEF TurnsExhausted, ContextSeen, Ask, AskInterrupted, SwitchBackend, MaySwitch, Return, ContextOutcome
<1>3. ASSUME NEW kind \in ErrorKinds, ChainExhausted(kind)
      PROVE  SuccessInv'
    BY <1>1, <1>3 DEF ChainExhausted, Return
<1>4. ASSUME NEW r \in Responses, Respond(r)
      PROVE  SuccessInv'
    BY <1>1, <1>4 DEF Respond, Return
<1>5. CASE Accept
  <2>1. /\ pc = "judge" /\ pc' = "returned"
        /\ UNCHANGED <<log, turnBase, turn, fallbacks, calls, failure>>
      BY <1>5 DEF Accept, Return, resultVars, dispatchVars
  <2>2. calls = <<>> /\ failure = "none" /\ turn = Count("llm_response") + fallbacks
      BY <2>1 DEF DispatchInv, TurnsAreComplete, AccountInv
  <2>3. Count("llm_response")' = Count("llm_response")
      BY <2>1 DEF Count
  <2> QED
      BY <2>1, <2>2, <2>3 DEF SuccessInv
<1>6. CASE RejectLast \/ Reject
    BY <1>1, <1>6 DEF RejectLast, Reject, Return
<1>7. CASE Announce \/ Rule \/ Start \/ Publish
    BY <1>1, <1>7 DEF Announce, Rule, Start, Publish
<1>8. CASE EndDispatch
    BY <1>1, <1>8 DEF EndDispatch, Return, TypeOK
<1>9. ASSUME NEW i \in running, Finish(i)
      PROVE  SuccessInv'
  <2>1. pc # "returned"
      BY <1>9 DEF DispatchInv, TurnsAreComplete
  <2> QED
      BY <1>1, <1>9, <2>1 DEF Finish
<1>10. CASE ContextEnds
    BY <1>1, <1>10 DEF ContextEnds
<1>11. CASE UNCHANGED vars
    BY <1>11 DEF SuccessInv, Count, vars, resultVars, dispatchVars
<1> QED
    BY <1>2, <1>3, <1>4, <1>5, <1>6, <1>7, <1>8, <1>9, <1>10, <1>11 DEF Next, LoopStep, Returned

(* What holds of the loop in a run holds of it in an exchange. *)
LEMMA LoopInvNext ==
    ASSUME LoopInv, [Next]_vars
    PROVE  LoopInv'
<1>1. TypeOK /\ DispatchInv /\ LogInv /\ BudgetInv /\ AccountInv /\ SuccessInv
    BY DEF LoopInv
<1>2. TypeOK'
    BY <1>1, TypeNext
<1>3. DispatchInv' /\ LogInv' /\ BudgetInv'
    BY <1>1, DispatchNext, LogNext, BudgetNext
<1>4. AccountInv'
    BY <1>1, <1>2, AccountNext
<1>5. SuccessInv'
    BY <1>1, SuccessNext
<1> QED
    BY <1>2, <1>3, <1>4, <1>5 DEF LoopInv

(* Between exchanges only the context changes. *)
LEMMA LoopInvRests ==
    ASSUME LoopInv,
           UNCHANGED <<limits, turnBase, active, pc, turn, rejections, messages, outcome, log,
                       resultVars, dispatchVars>>,
           ctx' \in {"live", "cancelled", "deadline"}
    PROVE  LoopInv'
<1>1. TypeOK /\ DispatchInv /\ LogInv /\ BudgetInv /\ AccountInv /\ SuccessInv
    BY DEF LoopInv
<1>2. TypeOK'
    BY <1>1 DEF TypeOK, resultVars, dispatchVars
<1>3. DispatchInv'
    BY <1>1, DispatchQuiet
<1>4. LogInv'
    BY <1>1 DEF LogInv, LastEvent, Numbered
<1>5. BudgetInv'
    BY <1>1 DEF BudgetInv, UsageTotal, resultVars
<1>6. AccountInv'
    BY <1>1, AccountStill DEF resultVars, dispatchVars
<1>7. SuccessInv'
    BY <1>1 DEF SuccessInv, Count, resultVars, dispatchVars
<1> QED
    BY <1>2, <1>3, <1>4, <1>5, <1>6, <1>7 DEF LoopInv

(* The loop is entered again with what is left of the session's budget, and *)
(* with nothing logged under its numbers.                                   *)
LEMMA LoopInvEnters ==
    ASSUME LoopInv, SessionType, AtRest, TakeLine
    PROVE  LoopInv' /\ \A type : Count(type)' = 0
<1>1. /\ limits' = [turns |-> TurnsLeft, tokens |-> TokensLeft] /\ turnBase' = total.turns
      /\ history' = Append(history, UserMessage(total.turns))
      /\ UNCHANGED <<active, ctx, log>>
      /\ ~BudgetIsSpent
    BY DEF TakeLine, LogOffset
<1>2. /\ pc' = "head" /\ turn' = 0 /\ rejections' = 0
      /\ messages' = history' /\ outcome' = "none"
      /\ usage' = NoUsage /\ spent' = NoUsage /\ toolCalls' = 0 /\ fallbacks' = 0
      /\ calls' = <<>> /\ announced' = 0 /\ ruled' = 0 /\ started' = 0 /\ running' = {}
      /\ reported' = 0 /\ published' = 0 /\ outputs' = <<>> /\ failure' = "none"
    BY DEF TakeLine, Reenter
<1>3. total.turns \in Nat /\ total.tokens \in Nat /\ MaxTurns \in Nat /\ MaxTokens \in Nat
    BY LoopAssumption DEF SessionType
<1>4. TurnsLeft \in Nat /\ TokensLeft \in Nat /\ (MaxTokens > 0 => TokensLeft > 0)
    BY <1>1, <1>3 DEF BudgetIsSpent, TurnsLeft, TokensLeft
<1>5. TypeOK'
  <2>1. UserMessage(total.turns) \in MessageType
      BY <1>3 DEF UserMessage, Message, MessageType, Carriers
  <2>2. messages' \in Seq(MessageType)
      BY <1>1, <1>2, <2>1 DEF SessionType
  <2>3. NoUsage \in Usage /\ NoUsage \in [in : Nat, out : Nat]
      BY LoopAssumption DEF NoUsage, Usage
  <2>4. active \in 0..Len(Chain) - 1 /\ ctx \in {"live", "cancelled", "deadline"} /\ log \in Seq(EventType)
      BY DEF LoopInv, TypeOK
  <2> QED
      BY <1>1, <1>2, <1>3, <1>4, <2>2, <2>3, <2>4 DEF TypeOK
<1>6. DispatchInv'
  <2>1. Cardinality(running') = 0
      BY <1>2, FS_EmptySet
  <2> QED
      BY <1>2, <2>1, LoopAssumption
         DEF DispatchInv, StagesInOrder, RunningIsOpen, TurnsAreComplete, Aborted
<1>7. Numbered' = Numbered /\ LastEvent' = LastEvent /\ Len(log') = Len(log)
    BY <1>1, <1>2, <1>3 DEF AtRest, Numbered, LastEvent
<1>8. LogInv'
  <2>1. turnBase' + limits'.turns = MaxTurns
      BY <1>1, <1>3 DEF TurnsLeft
  <2>2. LastEvent.turn <= Numbered /\ Len(log) >= 1
      BY DEF LoopInv, LogInv
  <2> QED
      BY <1>1, <1>2, <1>4, <1>7, <2>1, <2>2 DEF LogInv
<1>9. BudgetInv'
  <2>1. Cut(0) = 0 /\ SaturatingAdd(0, 0) = 0
      BY LoopAssumption DEF Cut, SaturatingAdd
  <2>2. usage'.in = 0 /\ usage'.out = 0 /\ spent'.in = 0 /\ spent'.out = 0
      BY <1>2 DEF NoUsage
  <2>3. UsageTotal(usage') = 0
      BY <2>1, <2>2 DEF UsageTotal
  <2>4. limits'.tokens = TokensLeft
      BY <1>1
  <2> QED
      BY <1>2, <1>4, <2>1, <2>2, <2>3, <2>4 DEF BudgetInv, UsageTotal
<1>10. \A i \in DOMAIN log : log[i].turn <= Numbered
    BY DEF LoopInv, AccountInv
<1>11. \A type : Count(type)' = 0
  <2>1. \A i \in DOMAIN log : log[i].turn \in Nat
    <3>1. \A i \in DOMAIN log : log[i] \in EventType
      <4>1. log \in Seq(EventType)
          BY DEF LoopInv, TypeOK
      <4> QED
          BY <4>1
    <3> QED
        BY <3>1 DEF EventType
  <2>2. \A i \in DOMAIN log' : ~(log'[i].turn > turnBase')
      BY <1>1, <1>3, <1>10, <2>1 DEF AtRest
  <2>3. \A type : {i \in DOMAIN log' : log'[i].type = type /\ log'[i].turn > turnBase'} = {}
      BY <2>2
  <2> QED
      BY <2>3, FS_EmptySet DEF Count
<1>12. AccountInv'
  <2>1. AbortingCalls' = 0
    <3>1. {i \in 1..reported' : failure' # "none" /\ calls'[i].ruling \in Aborting} = {}
        BY <1>2
    <3> QED
        BY <3>1, FS_EmptySet DEF AbortingCalls
  <2>2. \A i \in DOMAIN log' : log'[i].turn <= Numbered'
      BY <1>1, <1>7, <1>10
  <2>3. 1..reported' = {}
      BY <1>2
  <2> QED
      BY <1>2, <1>11, <2>1, <2>2, <2>3 DEF AccountInv
<1>13. SuccessInv'
    BY <1>2 DEF SuccessInv
<1> QED
    BY <1>5, <1>6, <1>8, <1>9, <1>11, <1>12, <1>13 DEF LoopInv

(* A session opens at its prompt, with nothing spent. *)
LEMMA ChatInvInit == ChatInit => ChatInv
<1> SUFFICES ASSUME ChatInit PROVE ChatInv
    OBVIOUS
<1> USE LoopAssumption
<1>1. /\ pc = "head" /\ turn = 0 /\ rejections = 0 /\ messages = <<>> /\ outcome = "none"
      /\ usage = NoUsage /\ spent = NoUsage /\ toolCalls = 0 /\ fallbacks = 0
      /\ calls = <<>> /\ announced = 0 /\ ruled = 0 /\ started = 0 /\ running = {}
      /\ reported = 0 /\ published = 0 /\ outputs = <<>> /\ failure = "none"
    BY DEF ChatInit, Enter
<1>2. /\ limits = [turns |-> MaxTurns, tokens |-> MaxTokens] /\ turnBase = 0
      /\ active = 0 /\ ctx = "live" /\ log = <<Event("run_start", 0, 0)>>
      /\ phase = "prompt" /\ history = <<>>
      /\ total = [turns |-> 0, toolCalls |-> 0, tokens |-> 0, fallbacks |-> 0] /\ charged = 0
    BY DEF ChatInit, RunStart
<1>3. /\ DOMAIN log = {1} /\ log[1].turn = 0 /\ log[1].type = "run_start" /\ Numbered = 0
      /\ Len(log) = 1 /\ LastEvent.turn = 0
    BY <1>1, <1>2 DEF Event, Numbered, LastEvent
<1>4. \A type : Count(type) = 0 /\ (type # "run_start" => CountAll(type) = 0)
  <2>1. \A type : {i \in DOMAIN log : log[i].type = type /\ log[i].turn > turnBase} = {}
      BY <1>2, <1>3
  <2>2. \A type : type # "run_start" => {i \in DOMAIN log : log[i].type = type} = {}
      BY <1>3
  <2> QED
      BY <2>1, <2>2, FS_EmptySet DEF Count, CountAll
<1>5. TypeOK
  <2>1. NoUsage \in Usage /\ NoUsage \in [in : Nat, out : Nat]
      BY DEF NoUsage, Usage
  <2>2. log \in Seq(EventType)
      BY <1>2 DEF Event, EventType, Said, Silent, Carriers
  <2> QED
      BY <1>1, <1>2, <2>1, <2>2 DEF TypeOK
<1>6. DispatchInv
  <2>1. Cardinality(running) = 0
      BY <1>1, FS_EmptySet
  <2> QED
      BY <1>1, <2>1 DEF DispatchInv, StagesInOrder, RunningIsOpen, TurnsAreComplete, Aborted
<1>7. LogInv
    BY <1>1, <1>2, <1>3 DEF LogInv
<1>8. BudgetInv
  <2>1. usage.in = 0 /\ usage.out = 0 /\ spent.in = 0 /\ spent.out = 0 /\ limits.tokens = MaxTokens
      BY <1>1, <1>2 DEF NoUsage
  <2> QED
      BY <1>1, <2>1 DEF BudgetInv, Cut, UsageTotal, SaturatingAdd
<1>9. AccountInv
  <2>1. AbortingCalls = 0
      BY <1>1, <1>5, AbortingType
  <2>2. \A i \in 1..reported : FALSE
      BY <1>1
  <2> QED
      BY <1>1, <1>3, <1>4, <2>1, <2>2 DEF AccountInv
<1>10. LoopInv
    BY <1>1, <1>5, <1>6, <1>7, <1>8, <1>9 DEF LoopInv, SuccessInv
<1>11. SessionType /\ AtRest
    BY <1>1, <1>2, <1>3, <1>4 DEF SessionType, AtRest
<1> QED
    BY <1>2, <1>10, <1>11 DEF ChatInv, TotalsMatchLog

(* What an exchange does to the counts it does to the whole log. *)
LEMMA AheadStays ==
    ASSUME LoopInv, [Next]_vars, NEW type
    PROVE  Ahead(type)' = Ahead(type)
<1>1. TypeOK /\ DispatchInv /\ AccountInv
    BY DEF LoopInv
<1>2. CASE log' = log
  <2>1. turnBase' = turnBase
      BY <1>1, LoopAppends
  <2> QED
      BY <1>2, <2>1 DEF Ahead, CountAll, Count
<1>3. CASE log' # log
  <2>1. PICK e : turn > 0 /\ e.turn = Numbered /\ log' = Append(log, e) /\ turnBase' = turnBase
      BY <1>1, <1>3, LoopAppends
  <2>2. e.turn > turnBase
      BY <1>1, <2>1 DEF Numbered, TypeOK
  <2>3. Count(type)' = Count(type) + (IF e.type = type THEN 1 ELSE 0) /\ Count(type) \in Nat
      BY <1>1, <2>1, <2>2, CountAppend, CountType
  <2>4. CountAll(type)' = CountAll(type) + (IF e.type = type THEN 1 ELSE 0) /\ CountAll(type) \in Nat
      BY <1>1, <2>1, CountAllAppend
  <2> QED
      BY <2>3, <2>4 DEF Ahead
<1> QED
    BY <1>2, <1>3

(* The end of the session leaves the counts of what its loop logged. *)
LEMMA EndCountsNothing ==
    ASSUME TypeOK, NEW code, EndSession(code), NEW type, type # "run_end"
    PROVE  phase' = "done" /\ CountAll(type)' = CountAll(type)
<1> DEFINE e == Event("run_end", total'.turns, 0)
<1>1. phase' = "done" /\ log' = Append(log, e)
    BY DEF EndSession
<1>2. e.type # type
    BY DEF Event
<1> HIDE DEF e
<1> QED
    BY <1>1, <1>2, CountAllAppend

(* An exchange that is over: what it adds to the totals. *)
LEMMA ExchangeCounts ==
    ASSUME LoopInv, SessionType, TotalsFollow, EndExchange,
           total.tokens < MaxInt => charged = total.tokens
    PROVE  /\ SessionType' /\ AbortingCalls \in Nat
           /\ total'.tokens < MaxInt => charged' = total'.tokens
           /\ total'.turns = Numbered
           /\ total'.toolCalls = CountAll("tool_result") - AbortingCalls
           /\ total'.fallbacks = CountAll("provider_fallback") /\ total'.fallbacks = active
           /\ total'.turns - CountAll("llm_response") - total'.fallbacks \in 0..1
           /\ outcome = "success" =>
                 /\ AbortingCalls = 0 /\ calls = <<>> /\ failure = "none"
                 /\ CountAll("llm_response") + total'.fallbacks = total'.turns
<1>1. /\ pc = "returned" /\ phase = "exchange"
      /\ total' = [turns     |-> total.turns + turn,
                   toolCalls |-> total.toolCalls + toolCalls,
                   tokens    |-> total.tokens + UsageTotal(usage),
                   fallbacks |-> total.fallbacks + fallbacks]
      /\ charged' = charged + spent.in + spent.out
    BY DEF EndExchange, Counted
<1>2. TypeOK /\ LogInv /\ BudgetInv /\ AccountInv /\ SuccessInv
    BY DEF LoopInv
<1>3. /\ AbortingCalls \in Nat /\ (failure = "none" => AbortingCalls = 0)
      /\ \A type : Count(type) \in Nat /\ CountAll(type) \in Nat
    BY <1>2, AbortingType, CountType, CountAllType
<1>4. /\ total.turns \in Nat /\ total.toolCalls \in Nat /\ total.tokens \in Nat /\ total.fallbacks \in Nat
      /\ charged \in Nat
    BY DEF SessionType
<1>5. turn \in Nat /\ toolCalls \in Nat /\ fallbacks \in Nat /\ spent.in \in Nat /\ spent.out \in Nat
      /\ usage.in \in 0..MaxInt /\ usage.out \in 0..MaxInt
    BY <1>2 DEF TypeOK, Usage
<1>6. UsageTotal(usage) \in 0..MaxInt
    BY <1>5, SaturatingAddType DEF UsageTotal
<1>7. total'.tokens < MaxInt => charged' = total'.tokens
  <2> SUFFICES ASSUME total.tokens + UsageTotal(usage) < MaxInt
               PROVE  charged + spent.in + spent.out = total.tokens + UsageTotal(usage)
      BY <1>1
  <2>1. total.tokens < MaxInt /\ UsageTotal(usage) < MaxInt
      BY <1>4, <1>6, LoopAssumption
  <2>2. UsageTotal(usage) = usage.in + usage.out
      BY <1>5, <2>1, LoopAssumption DEF UsageTotal, SaturatingAdd
  <2>3. usage.in = spent.in /\ usage.out = spent.out
      BY <1>2, <1>5, <2>1, <2>2, LoopAssumption DEF BudgetInv, Cut
  <2> QED
      BY <1>4, <1>5, <2>1, <2>2, <2>3
<1>8. SessionType'
  <2>1. history' \in Seq(MessageType)
    <3>1. AssistantMessage(Numbered, 0, NoCarrier) \in MessageType
        BY <1>2 DEF AssistantMessage, Message, MessageType, Numbered, Carriers, TypeOK
    <3>2. history' = history \/ history' = Append(history, AssistantMessage(Numbered, 0, NoCarrier))
        BY DEF EndExchange, RememberAnswer
    <3> QED
        BY <3>1, <3>2 DEF SessionType
  <2>2. phase' \in {"prompt", "exchange", "done"}
      BY DEF EndExchange, EndSession
  <2>3. charged' \in Nat /\ total' \in [turns : Nat, toolCalls : Nat, tokens : Nat, fallbacks : Nat]
      BY <1>1, <1>4, <1>5, <1>6
  <2> QED
      BY <2>1, <2>2, <2>3 DEF SessionType
<1>9. total'.turns = Numbered
    BY <1>1 DEF TotalsFollow, Numbered
<1>10. total'.toolCalls = CountAll("tool_result") - AbortingCalls
  <2>1. toolCalls = Count("tool_result") - AbortingCalls
      BY <1>1, <1>2 DEF AccountInv
  <2>2. CountAll("tool_result") - Count("tool_result") = total.toolCalls
      BY DEF TotalsFollow, Ahead
  <2> QED
      BY <1>1, <1>3, <1>4, <1>5, <2>1, <2>2
<1>11. total'.fallbacks = CountAll("provider_fallback") /\ total'.fallbacks = active
  <2>1. fallbacks = Count("provider_fallback")
      BY <1>2 DEF AccountInv
  <2>2. CountAll("provider_fallback") - Count("provider_fallback") = total.fallbacks
        /\ active = total.fallbacks + fallbacks
      BY DEF TotalsFollow, Ahead
  <2> QED
      BY <1>1, <1>3, <1>4, <2>1, <2>2
<1>12. total'.turns - CountAll("llm_response") - total'.fallbacks = turn - Count("llm_response") - fallbacks
  <2>1. CountAll("llm_response") - Count("llm_response") + total.fallbacks = total.turns
      BY DEF TotalsFollow, Ahead
  <2> QED
      BY <1>1, <1>3, <1>4, <1>5, <2>1
<1>13. turn - Count("llm_response") - fallbacks \in 0..1
    BY <1>1, <1>2 DEF AccountInv
<1>14. ASSUME outcome = "success"
       PROVE  /\ AbortingCalls = 0 /\ calls = <<>> /\ failure = "none"
              /\ CountAll("llm_response") + total'.fallbacks = total'.turns
  <2>1. calls = <<>> /\ failure = "none" /\ turn = Count("llm_response") + fallbacks
      BY <1>2, <1>14 DEF SuccessInv
  <2>2. total'.turns \in Nat /\ total'.fallbacks \in Nat
      BY <1>1, <1>4, <1>5
  <2>3. Count("llm_response") \in Nat /\ CountAll("llm_response") \in Nat
      BY <1>3
  <2>4. total'.turns - CountAll("llm_response") - total'.fallbacks = 0
      BY <1>5, <1>12, <2>1, <2>3
  <2>5. AbortingCalls = 0
      BY <1>3, <2>1
  <2> QED
      BY <2>1, <2>2, <2>3, <2>4, <2>5
<1> QED
    BY <1>3, <1>7, <1>8, <1>9, <1>10, <1>11, <1>12, <1>13, <1>14

(* The lines and ends of a session keep its invariant. *)
LEMMA ChatInvNext ==
    ASSUME ChatInv, [ChatNext]_sessionVars
    PROVE  ChatInv'
<1>1. /\ SessionType /\ (total.tokens < MaxInt => charged = total.tokens) /\ TotalsMatchLog
      /\ (phase # "done" => LoopInv) /\ (phase = "exchange" => TotalsFollow)
      /\ (phase = "prompt" => AtRest)
    BY DEF ChatInv
<1>2. CASE TakeLine
  <2>1. LoopInv /\ AtRest /\ phase' = "exchange"
      BY <1>1, <1>2 DEF TakeLine
  <2>2. LoopInv' /\ \A type : Count(type)' = 0
      BY <1>1, <1>2, <2>1, LoopInvEnters
  <2>3. /\ limits' = [turns |-> TurnsLeft, tokens |-> TokensLeft] /\ turnBase' = total.turns
        /\ history' = Append(history, UserMessage(total.turns))
        /\ fallbacks' = 0 /\ ~BudgetIsSpent
        /\ UNCHANGED <<active, log, total, charged>>
      BY <1>2 DEF TakeLine, LogOffset, Reenter
  <2>4. SessionType'
    <3>1. UserMessage(total.turns) \in MessageType
        BY <1>1 DEF SessionType, UserMessage, Message, MessageType, Carriers
    <3> QED
        BY <1>1, <2>1, <2>3, <3>1 DEF SessionType
  <2>5. \A type : CountAll(type) \in Nat /\ CountAll(type)' = CountAll(type)
    <3>1. TypeOK
        BY <2>1 DEF LoopInv
    <3>2. \A type : CountAll(type) \in Nat
        BY <3>1, CountAllType
    <3> QED
        BY <2>3, <3>2 DEF CountAll
  <2>6. /\ Ahead("tool_result")' = CountAll("tool_result")
        /\ Ahead("provider_fallback")' = CountAll("provider_fallback")
        /\ Ahead("llm_response")' = CountAll("llm_response")
      BY <2>2, <2>5 DEF Ahead
  <2>7. TokensLeft' = TokensLeft /\ (MaxTokens > 0 => TokensLeft > 0)
      BY <1>1, <2>3, LoopAssumption DEF TokensLeft, BudgetIsSpent, SessionType
  <2>8. total.fallbacks \in Nat
      BY <1>1 DEF SessionType
  <2>9. TotalsFollow'
      BY <2>1, <2>3, <2>6, <2>7, <2>8 DEF TotalsFollow, AtRest
  <2> QED
      BY <1>1, <2>1, <2>2, <2>3, <2>4, <2>9 DEF ChatInv, TotalsMatchLog
<1>3. CASE RefuseLine \/ EndOfInput \/ PromptInterrupted
  <2>1. /\ phase = "prompt"
        /\ total' = total /\ history' = history /\ charged' = charged
        /\ UNCHANGED <<active, reported, failure, calls>>
        /\ \E code : EndSession(code)
      BY <1>3 DEF RefuseLine, EndOfInput, PromptInterrupted, dispatchVars
  <2>2. LoopInv /\ AtRest
      BY <1>1, <2>1
  <2>3. TypeOK
      BY <2>2 DEF LoopInv
  <2>4. /\ phase' = "done" /\ CountAll("tool_result")' = CountAll("tool_result")
        /\ CountAll("provider_fallback")' = CountAll("provider_fallback")
        /\ CountAll("llm_response")' = CountAll("llm_response")
      BY <2>1, <2>3, EndCountsNothing
  <2>5. CountAll("tool_result") \in Nat /\ CountAll("llm_response") \in Nat
      BY <2>3, CountAllType
  <2>6. AbortingCalls = 0
      BY <2>2, <2>3, AbortingType DEF AtRest
  <2>7. AbortingCalls' = AbortingCalls
      BY <2>1 DEF AbortingCalls
  <2>8. total.turns \in Nat /\ total.fallbacks \in Nat
      BY <1>1 DEF SessionType
  <2>9. TotalsMatchLog'
      BY <2>1, <2>2, <2>4, <2>5, <2>6, <2>7, <2>8 DEF TotalsMatchLog, AtRest
  <2>10. SessionType'
      BY <1>1, <2>1, <2>4 DEF SessionType
  <2> QED
      BY <1>1, <2>1, <2>4, <2>9, <2>10 DEF ChatInv
<1>4. CASE Interrupt
  <2>1. /\ phase = "prompt"
        /\ UNCHANGED <<phase, history, total, charged, limits, turnBase, active, pc, turn,
                       rejections, messages, outcome, log, resultVars, dispatchVars>>
        /\ ctx' = "cancelled"
      BY <1>4 DEF Interrupt, chatVars
  <2>2. LoopInv'
      BY <1>1, <2>1, LoopInvRests
  <2>3. AtRest'
    <3>1. AtRest /\ UNCHANGED <<calls, failure, pc, total, turnBase, turn, log, active>>
        BY <1>1, <2>1 DEF dispatchVars
    <3> QED
        BY <3>1 DEF AtRest, Numbered, CountAll
  <2>4. SessionType'
      BY <1>1, <2>1 DEF SessionType
  <2> QED
      BY <1>1, <2>1, <2>2, <2>3, <2>4 DEF ChatInv, TotalsMatchLog
<1>5. CASE Exchange \/ Timeout
  <2>1. phase = "exchange" /\ UNCHANGED <<phase, history, total, charged>> /\ [Next]_vars
      BY <1>5 DEF Exchange, Timeout, Next, chatVars
  <2>2. LoopInv /\ TotalsFollow
      BY <1>1, <2>1
  <2>3. LoopInv'
      BY <2>1, <2>2, LoopInvNext
  <2>4. UNCHANGED <<turnBase, limits>> /\ active' - fallbacks' = active - fallbacks
    <3>1. TypeOK /\ AccountInv /\ DispatchInv
        BY <2>2 DEF LoopInv
    <3> QED
        BY <2>1, <3>1, LoopAppends
  <2>5. /\ Ahead("tool_result")' = Ahead("tool_result")
        /\ Ahead("provider_fallback")' = Ahead("provider_fallback")
        /\ Ahead("llm_response")' = Ahead("llm_response")
      BY <2>1, <2>2, AheadStays
  <2>6. /\ active \in Int /\ fallbacks \in Int /\ active' \in Int /\ fallbacks' \in Int
        /\ total.fallbacks \in Nat
      BY <1>1, <2>2, <2>3, LoopAssumption DEF LoopInv, TypeOK, SessionType
  <2>7. active' = total'.fallbacks + fallbacks'
      BY <2>1, <2>2, <2>4, <2>6 DEF TotalsFollow
  <2>8. TokensLeft' = TokensLeft
      BY <2>1 DEF TokensLeft
  <2>9. TotalsFollow'
      BY <2>1, <2>2, <2>4, <2>5, <2>7, <2>8 DEF TotalsFollow
  <2>10. SessionType'
      BY <1>1, <2>1 DEF SessionType
  <2> QED
      BY <1>1, <2>1, <2>3, <2>9, <2>10 DEF ChatInv, TotalsMatchLog
<1>6. CASE EndExchange
  <2>1. /\ phase = "exchange" /\ pc = "returned"
        /\ UNCHANGED <<limits, turnBase, active, pc, turn, rejections, messages, outcome,
                       resultVars, dispatchVars>>
        /\ ctx' = IF ctx = "deadline" THEN "live" ELSE ctx
      BY <1>6 DEF EndExchange
  <2>2. LoopInv /\ TotalsFollow
      BY <1>1, <2>1
  <2>3. /\ SessionType' /\ AbortingCalls \in Nat
        /\ total'.tokens < MaxInt => charged' = total'.tokens
        /\ total'.turns = Numbered
        /\ total'.toolCalls = CountAll("tool_result") - AbortingCalls
        /\ total'.fallbacks = CountAll("provider_fallback") /\ total'.fallbacks = active
        /\ total'.turns - CountAll("llm_response") - total'.fallbacks \in 0..1
        /\ outcome = "success" =>
              /\ AbortingCalls = 0 /\ calls = <<>> /\ failure = "none"
              /\ CountAll("llm_response") + total'.fallbacks = total'.turns
      BY <1>1, <1>6, <2>2, ExchangeCounts
  <2>4. ASSUME NEW code, EndSession(code)
        PROVE  ChatInv'
    <3>1. TypeOK
        BY <2>2 DEF LoopInv
    <3>2. /\ phase' = "done" /\ CountAll("tool_result")' = CountAll("tool_result")
          /\ CountAll("provider_fallback")' = CountAll("provider_fallback")
          /\ CountAll("llm_response")' = CountAll("llm_response")
        BY <2>4, <3>1, EndCountsNothing
    <3>3. UNCHANGED <<reported, failure, calls, active>>
        BY <2>1 DEF dispatchVars
    <3>4. AbortingCalls' = AbortingCalls
        BY <3>3 DEF AbortingCalls
    <3>5. TotalsMatchLog'
        BY <2>3, <3>2, <3>3, <3>4 DEF TotalsMatchLog
    <3> QED
        BY <2>3, <3>2, <3>5 DEF ChatInv
  <2>5. ASSUME outcome = "success", phase' = "prompt", UNCHANGED log
        PROVE  ChatInv'
    <3>1. ctx \in {"live", "cancelled", "deadline"}
        BY <2>2 DEF LoopInv, TypeOK
    <3>2. LoopInv'
        BY <2>1, <2>2, <2>5, <3>1, LoopInvRests
    <3>3. UNCHANGED <<calls, failure, pc, active, log, turnBase, turn>>
        BY <2>1, <2>5 DEF dispatchVars
    <3>4. CountAll("tool_result") \in Nat
      <4>1. TypeOK
          BY <2>2 DEF LoopInv
      <4> QED
          BY <4>1, CountAllType
    <3>5. /\ total'.toolCalls = CountAll("tool_result")
          /\ calls = <<>> /\ failure = "none"
          /\ CountAll("llm_response") + total'.fallbacks = total'.turns
        BY <2>3, <2>5, <3>4
    <3>6. /\ Numbered' = Numbered /\ CountAll("tool_result")' = CountAll("tool_result")
          /\ CountAll("provider_fallback")' = CountAll("provider_fallback")
          /\ CountAll("llm_response")' = CountAll("llm_response")
        BY <3>3 DEF Numbered, CountAll
    <3>7. AtRest'
        BY <2>1, <2>3, <3>3, <3>5, <3>6 DEF AtRest
    <3> QED
        BY <2>3, <2>5, <3>2, <3>7 DEF ChatInv, TotalsMatchLog
  <2>6. \/ \E code : EndSession(code)
        \/ outcome = "success" /\ phase' = "prompt" /\ UNCHANGED log
      BY <1>6 DEF EndExchange
  <2> QED
      BY <2>4, <2>5, <2>6
<1>7. CASE UNCHANGED sessionVars
  <2>1. UNCHANGED <<phase, history, total, charged, log, active, calls, failure, pc, reported,
                    turn, turnBase, limits, fallbacks>> /\ UNCHANGED vars
      BY <1>7 DEF sessionVars, chatVars, vars, resultVars, dispatchVars
  <2>2. phase # "done" => LoopInv'
      BY <1>1, <2>1, LoopInvNext
  <2>3. SessionType' /\ TotalsMatchLog'
      BY <1>1, <2>1 DEF SessionType, TotalsMatchLog, CountAll, AbortingCalls
  <2>4. (phase = "prompt" => AtRest') /\ (phase = "exchange" => TotalsFollow')
      BY <1>1, <2>1 DEF AtRest, TotalsFollow, CountAll, Count, Ahead, Numbered, TokensLeft
  <2> QED
      BY <1>1, <2>1, <2>2, <2>3, <2>4 DEF ChatInv
<1> QED
    BY <1>2, <1>3, <1>4, <1>5, <1>6, <1>7 DEF ChatNext, SessionOver

(* The session's invariant holds throughout, whatever is entered and        *)
(* whatever its exchanges come to.                                          *)
LEMMA ChatInvHolds == ChatSpec => []ChatInv
BY ChatInvInit, ChatInvNext, PTL DEF ChatSpec

(* No line of a chat buys a fresh budget: over all exchanges no request is  *)
(* in flight beyond the turns of the session or, by the tokens really       *)
(* reported, beyond its tokens (applyBudget, main.go).                      *)
THEOREM SessionBudgetKept == ChatSpec => []SessionWithinBudget
<1>1. ChatInv => SessionWithinBudget
  <2> SUFFICES ASSUME ChatInv, phase = "exchange", pc = "asking"
               PROVE  /\ total.turns + turn <= MaxTurns
                      /\ MaxTokens \in 1..MaxInt - 1 => charged + spent.in + spent.out <= MaxTokens
      BY DEF SessionWithinBudget
  <2>1. /\ TypeOK /\ LogInv /\ BudgetInv
        /\ turnBase = total.turns /\ limits.tokens = TokensLeft /\ (MaxTokens > 0 => limits.tokens > 0)
        /\ (total.tokens < MaxInt => charged = total.tokens)
      BY DEF ChatInv, LoopInv, TotalsFollow
  <2>2. total.turns \in Nat /\ total.tokens \in Nat /\ charged \in Nat
      BY DEF ChatInv, SessionType
  <2>3. limits.turns \in Nat /\ turn \in Nat /\ usage.in \in 0..MaxInt /\ usage.out \in 0..MaxInt
        /\ spent.in \in Nat /\ spent.out \in Nat
      BY <2>1 DEF TypeOK, Usage
  <2>4. total.turns + turn <= MaxTurns
      BY <2>1, <2>2, <2>3, LoopAssumption DEF LogInv
  <2>5. ASSUME MaxTokens \in 1..MaxInt - 1
        PROVE  charged + spent.in + spent.out <= MaxTokens
    <3>1. limits.tokens = MaxTokens - total.tokens /\ limits.tokens > 0
        BY <2>1, <2>5, LoopAssumption DEF TokensLeft
    <3>2. charged = total.tokens
        BY <2>1, <2>2, <2>5, <3>1, LoopAssumption
    <3>3. UsageTotal(usage) <= limits.tokens /\ limits.tokens < MaxInt
        BY <2>1, <2>2, <2>5, <3>1, LoopAssumption DEF BudgetInv
    <3>4. usage.in + usage.out <= limits.tokens
        BY <2>2, <2>3, <2>5, <3>1, <3>3, LoopAssumption DEF UsageTotal, SaturatingAdd
    <3>5. usage.in = spent.in /\ usage.out = spent.out
        BY <2>1, <2>2, <2>3, <2>5, <3>1, <3>3, <3>4, LoopAssumption DEF BudgetInv, Cut
    <3> QED
        BY <2>2, <2>3, <2>5, <3>1, <3>2, <3>4, <3>5, LoopAssumption
  <2> QED
      BY <2>4, <2>5
<1> QED
    BY <1>1, ChatInvHolds, PTL

(* What the session's summary and its one run_end report adds up to what    *)
(* the log shows of all its exchanges, the failed one included (finish).    *)
THEOREM SessionTotalsMatch == ChatSpec => []TotalsMatchLog
<1>1. ChatInv => TotalsMatchLog
    BY DEF ChatInv
<1> QED
    BY <1>1, ChatInvHolds, PTL

(* A session starts where the contract starts. *)
LEMMA SessionContractInit == ChatInit => Contract!Init
<1> SUFFICES ASSUME ChatInit PROVE Contract!Init
    OBVIOUS
<1>1. log = <<Event("run_start", 0, 0)>> /\ Len(calls) = 0 /\ announced = 0 /\ reported = 0
    BY DEF ChatInit, Enter, RunStart
<1>2. DOMAIN log = {1} /\ Outlined(log[1]) = Seen("run_start", 0, 0)
    BY <1>1 DEF Outlined, Seen, Event
<1>3. Outline = [i \in 1..1 |-> Seen("run_start", 0, 0)]
    BY <1>2 DEF Outline, Outlined, Seen
<1>4. Outline = <<Seen("run_start", 0, 0)>>
    BY <1>3
<1> QED
    BY <1>1, <1>4 DEF Contract!Init, Contract!Event, Seen

(* The end of a session is the contract's end of a run. *)
LEMMA SessionEndsRun ==
    ASSUME LoopInv, NEW code, EndSession(code), total'.turns = Numbered,
           UNCHANGED <<calls, announced, reported>>
    PROVE  Contract!Next
<1> DEFINE e == Event("run_end", Numbered, 0)
<1>1. TypeOK /\ LogInv
    BY DEF LoopInv
<1>2. log' = Append(log, e)
    BY DEF EndSession
<1>3. Outlined(e) = Seen("run_end", Numbered, 0)
    BY DEF Outlined, Seen, Event
<1> HIDE DEF e
<1>4. Outline' = Append(Outline, Seen("run_end", Numbered, 0))
    BY <1>1, <1>2, <1>3, Appends
<1>5. Contract!Last.turn = LastEvent.turn /\ Contract!Last.type # "run_end"
    BY <1>1, LastSeen, LastEventTurn DEF LogInv, Outlined, Seen
<1>6. Numbered \in 1..MaxTurns \cup {0} /\ Numbered >= LastEvent.turn
  <2>1. LastEvent.turn \in Nat
      BY <1>1, LastEventTurn
  <2>2. turn \in Nat /\ turnBase \in Nat /\ limits.turns \in Nat
      BY <1>1 DEF TypeOK
  <2> QED
      BY <1>1, <2>1, <2>2, LoopAssumption DEF LogInv, Numbered
<1> QED
    BY <1>4, <1>5, <1>6 DEF Contract!Next, Contract!RunEnd, Contract!Event, Seen

(* Each step of a session is a step of the contract, or no step of it: the  *)
(* turns of all exchanges are numbered as those of one run.                 *)
LEMMA SessionContractNext ==
    ASSUME ChatInv, [ChatNext]_sessionVars
    PROVE  [Contract!Next]_(Contract!vars)
<1>1. ASSUME UNCHANGED <<log, announced, reported>>, Len(calls') = Len(calls)
      PROVE  [Contract!Next]_(Contract!vars)
    BY <1>1 DEF Contract!vars, Outline
<1>2. CASE TakeLine
  <2>1. calls = <<>> /\ announced = 0 /\ reported = 0
    <3>1. calls = <<>> /\ TypeOK /\ DispatchInv
        BY <1>2 DEF TakeLine, ChatInv, AtRest, LoopInv
    <3> QED
        BY <3>1 DEF DispatchInv, StagesInOrder, TypeOK
  <2>2. calls' = <<>> /\ announced' = 0 /\ reported' = 0 /\ log' = log
      BY <1>2 DEF TakeLine, Reenter
  <2> QED
      BY <1>1, <2>1, <2>2
<1>3. CASE RefuseLine \/ EndOfInput \/ PromptInterrupted
  <2>1. /\ phase = "prompt" /\ total' = total /\ UNCHANGED <<calls, announced, reported>>
        /\ \E code : EndSession(code)
      BY <1>3 DEF RefuseLine, EndOfInput, PromptInterrupted, dispatchVars
  <2>2. LoopInv /\ total'.turns = Numbered
      BY <2>1 DEF ChatInv, AtRest
  <2> QED
      BY <2>1, <2>2, SessionEndsRun
<1>4. CASE Interrupt \/ UNCHANGED sessionVars
    BY <1>1, <1>4 DEF Interrupt, sessionVars, vars, dispatchVars
<1>5. CASE Exchange \/ Timeout
  <2>1. phase = "exchange" /\ [Next]_vars
      BY <1>5 DEF Exchange, Timeout, Next
  <2>2. TypeOK /\ DispatchInv /\ LogInv
      BY <2>1 DEF ChatInv, LoopInv
  <2> QED
      BY <2>1, <2>2, ContractNext
<1>6. CASE EndExchange
  <2>1. phase = "exchange" /\ UNCHANGED <<calls, announced, reported>>
      BY <1>6 DEF EndExchange, dispatchVars
  <2>2. LoopInv /\ total'.turns = Numbered
      BY <1>6, <2>1, ExchangeCounts DEF ChatInv
  <2>3. (\E code : EndSession(code)) \/ UNCHANGED log
      BY <1>6 DEF EndExchange
  <2> QED
      BY <1>1, <2>1, <2>2, <2>3, SessionEndsRun
<1> QED
    BY <1>2, <1>3, <1>4, <1>5, <1>6 DEF ChatNext, SessionOver

(* The log of a whole session keeps the ordering contract of one run        *)
(* (docs/contracts/jsonl-events.md; nextTurn's turn base, finish).          *)
THEOREM SessionLogContract == ChatSpec => KeepsLogContract
BY ChatInvHolds, SessionContractInit, SessionContractNext, PTL
   DEF ChatSpec, KeepsLogContract, Contract!Spec
-----------------------------------------------------------------------------
(* A set that holds the empty sequence and every extension of a member holds*)
(* every sequence.                                                          *)
LEMMA SeqInd ==
    ASSUME NEW S, NEW Good, <<>> \in Good, \A q \in Seq(S), c \in S : q \in Good => Append(q, c) \in Good
    PROVE  \A q \in Seq(S) : q \in Good
<1> DEFINE Lens == {n \in Nat : \A q \in Seq(S) : Len(q) = n => q \in Good}
<1>1. 0 \in Lens
    BY EmptySeq
<1>2. ASSUME NEW n \in Nat, n \in Lens PROVE n + 1 \in Lens
    <2>1. ASSUME NEW q \in Seq(S), Len(q) = n + 1 PROVE q \in Good
        <3>1. q # <<>>
            BY <2>1
        <3>2. PICK f \in Seq(S), c \in S : q = Append(f, c)
            BY <3>1, SequenceEmptyOrAppend
        <3>3. Len(q) = Len(f) + 1 /\ Len(f) \in Nat
            BY <3>2, AppendProperties, LenProperties
        <3>4. f \in Good
            BY <1>2, <2>1, <3>3
        <3>5. QED
            BY <3>2, <3>4
    <2>2. QED
        BY <2>1
<1>3. \A n \in Nat : n \in Lens
    <2> HIDE DEF Lens
    <2>1. QED
        BY <1>1, <1>2, OnMessages!NatInd
<1>4. QED
    BY <1>3, LenProperties

-----------------------------------------------------------------------------
(* The turns of a body, and the blocks they are made of. *)
BlockType == [kind : {"text", "use", "result"}, turn : Nat, of : Nat]
WireTurnType == [role : {"user", "assistant", "tool"}, blocks : Seq(BlockType), raw : BOOLEAN]
Bodies == Seq(WireTurnType)

(* The blocks that the wires write are blocks. *)
LEMMA BlockTypes ==
    ASSUME NEW t \in Nat, NEW k \in Nat
    PROVE  /\ Block("text", t, k) \in BlockType
           /\ Block("use", t, k) \in BlockType
           /\ Block("result", t, k) \in BlockType
BY DEF Block, BlockType

(* The fields of a block. *)
LEMMA BlockFields ==
    ASSUME NEW kind, NEW t, NEW k
    PROVE  /\ Block(kind, t, k).kind = kind /\ Block(kind, t, k).turn = t /\ Block(kind, t, k).of = k
BY DEF Block

(* The fields of a turn. *)
LEMMA TurnFields ==
    ASSUME NEW role, NEW blocks, NEW raw
    PROVE  /\ WireTurn(role, blocks, raw).role = role /\ WireTurn(role, blocks, raw).blocks = blocks
           /\ WireTurn(role, blocks, raw).raw = raw
BY DEF WireTurn

(* The turns that the wires write are turns. *)
LEMMA TurnType ==
    ASSUME NEW role \in {"user", "assistant", "tool"}, NEW blocks \in Seq(BlockType), NEW raw \in BOOLEAN
    PROVE  WireTurn(role, blocks, raw) \in WireTurnType
BY DEF WireTurn, WireTurnType

(* The blocks of a message (msgToBlocks of anthropic.go and its kin). *)
LEMMA MessageBlocks ==
    ASSUME NEW m \in MessageType
    PROVE  /\ Texts(m) \in Seq(BlockType) /\ Uses(m) \in Seq(BlockType)
           /\ AssistantBlocks(m) \in Seq(BlockType)
           /\ Block("result", m.turn, m.n) \in BlockType
<1>1. m.turn \in Nat /\ m.n \in Nat /\ 0 \in Nat
    BY DEF MessageType
<1>2. Block("text", m.turn, 0) \in BlockType
    BY <1>1, BlockTypes
<1>3. Texts(m) \in Seq(BlockType)
    BY <1>2 DEF Texts
<1>4. \A k \in 1..m.n : Block("use", m.turn, k) \in BlockType
    BY <1>1, BlockTypes
<1>5. Uses(m) \in Seq(BlockType)
    BY <1>1, <1>4 DEF Uses
<1>6. QED
    BY <1>1, <1>3, <1>5, BlockTypes DEF AssistantBlocks

(* The turns of a message on each wire. *)
LEMMA MessageTurns ==
    ASSUME NEW m \in MessageType
    PROVE  /\ AssistantTurn(m) \in WireTurnType
           /\ OpenAITurn(m) \in WireTurnType
           /\ m.role \in {"user", "assistant", "tool"}
           /\ WireTurn("user", Texts(m), FALSE) \in WireTurnType
<1>1. m.role \in {"user", "assistant", "tool"}
    BY DEF MessageType
<1>2. \A b \in BlockType : <<b>> \in Seq(BlockType)
    OBVIOUS
<1>3. <<Block("result", m.turn, m.n)>> \in Seq(BlockType)
    BY <1>2, MessageBlocks
<1>4. AssistantTurn(m) \in WireTurnType
  <2> DEFINE raw == m.carrier \in ArrayCarriers
  <2>1. raw \in BOOLEAN
      OBVIOUS
  <2>2. AssistantTurn(m) = WireTurn("assistant", AssistantBlocks(m), raw)
      BY DEF AssistantTurn
  <2> HIDE DEF raw
  <2>3. QED
      BY <2>1, <2>2, MessageBlocks, TurnType
<1>5. OpenAITurn(m) \in WireTurnType
    BY <1>1, <1>3, MessageBlocks, TurnType DEF OpenAITurn
<1>6. QED
    BY <1>1, <1>4, <1>5, MessageBlocks, TurnType

(* A result joins the turn of results before it, or opens one               *)
(* (appendToolResult).                                                      *)
LEMMA ResultAppendType ==
    ASSUME NEW out \in Bodies, NEW b \in BlockType
    PROVE  AppendResult(out, b) \in Bodies
<1>1. CASE out # <<>> /\ IsResultTurn(Last(out))
    <2>1. Len(out) \in 1..Len(out) /\ out[Len(out)] \in WireTurnType
        BY <1>1 DEF Bodies
    <2>2. [out[Len(out)] EXCEPT !.blocks = Append(@, b)] \in WireTurnType
        <3>1. ASSUME NEW t \in WireTurnType PROVE [t EXCEPT !.blocks = Append(@, b)] \in WireTurnType
            <4>1. t.blocks \in Seq(BlockType)
                BY DEF WireTurnType
            <4>2. Append(t.blocks, b) \in Seq(BlockType)
                BY <4>1
            <4>3. QED
                BY <4>2 DEF WireTurnType
        <3>2. QED
            BY <2>1, <3>1
    <2>3. AppendResult(out, b) = [out EXCEPT ![Len(out)] = [out[Len(out)] EXCEPT !.blocks = Append(@, b)]]
        BY <1>1 DEF AppendResult
    <2>4. QED
        BY <2>1, <2>2, <2>3 DEF Bodies
<1>2. CASE ~(out # <<>> /\ IsResultTurn(Last(out)))
    <2>1. <<b>> \in Seq(BlockType)
        OBVIOUS
    <2>2. WireTurn("user", <<b>>, FALSE) \in WireTurnType
        BY <2>1, TurnType
    <2>3. AppendResult(out, b) = Append(out, WireTurn("user", <<b>>, FALSE))
        BY <1>2 DEF AppendResult
    <2>4. \A t \in WireTurnType : Append(out, t) \in Bodies
        BY DEF Bodies
    <2>5. QED
        BY <2>2, <2>3, <2>4
<1>3. QED
    BY <1>1, <1>2

(* One message more leaves the anthropic body a body. *)
LEMMA AnthropicAppendType ==
    ASSUME NEW out \in Bodies, NEW m \in MessageType
    PROVE  AnthropicAppend(out, m) \in Bodies
<1>1. WireTurn(m.role, Texts(m), FALSE) \in WireTurnType
    BY MessageTurns, MessageBlocks, TurnType
<1>2. \A t \in WireTurnType : Append(out, t) \in Bodies
    BY DEF Bodies
<1>3. QED
    BY <1>1, <1>2, MessageTurns, MessageBlocks, ResultAppendType DEF AnthropicAppend
-----------------------------------------------------------------------------
OnAnthropic == INSTANCE FoldTheorems WITH Op <- AnthropicAppend
OnIds == INSTANCE FoldTheorems WITH Op <- GeminiById
OnOrder == INSTANCE FoldTheorems WITH Op <- GeminiInOrder
OnTexts == INSTANCE FoldTheorems WITH Op <- AddText
OnTurns == INSTANCE FoldTheorems WITH Op <- AddTexts

(* One message more on each wire. *)
LEMMA OneAnthropic ==
    /\ AnthropicWire(<<>>) = <<>>
    /\ \A s \in Seq(MessageType), m \in MessageType :
           AnthropicWire(Append(s, m)) = AnthropicAppend(AnthropicWire(s), m)
<1>1. \A s : AnthropicWire(s) = OnAnthropic!Fold(<<>>, s)
    BY DEF AnthropicWire, FoldLeft, OnAnthropic!Fold, MapThenFoldSet,
           OnAnthropic!MapThenFoldSet, Max, OnAnthropic!Largest
<1>2. QED
    BY <1>1, OnAnthropic!FoldEmpty, OnAnthropic!FoldAppend

(* ... on the gemini wire. *)
LEMMA OneGemini ==
    ASSUME NEW ids \in BOOLEAN
    PROVE  /\ GeminiBuilder(ids, <<>>) = Builder(<<>>, <<>>)
           /\ \A s \in Seq(MessageType), m \in MessageType :
                  GeminiBuilder(ids, Append(s, m)) = GeminiAppend(ids, GeminiBuilder(ids, s), m)
<1> DEFINE base == Builder(<<>>, <<>>)
<1>1. \A s : GeminiBuilder(TRUE, s) = OnIds!Fold(base, s)
    BY DEF GeminiBuilder, FoldLeft, OnIds!Fold, MapThenFoldSet,
           OnIds!MapThenFoldSet, Max, OnIds!Largest
<1>2. \A s : GeminiBuilder(FALSE, s) = OnOrder!Fold(base, s)
    BY DEF GeminiBuilder, FoldLeft, OnOrder!Fold, MapThenFoldSet,
           OnOrder!MapThenFoldSet, Max, OnOrder!Largest
<1> HIDE DEF base
<1>3. CASE ids = TRUE
    <2>1. GeminiBuilder(TRUE, <<>>) = base
        BY <1>1, OnIds!FoldEmpty
    <2>2. ASSUME NEW s \in Seq(MessageType), NEW m \in MessageType
          PROVE  GeminiBuilder(TRUE, Append(s, m)) = GeminiById(GeminiBuilder(TRUE, s), m)
        <3>1. OnIds!Fold(base, Append(s, m)) = GeminiById(OnIds!Fold(base, s), m)
            BY OnIds!FoldAppend
        <3>2. QED
            BY <1>1, <3>1
    <2>3. QED
        BY <1>3, <2>1, <2>2 DEF GeminiById, base
<1>4. CASE ids = FALSE
    <2>1. GeminiBuilder(FALSE, <<>>) = base
        BY <1>2, OnOrder!FoldEmpty
    <2>2. ASSUME NEW s \in Seq(MessageType), NEW m \in MessageType
          PROVE  GeminiBuilder(FALSE, Append(s, m)) = GeminiInOrder(GeminiBuilder(FALSE, s), m)
        <3>1. OnOrder!Fold(base, Append(s, m)) = GeminiInOrder(OnOrder!Fold(base, s), m)
            BY OnOrder!FoldAppend
        <3>2. QED
            BY <1>2, <3>1
    <2>3. QED
        BY <1>4, <2>1, <2>2 DEF GeminiInOrder, base
<1>5. QED
    BY <1>3, <1>4

(* The texts of one turn more. *)
LEMMA OneTurnOfTexts ==
    /\ TextsOf(<<>>) = <<>>
    /\ \A w \in Bodies, t \in WireTurnType : TextsOf(Append(w, t)) = AddTexts(TextsOf(w), t)
<1>1. \A w : TextsOf(w) = OnTurns!Fold(<<>>, w)
    BY DEF TextsOf, FoldLeft, OnTurns!Fold, MapThenFoldSet,
           OnTurns!MapThenFoldSet, Max, OnTurns!Largest
<1>2. QED
    BY <1>1, OnTurns!FoldEmpty, OnTurns!FoldAppend DEF Bodies

(* ... and of one block more. *)
LEMMA OneBlockOfTexts ==
    ASSUME NEW base
    PROVE  /\ FoldLeft(AddText, base, <<>>) = base
           /\ \A s \in Seq(BlockType), b \in BlockType :
                  FoldLeft(AddText, base, Append(s, b)) = AddText(FoldLeft(AddText, base, s), b)
<1>1. \A s : FoldLeft(AddText, base, s) = OnTexts!Fold(base, s)
    BY DEF FoldLeft, OnTexts!Fold, MapThenFoldSet,
           OnTexts!MapThenFoldSet, Max, OnTexts!Largest
<1>2. QED
    <2>1. ASSUME NEW s \in Seq(BlockType), NEW b \in BlockType
          PROVE  FoldLeft(AddText, base, Append(s, b)) = AddText(FoldLeft(AddText, base, s), b)
        <3>1. OnTexts!Fold(base, Append(s, b)) = AddText(OnTexts!Fold(base, s), b)
            BY OnTexts!FoldAppend
        <3>2. QED
            BY <1>1, <3>1
    <2>2. FoldLeft(AddText, base, <<>>) = base
        BY <1>1, OnTexts!FoldEmpty
    <2>3. QED
        BY <2>1, <2>2

(* One message more on the openai wire. *)
LEMMA OneOpenAI ==
    ASSUME NEW s \in Seq(MessageType), NEW m \in MessageType
    PROVE  /\ OpenAIWire(Append(s, m)) = Append(OpenAIWire(s), OpenAITurn(m))
           /\ OpenAIWire(s) \in Bodies /\ Len(OpenAIWire(s)) = Len(s)
<1> DEFINE n == Len(s)
<1>1. /\ n \in Nat /\ Len(Append(s, m)) = n + 1
      /\ Append(s, m)[n + 1] = m /\ \A i \in 1..n : Append(s, m)[i] = s[i] /\ s[i] \in MessageType
      /\ DOMAIN s = 1..n /\ DOMAIN Append(s, m) = 1..n + 1
    OBVIOUS
<1>2. OpenAIWire(s) = [i \in 1..n |-> OpenAITurn(s[i])]
    BY <1>1 DEF OpenAIWire
<1>3. OpenAIWire(Append(s, m)) = [i \in 1..n + 1 |-> OpenAITurn(Append(s, m)[i])]
    BY <1>1 DEF OpenAIWire
<1> HIDE DEF n
<1>4. \A i \in 1..n : OpenAITurn(s[i]) \in WireTurnType
    BY <1>1, MessageTurns
<1>5. Len([i \in 1..n |-> OpenAITurn(s[i])]) = n /\ OpenAIWire(s) \in Bodies
    BY <1>1, <1>2, <1>4 DEF Bodies
<1>6. Append([i \in 1..n |-> OpenAITurn(s[i])], OpenAITurn(m)) =
          [i \in 1..n + 1 |-> IF i = n + 1 THEN OpenAITurn(m) ELSE OpenAITurn(s[i])]
    BY <1>1, <1>5
<1>7. \A i \in 1..n + 1 :
          OpenAITurn(Append(s, m)[i]) = IF i = n + 1 THEN OpenAITurn(m) ELSE OpenAITurn(s[i])
    BY <1>1
<1>8. QED
    BY <1>2, <1>3, <1>5, <1>6, <1>7 DEF n

(* Every history has an anthropic body. *)
LEMMA AnthropicType == \A s \in Seq(MessageType) : AnthropicWire(s) \in Bodies
<1> DEFINE Good == {s \in Seq(MessageType) : AnthropicWire(s) \in Bodies}
<1>1. <<>> \in Good
    <2>1. <<>> \in Seq(MessageType) /\ <<>> \in Bodies
        BY DEF Bodies
    <2>2. QED
        BY <2>1, OneAnthropic
<1>2. ASSUME NEW s \in Seq(MessageType), NEW m \in MessageType, s \in Good PROVE Append(s, m) \in Good
    BY <1>2, OneAnthropic, AnthropicAppendType
<1>3. \A s \in Seq(MessageType) : s \in Good
    <2> HIDE DEF Good
    <2>1. QED
        BY <1>1, <1>2, SeqInd
<1>4. QED
    BY <1>3
-----------------------------------------------------------------------------
(* Bodies that differ in how the provider's own turns are echoed at most. *)
SameTurn(t, u) ==
    t.role = u.role /\ t.blocks = u.blocks /\ (t.role # "assistant" => t.raw = u.raw)
Alike(v, w) == Len(v) = Len(w) /\ \A i \in 1..Len(v) : SameTurn(v[i], w[i])

(* Alike bodies stay alike when alike turns are added. *)
LEMMA AlikeAppend ==
    ASSUME NEW v \in Bodies, NEW w \in Bodies, Alike(v, w), NEW t \in WireTurnType, NEW u \in WireTurnType,
           SameTurn(t, u)
    PROVE  Alike(Append(v, t), Append(w, u))
BY DEF Alike, Bodies

(* ... when one result is added. *)
LEMMA AlikeResult ==
    ASSUME NEW v \in Bodies, NEW w \in Bodies, Alike(v, w), NEW b \in BlockType
    PROVE  Alike(AppendResult(v, b), AppendResult(w, b))
<1> DEFINE n == Len(v)
           new == WireTurn("user", <<b>>, FALSE)
<1>1. n \in Nat /\ Len(w) = n /\ (v # <<>> <=> n > 0) /\ (w # <<>> <=> n > 0)
    BY DEF Alike, Bodies
<1>2. v # <<>> => /\ n \in 1..n /\ v[n].role = w[n].role /\ v[n].blocks = w[n].blocks
                  /\ Last(v) = v[n] /\ Last(w) = w[n]
    BY <1>1 DEF Alike, SameTurn, Last
<1>3. (v # <<>> /\ IsResultTurn(Last(v))) <=> (w # <<>> /\ IsResultTurn(Last(w)))
    BY <1>1, <1>2 DEF IsResultTurn
<1>4. CASE v # <<>> /\ IsResultTurn(Last(v))
    <2>1. /\ AppendResult(v, b) = [v EXCEPT ![n] = [v[n] EXCEPT !.blocks = Append(v[n].blocks, b)]]
          /\ AppendResult(w, b) = [w EXCEPT ![n] = [w[n] EXCEPT !.blocks = Append(w[n].blocks, b)]]
        BY <1>1, <1>3, <1>4 DEF AppendResult
    <2>2. \A i \in 1..n : v[i] \in WireTurnType /\ w[i] \in WireTurnType
        BY <1>1 DEF Bodies
    <2>3. ASSUME NEW t \in WireTurnType, NEW bs
          PROVE  /\ [t EXCEPT !.blocks = bs].role = t.role /\ [t EXCEPT !.blocks = bs].raw = t.raw
                 /\ [t EXCEPT !.blocks = bs].blocks = bs
        BY DEF WireTurnType
    <2> DEFINE vn == [v[n] EXCEPT !.blocks = Append(v[n].blocks, b)]
               wn == [w[n] EXCEPT !.blocks = Append(w[n].blocks, b)]
    <2>4. /\ vn.role = v[n].role /\ vn.raw = v[n].raw /\ vn.blocks = Append(v[n].blocks, b)
          /\ wn.role = w[n].role /\ wn.raw = w[n].raw /\ wn.blocks = Append(w[n].blocks, b)
        BY <1>2, <1>4, <2>2, <2>3
    <2> HIDE DEF vn, wn
    <2>5. /\ Len([v EXCEPT ![n] = vn]) = n /\ Len([w EXCEPT ![n] = wn]) = n
          /\ \A i \in 1..n : /\ [v EXCEPT ![n] = vn][i] = IF i = n THEN vn ELSE v[i]
                             /\ [w EXCEPT ![n] = wn][i] = IF i = n THEN wn ELSE w[i]
        BY <1>1 DEF Bodies
    <2>6. Alike([v EXCEPT ![n] = vn], [w EXCEPT ![n] = wn])
        <3> HIDE DEF n
        <3>1. \A i \in 1..n : SameTurn(v[i], w[i])
            BY DEF Alike, n
        <3>2. n \in 1..n
            BY <1>2, <1>4
        <3>3. SameTurn(vn, wn)
            BY <2>4, <3>1, <3>2 DEF SameTurn
        <3>4. QED
            BY <2>5, <3>1, <3>3 DEF Alike
    <2>7. QED
        BY <2>1, <2>6 DEF vn, wn
<1>5. CASE ~(v # <<>> /\ IsResultTurn(Last(v)))
    <2>1. AppendResult(v, b) = Append(v, new) /\ AppendResult(w, b) = Append(w, new)
        BY <1>3, <1>5 DEF AppendResult
    <2>2. new \in WireTurnType /\ SameTurn(new, new)
        <3>1. <<b>> \in Seq(BlockType)
            OBVIOUS
        <3>2. QED
            BY <3>1, TurnType DEF SameTurn
    <2> HIDE DEF new
    <2>3. QED
        BY <2>1, <2>2, AlikeAppend
<1>6. QED
    BY <1>4, <1>5

(* A message with or without its carrier. *)
Bare(m) == [m EXCEPT !.carrier = NoCarrier]

(* A carrier is all that a bare message lacks. *)
LEMMA BareMessage ==
    ASSUME NEW m \in MessageType
    PROVE  /\ Bare(m) \in MessageType /\ Bare(m).role = m.role /\ Bare(m).turn = m.turn /\ Bare(m).n = m.n
           /\ Texts(Bare(m)) = Texts(m) /\ Uses(Bare(m)) = Uses(m) /\ AssistantBlocks(Bare(m)) = AssistantBlocks(m)
<1>1. /\ Bare(m) \in MessageType /\ Bare(m).role = m.role /\ Bare(m).turn = m.turn /\ Bare(m).n = m.n
    BY DEF Bare, MessageType, Carriers
<1>2. QED
    BY <1>1 DEF Texts, Uses, AssistantBlocks

(* ... when an answer is added, with its carrier or without. *)
LEMMA AlikeAssistant ==
    ASSUME NEW v \in Bodies, NEW w \in Bodies, Alike(v, w), NEW m \in MessageType
    PROVE  Alike(Append(v, AssistantTurn(m)), Append(w, AssistantTurn(Bare(m))))
<1>1. AssistantTurn(m) \in WireTurnType /\ AssistantTurn(Bare(m)) \in WireTurnType
    BY MessageTurns, BareMessage
<1>2. /\ AssistantTurn(m).role = "assistant" /\ AssistantTurn(Bare(m)).role = "assistant"
      /\ AssistantTurn(m).blocks = AssistantBlocks(m) /\ AssistantTurn(Bare(m)).blocks = AssistantBlocks(Bare(m))
    BY DEF AssistantTurn, WireTurn
<1>3. QED
    BY <1>1, <1>2, BareMessage, AlikeAppend DEF SameTurn

(* ... when a text is added. *)
LEMMA AlikeText ==
    ASSUME NEW v \in Bodies, NEW w \in Bodies, Alike(v, w), NEW m \in MessageType,
           NEW role \in {"user", "assistant", "tool"}
    PROVE  Alike(Append(v, WireTurn(role, Texts(m), FALSE)), Append(w, WireTurn(role, Texts(Bare(m)), FALSE)))
<1>1. WireTurn(role, Texts(m), FALSE) \in WireTurnType
    BY MessageBlocks, TurnType
<1>2. WireTurn(role, Texts(Bare(m)), FALSE) = WireTurn(role, Texts(m), FALSE)
    BY BareMessage
<1>3. QED
    BY <1>1, <1>2, AlikeAppend DEF SameTurn

(* ... when any message is added. *)
LEMMA AnthropicAlike ==
    ASSUME NEW v \in Bodies, NEW w \in Bodies, Alike(v, w), NEW m \in MessageType
    PROVE  Alike(AnthropicAppend(v, m), AnthropicAppend(w, Bare(m)))
<1>1. CASE m.role = "assistant"
    BY <1>1, BareMessage, AlikeAssistant DEF AnthropicAppend
<1>2. CASE m.role = "tool"
    BY <1>2, BareMessage, MessageBlocks, AlikeResult DEF AnthropicAppend
<1>3. CASE m.role \notin {"assistant", "tool"}
    <2>1. m.role \in {"user", "assistant", "tool"}
        BY MessageTurns
    <2>2. QED
        BY <1>3, <2>1, BareMessage, AlikeText DEF AnthropicAppend
<1>4. QED
    BY <1>1, <1>2, <1>3

(* Stripping a history of its carriers leaves its anthropic body alike. *)
LEMMA AnthropicStripped ==
    \A s \in Seq(MessageType) : Alike(AnthropicWire(s), AnthropicWire(StripCarriers(s)))
<1> DEFINE Good == {s \in Seq(MessageType) : Alike(AnthropicWire(s), AnthropicWire(StripCarriers(s)))}
<1>1. <<>> \in Good
    <2>1. <<>> \in Seq(MessageType) /\ StripCarriers(<<>>) = <<>>
        BY DEF StripCarriers
    <2>2. QED
        BY <2>1, OneAnthropic DEF Alike
<1>2. ASSUME NEW s \in Seq(MessageType), NEW m \in MessageType, s \in Good PROVE Append(s, m) \in Good
    <2>1. StripCarriers(Append(s, m)) = Append(StripCarriers(s), Bare(m)) /\ StripCarriers(s) \in Seq(MessageType)
        BY StripOneMore, StripCarriersType DEF Bare
    <2>2. /\ AnthropicWire(Append(s, m)) = AnthropicAppend(AnthropicWire(s), m)
          /\ AnthropicWire(StripCarriers(Append(s, m))) = AnthropicAppend(AnthropicWire(StripCarriers(s)), Bare(m))
        BY <2>1, BareMessage, OneAnthropic
    <2>3. AnthropicWire(s) \in Bodies /\ AnthropicWire(StripCarriers(s)) \in Bodies
        BY <2>1, AnthropicType
    <2>4. QED
        BY <1>2, <2>2, <2>3, AnthropicAlike, AppendProperties
<1>3. \A s \in Seq(MessageType) : s \in Good
    <2> HIDE DEF Good
    <2>1. QED
        BY <1>1, <1>2, SeqInd
<1>4. QED
    BY <1>3

(* The calls a gemini body still waits for do not depend on carriers, and   *)
(* neither does where a result goes.                                        *)
Uncalled == Seq(BlockType)
BuilderType(b) == b = Builder(b.contents, b.pending) /\ b.contents \in Bodies /\ b.pending \in Uncalled
AlikeBuilders(a, b) == BuilderType(a) /\ BuilderType(b) /\ Alike(a.contents, b.contents) /\ a.pending = b.pending

(* The fields of a builder. *)
LEMMA BuilderFields ==
    ASSUME NEW w, NEW p
    PROVE  Builder(w, p).contents = w /\ Builder(w, p).pending = p
BY DEF Builder

(* What GeminiAppend builds is a builder. *)
LEMMA IsBuilder ==
    ASSUME NEW w \in Bodies, NEW p \in Uncalled PROVE BuilderType(Builder(w, p))
BY BuilderFields DEF BuilderType

(* Alike builders stay alike when a message is added. *)
LEMMA GeminiAlike ==
    ASSUME NEW ids \in BOOLEAN, NEW a, NEW b, AlikeBuilders(a, b), NEW m \in MessageType
    PROVE  AlikeBuilders(GeminiAppend(ids, a, m), GeminiAppend(ids, b, Bare(m)))
<1> DEFINE p == a.pending
           As == Answers(ids, p, m)
           k == CHOOSE j \in As : TRUE
           result == [p[k] EXCEPT !.kind = "result"]
<1>0. /\ a.contents \in Bodies /\ b.contents \in Bodies /\ Alike(a.contents, b.contents)
      /\ p \in Uncalled /\ b.pending = p
    BY DEF AlikeBuilders, BuilderType
<1>1. Answers(ids, p, Bare(m)) = As
    BY BareMessage DEF Answers
<1> HIDE DEF p
<1>2. CASE m.role = "assistant"
    <2>1. Alike(Append(a.contents, AssistantTurn(m)), Append(b.contents, AssistantTurn(Bare(m))))
        BY <1>0, AlikeAssistant
    <2>2. p \o Uses(m) \in Uncalled
        BY <1>0, MessageBlocks, ConcatProperties DEF Uncalled
    <2>3. /\ Append(a.contents, AssistantTurn(m)) \in Bodies
          /\ Append(b.contents, AssistantTurn(Bare(m))) \in Bodies
        BY <1>0, MessageTurns, BareMessage, AppendProperties DEF Bodies
    <2>4. /\ GeminiAppend(ids, a, m) = Builder(Append(a.contents, AssistantTurn(m)), p \o Uses(m))
          /\ GeminiAppend(ids, b, Bare(m)) = Builder(Append(b.contents, AssistantTurn(Bare(m))), p \o Uses(m))
        BY <1>0, <1>2, BareMessage DEF GeminiAppend, p
    <2>5. QED
        BY <2>1, <2>2, <2>3, <2>4, IsBuilder, BuilderFields DEF AlikeBuilders
<1>3. CASE m.role = "tool" /\ As # {}
    <2>1. k \in As /\ k \in DOMAIN p
        BY <1>3 DEF Answers
    <2>2. p[k] \in BlockType
        BY <1>0, <2>1 DEF Uncalled
    <2>3. result \in BlockType
        BY <2>2 DEF BlockType
    <2>4. RemoveAt(p, k) \in Uncalled
        <3>1. k \in 1..Len(p) /\ p \in Seq(BlockType)
            BY <1>0, <2>1 DEF Uncalled
        <3> HIDE DEF k
        <3>2. SubSeq(p, 1, k - 1) \in Seq(BlockType) /\ SubSeq(p, k + 1, Len(p)) \in Seq(BlockType)
            BY <3>1
        <3>3. QED
            BY <3>2, ConcatProperties DEF RemoveAt, Uncalled
    <2>5. /\ GeminiAppend(ids, a, m) = Builder(AppendResult(a.contents, result), RemoveAt(p, k))
          /\ GeminiAppend(ids, b, Bare(m)) = Builder(AppendResult(b.contents, result), RemoveAt(p, k))
        BY <1>0, <1>1, <1>3, BareMessage DEF GeminiAppend, p
    <2> HIDE DEF k, result
    <2>6. /\ AppendResult(a.contents, result) \in Bodies /\ AppendResult(b.contents, result) \in Bodies
          /\ Alike(AppendResult(a.contents, result), AppendResult(b.contents, result))
        BY <1>0, <2>3, AlikeResult, ResultAppendType
    <2>7. QED
        BY <2>4, <2>5, <2>6, IsBuilder, BuilderFields DEF AlikeBuilders
<1>4. CASE m.role # "assistant" /\ ~(m.role = "tool" /\ As # {})
    <2>1. /\ GeminiAppend(ids, a, m) = Builder(Append(a.contents, WireTurn("user", Texts(m), FALSE)), p)
          /\ GeminiAppend(ids, b, Bare(m)) = Builder(Append(b.contents, WireTurn("user", Texts(Bare(m)), FALSE)), p)
        BY <1>0, <1>1, <1>4, BareMessage DEF GeminiAppend, p
    <2>2. Alike(Append(a.contents, WireTurn("user", Texts(m), FALSE)),
                Append(b.contents, WireTurn("user", Texts(Bare(m)), FALSE)))
        BY <1>0, AlikeText
    <2>3. /\ Append(a.contents, WireTurn("user", Texts(m), FALSE)) \in Bodies
          /\ Append(b.contents, WireTurn("user", Texts(Bare(m)), FALSE)) \in Bodies
        BY <1>0, MessageTurns, BareMessage, AppendProperties DEF Bodies
    <2> DEFINE x == Append(a.contents, WireTurn("user", Texts(m), FALSE))
               y == Append(b.contents, WireTurn("user", Texts(Bare(m)), FALSE))
    <2>4. x \in Bodies /\ y \in Bodies /\ Alike(x, y)
        BY <2>2, <2>3
    <2> HIDE DEF x, y
    <2>5. AlikeBuilders(Builder(x, p), Builder(y, p))
        BY <1>0, <2>4, IsBuilder, BuilderFields DEF AlikeBuilders
    <2>6. QED
        BY <2>1, <2>5 DEF x, y
<1>5. QED
    BY <1>2, <1>3, <1>4

(* Stripping a history of its carriers leaves its gemini body alike. *)
LEMMA GeminiStripped ==
    ASSUME NEW ids \in BOOLEAN
    PROVE  \A s \in Seq(MessageType) :
               AlikeBuilders(GeminiBuilder(ids, s), GeminiBuilder(ids, StripCarriers(s)))
<1> DEFINE Good == {s \in Seq(MessageType) :
                        AlikeBuilders(GeminiBuilder(ids, s), GeminiBuilder(ids, StripCarriers(s)))}
<1>1. <<>> \in Good
    <2>1. <<>> \in Seq(MessageType) /\ StripCarriers(<<>>) = <<>> /\ <<>> \in Bodies /\ <<>> \in Uncalled
        BY DEF StripCarriers, Bodies, Uncalled
    <2>2. Alike(<<>>, <<>>)
        BY DEF Alike
    <2>3. AlikeBuilders(Builder(<<>>, <<>>), Builder(<<>>, <<>>))
        BY <2>1, <2>2, IsBuilder, BuilderFields DEF AlikeBuilders
    <2>4. QED
        BY <2>1, <2>3, OneGemini
<1>2. ASSUME NEW s \in Seq(MessageType), NEW m \in MessageType, s \in Good PROVE Append(s, m) \in Good
    <2>1. StripCarriers(Append(s, m)) = Append(StripCarriers(s), Bare(m)) /\ StripCarriers(s) \in Seq(MessageType)
        BY StripOneMore, StripCarriersType DEF Bare
    <2>2. /\ GeminiBuilder(ids, Append(s, m)) = GeminiAppend(ids, GeminiBuilder(ids, s), m)
          /\ GeminiBuilder(ids, StripCarriers(Append(s, m))) =
                 GeminiAppend(ids, GeminiBuilder(ids, StripCarriers(s)), Bare(m))
        BY <2>1, BareMessage, OneGemini
    <2>3. QED
        BY <1>2, <2>2, GeminiAlike, AppendProperties
<1>3. \A s \in Seq(MessageType) : s \in Good
    <2> HIDE DEF Good
    <2>1. QED
        BY <1>1, <1>2, SeqInd
<1>4. QED
    BY <1>3

(* The openai wire sends no carrier of this model at all. *)
LEMMA OpenAIStripped ==
    ASSUME NEW s \in Seq(MessageType) PROVE OpenAIWire(StripCarriers(s)) = OpenAIWire(s)
<1>1. \A m \in MessageType : OpenAITurn(Bare(m)) = OpenAITurn(m)
    BY BareMessage DEF OpenAITurn
<1>2. DOMAIN StripCarriers(s) = DOMAIN s /\ \A i \in DOMAIN s : s[i] \in MessageType /\ StripCarriers(s)[i] = Bare(s[i])
    BY DEF StripCarriers, Bare
<1>3. QED
    BY <1>1, <1>2 DEF OpenAIWire
-----------------------------------------------------------------------------
(* The texts of a body are those of its blocks. *)
LEMMA NoTextAdds ==
    ASSUME NEW base
    PROVE  \A s \in Seq(BlockType) :
               (\A i \in 1..Len(s) : s[i].kind # "text") => FoldLeft(AddText, base, s) = base
<1> DEFINE Good == {s \in Seq(BlockType) :
                        (\A i \in 1..Len(s) : s[i].kind # "text") => FoldLeft(AddText, base, s) = base}
<1>1. <<>> \in Good
    BY OneBlockOfTexts, <<>> \in Seq(BlockType)
<1>2. ASSUME NEW s \in Seq(BlockType), NEW b \in BlockType, s \in Good PROVE Append(s, b) \in Good
    <2>1. SUFFICES ASSUME \A i \in 1..Len(Append(s, b)) : Append(s, b)[i].kind # "text"
                   PROVE  FoldLeft(AddText, base, Append(s, b)) = base
        BY AppendProperties
    <2>2. /\ Append(s, b)[Len(s) + 1] = b /\ Len(s) + 1 \in 1..Len(Append(s, b))
          /\ \A i \in 1..Len(s) : Append(s, b)[i] = s[i] /\ i \in 1..Len(Append(s, b))
        OBVIOUS
    <2>3. b.kind # "text" /\ \A i \in 1..Len(s) : s[i].kind # "text"
        BY <2>1, <2>2
    <2>4. FoldLeft(AddText, base, s) = base
        BY <1>2, <2>3
    <2>5. FoldLeft(AddText, base, Append(s, b)) = AddText(FoldLeft(AddText, base, s), b)
        BY OneBlockOfTexts
    <2>6. QED
        BY <2>3, <2>4, <2>5 DEF AddText
<1>3. \A s \in Seq(BlockType) : s \in Good
    <2> HIDE DEF Good
    <2>1. QED
        BY <1>1, <1>2, SeqInd
<1>4. QED
    BY <1>3

(* Alike bodies say the same texts. *)
LEMMA AlikeTexts ==
    \A v \in Bodies : \A w \in Bodies : Alike(v, w) => TextsOf(v) = TextsOf(w)
<1> DEFINE Good == {v \in Bodies : \A w \in Bodies : Alike(v, w) => TextsOf(v) = TextsOf(w)}
<1>1. <<>> \in Good
    <2>1. <<>> \in Bodies
        BY DEF Bodies
    <2>2. ASSUME NEW w \in Bodies, Alike(<<>>, w) PROVE w = <<>>
        BY <2>2 DEF Alike, Bodies
    <2>3. QED
        BY <2>1, <2>2
<1>2. ASSUME NEW v \in Bodies, NEW t \in WireTurnType, v \in Good PROVE Append(v, t) \in Good
    <2>0. Append(v, t) \in Bodies
        BY DEF Bodies
    <2>1. ASSUME NEW w \in Bodies, Alike(Append(v, t), w) PROVE TextsOf(Append(v, t)) = TextsOf(w)
        <3>1. Len(w) = Len(v) + 1 /\ Len(v) \in Nat
            BY <2>1 DEF Alike, Bodies
        <3>2. w # <<>>
            BY <3>1
        <3>3. PICK f \in Bodies, u \in WireTurnType : w = Append(f, u)
            BY <3>2, SequenceEmptyOrAppend DEF Bodies
        <3>4. Len(f) = Len(v) /\ Len(Append(v, t)) = Len(v) + 1
            BY <3>1, <3>3 DEF Bodies
        <3>5. \A i \in 1..Len(v) + 1 : SameTurn(Append(v, t)[i], Append(f, u)[i])
            BY <2>1, <3>3, <3>4 DEF Alike
        <3>6. /\ Append(v, t)[Len(v) + 1] = t /\ Append(f, u)[Len(v) + 1] = u
              /\ \A i \in 1..Len(v) : Append(v, t)[i] = v[i] /\ Append(f, u)[i] = f[i]
            BY <3>4 DEF Bodies
        <3>7. \A i \in 1..Len(v) : i \in 1..Len(v) + 1
            BY <3>1
        <3>8. SameTurn(t, u) /\ \A i \in 1..Len(v) : SameTurn(v[i], f[i])
            <4>1. Len(v) + 1 \in 1..Len(v) + 1
                BY <3>1
            <4>2. SameTurn(Append(v, t)[Len(v) + 1], Append(f, u)[Len(v) + 1])
                BY <3>5, <4>1
            <4>3. ASSUME NEW i \in 1..Len(v) PROVE SameTurn(v[i], f[i])
                <5>1. SameTurn(Append(v, t)[i], Append(f, u)[i])
                    BY <3>5, <3>7
                <5>2. Append(v, t)[i] = v[i] /\ Append(f, u)[i] = f[i]
                    BY <3>6
                <5>3. QED
                    BY <5>1, <5>2
            <4>4. QED
                BY <3>6, <4>2, <4>3
        <3>9. TextsOf(v) = TextsOf(f)
            BY <1>2, <3>4, <3>8 DEF Alike
        <3>10. \A base : AddTexts(base, t) = AddTexts(base, u)
            BY <3>8 DEF AddTexts, SameTurn
        <3>11. QED
            BY <3>3, <3>9, <3>10, OneTurnOfTexts
    <2>2. QED
        BY <2>0, <2>1
<1>3. \A v \in Bodies : v \in Good
    <2> HIDE DEF Good
    <2>1. QED
        BY <1>1, <1>2, SeqInd DEF Bodies
<1>4. QED
    BY <1>3

(* Alike bodies pair up calls and results alike. *)
LEMMA AlikePairs ==
    ASSUME NEW v \in Bodies, NEW w \in Bodies, Alike(v, w), CallsPairUp(v)
    PROVE  CallsPairUp(w)
<1>1. /\ DOMAIN v = 1..Len(v) /\ DOMAIN w = 1..Len(v) /\ Len(w) = Len(v) /\ Len(v) \in Nat
    BY DEF Alike, Bodies
<1>2. ASSUME NEW t, NEW u, SameTurn(t, u)
      PROVE  /\ HasUses(t) <=> HasUses(u)
             /\ HasResults(t) <=> HasResults(u)
             /\ Asked(t) = Asked(u) /\ t.role = u.role /\ t.blocks = u.blocks
    BY <1>2 DEF SameTurn, HasUses, HasResults, Asked
<1>3. ASSUME NEW i \in 1..Len(v)
      PROVE  /\ HasUses(v[i]) <=> HasUses(w[i])
             /\ HasResults(v[i]) <=> HasResults(w[i])
             /\ Asked(v[i]) = Asked(w[i]) /\ v[i].role = w[i].role /\ v[i].blocks = w[i].blocks
    BY <1>2 DEF Alike
<1>4. ASSUME NEW i \in 1..Len(v), HasUses(w[i])
      PROVE  /\ i < Len(w) /\ w[i + 1].role = "user"
             /\ \A b \in ToSet(w[i + 1].blocks) : b.kind = "result"
             /\ Asked(w[i + 1]) = Asked(w[i])
    <2>1. HasUses(v[i])
        BY <1>3, <1>4
    <2>2. /\ i < Len(v) /\ v[i + 1].role = "user"
          /\ \A b \in ToSet(v[i + 1].blocks) : b.kind = "result"
          /\ Asked(v[i + 1]) = Asked(v[i])
        BY <1>1, <2>1 DEF CallsPairUp
    <2>3. i + 1 \in 1..Len(v)
        BY <1>1, <2>2
    <2>4. /\ Asked(v[i]) = Asked(w[i]) /\ Asked(v[i + 1]) = Asked(w[i + 1])
          /\ v[i + 1].role = w[i + 1].role /\ v[i + 1].blocks = w[i + 1].blocks
        BY <1>3, <2>3
    <2>5. QED
        BY <1>1, <2>2, <2>4
<1>5. ASSUME NEW i \in 1..Len(v), HasResults(w[i])
      PROVE  i > 1 /\ HasUses(w[i - 1])
    <2>1. HasResults(v[i])
        BY <1>3, <1>5
    <2>2. i > 1 /\ HasUses(v[i - 1])
        BY <1>1, <2>1 DEF CallsPairUp
    <2>3. i - 1 \in 1..Len(v)
        BY <1>1, <2>2
    <2>4. QED
        BY <1>3, <2>2, <2>3
<1>6. QED
    BY <1>1, <1>4, <1>5 DEF CallsPairUp
-----------------------------------------------------------------------------
(* A body that its wire accepts and that loses nothing of the history. *)
Accepts(w, s) == w \in Bodies /\ CallsPairUp(w) /\ TextsOf(w) = TextsOf(OpenAIWire(s))

(* One turn more in a body. *)
LEMMA BodyAppend ==
    ASSUME NEW w \in Bodies, NEW t \in WireTurnType
    PROVE  /\ Append(w, t) \in Bodies /\ Len(Append(w, t)) = Len(w) + 1 /\ Len(w) \in Nat
           /\ DOMAIN Append(w, t) = 1..Len(w) + 1 /\ DOMAIN w = 1..Len(w)
           /\ Append(w, t)[Len(w) + 1] = t /\ \A i \in 1..Len(w) : Append(w, t)[i] = w[i]
           /\ Append(w, t) # <<>> /\ Last(Append(w, t)) = t
<1>1. /\ Append(w, t) \in Bodies /\ Len(Append(w, t)) = Len(w) + 1 /\ Len(w) \in Nat
      /\ DOMAIN Append(w, t) = 1..Len(w) + 1 /\ DOMAIN w = 1..Len(w)
      /\ Append(w, t)[Len(w) + 1] = t /\ \A i \in 1..Len(w) : Append(w, t)[i] = w[i]
      /\ Append(w, t) # <<>>
    BY DEF Bodies
<1>2. QED
    BY <1>1 DEF Last

(* A turn with neither calls nor results leaves the pairs as they are. *)
LEMMA PairsAppend ==
    ASSUME NEW w \in Bodies, CallsPairUp(w), NEW t \in WireTurnType, ~HasUses(t), ~HasResults(t)
    PROVE  CallsPairUp(Append(w, t))
<1> DEFINE n == Len(w)
           x == Append(w, t)
<1>1. /\ n \in Nat /\ DOMAIN x = 1..n + 1 /\ DOMAIN w = 1..n /\ Len(x) = n + 1 /\ x[n + 1] = t
      /\ \A i \in 1..n : x[i] = w[i]
    BY BodyAppend
<1> HIDE DEF n, x
<1>2. ASSUME NEW i \in 1..n + 1, HasUses(x[i])
      PROVE  /\ i < n + 1 /\ x[i + 1].role = "user"
             /\ \A b \in ToSet(x[i + 1].blocks) : b.kind = "result"
             /\ Asked(x[i + 1]) = Asked(x[i])
    <2>1. i \in 1..n
        BY <1>1, <1>2
    <2>2. x[i] = w[i] /\ HasUses(w[i])
        BY <1>1, <1>2, <2>1
    <2>3. /\ i < n /\ w[i + 1].role = "user"
          /\ \A b \in ToSet(w[i + 1].blocks) : b.kind = "result"
          /\ Asked(w[i + 1]) = Asked(w[i])
        BY <1>1, <2>1, <2>2 DEF CallsPairUp, n
    <2>4. i + 1 \in 1..n
        BY <1>1, <2>1, <2>3
    <2>5. x[i + 1] = w[i + 1]
        BY <1>1, <2>4
    <2>6. QED
        BY <1>1, <2>1, <2>2, <2>3, <2>5
<1>3. ASSUME NEW i \in 1..n + 1, HasResults(x[i])
      PROVE  i > 1 /\ HasUses(x[i - 1])
    <2>1. i \in 1..n
        BY <1>1, <1>3
    <2>2. HasResults(w[i])
        BY <1>1, <1>3, <2>1
    <2>3. i > 1 /\ HasUses(w[i - 1])
        BY <1>1, <2>1, <2>2 DEF CallsPairUp
    <2>4. i - 1 \in 1..n
        BY <1>1, <2>1, <2>3
    <2>5. QED
        BY <1>1, <2>3, <2>4
<1>4. CallsPairUp(x)
    BY <1>1, <1>2, <1>3 DEF CallsPairUp
<1>5. QED
    BY <1>4 DEF x

(* The results of one turn of calls, as one user turn. *)
ResultBlocks(t, k) == [j \in 1..k |-> Block("result", t, j)]
ResultTurn(t, k) == WireTurn("user", ResultBlocks(t, k), FALSE)
UseBlocks(t, k) == [j \in 1..k |-> Block("use", t, j)]

BlocksOf(t, k) ==
           /\ ResultBlocks(t, k) \in Seq(BlockType) /\ UseBlocks(t, k) \in Seq(BlockType)
           /\ Len(ResultBlocks(t, k)) = k /\ Len(UseBlocks(t, k)) = k
           /\ DOMAIN ResultBlocks(t, k) = 1..k /\ DOMAIN UseBlocks(t, k) = 1..k
           /\ \A j \in 1..k : /\ ResultBlocks(t, k)[j] = Block("result", t, j)
                              /\ UseBlocks(t, k)[j] = Block("use", t, j)
                              /\ ResultBlocks(t, k)[j].kind = "result" /\ UseBlocks(t, k)[j].kind = "use"
                              /\ ResultBlocks(t, k)[j].turn = t /\ UseBlocks(t, k)[j].turn = t
                              /\ ResultBlocks(t, k)[j].of = j /\ UseBlocks(t, k)[j].of = j
           /\ ResultTurn(t, k) \in WireTurnType
           /\ ResultTurn(t, k).role = "user" /\ ResultTurn(t, k).blocks = ResultBlocks(t, k)
           /\ ResultTurn(t, k).raw = FALSE

(* The blocks of a turn of calls and of its results. *)
LEMMA ExchangeBlocks == ASSUME NEW t \in Nat, NEW k \in Nat PROVE BlocksOf(t, k)
<1>1. \A j \in 1..k : Block("result", t, j) \in BlockType /\ Block("use", t, j) \in BlockType
    BY BlockTypes
<1>2. /\ ResultBlocks(t, k) \in Seq(BlockType) /\ UseBlocks(t, k) \in Seq(BlockType)
      /\ Len(ResultBlocks(t, k)) = k /\ Len(UseBlocks(t, k)) = k
      /\ DOMAIN ResultBlocks(t, k) = 1..k /\ DOMAIN UseBlocks(t, k) = 1..k
      /\ \A j \in 1..k : /\ ResultBlocks(t, k)[j] = Block("result", t, j)
                         /\ UseBlocks(t, k)[j] = Block("use", t, j)
    BY <1>1 DEF ResultBlocks, UseBlocks
<1>3. \A j \in 1..k : /\ ResultBlocks(t, k)[j].kind = "result" /\ UseBlocks(t, k)[j].kind = "use"
                     /\ ResultBlocks(t, k)[j].turn = t /\ UseBlocks(t, k)[j].turn = t
                     /\ ResultBlocks(t, k)[j].of = j /\ UseBlocks(t, k)[j].of = j
    BY <1>2 DEF Block
<1>4. /\ ResultTurn(t, k) \in WireTurnType
      /\ ResultTurn(t, k).role = "user" /\ ResultTurn(t, k).blocks = ResultBlocks(t, k)
      /\ ResultTurn(t, k).raw = FALSE
    <2> DEFINE bs == ResultBlocks(t, k)
    <2>1. bs \in Seq(BlockType)
        BY <1>2
    <2> HIDE DEF bs
    <2>2. WireTurn("user", bs, FALSE) \in WireTurnType
        BY <2>1, TurnType
    <2>3. QED
        BY <2>2 DEF ResultTurn, WireTurn, bs
<1>5. QED
    BY <1>2, <1>3, <1>4 DEF BlocksOf

(* A turn of calls and the turn of their results pair up. *)
LEMMA ExchangePairs ==
    ASSUME NEW w \in Bodies, CallsPairUp(w), NEW t \in Nat, NEW k \in Nat, k > 0,
           NEW a \in WireTurnType, a.blocks = UseBlocks(t, k)
    PROVE  CallsPairUp(Append(Append(w, a), ResultTurn(t, k)))
<1> DEFINE n == Len(w)
           r == ResultTurn(t, k)
           x == Append(Append(w, a), r)
<1>0. BlocksOf(t, k)
    BY ExchangeBlocks
<1>1. r \in WireTurnType /\ r.role = "user" /\ r.blocks = ResultBlocks(t, k)
    BY <1>0 DEF BlocksOf
<1> HIDE DEF r
<1>2. /\ n \in Nat /\ Len(x) = n + 2 /\ DOMAIN x = 1..n + 2 /\ DOMAIN w = 1..n
      /\ x[n + 1] = a /\ x[n + 2] = r /\ \A i \in 1..n : x[i] = w[i]
    BY <1>1 DEF Bodies
<1> HIDE DEF n, x
<1>3. HasUses(a) /\ ~HasResults(a)
    <2>1. 1 \in 1..k
        OBVIOUS
    <2>2. \A j \in 1..k : a.blocks[j].kind = "use"
        BY <1>0 DEF BlocksOf
    <2>3. DOMAIN a.blocks = 1..k
        BY <1>0 DEF BlocksOf
    <2>4. QED
        BY <2>1, <2>2, <2>3 DEF HasUses, HasResults
<1>4. ~HasUses(r) /\ \A b \in ToSet(r.blocks) : b.kind = "result"
    <2>1. \A j \in 1..k : r.blocks[j].kind = "result"
        BY <1>1, <1>0 DEF BlocksOf
    <2>2. DOMAIN r.blocks = 1..k
        BY <1>1, <1>0 DEF BlocksOf
    <2>3. QED
        BY <2>1, <2>2 DEF HasUses, ToSet
<1>5. Asked(r) = Asked(a)
    <2>1. DOMAIN r.blocks = 1..k /\ DOMAIN a.blocks = 1..k
        BY <1>1, <1>0 DEF BlocksOf
    <2>2. \A j \in 1..k : /\ r.blocks[j].turn = a.blocks[j].turn /\ r.blocks[j].of = a.blocks[j].of
        <3>1. r.blocks = ResultBlocks(t, k)
            BY <1>1
        <3>2. QED
            BY <3>1, <1>0 DEF BlocksOf
    <2>3. QED
        BY <2>1, <2>2 DEF Asked
<1>6. ASSUME NEW i \in 1..n + 2, HasUses(x[i])
      PROVE  /\ i < n + 2 /\ x[i + 1].role = "user"
             /\ \A b \in ToSet(x[i + 1].blocks) : b.kind = "result"
             /\ Asked(x[i + 1]) = Asked(x[i])
    <2>1. i # n + 2
        BY <1>2, <1>4, <1>6
    <2>2. CASE i = n + 1
        <3>1. x[i] = a /\ x[i + 1] = r /\ i < n + 2
            BY <1>2, <2>2
        <3>2. QED
            BY <1>1, <1>4, <1>5, <3>1
    <2>3. CASE i \in 1..n
        <3>1. x[i] = w[i] /\ HasUses(w[i])
            BY <1>2, <1>6, <2>3
        <3>2. /\ i < n /\ w[i + 1].role = "user"
              /\ \A b \in ToSet(w[i + 1].blocks) : b.kind = "result"
              /\ Asked(w[i + 1]) = Asked(w[i])
            BY <1>2, <2>3, <3>1 DEF CallsPairUp, n
        <3>3. i + 1 \in 1..n
            BY <1>2, <2>3, <3>2
        <3>4. x[i + 1] = w[i + 1]
            BY <1>2, <3>3
        <3>5. QED
            BY <1>2, <2>3, <3>1, <3>2, <3>4
    <2>4. QED
        BY <1>2, <2>1, <2>2, <2>3
<1>7. ASSUME NEW i \in 1..n + 2, HasResults(x[i])
      PROVE  i > 1 /\ HasUses(x[i - 1])
    <2>1. i # n + 1
        BY <1>2, <1>3, <1>7
    <2>2. CASE i = n + 2
        <3>1. x[i - 1] = a /\ i > 1
            BY <1>2, <2>2
        <3>2. QED
            BY <1>3, <3>1
    <2>3. CASE i \in 1..n
        <3>1. HasResults(w[i])
            BY <1>2, <1>7, <2>3
        <3>2. i > 1 /\ HasUses(w[i - 1])
            BY <1>2, <2>3, <3>1 DEF CallsPairUp
        <3>3. i - 1 \in 1..n
            BY <1>2, <2>3, <3>2
        <3>4. QED
            BY <1>2, <3>2, <3>3
    <2>4. QED
        BY <1>2, <2>1, <2>2, <2>3
<1>8. CallsPairUp(x)
    BY <1>2, <1>6, <1>7 DEF CallsPairUp
<1>9. QED
    BY <1>8 DEF x, r
-----------------------------------------------------------------------------
(* The body of a turn of calls of which k results have been added. *)
With(w, t, k) == IF k = 0 THEN w ELSE Append(w, ResultTurn(t, k))

(* Only the blocks of a turn are replaced. *)
LEMMA SwapBlocks ==
    ASSUME NEW role, NEW blocks, NEW raw, NEW new
    PROVE  [WireTurn(role, blocks, raw) EXCEPT !.blocks = new] = WireTurn(role, new, raw)
BY DEF WireTurn

(* A result more joins the results of its turn. *)
LEMMA OneResult ==
    ASSUME NEW w \in Bodies, w # <<>>, Last(w).role = "assistant", NEW t \in Nat, NEW k \in Nat
    PROVE  AppendResult(With(w, t, k), Block("result", t, k + 1)) = With(w, t, k + 1)
<1> DEFINE b == Block("result", t, k + 1)
<1>1. b \in BlockType
    BY BlockTypes
<1>2. CASE k = 0
    <2>1. ~IsResultTurn(Last(w)) /\ With(w, t, k) = w
        BY <1>2 DEF IsResultTurn, With
    <2>2. AppendResult(w, b) = Append(w, WireTurn("user", <<b>>, FALSE))
        BY <2>1 DEF AppendResult
    <2>3. ResultBlocks(t, k + 1) = <<b>>
        <3>1. ResultBlocks(t, 1) = [j \in 1..1 |-> Block("result", t, j)]
            BY DEF ResultBlocks
        <3> HIDE DEF b
        <3>2. [j \in 1..1 |-> b] = <<b>>
            OBVIOUS
        <3>3. \A j \in 1..1 : Block("result", t, j) = b
            BY <1>2 DEF b
        <3>4. QED
            BY <1>2, <3>1, <3>2, <3>3
    <2> HIDE DEF b
    <2>4. ResultTurn(t, k + 1) = WireTurn("user", <<b>>, FALSE)
        BY <2>3 DEF ResultTurn
    <2>5. With(w, t, k + 1) = Append(w, ResultTurn(t, k + 1))
        BY <1>2 DEF With
    <2>6. QED
        BY <2>1, <2>2, <2>4, <2>5 DEF b
<1>3. CASE k > 0
    <2> DEFINE x == Append(w, ResultTurn(t, k))
               n == Len(w) + 1
    <2>1. /\ BlocksOf(t, k) /\ BlocksOf(t, k + 1)
        BY ExchangeBlocks
    <2>2. /\ x \in Bodies /\ x # <<>> /\ Last(x) = ResultTurn(t, k) /\ Len(x) = n /\ n \in 1..n
          /\ x[n] = ResultTurn(t, k) /\ DOMAIN x = 1..n
        <3> DEFINE r == ResultTurn(t, k)
        <3>1. r \in WireTurnType
            BY <2>1 DEF BlocksOf
        <3> HIDE DEF r
        <3>2. /\ Append(w, r) \in Bodies /\ Append(w, r) # <<>> /\ Last(Append(w, r)) = r
              /\ Len(Append(w, r)) = Len(w) + 1 /\ Append(w, r)[Len(w) + 1] = r
              /\ DOMAIN Append(w, r) = 1..Len(w) + 1 /\ Len(w) \in Nat
            BY <3>1, BodyAppend
        <3>3. QED
            BY <3>2 DEF r
    <2>3. IsResultTurn(ResultTurn(t, k))
        <3> DEFINE bs == ResultBlocks(t, k)
        <3>1. 1 \in 1..k /\ bs \in Seq(BlockType) /\ Len(bs) = k /\ bs[1].kind = "result"
            BY <1>3, <2>1 DEF BlocksOf
        <3> HIDE DEF bs
        <3>2. bs # <<>>
            BY <1>3, <3>1
        <3>3. ResultTurn(t, k).role = "user" /\ ResultTurn(t, k).blocks = bs
            BY <2>1 DEF BlocksOf, bs
        <3>4. QED
            BY <3>1, <3>2, <3>3 DEF IsResultTurn
    <2> DEFINE new == [ResultTurn(t, k) EXCEPT !.blocks = Append(ResultBlocks(t, k), b)]
    <2> HIDE DEF x, n
    <2>4. AppendResult(x, b) = [x EXCEPT ![n] = new]
        <3>1. ResultTurn(t, k).blocks = ResultBlocks(t, k)
            BY <2>1 DEF BlocksOf
        <3>2. QED
            BY <2>2, <2>3, <3>1 DEF AppendResult
    <2>5. new = ResultTurn(t, k + 1)
        <3>1. Append(ResultBlocks(t, k), b) = ResultBlocks(t, k + 1)
            <4> DEFINE f(j) == Block("result", t, j)
            <4>1. /\ ResultBlocks(t, k) = [j \in 1..k |-> f(j)]
                  /\ ResultBlocks(t, k + 1) = [j \in 1..k + 1 |-> f(j)] /\ b = f(k + 1)
                BY DEF ResultBlocks
            <4> HIDE DEF f, b
            <4>2. Len([j \in 1..k |-> f(j)]) = k
                OBVIOUS
            <4>3. Append([j \in 1..k |-> f(j)], f(k + 1)) = [j \in 1..k + 1 |-> IF j = k + 1 THEN f(k + 1) ELSE f(j)]
                BY <4>2
            <4>4. QED
                BY <4>1, <4>3
        <3> DEFINE bs == ResultBlocks(t, k)
                   cs == ResultBlocks(t, k + 1)
        <3>2. /\ ResultTurn(t, k) = WireTurn("user", bs, FALSE) /\ ResultTurn(t, k + 1) = WireTurn("user", cs, FALSE)
            BY DEF ResultTurn
        <3> HIDE DEF bs, cs
        <3>3. [WireTurn("user", bs, FALSE) EXCEPT !.blocks = cs] = WireTurn("user", cs, FALSE)
            <4> DEFINE raw == FALSE
            <4> HIDE DEF raw
            <4>1. [WireTurn("user", bs, raw) EXCEPT !.blocks = cs] = WireTurn("user", cs, raw)
                BY SwapBlocks
            <4>2. QED
                BY <4>1 DEF raw
        <3>4. QED
            BY <3>1, <3>2, <3>3 DEF bs, cs
    <2>6. [x EXCEPT ![n] = ResultTurn(t, k + 1)] = Append(w, ResultTurn(t, k + 1))
        <3> DEFINE u == ResultTurn(t, k + 1)
                   r == ResultTurn(t, k)
        <3> HIDE DEF u, r
        <3>1. x = Append(w, r) /\ n = Len(w) + 1 /\ w \in Seq(WireTurnType)
            BY DEF x, n, r, Bodies
        <3>2. r \in WireTurnType /\ u \in WireTurnType
            BY <2>1 DEF BlocksOf, r, u
        <3> DEFINE y == [x EXCEPT ![n] = u]
                   z == Append(w, u)
        <3>3. Len(w) \in Nat /\ x \in Seq(WireTurnType) /\ Len(x) = n /\ \A i \in 1..Len(w) : x[i] = w[i]
            BY <3>1, <3>2
        <3>4. y \in Seq(WireTurnType) /\ Len(y) = n /\ \A i \in 1..n : y[i] = IF i = n THEN u ELSE x[i]
            BY <2>2, <3>2, <3>3
        <3>5. z \in Seq(WireTurnType) /\ Len(z) = n /\ z[n] = u /\ \A i \in 1..Len(w) : z[i] = w[i]
            BY <3>1, <3>2
        <3> HIDE DEF y, z
        <3>6. \A i \in 1..n : y[i] = z[i]
            BY <3>1, <3>3, <3>4, <3>5
        <3>7. y = z
            BY <3>4, <3>5, <3>6, SeqEqual
        <3>8. QED
            BY <3>7 DEF y, z, u
    <2>7. With(w, t, k) = x /\ With(w, t, k + 1) = Append(w, ResultTurn(t, k + 1))
        BY <1>3 DEF With, x
    <2>8. QED
        BY <2>4, <2>5, <2>6, <2>7
<1>4. QED
    BY <1>2, <1>3

(* The history after k results of a turn of calls. *)
ToolResults(t, k) == [i \in 1..k |-> ToolMessage(t, i, i)]
HistoryAfter(s, m, k) == Append(s, m) \o ToolResults(m.turn, k)

(* The fields of the message of a result. *)
LEMMA ToolMessageType ==
    ASSUME NEW t \in Nat, NEW k \in Nat
    PROVE  /\ ToolMessage(t, k, k) \in MessageType /\ ToolMessage(t, k, k).role = "tool"
           /\ ToolMessage(t, k, k).turn = t /\ ToolMessage(t, k, k).n = k
BY DEF ToolMessage, Message, MessageType, Carriers

(* One result more in the history. *)
LEMMA HistoryGrows ==
    ASSUME NEW s \in Seq(MessageType), NEW m \in MessageType, NEW k \in Nat
    PROVE  /\ HistoryAfter(s, m, k) \in Seq(MessageType) /\ HistoryAfter(s, m, 0) = Append(s, m)
           /\ HistoryAfter(s, m, k + 1) = Append(HistoryAfter(s, m, k), ToolMessage(m.turn, k + 1, k + 1))
           /\ ToolMessage(m.turn, k + 1, k + 1) \in MessageType
<1>1. m.turn \in Nat
    BY DEF MessageType
<1> DEFINE t == m.turn
           f(i) == ToolMessage(t, i, i)
<1>2. \A i \in Nat : f(i) \in MessageType
    BY <1>1, ToolMessageType
<1>3. /\ ToolResults(t, k) = [i \in 1..k |-> f(i)] /\ ToolResults(t, k + 1) = [i \in 1..k + 1 |-> f(i)]
      /\ ToolResults(t, 0) = [i \in 1..0 |-> f(i)]
    BY DEF ToolResults
<1> HIDE DEF f, t
<1>4. [i \in 1..k |-> f(i)] \in Seq(MessageType) /\ Len([i \in 1..k |-> f(i)]) = k
    BY <1>2
<1>5. [i \in 1..k + 1 |-> f(i)] = Append([i \in 1..k |-> f(i)], f(k + 1))
    <2>1. Append([i \in 1..k |-> f(i)], f(k + 1)) = [i \in 1..k + 1 |-> IF i = k + 1 THEN f(k + 1) ELSE f(i)]
        BY <1>4
    <2>2. QED
        BY <2>1
<1>6. [i \in 1..0 |-> f(i)] = <<>>
    OBVIOUS
<1>7. Append(s, m) \in Seq(MessageType) /\ f(k + 1) \in MessageType
    BY <1>2
<1>8. Append(s, m) \o <<>> = Append(s, m)
    BY <1>7
<1>9. /\ Append(s, m) \o Append(ToolResults(t, k), f(k + 1)) = Append(Append(s, m) \o ToolResults(t, k), f(k + 1))
      /\ Append(s, m) \o ToolResults(t, k) \in Seq(MessageType)
    BY <1>3, <1>4, <1>7, ConcatAppend
<1>10. QED
    BY <1>3, <1>5, <1>6, <1>7, <1>8, <1>9 DEF HistoryAfter, f, t

(* The anthropic wire puts all results of a turn of calls in one user turn. *)
LEMMA AnthropicExchange ==
    ASSUME NEW s \in Seq(MessageType), NEW m \in MessageType, m.role = "assistant"
    PROVE  \A k \in Nat : AnthropicWire(HistoryAfter(s, m, k)) =
                              With(Append(AnthropicWire(s), AssistantTurn(m)), m.turn, k)
<1> DEFINE w == Append(AnthropicWire(s), AssistantTurn(m))
           t == m.turn
           Good == {k \in Nat : AnthropicWire(HistoryAfter(s, m, k)) = With(w, t, k)}
<1>0. t \in Nat
    BY DEF MessageType
<1>1. w \in Bodies /\ w # <<>> /\ Last(w).role = "assistant"
    <2>1. AnthropicWire(s) \in Bodies /\ AssistantTurn(m) \in WireTurnType /\ AssistantTurn(m).role = "assistant"
        BY AnthropicType, MessageTurns DEF AssistantTurn, WireTurn
    <2>2. QED
        BY <2>1, BodyAppend
<1>2. 0 \in Good
    <2>1. AnthropicWire(Append(s, m)) = w
        BY OneAnthropic DEF AnthropicAppend
    <2>2. QED
        BY <2>1, HistoryGrows DEF With
<1>3. ASSUME NEW k \in Nat, k \in Good PROVE k + 1 \in Good
    <2> DEFINE r == ToolMessage(t, k + 1, k + 1)
    <2>1. /\ r \in MessageType /\ r.role = "tool" /\ r.turn = t /\ r.n = k + 1
        BY <1>0, ToolMessageType
    <2>2. /\ HistoryAfter(s, m, k) \in Seq(MessageType) /\ HistoryAfter(s, m, k + 1) = Append(HistoryAfter(s, m, k), r)
        BY HistoryGrows
    <2> HIDE DEF r, w
    <2>3. AnthropicWire(HistoryAfter(s, m, k + 1)) = AppendResult(AnthropicWire(HistoryAfter(s, m, k)), Block("result", t, k + 1))
        BY <2>1, <2>2, OneAnthropic DEF AnthropicAppend
    <2>4. AppendResult(With(w, t, k), Block("result", t, k + 1)) = With(w, t, k + 1)
        BY <1>0, <1>1, OneResult
    <2>5. QED
        BY <1>3, <2>3, <2>4
<1>4. \A k \in Nat : k \in Good
    <2> HIDE DEF Good
    <2>1. QED
        BY <1>2, <1>3, OnMessages!NatInd
<1>5. QED
    BY <1>4

(* The calls a gemini body still waits for. *)
Left(t, n, k) == [j \in 1..n - k |-> Block("use", t, j + k)]

LeftOf(t, n, k) ==
           /\ Left(t, n, k) \in Uncalled /\ Len(Left(t, n, k)) = n - k /\ DOMAIN Left(t, n, k) = 1..n - k
           /\ \A j \in 1..n - k : Left(t, n, k)[j] = Block("use", t, j + k)

(* The calls left are blocks. *)
LEMMA LeftFacts ==
    ASSUME NEW t \in Nat, NEW n \in Nat, NEW k \in Nat, k <= n PROVE LeftOf(t, n, k)
<1>1. \A j \in 1..n - k : Block("use", t, j + k) \in BlockType
    BY BlockTypes
<1>2. n - k \in Nat
    OBVIOUS
<1>3. QED
    BY <1>1, <1>2 DEF LeftOf, Left, Uncalled

Taken(ids, t, n, k, r) ==
    /\ Answers(ids, Left(t, n, k), r) = {1}
    /\ RemoveAt(Left(t, n, k), 1) = Left(t, n, k + 1)
    /\ [Left(t, n, k)[1] EXCEPT !.kind = "result"] = Block("result", t, k + 1)

(* The next result takes the first of the calls left, by identifier and by  *)
(* order (takeCall).                                                        *)
LEMMA OneTaken ==
    ASSUME NEW ids \in BOOLEAN, NEW n \in Nat, NEW k \in Nat, k < n, NEW r \in MessageType, r.n = k + 1
    PROVE  Taken(ids, r.turn, n, k, r)
<1> DEFINE t == r.turn
           p == Left(t, n, k)
<1>0. t \in Nat /\ 1 \in 1..n - k /\ k + 1 <= n /\ n - k \in Nat /\ k + 1 \in Nat
    BY DEF MessageType
<1>l. LeftOf(t, n, k) /\ LeftOf(t, n, k + 1)
    <2> HIDE DEF t
    <2>1. QED
        BY <1>0, LeftFacts
<1>1. /\ p \in Seq(BlockType) /\ Len(p) = n - k /\ DOMAIN p = 1..n - k
      /\ \A j \in 1..n - k : p[j] = Block("use", t, j + k)
    BY <1>l DEF LeftOf, Uncalled
<1>2. /\ Left(t, n, k + 1) \in Seq(BlockType) /\ Len(Left(t, n, k + 1)) = n - (k + 1)
      /\ \A j \in 1..n - (k + 1) : Left(t, n, k + 1)[j] = Block("use", t, j + (k + 1))
    BY <1>l DEF LeftOf, Uncalled
<1> HIDE DEF p, t
<1>3. \A j \in 1..n - k : p[j] = Block("use", t, k + 1) <=> j = 1
    <2>1. \A j \in 1..n - k : p[j].of = j + k
        BY <1>1, BlockFields
    <2>2. Block("use", t, k + 1).of = k + 1 /\ p[1] = Block("use", t, 1 + k)
        BY <1>0, <1>1, BlockFields
    <2>3. 1 + k = k + 1
        OBVIOUS
    <2>4. QED
        BY <2>1, <2>2, <2>3
<1>4. Answers(ids, p, r) = {1}
    <2>1. Answers(ids, p, r) = {j \in 1..n - k : IF ids THEN p[j] = Block("use", t, k + 1) ELSE j = 1}
        BY <1>1 DEF Answers, t
    <2>2. \A j \in 1..n - k : (IF ids THEN p[j] = Block("use", t, k + 1) ELSE j = 1) <=> j = 1
        BY <1>3
    <2>3. QED
        BY <1>0, <2>1, <2>2
<1>5. RemoveAt(p, 1) = Left(t, n, k + 1)
    <2> DEFINE q == SubSeq(p, 2, n - k)
    <2>1. SubSeq(p, 1, 0) = <<>> /\ q \in Seq(BlockType) /\ Len(q) = n - (k + 1)
          /\ \A j \in 1..n - (k + 1) : q[j] = p[j + 1]
        BY <1>0, <1>1
    <2>2. RemoveAt(p, 1) = SubSeq(p, 1, 0) \o SubSeq(p, 2, n - k)
        BY <1>1 DEF RemoveAt
    <2> HIDE DEF q
    <2>3. RemoveAt(p, 1) = q
        <3>1. <<>> \o q = q
            BY <2>1
        <3>2. QED
            BY <2>1, <2>2, <3>1 DEF q
    <2>4. \A j \in 1..n - (k + 1) : q[j] = Left(t, n, k + 1)[j]
        <3>1. ASSUME NEW j \in 1..n - (k + 1) PROVE q[j] = Left(t, n, k + 1)[j]
            <4>1. j + 1 \in 1..n - k /\ (j + 1) + k = j + (k + 1)
                BY <1>0
            <4>2. p[j + 1] = Block("use", t, j + (k + 1))
                BY <1>1, <4>1
            <4>3. QED
                BY <1>2, <2>1, <4>2
        <3>2. QED
            BY <3>1
    <2>5. q = Left(t, n, k + 1)
        <3> DEFINE l == Left(t, n, k + 1)
        <3> HIDE DEF l
        <3>1. l \in Seq(BlockType) /\ Len(l) = Len(q) /\ \A j \in 1..Len(q) : q[j] = l[j]
            BY <1>2, <2>1, <2>4 DEF l
        <3>2. q = l
            BY <2>1, <3>1, SeqEqual
        <3>3. QED
            BY <3>2 DEF l
    <2>6. QED
        BY <2>3, <2>5
<1>6. [p[1] EXCEPT !.kind = "result"] = Block("result", t, k + 1)
    <2>1. p[1] = Block("use", t, k + 1)
        BY <1>0, <1>3
    <2>2. QED
        BY <2>1 DEF Block
<1>7. QED
    BY <1>4, <1>5, <1>6 DEF Taken, p, t

(* The gemini wire puts all results of a turn of calls in one user turn and *)
(* waits for none.                                                          *)
LEMMA GeminiExchange ==
    ASSUME NEW ids \in BOOLEAN, NEW s \in Seq(MessageType), NEW m \in MessageType, m.role = "assistant",
           NEW w \in Bodies, GeminiBuilder(ids, s) = Builder(w, <<>>)
    PROVE  \A k \in Nat : k <= m.n =>
               GeminiBuilder(ids, HistoryAfter(s, m, k)) =
                   Builder(With(Append(w, AssistantTurn(m)), m.turn, k), Left(m.turn, m.n, k))
<1> DEFINE v == Append(w, AssistantTurn(m))
           t == m.turn
           n == m.n
           Good == {k \in Nat : k <= n =>
                        GeminiBuilder(ids, HistoryAfter(s, m, k)) = Builder(With(v, t, k), Left(t, n, k))}
<1>0. t \in Nat /\ n \in Nat
    BY DEF MessageType
<1>1. v \in Bodies /\ v # <<>> /\ Last(v).role = "assistant"
    <2>1. AssistantTurn(m) \in WireTurnType /\ AssistantTurn(m).role = "assistant"
        BY MessageTurns DEF AssistantTurn, WireTurn
    <2>2. QED
        BY <2>1, BodyAppend
<1>2. 0 \in Good
    <2>1. GeminiBuilder(ids, Append(s, m)) = Builder(v, <<>> \o Uses(m))
        <3>1. GeminiBuilder(ids, Append(s, m)) = GeminiAppend(ids, Builder(w, <<>>), m)
            BY OneGemini
        <3>2. GeminiAppend(ids, Builder(w, <<>>), m) = Builder(v, <<>> \o Uses(m))
            BY BuilderFields DEF GeminiAppend
        <3>3. QED
            BY <3>1, <3>2
    <2>2. <<>> \o Uses(m) = Uses(m) /\ Uses(m) = Left(t, n, 0)
        <3>l. LeftOf(t, n, 0) /\ n - 0 = n
            <4> HIDE DEF t, n
            <4>1. 0 <= n /\ 0 \in Nat
                BY <1>0
            <4>2. QED
                BY <1>0, <4>1, LeftFacts
        <3>1. Uses(m) \in Seq(BlockType) /\ Len(Uses(m)) = n
            BY <1>0, MessageBlocks DEF Uses
        <3>2. Left(t, n, 0) \in Seq(BlockType) /\ Len(Left(t, n, 0)) = n
            BY <3>l DEF LeftOf, Uncalled
        <3>3. \A j \in 1..n : Uses(m)[j] = Left(t, n, 0)[j]
            <4>1. \A j \in 1..n : Left(t, n, 0)[j] = Block("use", t, j + 0) /\ j + 0 = j
                BY <1>0, <3>l DEF LeftOf
            <4>2. \A j \in 1..n : Uses(m)[j] = Block("use", t, j)
                BY DEF Uses
            <4>3. QED
                BY <4>1, <4>2
        <3>4. QED
            BY <3>1, <3>2, <3>3, SeqEqual
    <2>3. QED
        BY <2>1, <2>2, HistoryGrows DEF With
<1>3. ASSUME NEW k \in Nat, k \in Good PROVE k + 1 \in Good
    <2> SUFFICES ASSUME k + 1 <= n
                 PROVE  GeminiBuilder(ids, HistoryAfter(s, m, k + 1)) = Builder(With(v, t, k + 1), Left(t, n, k + 1))
        OBVIOUS
    <2> DEFINE r == ToolMessage(t, k + 1, k + 1)
               p == Left(t, n, k)
               b == Block("result", t, k + 1)
    <2>1. /\ r \in MessageType /\ r.role = "tool" /\ r.turn = t /\ r.n = k + 1
        BY <1>0, ToolMessageType
    <2>2. /\ HistoryAfter(s, m, k) \in Seq(MessageType) /\ HistoryAfter(s, m, k + 1) = Append(HistoryAfter(s, m, k), r)
        BY HistoryGrows
    <2>3. k < n /\ k <= n
        BY <1>0
    <2>4. GeminiBuilder(ids, HistoryAfter(s, m, k)) = Builder(With(v, t, k), p)
        BY <1>3, <2>3
    <2> HIDE DEF r, v, n, t
    <2>5. Answers(ids, p, r) = {1} /\ RemoveAt(p, 1) = Left(t, n, k + 1) /\ [p[1] EXCEPT !.kind = "result"] = b
        <3>1. Taken(ids, t, n, k, r)
            <4>1. Taken(ids, r.turn, n, k, r)
                BY <1>0, <2>1, <2>3, OneTaken
            <4>2. QED
                BY <2>1, <4>1
        <3>2. QED
            BY <3>1 DEF Taken, p, b
    <2> HIDE DEF p, b
    <2>6. GeminiBuilder(ids, HistoryAfter(s, m, k + 1)) = GeminiAppend(ids, Builder(With(v, t, k), p), r)
        BY <2>1, <2>2, <2>4, OneGemini
    <2>7. GeminiAppend(ids, Builder(With(v, t, k), p), r) =
              Builder(AppendResult(With(v, t, k), b), Left(t, n, k + 1))
        <3>1. (CHOOSE j \in {1} : TRUE) = 1 /\ {1} # {}
            OBVIOUS
        <3> DEFINE c == Builder(With(v, t, k), p)
        <3>2. c.contents = With(v, t, k) /\ c.pending = p
            BY BuilderFields
        <3> HIDE DEF c
        <3>3. Answers(ids, c.pending, r) = {1} /\ RemoveAt(c.pending, 1) = Left(t, n, k + 1)
              /\ [c.pending[1] EXCEPT !.kind = "result"] = b
            BY <2>5, <3>2
        <3>4. GeminiAppend(ids, c, r) =
                  Builder(AppendResult(c.contents, [c.pending[1] EXCEPT !.kind = "result"]), RemoveAt(c.pending, 1))
            BY <2>1, <3>1, <3>3 DEF GeminiAppend
        <3>5. QED
            BY <3>2, <3>3, <3>4 DEF c
    <2>8. AppendResult(With(v, t, k), b) = With(v, t, k + 1)
        BY <1>0, <1>1, OneResult DEF b
    <2>9. QED
        BY <2>6, <2>7, <2>8
<1>4. \A k \in Nat : k \in Good
    <2> HIDE DEF Good
    <2>1. QED
        BY <1>2, <1>3, OnMessages!NatInd
<1>5. QED
    BY <1>4
-----------------------------------------------------------------------------
(* On the openai wire a turn that is no result keeps what follows what. *)
FollowsAt(w, i) ==
    \E j \in 1..(i - 1) :
        /\ \A k \in (j + 1)..(i - 1) : w[k].role = "tool"
        /\ HasUses(w[j]) /\ Asked(w[i])[1] = Asked(w[j])[i - j]

(* ResultsFollow, turn by turn. *)
LEMMA FollowsEach ==
    ASSUME NEW w PROVE ResultsFollow(w) <=> \A i \in DOMAIN w : w[i].role = "tool" => FollowsAt(w, i)
BY DEF ResultsFollow, FollowsAt

(* A turn more keeps what follows what. *)
LEMMA FollowsAppend ==
    ASSUME NEW w \in Bodies, ResultsFollow(w), NEW t \in WireTurnType,
           t.role = "tool" => FollowsAt(Append(w, t), Len(w) + 1)
    PROVE  ResultsFollow(Append(w, t))
<1> DEFINE n == Len(w)
           x == Append(w, t)
<1>1. /\ n \in Nat /\ DOMAIN x = 1..n + 1 /\ DOMAIN w = 1..n /\ x[n + 1] = t /\ \A i \in 1..n : x[i] = w[i]
    BY BodyAppend
<1> HIDE DEF n, x
<1>2. ASSUME NEW i \in 1..n, x[i].role = "tool" PROVE FollowsAt(x, i)
    <2>1. x[i] = w[i]
        BY <1>1
    <2>2. FollowsAt(w, i)
        BY <1>1, <1>2, <2>1, FollowsEach
    <2>3. PICK j \in 1..(i - 1) : /\ \A k \in (j + 1)..(i - 1) : w[k].role = "tool"
                                  /\ HasUses(w[j]) /\ Asked(w[i])[1] = Asked(w[j])[i - j]
        BY <2>2 DEF FollowsAt
    <2>4. j \in 1..n /\ \A k \in (j + 1)..(i - 1) : k \in 1..n
        BY <1>1
    <2>5. x[j] = w[j] /\ \A k \in (j + 1)..(i - 1) : x[k] = w[k]
        BY <1>1, <2>4
    <2>6. QED
        BY <2>1, <2>3, <2>5 DEF FollowsAt
<1>3. x[n + 1].role = "tool" => FollowsAt(x, n + 1)
    BY <1>1 DEF x, n
<1>4. \A i \in 1..n + 1 : x[i].role = "tool" => FollowsAt(x, i)
    <2>1. \A i \in 1..n + 1 : i \in 1..n \/ i = n + 1
        BY <1>1
    <2>2. QED
        BY <1>2, <1>3, <2>1
<1>5. ResultsFollow(x)
    BY <1>1, <1>4, FollowsEach
<1>6. QED
    BY <1>5 DEF x

(* A result adds no text. *)
LEMMA TextlessTurn ==
    ASSUME NEW w \in Bodies, NEW t \in WireTurnType, \A i \in 1..Len(t.blocks) : t.blocks[i].kind # "text"
    PROVE  TextsOf(Append(w, t)) = TextsOf(w)
<1>1. t.blocks \in Seq(BlockType)
    BY DEF WireTurnType
<1> DEFINE base == TextsOf(w)
<1>2. TextsOf(Append(w, t)) = AddTexts(base, t)
    BY OneTurnOfTexts
<1> HIDE DEF base
<1>3. FoldLeft(AddText, base, t.blocks) = base
    BY <1>1, NoTextAdds
<1>4. QED
    BY <1>2, <1>3 DEF AddTexts, base

(* The turn of a result on the openai wire. *)
LEMMA ToolTurnIs ==
    ASSUME NEW t \in Nat, NEW k \in Nat, NEW m \in MessageType, m.role = "tool", m.turn = t, m.n = k
    PROVE  /\ OpenAITurn(m) \in WireTurnType /\ OpenAITurn(m).role = "tool"
           /\ Len(OpenAITurn(m).blocks) = 1 /\ OpenAITurn(m).blocks[1].kind = "result"
           /\ Asked(OpenAITurn(m))[1] = <<t, k>>
<1> DEFINE b == Block("result", t, k)
           bs == <<b>>
<1>1. b.kind = "result" /\ b.turn = t /\ b.of = k
    BY BlockFields
<1>2. OpenAITurn(m) = WireTurn("tool", bs, FALSE)
    BY DEF OpenAITurn
<1> HIDE DEF b
<1>3. Len(bs) = 1 /\ bs[1] = b /\ DOMAIN bs = 1..1
    OBVIOUS
<1> HIDE DEF bs
<1>4. OpenAITurn(m).role = "tool" /\ OpenAITurn(m).blocks = bs
    BY <1>2 DEF WireTurn
<1>5. Asked(OpenAITurn(m)) = [j \in 1..1 |-> <<bs[j].turn, bs[j].of>>]
    BY <1>3, <1>4 DEF Asked
<1>6. Asked(OpenAITurn(m))[1] = <<t, k>>
    BY <1>1, <1>3, <1>5
<1>7. QED
    BY <1>1, <1>3, <1>4, <1>6, MessageTurns

(* The openai body after k results of a turn of calls. *)
OpenAIAfter(s, m, k) ==
    LET w == OpenAIWire(HistoryAfter(s, m, k)) IN
    /\ w \in Bodies /\ Len(w) = Len(s) + 1 + k /\ w[Len(s) + 1].blocks = UseBlocks(m.turn, m.n)
    /\ \A j \in Len(s) + 2..Len(s) + 1 + k : w[j].role = "tool"
    /\ ResultsFollow(w) /\ TextsOf(w) = TextsOf(OpenAIWire(s))

(* The turn of an answer with calls. *)
LEMMA UsesAre ==
    ASSUME NEW m \in MessageType, m.role = "assistant", m.n > 0
    PROVE  /\ AssistantBlocks(m) = UseBlocks(m.turn, m.n)
           /\ AssistantTurn(m) \in WireTurnType /\ AssistantTurn(m).blocks = UseBlocks(m.turn, m.n)
           /\ AssistantTurn(m).role = "assistant"
           /\ OpenAITurn(m) \in WireTurnType /\ OpenAITurn(m).blocks = UseBlocks(m.turn, m.n)
           /\ OpenAITurn(m).role = "assistant"
<1>1. m.n # 0
    BY DEF MessageType
<1>2. AssistantBlocks(m) = UseBlocks(m.turn, m.n)
    BY <1>1 DEF AssistantBlocks, Uses, UseBlocks
<1>3. AssistantTurn(m).blocks = AssistantBlocks(m) /\ AssistantTurn(m).role = "assistant"
    BY DEF AssistantTurn, WireTurn
<1>4. OpenAITurn(m).blocks = AssistantBlocks(m) /\ OpenAITurn(m).role = "assistant"
    BY DEF OpenAITurn, WireTurn
<1>5. QED
    BY <1>2, <1>3, <1>4, MessageTurns

(* The openai wire puts the results after their calls, one turn each and in *)
(* order.                                                                   *)
LEMMA OpenAIExchange ==
    ASSUME NEW s \in Seq(MessageType), NEW m \in MessageType, m.role = "assistant", m.n > 0,
           ResultsFollow(OpenAIWire(s))
    PROVE  \A k \in Nat : k <= m.n => OpenAIAfter(s, m, k)
<1> DEFINE l == Len(s)
           t == m.turn
           n == m.n
           o == OpenAIWire(s)
           Good == {k \in Nat : k <= n => OpenAIAfter(s, m, k)}
<1>0. t \in Nat /\ n \in Nat /\ l \in Nat /\ o \in Bodies /\ Len(o) = l
    <2>1. t \in Nat /\ n \in Nat
        BY DEF MessageType
    <2>2. OpenAIWire(s) \in Bodies /\ Len(OpenAIWire(s)) = Len(s) /\ Len(s) \in Nat
        BY OneOpenAI
    <2>3. QED
        BY <2>1, <2>2
<1>b. BlocksOf(t, n)
    <2> HIDE DEF t, n
    <2>1. QED
        BY <1>0, ExchangeBlocks
<1>1. 0 \in Good
    <2> DEFINE a == OpenAITurn(m)
               x == Append(o, a)
    <2>1. OpenAIWire(HistoryAfter(s, m, 0)) = x
        BY OneOpenAI, HistoryGrows
    <2>2. a \in WireTurnType /\ a.role = "assistant" /\ a.blocks = UseBlocks(t, n)
        BY UsesAre
    <2> HIDE DEF a, l, t, n, o
    <2>3. x \in Bodies /\ Len(x) = l + 1 /\ x[l + 1] = a
        BY <1>0, <2>2, BodyAppend
    <2>4. TextsOf(x) = TextsOf(o)
        <3>1. \A i \in 1..Len(a.blocks) : a.blocks[i].kind # "text"
            BY <1>b, <2>2 DEF BlocksOf
        <3>2. QED
            BY <1>0, <2>2, <3>1, TextlessTurn
    <2>5. ResultsFollow(x)
        <3>1. ResultsFollow(o)
            BY DEF o
        <3>2. QED
            BY <1>0, <2>2, <3>1, FollowsAppend
    <2> HIDE DEF x
    <2>6. OpenAIAfter(s, m, 0)
        <3>1. l + 1 + 0 = l + 1 /\ l + 2..l + 1 + 0 = {}
            BY <1>0
        <3>2. QED
            BY <2>1, <2>2, <2>3, <2>4, <2>5, <3>1 DEF OpenAIAfter, l, t, n, o
    <2>7. QED
        BY <2>6
<1>2. ASSUME NEW k \in Nat, k \in Good PROVE k + 1 \in Good
    <2> SUFFICES ASSUME k + 1 <= n PROVE OpenAIAfter(s, m, k + 1)
        OBVIOUS
    <2> DEFINE r == ToolMessage(t, k + 1, k + 1)
               a == OpenAITurn(r)
               w == OpenAIWire(HistoryAfter(s, m, k))
               x == Append(w, a)
    <2>1. /\ r \in MessageType /\ r.role = "tool" /\ r.turn = t /\ r.n = k + 1 /\ k + 1 \in Nat
        BY <1>0, ToolMessageType
    <2>2. /\ HistoryAfter(s, m, k) \in Seq(MessageType) /\ HistoryAfter(s, m, k + 1) = Append(HistoryAfter(s, m, k), r)
        BY HistoryGrows
    <2>3. k <= n
        BY <1>0
    <2>4. /\ w \in Bodies /\ Len(w) = l + 1 + k /\ w[l + 1].blocks = UseBlocks(t, n)
          /\ \A j \in l + 2..l + 1 + k : w[j].role = "tool"
          /\ ResultsFollow(w) /\ TextsOf(w) = TextsOf(o)
        BY <1>2, <2>3 DEF OpenAIAfter
    <2> HIDE DEF r, l, t, n, o
    <2>5. OpenAIWire(HistoryAfter(s, m, k + 1)) = x
        BY <2>1, <2>2, OneOpenAI
    <2> HIDE DEF w
    <2>6. /\ a \in WireTurnType /\ a.role = "tool" /\ Len(a.blocks) = 1 /\ a.blocks[1].kind = "result"
          /\ Asked(a)[1] = <<t, k + 1>>
        BY <1>0, <2>1, ToolTurnIs
    <2> HIDE DEF a
    <2>7. /\ x \in Bodies /\ Len(x) = l + 1 + k + 1 /\ x[l + 1 + k + 1] = a /\ \A i \in 1..l + 1 + k : x[i] = w[i]
        BY <2>4, <2>6, BodyAppend
    <2>8. TextsOf(x) = TextsOf(o)
        <3>1. \A i \in 1..Len(a.blocks) : a.blocks[i].kind # "text"
            BY <2>6
        <3>2. QED
            BY <2>4, <2>6, <3>1, TextlessTurn
    <2> HIDE DEF x
    <2>9. x[l + 1] = w[l + 1] /\ \A j \in l + 2..l + 1 + k : x[j].role = "tool"
        <3>1. l + 1 \in 1..l + 1 + k /\ \A j \in l + 2..l + 1 + k : j \in 1..l + 1 + k
            BY <1>0
        <3>2. QED
            BY <2>4, <2>7, <3>1
    <2>10. FollowsAt(x, l + 1 + k + 1)
        <3> DEFINE i == l + 1 + k + 1
                   u == x[l + 1]
        <3>1. l + 1 \in 1..i - 1 /\ i - (l + 1) = k + 1 /\ (l + 1) + 1 = l + 2 /\ i - 1 = l + 1 + k
            BY <1>0
        <3>2. u.blocks = UseBlocks(t, n)
            BY <2>4, <2>9
        <3> HIDE DEF u
        <3>3. 1 \in 1..n /\ k + 1 \in 1..n
            BY <1>0
        <3>4. /\ DOMAIN u.blocks = 1..n /\ u.blocks[1].kind = "use"
              /\ u.blocks[k + 1].turn = t /\ u.blocks[k + 1].of = k + 1
            BY <1>b, <3>2, <3>3 DEF BlocksOf
        <3>5. HasUses(u)
            BY <3>3, <3>4 DEF HasUses
        <3>6. Asked(u)[k + 1] = <<t, k + 1>>
            BY <3>3, <3>4 DEF Asked
        <3>7. x[i] = a
            BY <2>7
        <3> HIDE DEF i
        <3>8. \A j \in l + 2..l + 1 + k : x[j].role = "tool"
            BY <2>9
        <3>9. QED
            BY <2>6, <3>1, <3>5, <3>6, <3>7, <3>8 DEF FollowsAt, u, i
    <2>11. ResultsFollow(x)
        <3>1. FollowsAt(Append(w, a), Len(w) + 1)
            BY <2>4, <2>10 DEF x
        <3>2. QED
            BY <2>4, <2>6, <3>1, FollowsAppend DEF x
    <2>12. \A j \in l + 2..l + 1 + (k + 1) : x[j].role = "tool"
        <3>1. \A j \in l + 2..l + 1 + (k + 1) : j \in l + 2..l + 1 + k \/ j = l + 1 + k + 1
            BY <1>0
        <3>2. QED
            BY <2>6, <2>7, <2>9, <3>1
    <2>13. Len(x) = l + 1 + (k + 1)
        BY <1>0, <2>7
    <2>14. QED
        BY <2>4, <2>5, <2>7, <2>8, <2>9, <2>11, <2>12, <2>13 DEF OpenAIAfter, l, t, n, o
<1>3. \A k \in Nat : k \in Good
    <2> HIDE DEF Good
    <2>1. QED
        BY <1>1, <1>2, OnMessages!NatInd
<1>4. QED
    BY <1>3
-----------------------------------------------------------------------------
(* A history in which every call is answered: each wire accepts it, and no  *)
(* gemini body waits for a result.                                          *)
Complete(b, s) == b = Builder(b.contents, <<>>) /\ Accepts(b.contents, s)
Settled(s) ==
    /\ s \in Seq(MessageType)
    /\ ResultsFollow(OpenAIWire(s))
    /\ Accepts(AnthropicWire(s), s)
    /\ \A ids \in BOOLEAN : Complete(GeminiBuilder(ids, s), s)

(* A builder that waits for no result. *)
LEMMA CompleteIs ==
    ASSUME NEW w, NEW s PROVE Complete(Builder(w, <<>>), s) <=> Accepts(w, s)
BY BuilderFields DEF Complete

(* The empty history is settled. *)
LEMMA SettledEmpty == Settled(<<>>)
<1>1. <<>> \in Seq(MessageType) /\ <<>> \in Bodies
    BY DEF Bodies
<1>2. OpenAIWire(<<>>) = <<>>
    BY DEF OpenAIWire
<1>3. ResultsFollow(<<>>) /\ CallsPairUp(<<>>)
    BY DEF ResultsFollow, CallsPairUp
<1>4. Accepts(<<>>, <<>>)
    BY <1>1, <1>2, <1>3 DEF Accepts
<1>5. QED
    BY <1>1, <1>2, <1>3, <1>4, OneAnthropic, OneGemini, CompleteIs DEF Settled

(* A text more: what a user says, or an answer without calls. *)
IsText(m) == m.role = "user" \/ (m.role = "assistant" /\ m.n = 0)
TextTurn(m) == IF m.role = "user" THEN WireTurn("user", Texts(m), FALSE) ELSE AssistantTurn(m)

(* The turns of a text. *)
LEMMA TextTurns ==
    ASSUME NEW m \in MessageType, IsText(m)
    PROVE  /\ TextTurn(m) \in WireTurnType /\ TextTurn(m).blocks = Texts(m)
           /\ OpenAITurn(m) \in WireTurnType /\ OpenAITurn(m).blocks = Texts(m) /\ OpenAITurn(m).role # "tool"
           /\ TextTurn(m).role = m.role
           /\ ~HasUses(TextTurn(m)) /\ ~HasResults(TextTurn(m))
<1>1. TextTurn(m).blocks = Texts(m) /\ TextTurn(m).role = m.role
    BY DEF IsText, TextTurn, AssistantTurn, AssistantBlocks, WireTurn
<1>2. OpenAITurn(m).blocks = Texts(m) /\ OpenAITurn(m).role # "tool"
    BY DEF IsText, OpenAITurn, AssistantBlocks, WireTurn
<1>3. TextTurn(m) \in WireTurnType /\ OpenAITurn(m) \in WireTurnType
    BY MessageTurns DEF TextTurn
<1>4. \A k \in DOMAIN Texts(m) : Texts(m)[k].kind = "text"
    <2> DEFINE b == Block("text", m.turn, 0)
    <2>1. b.kind = "text"
        BY BlockFields
    <2> HIDE DEF b
    <2>2. \A k \in DOMAIN <<b>> : <<b>>[k] = b
        OBVIOUS
    <2>3. QED
        BY <2>1, <2>2 DEF Texts, b
<1>5. ~HasUses(TextTurn(m)) /\ ~HasResults(TextTurn(m))
    BY <1>1, <1>4 DEF HasUses, HasResults
<1>6. QED
    BY <1>1, <1>2, <1>3, <1>5

(* A text more leaves a body acceptable. *)
LEMMA AcceptsText ==
    ASSUME NEW s \in Seq(MessageType), NEW m \in MessageType, IsText(m), NEW w, Accepts(w, s)
    PROVE  Accepts(Append(w, TextTurn(m)), Append(s, m))
<1> DEFINE t == TextTurn(m)
           u == OpenAITurn(m)
           o == OpenAIWire(s)
<1>1. t \in WireTurnType /\ u \in WireTurnType /\ t.blocks = u.blocks /\ ~HasUses(t) /\ ~HasResults(t)
    BY TextTurns
<1>2. o \in Bodies /\ OpenAIWire(Append(s, m)) = Append(o, u)
    BY OneOpenAI
<1>3. w \in Bodies /\ CallsPairUp(w) /\ TextsOf(w) = TextsOf(o)
    BY DEF Accepts
<1> HIDE DEF t, u, o
<1>4. Append(w, t) \in Bodies /\ CallsPairUp(Append(w, t))
    BY <1>1, <1>3, BodyAppend, PairsAppend
<1>5. TextsOf(Append(w, t)) = TextsOf(Append(o, u))
    <2>1. TextsOf(Append(w, t)) = AddTexts(TextsOf(w), t) /\ TextsOf(Append(o, u)) = AddTexts(TextsOf(o), u)
        BY <1>1, <1>2, <1>3, OneTurnOfTexts
    <2>2. \A base : AddTexts(base, t) = AddTexts(base, u)
        BY <1>1 DEF AddTexts
    <2>3. QED
        BY <1>3, <2>1, <2>2
<1>6. QED
    BY <1>2, <1>4, <1>5 DEF Accepts, t

(* A text is a turn of its own on the anthropic wire. *)
LEMMA AnthropicText ==
    ASSUME NEW s \in Seq(MessageType), NEW m \in MessageType, IsText(m)
    PROVE  AnthropicWire(Append(s, m)) = Append(AnthropicWire(s), TextTurn(m))
BY OneAnthropic DEF AnthropicAppend, IsText, TextTurn

(* A text more leaves a history settled. *)
LEMMA SettledText ==
    ASSUME NEW s, Settled(s), NEW m \in MessageType, IsText(m)
    PROVE  Settled(Append(s, m))
<1>1. /\ s \in Seq(MessageType) /\ ResultsFollow(OpenAIWire(s)) /\ Accepts(AnthropicWire(s), s)
      /\ \A ids \in BOOLEAN : Complete(GeminiBuilder(ids, s), s)
    BY DEF Settled
<1>2. Append(s, m) \in Seq(MessageType)
    BY <1>1
<1>3. ResultsFollow(OpenAIWire(Append(s, m)))
    BY <1>1, OneOpenAI, TextTurns, FollowsAppend
<1>4. Accepts(AnthropicWire(Append(s, m)), Append(s, m))
    BY <1>1, AcceptsText, AnthropicText
<1>5. ASSUME NEW ids \in BOOLEAN PROVE Complete(GeminiBuilder(ids, Append(s, m)), Append(s, m))
    <2> DEFINE b == GeminiBuilder(ids, s)
               w == b.contents
    <2>1. b = Builder(w, <<>>) /\ Accepts(w, s)
        BY <1>1 DEF Complete
    <2>2. GeminiBuilder(ids, Append(s, m)) = GeminiAppend(ids, b, m)
        BY <1>1, OneGemini
    <2>3. b.pending = <<>>
        BY <2>1, BuilderFields
    <2> HIDE DEF b
    <2>4. GeminiAppend(ids, b, m) = Builder(Append(w, TextTurn(m)), <<>>)
        <3>1. CASE m.role = "user"
            BY <2>3, <3>1 DEF GeminiAppend, TextTurn
        <3>2. CASE m.role = "assistant" /\ m.n = 0
            <4>1. Uses(m) = <<>>
                BY <3>2 DEF Uses
            <4>2. <<>> \o <<>> = <<>>
                OBVIOUS
            <4>3. QED
                BY <2>3, <3>2, <4>1, <4>2 DEF GeminiAppend, TextTurn
        <3>3. QED
            BY <3>1, <3>2 DEF IsText
    <2> HIDE DEF w
    <2>5. Accepts(Append(w, TextTurn(m)), Append(s, m))
        BY <1>1, <2>1, AcceptsText
    <2>6. QED
        BY <2>2, <2>4, <2>5, CompleteIs
<1>6. QED
    BY <1>2, <1>3, <1>4, <1>5 DEF Settled

(* A turn of calls and its results. *)
LEMMA AcceptsExchange ==
    ASSUME NEW s \in Seq(MessageType), NEW m \in MessageType, m.role = "assistant", m.n > 0,
           NEW w, Accepts(w, s), ResultsFollow(OpenAIWire(s))
    PROVE  Accepts(With(Append(w, AssistantTurn(m)), m.turn, m.n), HistoryAfter(s, m, m.n))
<1> DEFINE a == AssistantTurn(m)
           t == m.turn
           n == m.n
           r == ResultTurn(t, n)
<1>0. t \in Nat /\ n \in Nat /\ n <= n /\ n # 0
    BY DEF MessageType
<1>1. a \in WireTurnType /\ a.blocks = UseBlocks(t, n)
    BY UsesAre
<1>2. OpenAIAfter(s, m, n)
    BY <1>0, OpenAIExchange
<1>3. w \in Bodies /\ CallsPairUp(w) /\ TextsOf(w) = TextsOf(OpenAIWire(s))
    BY DEF Accepts
<1>4. TextsOf(OpenAIWire(HistoryAfter(s, m, n))) = TextsOf(w)
    BY <1>2, <1>3 DEF OpenAIAfter
<1> HIDE DEF a, t
<1>b. BlocksOf(t, n)
    <2> HIDE DEF n
    <2>1. QED
        BY <1>0, ExchangeBlocks
<1> HIDE DEF n
<1>5. r \in WireTurnType /\ r.blocks = ResultBlocks(t, n)
    BY <1>b DEF BlocksOf
<1>6. CallsPairUp(Append(Append(w, a), r))
    <2>1. n > 0
        BY <1>0
    <2>2. QED
        BY <1>0, <1>1, <1>3, <2>1, ExchangePairs
<1> HIDE DEF r
<1>7. Append(w, a) \in Bodies /\ Append(Append(w, a), r) \in Bodies
    BY <1>1, <1>3, <1>5, BodyAppend
<1>8. TextsOf(Append(Append(w, a), r)) = TextsOf(w)
    <2>1. \A i \in 1..Len(a.blocks) : a.blocks[i].kind # "text"
        BY <1>b, <1>1 DEF BlocksOf
    <2>2. \A i \in 1..Len(r.blocks) : r.blocks[i].kind # "text"
        BY <1>b, <1>5 DEF BlocksOf
    <2>3. TextsOf(Append(w, a)) = TextsOf(w)
        BY <1>1, <1>3, <2>1, TextlessTurn
    <2>4. TextsOf(Append(Append(w, a), r)) = TextsOf(Append(w, a))
        BY <1>5, <1>7, <2>2, TextlessTurn
    <2>5. QED
        BY <2>3, <2>4
<1>9. With(Append(w, a), t, n) = Append(Append(w, a), r)
    BY <1>0 DEF With, r
<1>10. QED
    BY <1>4, <1>6, <1>7, <1>8, <1>9 DEF Accepts, a, t, n

(* ... leave a history settled. *)
LEMMA SettledCalls ==
    ASSUME NEW s, Settled(s), NEW m \in MessageType, m.role = "assistant", m.n > 0
    PROVE  Settled(HistoryAfter(s, m, m.n))
<1>0. m.n \in Nat /\ m.n <= m.n /\ m.turn \in Nat
    BY DEF MessageType
<1>1. /\ s \in Seq(MessageType) /\ ResultsFollow(OpenAIWire(s)) /\ Accepts(AnthropicWire(s), s)
      /\ \A ids \in BOOLEAN : Complete(GeminiBuilder(ids, s), s)
    BY DEF Settled
<1>2. HistoryAfter(s, m, m.n) \in Seq(MessageType)
    BY <1>0, <1>1, HistoryGrows
<1>3. ResultsFollow(OpenAIWire(HistoryAfter(s, m, m.n)))
    BY <1>0, <1>1, OpenAIExchange DEF OpenAIAfter
<1>4. Accepts(AnthropicWire(HistoryAfter(s, m, m.n)), HistoryAfter(s, m, m.n))
    <2>1. AnthropicWire(HistoryAfter(s, m, m.n)) = With(Append(AnthropicWire(s), AssistantTurn(m)), m.turn, m.n)
        BY <1>0, <1>1, AnthropicExchange
    <2>2. Accepts(With(Append(AnthropicWire(s), AssistantTurn(m)), m.turn, m.n), HistoryAfter(s, m, m.n))
        BY <1>1, AcceptsExchange
    <2>3. QED
        BY <2>1, <2>2
<1>5. ASSUME NEW ids \in BOOLEAN PROVE Complete(GeminiBuilder(ids, HistoryAfter(s, m, m.n)), HistoryAfter(s, m, m.n))
    <2> DEFINE w == GeminiBuilder(ids, s).contents
    <2>1. GeminiBuilder(ids, s) = Builder(w, <<>>) /\ Accepts(w, s)
        BY <1>1 DEF Complete
    <2> HIDE DEF w
    <2>2. w \in Bodies
        BY <2>1 DEF Accepts
    <2>3. GeminiBuilder(ids, HistoryAfter(s, m, m.n)) =
              Builder(With(Append(w, AssistantTurn(m)), m.turn, m.n), Left(m.turn, m.n, m.n))
        BY <1>0, <1>1, <2>1, <2>2, GeminiExchange
    <2>4. Left(m.turn, m.n, m.n) = <<>>
        <3>1. LeftOf(m.turn, m.n, m.n)
            BY <1>0, LeftFacts
        <3>2. Len(Left(m.turn, m.n, m.n)) = 0 /\ Left(m.turn, m.n, m.n) \in Seq(BlockType)
            BY <1>0, <3>1 DEF LeftOf, Uncalled
        <3>3. QED
            BY <3>2, EmptySeq
    <2>5. Accepts(With(Append(w, AssistantTurn(m)), m.turn, m.n), HistoryAfter(s, m, m.n))
        BY <1>1, <2>1, AcceptsExchange
    <2>6. QED
        BY <2>3, <2>4, <2>5, CompleteIs
<1>6. QED
    BY <1>2, <1>3, <1>4, <1>5 DEF Settled

(* A switch of backends drops carriers and nothing else. *)
LEMMA AcceptsStripped ==
    ASSUME NEW s \in Seq(MessageType), NEW v, Accepts(v, s), NEW w \in Bodies, Alike(v, w)
    PROVE  Accepts(w, StripCarriers(s))
<1>1. v \in Bodies /\ CallsPairUp(v) /\ TextsOf(v) = TextsOf(OpenAIWire(s))
    BY DEF Accepts
<1>2. CallsPairUp(w) /\ TextsOf(w) = TextsOf(v)
    BY <1>1, AlikePairs, AlikeTexts
<1>3. QED
    BY <1>1, <1>2, OpenAIStripped DEF Accepts

(* ... and leaves a history settled. *)
LEMMA SettledStripped ==
    ASSUME NEW s, Settled(s) PROVE Settled(StripCarriers(s))
<1>1. /\ s \in Seq(MessageType) /\ ResultsFollow(OpenAIWire(s)) /\ Accepts(AnthropicWire(s), s)
      /\ \A ids \in BOOLEAN : Complete(GeminiBuilder(ids, s), s)
    BY DEF Settled
<1>2. StripCarriers(s) \in Seq(MessageType)
    BY <1>1, StripCarriersType
<1>3. ResultsFollow(OpenAIWire(StripCarriers(s)))
    BY <1>1, OpenAIStripped
<1>4. Accepts(AnthropicWire(StripCarriers(s)), StripCarriers(s))
    BY <1>1, <1>2, AnthropicStripped, AnthropicType, AcceptsStripped
<1>5. ASSUME NEW ids \in BOOLEAN PROVE Complete(GeminiBuilder(ids, StripCarriers(s)), StripCarriers(s))
    <2> DEFINE a == GeminiBuilder(ids, s)
               b == GeminiBuilder(ids, StripCarriers(s))
    <2>1. AlikeBuilders(a, b)
        BY <1>1, GeminiStripped
    <2>2. a = Builder(a.contents, <<>>) /\ Accepts(a.contents, s)
        BY <1>1 DEF Complete
    <2> HIDE DEF a, b
    <2>3. a.pending = <<>>
        BY <2>2, BuilderFields
    <2>4. b = Builder(b.contents, <<>>) /\ b.contents \in Bodies /\ Alike(a.contents, b.contents)
        BY <2>1, <2>3 DEF AlikeBuilders, BuilderType
    <2>5. Accepts(b.contents, StripCarriers(s))
        BY <1>1, <2>2, <2>4, AcceptsStripped
    <2>6. QED
        BY <2>4, <2>5 DEF Complete, b
<1>6. QED
    BY <1>2, <1>3, <1>4, <1>5 DEF Settled

(* What the requests say of a settled history. *)
LEMMA SettledAccepted ==
    ASSUME Settled(messages)
    PROVE  /\ \A wire \in Grouped : CallsPairUp(wire) /\ TextsKept(wire)
           /\ ResultsFollow(OpenAIWire(messages))
<1>1. \A w : Accepts(w, messages) => CallsPairUp(w) /\ TextsKept(w)
    BY DEF Accepts, TextsKept
<1>2. \A ids \in BOOLEAN : Accepts(GeminiWire(ids, messages), messages)
    BY DEF Settled, Complete, GeminiWire
<1>3. QED
    BY <1>1, <1>2 DEF Settled, Grouped
-----------------------------------------------------------------------------
(* A turn of the user that can hold a mark, and a body that ends in one. *)
UserTurn(t) == t.role = "user" /\ Markable(t)
EndsInUser(w) == w # <<>> /\ UserTurn(w[Len(w)])

(* w is v, an answer of the model, and what the user said to it. *)
PinOf(v, w) ==
    /\ EndsInUser(v) /\ EndsInUser(w) /\ Len(w) = Len(v) + 2 /\ w[Len(v) + 1].role = "assistant"
    /\ UserTurn(w[Len(v)]) /\ w[Len(v)].blocks = v[Len(v)].blocks

(* Alike bodies end alike. *)
LEMMA AlikeEnds ==
    ASSUME NEW v \in Bodies, NEW w \in Bodies, Alike(v, w), EndsInUser(v) PROVE EndsInUser(w)
<1>1. /\ Len(v) = Len(w) /\ Len(v) \in Nat /\ v # <<>> /\ Len(v) # 0
    BY DEF Alike, EndsInUser, Bodies
<1>2. w # <<>> /\ Len(v) \in 1..Len(v)
    BY <1>1
<1>3. SameTurn(v[Len(v)], w[Len(v)])
    BY <1>2 DEF Alike
<1>4. QED
    BY <1>1, <1>2, <1>3 DEF EndsInUser, UserTurn, Markable, SameTurn

(* ... and pin alike. *)
LEMMA AlikePin ==
    ASSUME NEW v \in Bodies, NEW w \in Bodies, PinOf(v, w),
           NEW x \in Bodies, NEW y \in Bodies, Alike(v, x), Alike(w, y)
    PROVE  PinOf(x, y)
<1>1. EndsInUser(x) /\ EndsInUser(y)
    BY AlikeEnds DEF PinOf
<1>2. Len(x) = Len(v) /\ Len(y) = Len(w) /\ Len(w) = Len(v) + 2 /\ Len(v) \in Nat /\ Len(v) # 0
    BY DEF Alike, PinOf, EndsInUser, Bodies
<1>3. SameTurn(v[Len(v)], x[Len(v)])
    BY <1>2 DEF Alike
<1>4. SameTurn(w[Len(v)], y[Len(v)]) /\ SameTurn(w[Len(v) + 1], y[Len(v) + 1])
    <2>1. Len(v) \in 1..Len(w) /\ Len(v) + 1 \in 1..Len(w)
        BY <1>2
    <2>2. QED
        BY <2>1 DEF Alike
<1>5. UserTurn(y[Len(v)])
    BY <1>4 DEF PinOf, UserTurn, Markable, SameTurn
<1>6. y[Len(v) + 1].role = "assistant" /\ y[Len(v)].blocks = x[Len(v)].blocks
    BY <1>3, <1>4 DEF PinOf, SameTurn
<1>7. QED
    BY <1>1, <1>2, <1>5, <1>6 DEF PinOf

(* An answer and a user turn pin the turn before them. *)
LEMMA PinAppends ==
    ASSUME NEW v \in Bodies, EndsInUser(v), NEW a \in WireTurnType, a.role = "assistant",
           NEW t \in WireTurnType, UserTurn(t)
    PROVE  PinOf(v, Append(Append(v, a), t)) /\ EndsInUser(Append(Append(v, a), t))
<1> DEFINE n == Len(v)
           w == Append(Append(v, a), t)
<1>1. /\ n \in Nat /\ n # 0 /\ Len(w) = n + 2 /\ w # <<>> /\ w[n + 1] = a /\ w[n + 2] = t
      /\ \A i \in 1..n : w[i] = v[i]
    BY DEF EndsInUser, Bodies
<1> HIDE DEF w, n
<1>2. n \in 1..n
    BY <1>1
<1>3. w[n] = v[n]
    BY <1>1, <1>2
<1>4. EndsInUser(w) /\ UserTurn(w[n])
    BY <1>1, <1>3 DEF EndsInUser, n
<1>5. PinOf(v, w)
    BY <1>1, <1>3, <1>4 DEF PinOf, n
<1>6. QED
    BY <1>4, <1>5 DEF w

(* What the user said since the last answer, and the body before it. *)
PinnedBy(s, before, a, rest) ==
    /\ before \in Seq(MessageType) /\ a \in MessageType /\ rest \in Seq(MessageType)
    /\ s = Append(before, a) \o rest /\ a.role = "assistant"
    /\ \A i \in 1..Len(rest) : rest[i].role # "assistant"
    /\ PinOf(AnthropicWire(before), AnthropicWire(s))
Pinned(s) ==
    \/ \A i \in 1..Len(s) : s[i].role # "assistant"
    \/ \E before, a, rest : PinnedBy(s, before, a, rest)

(* Stripping a concatenation strips its parts. *)
LEMMA StripConcat ==
    ASSUME NEW s \in Seq(MessageType), NEW r \in Seq(MessageType)
    PROVE  StripCarriers(s \o r) = StripCarriers(s) \o StripCarriers(r)
<1> DEFINE n == Len(s)
           k == Len(r)
           x == s \o r
<1>1. /\ n \in Nat /\ k \in Nat /\ x \in Seq(MessageType) /\ Len(x) = n + k
      /\ \A i \in 1..n : x[i] = s[i]
      /\ \A i \in n + 1..n + k : x[i] = r[i - n]
    BY ConcatProperties, LenProperties
<1>2. /\ StripCarriers(s) \in Seq(MessageType) /\ Len(StripCarriers(s)) = n
      /\ \A i \in 1..n : StripCarriers(s)[i] = Bare(s[i])
    BY StripCarriersType DEF StripCarriers, Bare
<1>3. /\ StripCarriers(r) \in Seq(MessageType) /\ Len(StripCarriers(r)) = k
      /\ \A i \in 1..k : StripCarriers(r)[i] = Bare(r[i])
    BY StripCarriersType DEF StripCarriers, Bare
<1> HIDE DEF x
<1>4. /\ StripCarriers(x) \in Seq(MessageType) /\ Len(StripCarriers(x)) = n + k
      /\ \A i \in 1..n + k : StripCarriers(x)[i] = Bare(x[i])
    <2>1. DOMAIN x = 1..n + k
        BY <1>1, LenProperties
    <2>2. QED
        BY <1>1, <2>1, StripCarriersType DEF StripCarriers, Bare
<1> DEFINE ss == StripCarriers(s)
           sr == StripCarriers(r)
           sx == StripCarriers(x)
           y == ss \o sr
<1> HIDE DEF ss, sr, sx, n, k
<1>5. /\ y \in Seq(MessageType) /\ Len(y) = n + k
      /\ \A i \in 1..n : y[i] = ss[i]
      /\ \A i \in n + 1..n + k : y[i] = sr[i - n]
    <2>1. ss \in Seq(MessageType) /\ sr \in Seq(MessageType) /\ Len(ss) = n /\ Len(sr) = k
        BY <1>2, <1>3 DEF ss, sr
    <2>2. QED
        <3>1. /\ ss \o sr \in Seq(MessageType) /\ Len(ss \o sr) = Len(ss) + Len(sr)
              /\ \A i \in 1..Len(ss) + Len(sr) : (ss \o sr)[i] = IF i <= Len(ss) THEN ss[i] ELSE sr[i - Len(ss)]
            BY <2>1, ConcatProperties
        <3>2. /\ \A i \in 1..n : i \in 1..n + k /\ i <= n
              /\ \A i \in n + 1..n + k : i \in 1..n + k /\ ~(i <= n)
            BY <1>1
        <3>3. QED
            BY <2>1, <3>1, <3>2
<1>6. \A i \in 1..n + k : y[i] = sx[i]
    <2>1. ASSUME NEW i \in 1..n PROVE y[i] = sx[i]
        <3>1. i \in 1..n + k
            BY <1>1
        <3>2. QED
            BY <1>1, <1>2, <1>4, <1>5, <3>1 DEF ss, sx
    <2>2. ASSUME NEW i \in n + 1..n + k PROVE y[i] = sx[i]
        <3>1. i \in 1..n + k /\ i - n \in 1..k
            BY <1>1
        <3>2. QED
            BY <1>1, <1>3, <1>4, <1>5, <3>1 DEF sr, sx
    <2>3. \A i \in 1..n + k : i \in 1..n \/ i \in n + 1..n + k
        BY <1>1
    <2>4. QED
        BY <2>1, <2>2, <2>3
<1> HIDE DEF y
<1>7. sx \in Seq(MessageType) /\ Len(sx) = Len(y) /\ \A i \in 1..Len(y) : y[i] = sx[i]
    BY <1>4, <1>5, <1>6 DEF sx
<1>8. y = sx
    BY <1>5, <1>7, SeqEqual
<1>9. QED
    BY <1>8 DEF y, sx, ss, sr, x

(* Stripping keeps what is pinned. *)
LEMMA PinnedStripped ==
    ASSUME NEW s \in Seq(MessageType), Pinned(s) PROVE Pinned(StripCarriers(s))
<1>1. \A r \in Seq(MessageType) :
          /\ StripCarriers(r) \in Seq(MessageType) /\ Len(StripCarriers(r)) = Len(r)
          /\ \A i \in 1..Len(r) : StripCarriers(r)[i].role = r[i].role
    <2>1. ASSUME NEW r \in Seq(MessageType), NEW i \in 1..Len(r) PROVE StripCarriers(r)[i].role = r[i].role
        <3>0. i \in DOMAIN r /\ r[i] \in MessageType
            OBVIOUS
        <3>1. r[i] \in MessageType /\ StripCarriers(r)[i] = Bare(r[i])
            BY <3>0 DEF StripCarriers, Bare
        <3>2. QED
            BY <3>1, BareMessage
    <2>2. QED
        BY <2>1, StripCarriersType
<1>2. CASE \A i \in 1..Len(s) : s[i].role # "assistant"
    BY <1>1, <1>2 DEF Pinned
<1>3. ASSUME NEW before, NEW a, NEW rest, PinnedBy(s, before, a, rest) PROVE Pinned(StripCarriers(s))
    <2>1. /\ before \in Seq(MessageType) /\ a \in MessageType /\ rest \in Seq(MessageType)
          /\ s = Append(before, a) \o rest /\ a.role = "assistant"
          /\ \A i \in 1..Len(rest) : rest[i].role # "assistant"
          /\ PinOf(AnthropicWire(before), AnthropicWire(s))
        BY <1>3 DEF PinnedBy
    <2> DEFINE b2 == StripCarriers(before)
               r2 == StripCarriers(rest)
               s2 == StripCarriers(s)
    <2>2. b2 \in Seq(MessageType) /\ r2 \in Seq(MessageType) /\ \A i \in 1..Len(r2) : r2[i].role # "assistant"
        BY <1>1, <2>1
    <2>3. s2 = Append(b2, Bare(a)) \o r2
        <3>1. Append(before, a) \in Seq(MessageType)
            BY <2>1, AppendProperties
        <3>2. s2 = StripCarriers(Append(before, a)) \o r2
            BY <2>1, <3>1, StripConcat
        <3>3. QED
            BY <2>1, <3>2, StripOneMore DEF Bare
    <2>4. PinOf(AnthropicWire(b2), AnthropicWire(s2))
        <3>1. Alike(AnthropicWire(before), AnthropicWire(b2)) /\ Alike(AnthropicWire(s), AnthropicWire(s2))
            BY <2>1, AnthropicStripped
        <3>2. /\ AnthropicWire(before) \in Bodies /\ AnthropicWire(b2) \in Bodies
              /\ AnthropicWire(s) \in Bodies /\ AnthropicWire(s2) \in Bodies
            BY <1>1, <2>1, AnthropicType
        <3>3. QED
            BY <2>1, <3>1, <3>2, AlikePin
    <2>5. Bare(a) \in MessageType /\ Bare(a).role = "assistant"
        BY <2>1, BareMessage
    <2> HIDE DEF b2, r2, s2
    <2>6. PinnedBy(s2, b2, Bare(a), r2)
        BY <2>2, <2>3, <2>4, <2>5 DEF PinnedBy
    <2>7. QED
        BY <2>6 DEF Pinned, s2
<1>4. QED
    BY <1>2, <1>3 DEF Pinned

(* The mark of the previous request is one of this one. *)
LEMMA PinIsFound ==
    ASSUME NEW v \in Bodies, NEW w \in Bodies, PinOf(v, w)
    PROVE  CacheMarks(v) \cap CacheMarks(w) # {}
<1> DEFINE n == Len(v)
           mark == <<n, Len(v[n].blocks)>>
           earlier == {i \in 1..(Len(w) - 1) : w[i].role = "user" /\ Markable(w[i])}
<1>1. /\ n \in Nat /\ n # 0 /\ Len(w) = n + 2 /\ v # <<>> /\ w # <<>>
      /\ UserTurn(v[n]) /\ UserTurn(w[n + 2]) /\ UserTurn(w[n]) /\ w[n].blocks = v[n].blocks
      /\ w[n + 1].role = "assistant"
    BY DEF PinOf, EndsInUser, Bodies
<1>2. Last(v) = v[n] /\ Last(w) = w[n + 2]
    BY <1>1 DEF Last
<1>3. mark \in CacheMarks(v)
    BY <1>1, <1>2 DEF CacheMarks, UserTurn, Mark
<1>4. n \in earlier /\ \A k \in earlier : k <= n
    <2>1. n \in 1..(Len(w) - 1)
        BY <1>1
    <2>2. n \in earlier
        BY <1>1, <2>1 DEF UserTurn
    <2>3. ASSUME NEW k \in earlier PROVE k <= n
        <3>1. k \in 1..n + 1 /\ w[k].role = "user"
            BY <1>1
        <3>2. k # n + 1
            BY <1>1, <3>1
        <3>3. QED
            BY <1>1, <3>1, <3>2
    <2>4. QED
        BY <2>2, <2>3
<1>5. CacheMarks(w) = {Mark(w, Len(w))} \cup {Mark(w, i) : i \in {j \in earlier : \A k \in earlier : k <= j}}
    BY <1>1, <1>2 DEF CacheMarks, UserTurn
<1> HIDE DEF earlier
<1>6. Mark(w, n) \in CacheMarks(w)
    BY <1>4, <1>5
<1>7. Mark(w, n) = mark
    BY <1>1 DEF Mark
<1>8. QED
    BY <1>3, <1>6, <1>7

(* The last answer of a history. *)
LEMMA LastAnswerIs ==
    ASSUME NEW before, NEW a, NEW rest, messages = Append(before, a) \o rest,
           before \in Seq(MessageType), a \in MessageType, rest \in Seq(MessageType),
           a.role = "assistant", \A i \in 1..Len(rest) : rest[i].role # "assistant"
    PROVE  LastAnswer = Len(before) + 1 /\ Previous = before
<1> DEFINE n == Len(before)
           k == Len(rest)
           I == {i \in 1..Len(messages) : messages[i].role = "assistant"}
<1>1. /\ n \in Nat /\ k \in Nat /\ Append(before, a) \in Seq(MessageType) /\ Len(Append(before, a)) = n + 1
      /\ Append(before, a)[n + 1] = a /\ \A i \in 1..n : Append(before, a)[i] = before[i]
    BY AppendProperties, LenProperties
<1>2. /\ messages \in Seq(MessageType) /\ Len(messages) = n + 1 + k
      /\ \A i \in 1..n + 1 : messages[i] = Append(before, a)[i]
      /\ \A i \in n + 1 + 1..n + 1 + k : messages[i] = rest[i - (n + 1)]
    BY <1>1, ConcatProperties
<1>3. n + 1 \in I /\ \A i \in I : i <= n + 1
    <2>1. messages[n + 1] = a /\ n + 1 \in 1..Len(messages)
        BY <1>1, <1>2
    <2>2. ASSUME NEW i \in I PROVE i <= n + 1
        <3>1. SUFFICES ASSUME i > n + 1 PROVE FALSE
            BY <1>1
        <3>2. i \in n + 1 + 1..n + 1 + k /\ i - (n + 1) \in 1..k
            BY <1>1, <1>2, <3>1
        <3>3. messages[i] = rest[i - (n + 1)]
            BY <1>2, <3>2
        <3>4. QED
            BY <3>2, <3>3
    <2>3. QED
        BY <2>1, <2>2
<1>4. LastAnswer = IF I # {} THEN Max(I) ELSE 0
    BY DEF LastAnswer, SelectLastInSeq
<1>5. I \subseteq Int
    BY <1>2
<1> HIDE DEF I
<1>6. Max(I) = n + 1
    <2>1. \E x \in I : \A y \in I : x >= y
        BY <1>1, <1>3, <1>5
    <2>2. Max(I) \in I /\ \A y \in I : Max(I) >= y
        BY <2>1 DEF Max
    <2>3. QED
        <3>1. Max(I) \in Int /\ Max(I) <= n + 1 /\ Max(I) >= n + 1
            BY <1>3, <1>5, <2>2
        <3> HIDE DEF n
        <3>2. QED
            BY <1>1, <3>1
<1>7. LastAnswer = n + 1
    BY <1>3, <1>4, <1>6
<1>8. Previous = SubSeq(messages, 1, n)
    <2>1. (n + 1) - 1 = n
        BY <1>1
    <2>2. QED
        BY <1>7, <2>1 DEF Previous
<1>9. SubSeq(messages, 1, n) = before
    <2> DEFINE p == SubSeq(messages, 1, n)
    <2>1. p \in Seq(MessageType) /\ Len(p) = n /\ \A i \in 1..n : p[i] = messages[i]
        BY <1>1, <1>2
    <2> HIDE DEF p
    <2>2. \A i \in 1..n : p[i] = before[i]
        BY <1>1, <1>2, <2>1
    <2>3. p = before
        BY <2>1, <2>2, SeqEqual
    <2>4. QED
        BY <2>3 DEF p
<1>10. QED
    BY <1>7, <1>8, <1>9

(* A history without answers has no last one. *)
LEMMA NoAnswer ==
    ASSUME \A i \in 1..Len(messages) : messages[i].role # "assistant"
    PROVE  LastAnswer = 0
BY DEF LastAnswer, SelectLastInSeq

(* A pinned history marks what the request before it marked. *)
LEMMA PinnedFound ==
    ASSUME messages \in Seq(MessageType), Pinned(messages)
    PROVE  PinIsThePreviousMark
<1>1. CASE \A i \in 1..Len(messages) : messages[i].role # "assistant"
    BY <1>1, NoAnswer DEF PinIsThePreviousMark
<1>2. ASSUME NEW before, NEW a, NEW rest, PinnedBy(messages, before, a, rest) PROVE PinIsThePreviousMark
    <2>1. Previous = before /\ before \in Seq(MessageType) /\ PinOf(AnthropicWire(before), AnthropicWire(messages))
        BY <1>2, LastAnswerIs DEF PinnedBy
    <2>2. AnthropicWire(before) \in Bodies /\ AnthropicWire(messages) \in Bodies
        BY <2>1, AnthropicType
    <2>3. CacheMarks(AnthropicWire(before)) \cap CacheMarks(AnthropicWire(messages)) # {}
        BY <2>1, <2>2, PinIsFound
    <2>4. QED
        BY <2>1, <2>3 DEF PinIsThePreviousMark
<1>3. QED
    BY <1>1, <1>2 DEF Pinned
-----------------------------------------------------------------------------
(* Between turns the history is settled and waits for an answer; within one *)
(* it is a settled history and the answer of the turn.                      *)
Awaiting(s) == Settled(s) /\ EndsInUser(AnthropicWire(s))
Reply(carrier) == AssistantMessage(Numbered, Len(calls), carrier)

WireInv ==
    /\ pc \in {"head", "asking"} => Awaiting(messages) /\ Pinned(messages)
    /\ pc \in {"judge", "dispatch"} =>
           \E before, carrier : /\ carrier \in Carriers /\ messages = Append(before, Reply(carrier))
                               /\ Awaiting(before)
    /\ pc = "dispatch" => Len(calls) > 0

(* What a user says is a turn that can hold a mark. *)
LEMMA UserText ==
    ASSUME NEW m \in MessageType, m.role = "user"
    PROVE  TextTurn(m) \in WireTurnType /\ UserTurn(TextTurn(m)) /\ IsText(m)
<1>1. TextTurn(m) = WireTurn("user", Texts(m), FALSE) /\ IsText(m)
    BY DEF TextTurn, IsText
<1>2. Texts(m) # <<>>
    BY DEF Texts
<1>3. /\ TextTurn(m) \in WireTurnType /\ TextTurn(m).blocks = Texts(m) /\ TextTurn(m).role = "user"
    BY <1>1, TextTurns
<1>4. ~TextTurn(m).raw
    BY <1>1 DEF WireTurn
<1>5. QED
    BY <1>1, <1>2, <1>3, <1>4 DEF UserTurn, Markable

(* A user who speaks leaves a history that awaits an answer. *)
LEMMA AwaitingText ==
    ASSUME NEW s, Settled(s), NEW m \in MessageType, m.role = "user"
    PROVE  Awaiting(Append(s, m))
<1>1. s \in Seq(MessageType) /\ AnthropicWire(s) \in Bodies
    BY AnthropicType DEF Settled
<1>2. TextTurn(m) \in WireTurnType /\ UserTurn(TextTurn(m)) /\ IsText(m)
    BY UserText
<1>3. AnthropicWire(Append(s, m)) = Append(AnthropicWire(s), TextTurn(m))
    BY <1>1, <1>2, AnthropicText
<1>4. EndsInUser(Append(AnthropicWire(s), TextTurn(m)))
    BY <1>1, <1>2, BodyAppend DEF EndsInUser
<1>5. QED
    BY <1>2, <1>3, <1>4, SettledText DEF Awaiting

(* An answer and what the user says to it. *)
LEMMA AwaitingAgain ==
    ASSUME NEW s, Awaiting(s), NEW a \in MessageType, a.role = "assistant", a.n = 0,
           NEW m \in MessageType, m.role = "user"
    PROVE  Awaiting(Append(Append(s, a), m)) /\ Pinned(Append(Append(s, a), m))
<1> DEFINE w == AnthropicWire(s)
           x == Append(Append(s, a), m)
<1>1. /\ s \in Seq(MessageType) /\ w \in Bodies /\ Settled(s) /\ EndsInUser(w)
      /\ Append(s, a) \in Seq(MessageType)
    BY AnthropicType DEF Settled, Awaiting
<1>2. IsText(a) /\ TextTurn(a) \in WireTurnType /\ TextTurn(a).role = "assistant"
    BY TextTurns DEF IsText
<1>3. Settled(Append(s, a))
    BY <1>1, <1>2, SettledText
<1>4. Awaiting(x)
    BY <1>3, AwaitingText
<1>5. TextTurn(m) \in WireTurnType /\ UserTurn(TextTurn(m)) /\ IsText(m)
    BY UserText
<1>6. AnthropicWire(x) = Append(Append(w, TextTurn(a)), TextTurn(m))
    BY <1>1, <1>2, <1>5, AnthropicText
<1>7. PinOf(w, AnthropicWire(x))
    BY <1>1, <1>2, <1>5, <1>6, PinAppends
<1>8. x = Append(s, a) \o <<m>> /\ <<m>> \in Seq(MessageType) /\ Len(<<m>>) = 1 /\ <<m>>[1] = m
    BY <1>1, AppendIsConcat
<1> DEFINE rest == <<m>>
<1> HIDE DEF x, w, rest
<1>9. PinnedBy(x, s, a, rest)
    <2>1. \A i \in 1..Len(rest) : rest[i].role # "assistant"
        BY <1>8 DEF rest
    <2>2. QED
        BY <1>1, <1>7, <1>8, <2>1 DEF PinnedBy, w, rest
<1>10. QED
    BY <1>4, <1>9 DEF Pinned, x

(* A turn of calls and its results. *)
LEMMA AwaitingExchange ==
    ASSUME NEW s, Awaiting(s), NEW a \in MessageType, a.role = "assistant", a.n > 0
    PROVE  Awaiting(HistoryAfter(s, a, a.n)) /\ Pinned(HistoryAfter(s, a, a.n))
<1> DEFINE w == AnthropicWire(s)
           x == HistoryAfter(s, a, a.n)
           r == ResultTurn(a.turn, a.n)
           rest == ToolResults(a.turn, a.n)
<1>0. a.n \in Nat /\ a.turn \in Nat /\ a.n # 0
    BY DEF MessageType
<1>1. /\ s \in Seq(MessageType) /\ w \in Bodies /\ Settled(s) /\ EndsInUser(w)
    BY AnthropicType DEF Settled, Awaiting
<1>2. Settled(x)
    BY <1>1, SettledCalls
<1>3. AnthropicWire(x) = Append(Append(w, AssistantTurn(a)), r)
    BY <1>0, <1>1, AnthropicExchange DEF With
<1>4. AssistantTurn(a) \in WireTurnType /\ AssistantTurn(a).role = "assistant"
    BY UsesAre
<1>5. r \in WireTurnType /\ UserTurn(r)
    <2>1. BlocksOf(a.turn, a.n)
        BY <1>0, ExchangeBlocks
    <2>2. /\ r \in WireTurnType /\ r.role = "user" /\ r.raw = FALSE
          /\ r.blocks \in Seq(BlockType) /\ Len(r.blocks) = a.n
        BY <2>1 DEF BlocksOf
    <2> HIDE DEF r
    <2>3. r.blocks # <<>>
        BY <1>0, <2>2
    <2>4. QED
        BY <2>2, <2>3 DEF UserTurn, Markable
<1> HIDE DEF w, r
<1>6. PinOf(w, AnthropicWire(x)) /\ EndsInUser(AnthropicWire(x))
    BY <1>1, <1>3, <1>4, <1>5, PinAppends
<1>7. rest \in Seq(MessageType) /\ \A i \in 1..Len(rest) : rest[i].role # "assistant"
    <2>1. \A i \in 1..a.n : /\ ToolMessage(a.turn, i, i) \in MessageType
                           /\ ToolMessage(a.turn, i, i).role = "tool"
        BY <1>0, ToolMessageType
    <2> DEFINE f(i) == ToolMessage(a.turn, i, i)
    <2>2. rest = [i \in 1..a.n |-> f(i)]
        BY DEF ToolResults
    <2>3. \A i \in 1..a.n : f(i) \in MessageType /\ f(i).role = "tool"
        BY <2>1
    <2> HIDE DEF f, rest
    <2>4. rest \in Seq(MessageType) /\ Len(rest) = a.n /\ \A i \in 1..a.n : rest[i] = f(i)
        BY <1>0, <2>2, <2>3
    <2>5. QED
        BY <2>3, <2>4
<1>8. PinnedBy(x, s, a, rest)
    BY <1>1, <1>6, <1>7 DEF PinnedBy, w, HistoryAfter
<1>9. QED
    BY <1>2, <1>6, <1>8 DEF Awaiting, Pinned

(* A switch of backends leaves a history that awaits an answer. *)
LEMMA AwaitingStripped ==
    ASSUME NEW s, Awaiting(s), Pinned(s)
    PROVE  Awaiting(StripCarriers(s)) /\ Pinned(StripCarriers(s))
<1>1. s \in Seq(MessageType) /\ Settled(s) /\ EndsInUser(AnthropicWire(s))
    BY DEF Awaiting, Settled
<1>2. StripCarriers(s) \in Seq(MessageType)
    BY <1>1, StripCarriersType
<1>3. EndsInUser(AnthropicWire(StripCarriers(s)))
    BY <1>1, <1>2, AnthropicStripped, AnthropicType, AlikeEnds
<1>4. QED
    BY <1>1, <1>3, SettledStripped, PinnedStripped DEF Awaiting

(* Both opening histories await an answer. *)
LEMMA WireInit == Init => WireInv
<1> SUFFICES ASSUME Init PROVE WireInv
    OBVIOUS
<1> DEFINE u == UserMessage(0)
           a == AssistantMessage(0, 0, Backend(0))
<1>1. messages \in OpeningHistories /\ pc = "head"
    BY DEF Init, Enter
<1>2. u \in MessageType /\ u.role = "user"
    BY DEF UserMessage, Message, MessageType, Carriers
<1>3. a \in MessageType /\ a.role = "assistant" /\ a.n = 0
    <2>1. Backend(0) \in Carriers
        BY LoopAssumption, BackendType
    <2>2. QED
        BY <2>1 DEF AssistantMessage, Message, MessageType
<1>4. messages = <<u>> \/ messages = <<u, a, u>>
    BY <1>1 DEF OpeningHistories
<1> HIDE DEF u, a
<1>5. Awaiting(Append(<<>>, u))
    BY <1>2, SettledEmpty, AwaitingText
<1>6. CASE messages = <<u>>
    <2>1. messages = Append(<<>>, u)
        BY <1>6
    <2>2. \A i \in 1..Len(messages) : messages[i].role # "assistant"
        <3>1. Len(messages) = 1 /\ messages[1] = u
            BY <1>6
        <3>2. QED
            BY <1>2, <3>1
    <2>3. QED
        BY <1>1, <1>5, <2>1, <2>2 DEF WireInv, Pinned
<1>7. CASE messages = <<u, a, u>>
    <2>1. messages = Append(Append(Append(<<>>, u), a), u)
        BY <1>7
    <2>2. Awaiting(messages) /\ Pinned(messages)
        BY <1>2, <1>3, <1>5, <2>1, AwaitingAgain
    <2>3. QED
        BY <1>1, <2>2 DEF WireInv
<1>8. QED
    BY <1>4, <1>6, <1>7

(* Every step leaves the history acceptable, or the run returned. *)
LEMMA WireNext ==
    ASSUME TypeOK, TypeOK', DispatchInv, AccountInv, TellInv, WireInv, [Next]_vars
    PROVE  WireInv'
<1>0. Numbered \in Nat /\ Len(calls) \in Nat
    <2>1. turn \in Nat /\ turnBase \in Nat /\ calls \in Seq(Call)
        BY DEF TypeOK
    <2>2. QED
        BY <2>1, LenProperties DEF Numbered
<1>r. \A carrier \in Carriers : /\ Reply(carrier) \in MessageType /\ Reply(carrier).role = "assistant"
                               /\ Reply(carrier).n = Len(calls) /\ Reply(carrier).turn = Numbered
    BY <1>0 DEF Reply, AssistantMessage, Message, MessageType
<1>s. ASSUME UNCHANGED <<messages, turnBase, calls>>,
             \/ pc' \in {pc, "returned"} /\ (turn' = turn \/ pc \notin {"judge", "dispatch"})
             \/ pc = "head" /\ pc' = "asking"
      PROVE  WireInv'
    <2>1. pc' \in {"head", "asking"} => Awaiting(messages)' /\ Pinned(messages)'
        <3>1. pc' \in {"head", "asking"} => pc \in {"head", "asking"}
            BY <1>s
        <3>2. Awaiting(messages)' <=> Awaiting(messages)
            BY <1>s
        <3>3. Pinned(messages)' <=> Pinned(messages)
            BY <1>s
        <3>4. QED
            BY <3>1, <3>2, <3>3 DEF WireInv
    <2>2. pc' \in {"judge", "dispatch"} => pc' = pc /\ turn' = turn
        BY <1>s
    <2>3. turn' = turn => \A carrier : Reply(carrier)' = Reply(carrier)
        BY <1>s DEF Reply, Numbered
    <2>4. QED
        BY <1>s, <2>1, <2>2, <2>3 DEF WireInv
<1>1. CASE TurnsExhausted \/ ContextSeen \/ Ask \/ AskInterrupted \/ Accept \/ RejectLast
    BY <1>1, <1>s
    DEF TurnsExhausted, ContextSeen, Ask, AskInterrupted, Accept, RejectLast, Return, dispatchVars
<1>2. ASSUME NEW kind \in ErrorKinds, ChainExhausted(kind) PROVE WireInv'
    BY <1>2, <1>s DEF ChainExhausted, Return, dispatchVars
<1>3. CASE Rule \/ Start \/ Announce \/ Publish \/ ContextEnds
    BY <1>3, <1>s DEF Rule, Start, Announce, Publish, ContextEnds, dispatchVars
<1>4. ASSUME NEW i \in running, Finish(i) PROVE WireInv'
    BY <1>4, <1>s DEF Finish
<1>5. CASE UNCHANGED vars
    BY <1>5, <1>s DEF vars, dispatchVars
<1>6. CASE SwitchBackend
    <2>1. /\ pc = "asking" /\ pc' = "head" /\ messages' \in {messages, StripCarriers(messages)}
        BY <1>6 DEF SwitchBackend, MaySwitch
    <2>2. Awaiting(messages) /\ Pinned(messages)
        BY <2>1 DEF WireInv
    <2>3. Awaiting(messages') /\ Pinned(messages')
        BY <2>1, <2>2, AwaitingStripped
    <2>4. QED
        BY <2>1, <2>3 DEF WireInv
<1>7. ASSUME NEW r \in Responses, Respond(r) PROVE WireInv'
    <2>1. PICK carrier \in Carriers : carrier = IF r.reasoning THEN Backend(active) ELSE NoCarrier
        <3>1. Backend(active) \in Carriers /\ NoCarrier \in Carriers
            BY BackendType DEF TypeOK, Carriers
        <3>2. QED
            BY <3>1
    <2>2. /\ pc = "asking" /\ UNCHANGED <<turn, turnBase>> /\ calls' = r.calls
          /\ \/ pc' = "returned"
             \/ /\ messages' = Append(messages, AssistantMessage(Numbered, Len(r.calls), carrier))
                /\ \/ r.calls # <<>> /\ pc' = "dispatch"
                   \/ r.calls = <<>> /\ pc' = "judge"
        BY <1>7, <2>1 DEF Respond, Return
    <2>3. Awaiting(messages)
        BY <2>2 DEF WireInv
    <2>4. CASE pc' = "returned"
        BY <2>4 DEF WireInv
    <2>5. CASE pc' # "returned"
        <3>1. messages' = Append(messages, Reply(carrier)')
            BY <2>2, <2>5 DEF Reply, Numbered
        <3>2. pc' \in {"judge", "dispatch"} /\ (pc' = "dispatch" => Len(calls') > 0)
            <4>1. r.calls \in Seq(Call)
                BY LoopAssumption DEF Response
            <4>2. QED
                BY <2>2, <2>5, <4>1
        <3>3. QED
            BY <2>1, <2>3, <3>1, <3>2 DEF WireInv
    <2>6. QED
        BY <2>4, <2>5
<1>8. CASE Reject
    <2> DEFINE m == UserMessage(Numbered)
    <2>1. /\ pc = "judge" /\ pc' = "head" /\ messages' = Append(messages, m)
        BY <1>8 DEF Reject
    <2>2. m \in MessageType /\ m.role = "user"
        BY <1>0 DEF UserMessage, Message, MessageType, Carriers
    <2>3. PICK before, carrier : /\ carrier \in Carriers /\ messages = Append(before, Reply(carrier))
                                 /\ Awaiting(before)
        BY <2>1 DEF WireInv
    <2>4. Len(calls) = 0
        BY <2>1 DEF DispatchInv, TurnsAreComplete
    <2>5. Reply(carrier) \in MessageType /\ Reply(carrier).role = "assistant" /\ Reply(carrier).n = 0
        BY <1>r, <2>3, <2>4
    <2> HIDE DEF m
    <2>6. Awaiting(messages') /\ Pinned(messages')
        BY <2>1, <2>2, <2>3, <2>5, AwaitingAgain
    <2>7. QED
        BY <2>1, <2>6 DEF WireInv
<1>9. CASE EndDispatch
    <2>1. /\ pc = "dispatch" /\ messages' = messages \o ToolAnswers
          /\ pc' = IF failure = "none" THEN "head" ELSE "returned"
          /\ reported = Len(calls) \/ Aborted
        BY <1>9 DEF EndDispatch, Return
    <2>2. CASE failure # "none"
        BY <2>1, <2>2 DEF WireInv
    <2>3. CASE failure = "none"
        <3>1. reported = Len(calls) /\ Len(calls) > 0
            BY <2>1, <2>3 DEF Aborted, WireInv
        <3>2. PICK before, carrier : /\ carrier \in Carriers /\ messages = Append(before, Reply(carrier))
                                     /\ Awaiting(before)
            BY <2>1 DEF WireInv
        <3> DEFINE a == Reply(carrier)
        <3>3. a \in MessageType /\ a.role = "assistant" /\ a.n = Len(calls) /\ a.turn = Numbered /\ a.n > 0
            BY <1>r, <3>1, <3>2
        <3>4. ToolAnswers = ToolResults(a.turn, a.n)
            <4>1. outputs = [j \in 1..reported |-> j]
                BY <2>1, <2>3 DEF TellInv
            <4>2. Len(outputs) = reported /\ \A j \in 1..reported : outputs[j] = j
                BY <1>0, <3>1, <4>1
            <4>3. QED
                BY <3>1, <3>3, <4>2 DEF ToolAnswers, ToolResults
        <3> HIDE DEF a
        <3>5. messages' = HistoryAfter(before, a, a.n)
            BY <2>1, <3>2, <3>4 DEF HistoryAfter, a
        <3>6. Awaiting(messages') /\ Pinned(messages')
            BY <3>2, <3>3, <3>5, AwaitingExchange
        <3>7. QED
            BY <2>1, <2>3, <3>6 DEF WireInv
    <2>4. QED
        BY <2>2, <2>3
<1>10. QED
    BY <1>1, <1>2, <1>3, <1>4, <1>5, <1>6, <1>7, <1>8, <1>9
    DEF Next, LoopStep, Returned

(* The invariant of the requests. *)
LEMMA WireInvHolds == Spec => []WireInv
<1>1. TypeOK /\ DispatchInv /\ AccountInv /\ TellInv /\ TypeOK' /\ [Next]_vars => TellInv'
    BY TellNext
<1>2. TypeOK /\ DispatchInv /\ AccountInv /\ TypeOK' /\ [Next]_vars => AccountInv'
    BY AccountNext
<1>3. TypeOK /\ DispatchInv /\ AccountInv /\ TellInv /\ WireInv /\ TypeOK' /\ [Next]_vars => WireInv'
    BY WireNext
<1>4. QED
    BY <1>1, <1>2, <1>3, TypeCorrect, DispatchCorrect, AccountInit, TellInit, WireInit, PTL DEF Spec

(* Whatever the loop has been through, each wire accepts its next request   *)
(* and loses no text of it (appendAssistant and appendToolResult of         *)
(* anthropic.go and gemini.go, toWire of openai.go).                        *)
THEOREM RequestsAccepted == Spec => []RequestsAreAccepted
<1>1. WireInv => RequestsAreAccepted
    BY SettledAccepted DEF WireInv, Awaiting, RequestsAreAccepted
<1>2. QED
    BY <1>1, WireInvHolds, PTL

(* The mark of a request is pinned by the next (placeCacheBreakpoints,      *)
(* anthropic.go), so the entry written for it is found.                     *)
THEOREM PreviousMarkPinned == Spec => []PinIsThePreviousMark
<1>1. WireInv => PinIsThePreviousMark
    <2>1. WireInv /\ pc = "asking" => messages \in Seq(MessageType) /\ Pinned(messages)
        BY DEF WireInv, Awaiting, Settled
    <2>2. pc # "asking" => PinIsThePreviousMark
        BY DEF PinIsThePreviousMark
    <2>3. QED
        BY <2>1, <2>2, PinnedFound
<1>2. QED
    BY <1>1, WireInvHolds, PTL
=============================================================================
