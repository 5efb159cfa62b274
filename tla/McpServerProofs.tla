--------------------------- MODULE McpServerProofs ---------------------------
(***************************************************************************)
(* Theorems about McpServer for every set of calls, finite or not.  The    *)
(* inductive invariant says who owns the reconnect in progress (Owner) and *)
(* which transports exist at each of its steps (Transports).  Counting ties *)
(* the error counter to what happened.                                     *)
(***************************************************************************)
EXTENDS McpServer, FiniteSetTheorems, TLAPS

(* The stages between taking s.reconnecting and giving it back. *)
Attempting == {"reconnecting", "releasing", "killing", "pausing", "connecting", "adopting",
               "discarding", "reporting", "publishing"}

(* At most one call reconnects, and reconnecting names it. *)
Owner == \A c \in Calls : stage[c] \in Attempting <=> reconnecting = c

(* Until its new session is adopted, the one that reconnects keeps the      *)
(* server dead; once the old session is released there is none.             *)
Attempt ==
    \A c \in Calls :
        /\ stage[c] \in {"reconnecting", "releasing", "killing", "pausing", "connecting", "adopting"} => dead
        /\ stage[c] \in {"killing", "pausing", "connecting", "adopting", "discarding"} => sess = None
        /\ taken[c] # None => stage[c] = "killing"

(* What is open is the server's session, one that Close or the attempt has  *)
(* taken out of it and not killed yet, or one the attempt has just built.   *)
Transports ==
    /\ up \subseteq opened
    /\ \A s \in opened :
          \/ s \in {sess, closing}
          \/ \E c \in Calls : taken[c] = s
          \/ s \in Calls /\ stage[s] \in {"adopting", "discarding"}
    /\ closed => sess = None
    /\ closer # "killing" => closing = None
    /\ closer # "idle" => closed

IInv == TypeOK /\ Owner /\ Attempt /\ Transports /\ OnlyTheLostAreCondemned

-----------------------------------------------------------------------------
(* The initial state: one live session and idle calls. *)
LEMMA InitIInv == Init => IInv
<1> SUFFICES ASSUME Init PROVE IInv
    OBVIOUS
<1> USE McpAssumption DEF Init
<1>1. TypeOK
    <2>1. events \in Seq({"connected", "disconnected", "connect_failed", "auth_failed", "closed"})
        OBVIOUS
    <2>2. QED
        BY <2>1 DEF TypeOK, Sessions, Stages, Errors
<1>2. Owner
    BY DEF Owner, Attempting, Sessions
<1>3. Attempt
    BY DEF Attempt
<1>4. Transports
    BY DEF Transports, Sessions
<1>5. OnlyTheLostAreCondemned
    BY DEF OnlyTheLostAreCondemned
<1>6. QED
    BY <1>1, <1>2, <1>3, <1>4, <1>5 DEF IInv

(* Type correctness is inductive on its own. *)
LEMMA TypeStep == TypeOK /\ [Next]_vars => TypeOK'
<1> SUFFICES ASSUME TypeOK, [Next]_vars PROVE TypeOK'
    OBVIOUS
<1> USE McpAssumption DEF serverVars, callVars, killVars, envVars, TypeOK, Sessions, Stages, Errors,
                         Goto, Finish, NoSession, Tell, GiveUp
<1>1. CASE ServerDies
    BY <1>1 DEF ServerDies
<1>2. CASE RunEnds
    BY <1>2 DEF RunEnds
<1>3. CASE Close
    BY <1>3 DEF Close
<1>4. CASE CloseKills
    BY <1>4 DEF CloseKills
<1>5. ASSUME NEW c \in Calls, Step(c) PROVE TypeOK'
    <2>1. CASE Invoke(c)
        BY <2>1 DEF Invoke
    <2>2. CASE Expire(c)
        BY <2>2 DEF Expire
    <2>3. CASE Session(c)
        BY <2>3 DEF Session
    <2>4. CASE Wake(c)
        BY <2>4 DEF Wake
    <2>5. CASE StopWaiting(c)
        BY <2>5 DEF StopWaiting
    <2>6. CASE Reconnect(c)
        <3>1. CASE Disconnect(c)
            BY <3>1 DEF Disconnect
        <3>2. CASE ReleaseCurrent(c)
            BY <3>2 DEF ReleaseCurrent
        <3>3. CASE KillTaken(c)
            BY <3>3 DEF KillTaken
        <3>4. CASE Discard(c)
            BY <3>4 DEF Discard
        <3>5. CASE Pause(c)
            BY <3>5 DEF Pause
        <3>6. CASE Connected(c)
            BY <3>6 DEF Connected
        <3>7. ASSUME NEW cause \in {"failed", "denied"}, ConnectFails(c, cause) PROVE TypeOK'
            <4>1. CASE Ended(c)
                BY <3>7, <4>1 DEF ConnectFails
            <4>2. CASE ~Ended(c)
                <5>1. errCount' \in Nat
                    BY <3>7, <4>2 DEF ConnectFails, CountErrorFor
                <5>2. stage' \in [Calls -> Stages] /\ err' \in [Calls -> Errors]
                    BY <3>7, <4>2 DEF ConnectFails, Ended
                <5>3. events' \in Seq({"connected", "disconnected", "connect_failed",
                                       "auth_failed", "closed"})
                    <6>1. PICK e \in {"connect_failed", "auth_failed"} : events' = Append(events, e)
                        BY <3>7, <4>2 DEF ConnectFails, Ended
                    <6>2. QED
                        BY <6>1
                <5>4. QED
                    BY <3>7, <4>2, <5>1, <5>2, <5>3 DEF ConnectFails
            <4>3. QED
                BY <4>1, <4>2
        <3>8. CASE Adopt(c)
            <4>1. CASE MayAdopt
                BY <3>8, <4>1 DEF Adopt, MayAdopt
            <4>2. CASE ~MayAdopt
                BY <3>8, <4>2 DEF Adopt, MayAdopt
            <4>3. QED
                BY <4>1, <4>2
        <3>9. CASE Report(c)
            BY <3>9 DEF Report
        <3>10. CASE Publish(c)
            BY <3>10 DEF Publish
        <3>11. CASE ReleaseWaiters(c)
            BY <3>11 DEF ReleaseWaiters, CloseChannel
        <3>12. QED
            BY <2>6, <3>1, <3>2, <3>5, <3>6, <3>7, <3>8, <3>9, <3>10, <3>11, <3>3, <3>4 DEF Reconnect
    <2>7. CASE CallTool(c)
        <3>1. CASE Answered(c)
            BY <3>1 DEF Answered
        <3>2. CASE CallEnds(c)
            BY <3>2 DEF CallEnds
        <3>3. CASE CallDenied(c)
            BY <3>3 DEF CallDenied, MarkAuthDead
        <3>4. CASE ResponseLost(c)
            BY <3>4 DEF ResponseLost
        <3>5. QED
            BY <2>7, <3>1, <3>2, <3>3, <3>4 DEF CallTool
    <2>8. QED
        BY <1>5, <2>1, <2>2, <2>3, <2>4, <2>5, <2>6, <2>7 DEF Step
<1>6. CASE Over \/ UNCHANGED vars
    BY <1>6 DEF Over, vars
<1>7. QED
    BY <1>1, <1>2, <1>3, <1>4, <1>5, <1>6 DEF Next

(* One case per action: what it does to the owner of the reconnect, to the  *)
(* attempt and to the transports that exist.                                *)
LEMMA IInvStep == IInv /\ [Next]_vars => IInv'
<1> SUFFICES ASSUME IInv, [Next]_vars PROVE IInv'
    OBVIOUS
<1>0. TypeOK'
    BY TypeStep DEF IInv
<1> USE McpAssumption DEF serverVars, callVars, killVars, envVars,
                         IInv, Owner, Attempt, Transports, OnlyTheLostAreCondemned, Attempting
<1> DEFINE Rest == Owner /\ Attempt /\ Transports /\ OnlyTheLostAreCondemned
<1>1. CASE ServerDies
    BY <1>0, <1>1 DEF ServerDies, TypeOK
<1>2. CASE RunEnds
    BY <1>0, <1>2 DEF RunEnds, TypeOK
<1>3. CASE Close \/ CloseKills
    BY <1>0, <1>3 DEF Close, CloseKills, TypeOK, Sessions
<1>4. ASSUME NEW c \in Calls, Step(c) PROVE Rest'
    <2> USE DEF Goto, Finish, NoSession, Tell, GiveUp, TypeOK, Sessions, Stages
    <2>1. CASE Invoke(c)
        BY <2>1 DEF Invoke
    <2>2. CASE Expire(c)
        BY <2>2 DEF Expire
    <2>3. CASE Session(c)
        <3>1. CASE closed \/ ~dead \/ InFlight # None
            BY <2>3, <3>1 DEF Session
        <3>2. CASE ~closed /\ dead /\ InFlight = None
            BY <2>3, <3>2 DEF Session, InFlight
        <3>3. QED
            BY <3>1, <3>2
    <2>4. CASE Wake(c)
        BY <2>4 DEF Wake
    <2>5. CASE StopWaiting(c)
        BY <2>5 DEF StopWaiting
    <2>6. CASE Reconnect(c)
        <3>1. CASE Disconnect(c)
            BY <3>1 DEF Disconnect
        <3>2. CASE ReleaseCurrent(c)
            BY <3>2 DEF ReleaseCurrent
        <3>3. CASE KillTaken(c)
            BY <3>3 DEF KillTaken
        <3>4. CASE Discard(c)
            BY <3>4 DEF Discard
        <3>5. CASE Pause(c)
            BY <3>5 DEF Pause
        <3>6. CASE Connected(c)
            BY <3>6 DEF Connected
        <3>7. ASSUME NEW cause \in {"failed", "denied"}, ConnectFails(c, cause) PROVE Rest'
            BY <3>7 DEF ConnectFails
        <3>8. CASE Adopt(c)
            <4>1. CASE MayAdopt
                BY <3>8, <4>1 DEF Adopt, MayAdopt
            <4>2. CASE ~MayAdopt
                BY <3>8, <4>2 DEF Adopt, MayAdopt
            <4>3. QED
                BY <4>1, <4>2
        <3>9. CASE Report(c)
            BY <3>9 DEF Report
        <3>10. CASE Publish(c)
            BY <3>10 DEF Publish
        <3>11. CASE ReleaseWaiters(c)
            BY <3>11 DEF ReleaseWaiters
        <3>12. QED
            BY <2>6, <3>1, <3>2, <3>5, <3>6, <3>7, <3>8, <3>9, <3>10, <3>11, <3>3, <3>4 DEF Reconnect
    <2>7. CASE CallTool(c)
        <3>1. CASE Answered(c)
            BY <3>1 DEF Answered
        <3>2. CASE CallEnds(c)
            BY <3>2 DEF CallEnds
        <3>3. CASE CallDenied(c)
            BY <3>3 DEF CallDenied
        <3>4. CASE ResponseLost(c)
            BY <3>4 DEF ResponseLost, Condemns
        <3>5. QED
            BY <2>7, <3>1, <3>2, <3>3, <3>4 DEF CallTool
    <2>8. QED
        BY <1>4, <2>1, <2>2, <2>3, <2>4, <2>5, <2>6, <2>7 DEF Step
<1>5. CASE Over \/ UNCHANGED vars
    BY <1>0, <1>5 DEF Over, vars
<1>6. QED
    BY <1>0, <1>1, <1>2, <1>3, <1>4, <1>5 DEF Next

-----------------------------------------------------------------------------
(* The strengthened invariant holds in every behaviour. *)
LEMMA Invariant == Spec => []IInv
<1>1. QED
    BY InitIInv, IInvStep, PTL DEF Spec

(* Every value the server and its calls hold is of its type.                *)
THEOREM ServerTypeCorrect == Spec => []TypeOK
<1>1. IInv => TypeOK
    BY DEF IInv
<1>2. QED
    BY <1>1, Invariant, PTL

(* However many calls notice a lost session, no two connections of one      *)
(* Server ever exist at a time, beside the one Close is taking down: the    *)
(* attempt has killed the transport it took before it builds its own, and   *)
(* no other attempt is under way.                                           *)
THEOREM ReconnectIsSingle == Spec => []OneConnection
<1>1. IInv => OneConnection
    <2> SUFFICES ASSUME IInv PROVE OneConnection
        OBVIOUS
    <2> DEFINE others == opened \ {closing}
    <2>1. \A a, b \in others : a = b
        BY McpAssumption DEF IInv, Owner, Attempt, Transports, Attempting, TypeOK, Sessions
    <2>2. Cardinality(others) <= 1
        <3> HIDE DEF others
        <3>1. CASE others = {}
            BY <3>1, FS_EmptySet
        <3>2. CASE others # {}
            <4>1. PICK a : others = {a}
                BY <2>1, <3>2
            <4>2. Cardinality(others) = 1
                BY <4>1, FS_Singleton
            <4>3. QED
                BY <4>2
        <3>3. QED
            BY <3>1, <3>2
    <2>3. QED
        BY <2>2 DEF OneConnection
<1>2. QED
    BY <1>1, Invariant, PTL

(* Once Close has returned and the calls are done no transport is left,     *)
(* whichever of Close and a reconnect was faster.                           *)
THEOREM CloseIsComplete == Spec => []NothingLeaks
<1>1. IInv => NothingLeaks
    BY McpAssumption DEF IInv, TypeOK, Sessions, Attempt, Transports, NothingLeaks
<1>2. QED
    BY <1>1, Invariant, PTL

(* A session is condemned only when its own connection is gone. *)
THEOREM CondemnationIsJust == Spec => []OnlyTheLostAreCondemned
<1>1. IInv => OnlyTheLostAreCondemned
    BY DEF IInv
<1>2. QED
    BY <1>1, Invariant, PTL
-----------------------------------------------------------------------------
(* While the server is open, a live one has a session, and so has an        *)
(* attempt that succeeded, until it hands it to its own call.               *)
Handed ==
    ~closed =>
        /\ ~dead => sess # None
        /\ \A c \in Calls :
              /\ stage[c] = "reporting" \/ (stage[c] = "publishing" /\ err[c] = "none") => sess # None
              /\ stage[c] = "releasing_waiters" /\ err[c] = "none" => held[c] # None
              /\ stage[c] = "sending" => held[c] # None

(* Only ReleaseCurrent takes a session away from an open server, and then   *)
(* the attempt that does so is the only one.                                *)
LEMMA HandedStep == IInv /\ Handed /\ [Next]_vars => Handed'
<1> SUFFICES ASSUME IInv, Handed, [Next]_vars PROVE Handed'
    OBVIOUS
<1> USE McpAssumption DEF serverVars, callVars, killVars, envVars, Handed
<1>1. CASE ServerDies
    BY <1>1 DEF ServerDies
<1>2. CASE RunEnds
    BY <1>2 DEF RunEnds
<1>3. CASE Close \/ CloseKills
    BY <1>3 DEF Close, CloseKills
<1>4. ASSUME NEW c \in Calls, Step(c) PROVE Handed'
    <2> USE DEF IInv, Goto, Finish, NoSession, Tell, GiveUp, TypeOK, Sessions
    <2>1. CASE Invoke(c)
        BY <2>1 DEF Invoke
    <2>2. CASE Expire(c)
        BY <2>2 DEF Expire
    <2>3. CASE Session(c)
        BY <2>3 DEF Session
    <2>4. CASE Wake(c)
        BY <2>4 DEF Wake
    <2>5. CASE StopWaiting(c)
        BY <2>5 DEF StopWaiting
    <2>6. CASE Reconnect(c)
        <3>1. CASE Disconnect(c)
            BY <3>1 DEF Disconnect
        <3>2. CASE ReleaseCurrent(c)
            <4>1. dead
                BY <3>2 DEF ReleaseCurrent, Attempt
            <4>2. \A d \in Calls \ {c} : stage[d] \notin {"reporting", "publishing"}
                BY <3>2 DEF ReleaseCurrent, Owner, Attempting
            <4>3. QED
                BY <3>2, <4>1, <4>2 DEF ReleaseCurrent
        <3>3. CASE KillTaken(c)
            BY <3>3 DEF KillTaken
        <3>4. CASE Discard(c)
            BY <3>4 DEF Discard
        <3>5. CASE Pause(c)
            BY <3>5 DEF Pause
        <3>6. CASE Connected(c)
            BY <3>6 DEF Connected
        <3>7. ASSUME NEW cause \in {"failed", "denied"}, ConnectFails(c, cause) PROVE Handed'
            BY <3>7 DEF ConnectFails
        <3>8. CASE Adopt(c)
            BY <3>8 DEF Adopt, MayAdopt
        <3>9. CASE Report(c)
            BY <3>9 DEF Report
        <3>10. CASE Publish(c)
            BY <3>10 DEF Publish
        <3>11. CASE ReleaseWaiters(c)
            BY <3>11 DEF ReleaseWaiters
        <3>12. QED
            BY <2>6, <3>1, <3>2, <3>5, <3>6, <3>7, <3>8, <3>9, <3>10, <3>11, <3>3, <3>4 DEF Reconnect
    <2>7. CASE CallTool(c)
        <3>1. CASE Answered(c)
            BY <3>1 DEF Answered
        <3>2. CASE CallEnds(c)
            BY <3>2 DEF CallEnds
        <3>3. CASE CallDenied(c)
            BY <3>3 DEF CallDenied
        <3>4. CASE ResponseLost(c)
            BY <3>4 DEF ResponseLost
        <3>5. QED
            BY <2>7, <3>1, <3>2, <3>3, <3>4 DEF CallTool
    <2>8. QED
        BY <1>4, <2>1, <2>2, <2>3, <2>4, <2>5, <2>6, <2>7 DEF Step
<1>5. CASE Over \/ UNCHANGED vars
    BY <1>5 DEF Over, vars
<1>6. QED
    BY <1>1, <1>2, <1>3, <1>4, <1>5 DEF Next

(* A call is never handed a nil session while the server is open, whichever *)
(* attempt it waited for or made itself.                                    *)
THEOREM NoNilSession == Spec => []SessionsAreReal
<1>1. Init => Handed
    BY McpAssumption DEF Init, Handed, Sessions
<1>2. Handed => SessionsAreReal
    BY DEF Handed, SessionsAreReal
<1>3. QED
    BY <1>1, <1>2, Invariant, HandedStep, PTL DEF Spec
-----------------------------------------------------------------------------
(* What the counter stands for. *)
Lost   == {c \in Calls : result[c] = "indeterminate"}
Failed == {i \in DOMAIN events : events[i] = "connect_failed"}

(* A call gets its result when it is done and keeps it, so a response can   *)
(* be lost only once.                                                       *)
Counting ==
    /\ \A c \in Calls : result[c] # "none" => stage[c] = "done"
    /\ IsFiniteSet(Lost)
    /\ FailuresCountOnce

(* The ways of a step to leave the count alone, or to add one to it.        *)
CountsNothing == Lost' = Lost /\ Failed' = Failed /\ authDead' = authDead /\ errCount' = errCount
CountsLoss    == \E c \in Calls \ Lost :
                    /\ Lost' = Lost \cup {c} /\ Failed' = Failed
                    /\ authDead' = authDead /\ errCount' = errCount + 1
CountsFailure == /\ Cardinality(Failed') = Cardinality(Failed) + 1
                 /\ Lost' = Lost /\ authDead' = authDead /\ errCount' = errCount + 1
CountsDenial  == /\ ~authDead /\ authDead' /\ errCount' = errCount + 1
                 /\ Lost' = Lost /\ Failed' = Failed

(* A log has finitely many positions. *)
LEMMA FailedFinite == TypeOK => IsFiniteSet(Failed)
<1> SUFFICES ASSUME TypeOK PROVE IsFiniteSet(Failed)
    OBVIOUS
<1>1. Len(events) \in Nat /\ DOMAIN events = 1..Len(events)
    BY DEF TypeOK
<1>2. Failed \subseteq 1..Len(events)
    BY <1>1 DEF Failed
<1>3. IsFiniteSet(1..Len(events))
    BY <1>1, FS_Interval
<1>4. QED
    BY <1>2, <1>3, FS_Subset

(* The positions of an event in a log that grows. *)
LEMMA FailedAppend ==
    ASSUME TypeOK, NEW e \in {"connected", "disconnected", "connect_failed", "auth_failed", "closed"}, Tell(e)
    PROVE  /\ e # "connect_failed" => Failed' = Failed
           /\ e = "connect_failed" => Cardinality(Failed') = Cardinality(Failed) + 1
<1> DEFINE n == Len(events)
<1>1. /\ n \in Nat /\ DOMAIN events = 1..n /\ DOMAIN events' = 1..n + 1
      /\ events'[n + 1] = e /\ \A i \in 1..n : events'[i] = events[i]
    BY DEF TypeOK, Tell
<1> HIDE DEF n
<1>2. CASE e # "connect_failed"
    BY <1>1, <1>2 DEF Failed
<1>3. CASE e = "connect_failed"
    <2>1. Failed' = Failed \cup {n + 1} /\ n + 1 \notin Failed
        BY <1>1, <1>3 DEF Failed
    <2>2. QED
        BY <1>3, <2>1, FailedFinite, FS_AddElement
<1>4. QED
    BY <1>2, <1>3

(* A result that is not a lost response. *)
LEMMA FinishLosesNothing ==
    ASSUME TypeOK, Counting, NEW c \in Calls, stage[c] # "done", NEW r, r # "indeterminate", Finish(c, r)
    PROVE  Lost' = Lost
BY DEF TypeOK, Counting, Lost, Finish, Goto

(* A result is given once. *)
LEMMA ResultsLast == TypeOK /\ Counting /\ [Next]_vars => (\A c \in Calls : result[c] # "none" => stage[c] = "done")'
<1> SUFFICES ASSUME TypeOK, Counting, [Next]_vars
             PROVE  \A d \in Calls : result'[d] # "none" => stage'[d] = "done"
    OBVIOUS
<1>1. ASSUME NEW c \in Calls, Step(c) PROVE \A d \in Calls : result'[d] # "none" => stage'[d] = "done"
    <2> USE DEF TypeOK, Counting, Goto, Finish, NoSession, GiveUp, callVars
    <2>1. CASE Invoke(c) \/ Expire(c) \/ Session(c) \/ Wake(c) \/ StopWaiting(c)
        BY <2>1 DEF Invoke, Expire, Session, Wake, StopWaiting
    <2>2. CASE Reconnect(c)
        BY <2>2 DEF Reconnect, Disconnect, ReleaseCurrent, Pause, KillTaken, Connected, ConnectFails, Adopt,
                    Discard, Report, Publish, ReleaseWaiters
    <2>3. CASE CallTool(c)
        BY <2>3 DEF CallTool, Answered, CallEnds, CallDenied, ResponseLost
    <2>4. QED
        BY <1>1, <2>1, <2>2, <2>3 DEF Step
<1>2. CASE UNCHANGED callVars
    BY <1>2 DEF Counting, callVars
<1>3. QED
    BY <1>1, <1>2 DEF Next, ServerDies, RunEnds, Close, CloseKills, Over, vars

(* What each action counts. *)
LEMMA StepCounts ==
    TypeOK /\ Counting /\ [Next]_vars => CountsNothing \/ CountsLoss \/ CountsFailure \/ CountsDenial
<1> SUFFICES ASSUME TypeOK, Counting, [Next]_vars
             PROVE  CountsNothing \/ CountsLoss \/ CountsFailure \/ CountsDenial
    OBVIOUS
<1>1. CASE ServerDies \/ RunEnds \/ Over \/ UNCHANGED vars
    BY <1>1 DEF ServerDies, RunEnds, Over, vars, serverVars, callVars, killVars, CountsNothing, Lost, Failed
<1>2. CASE Close \/ CloseKills
    <2>1. Failed' = Failed
        BY <1>2, FailedAppend DEF Close, CloseKills, envVars, Failed
    <2>2. QED
        BY <1>2, <2>1 DEF Close, CloseKills, serverVars, callVars, CountsNothing, Lost
<1>3. ASSUME NEW c \in Calls, Step(c) PROVE CountsNothing \/ CountsLoss \/ CountsFailure \/ CountsDenial
    <2>1. CASE UNCHANGED <<result, events, errCount, authDead>>
        BY <2>1 DEF CountsNothing, Lost, Failed
    <2>2. CASE Invoke(c)
        BY <2>2, FinishLosesNothing DEF Invoke, serverVars, CountsNothing, Lost, Failed
    <2>3. CASE Session(c)
        BY <2>3, FinishLosesNothing DEF Session, NoSession, CountsNothing, Lost, Failed
    <2>4. CASE Wake(c) \/ StopWaiting(c)
        BY <2>4, FinishLosesNothing DEF Wake, StopWaiting, NoSession, serverVars, CountsNothing, Lost, Failed
    <2>5. CASE Disconnect(c) \/ Report(c)
        BY <2>5, FailedAppend DEF Disconnect, Report, serverVars, CountsNothing, Lost
    <2>6. ASSUME NEW cause \in {"failed", "denied"}, ConnectFails(c, cause)
          PROVE  CountsNothing \/ CountsFailure \/ CountsDenial
        <3>1. Lost' = Lost
            BY <2>6 DEF ConnectFails, Lost
        <3>2. CASE Ended(c)
            BY <2>6, <3>1, <3>2 DEF ConnectFails, CountsNothing, CountsDenial, Failed, TypeOK
        <3>3. CASE ~Ended(c) /\ cause = "denied"
            <4>1. Failed' = Failed
                BY <2>6, <3>3, FailedAppend DEF ConnectFails
            <4>2. QED
                <5>1. authDead' /\ errCount' = errCount + (IF authDead THEN 0 ELSE 1)
                    BY <2>6, <3>3 DEF ConnectFails, CountErrorFor
                <5>2. CASE authDead
                    BY <3>1, <4>1, <5>1, <5>2 DEF CountsNothing, TypeOK
                <5>3. CASE ~authDead
                    BY <3>1, <4>1, <5>1, <5>3 DEF CountsDenial
                <5>4. QED
                    BY <5>2, <5>3
        <3>4. CASE ~Ended(c) /\ cause = "failed"
            <4>1. Cardinality(Failed') = Cardinality(Failed) + 1
                BY <2>6, <3>4, FailedAppend DEF ConnectFails
            <4>2. QED
                BY <2>6, <3>1, <3>4, <4>1 DEF ConnectFails, CountErrorFor, CountsFailure, TypeOK
        <3>5. QED
            BY <3>2, <3>3, <3>4
    <2>7. CASE ReleaseWaiters(c)
        BY <2>7, FinishLosesNothing DEF ReleaseWaiters, NoSession, serverVars, CountsNothing, Lost, Failed
    <2>8. CASE Answered(c) \/ CallEnds(c)
        BY <2>8, FinishLosesNothing DEF Answered, CallEnds, serverVars, CountsNothing, Lost, Failed
    <2>9. CASE CallDenied(c)
        <3>1. Lost' = Lost
            BY <2>9, FinishLosesNothing DEF CallDenied
        <3>2. QED
            BY <2>9, <3>1 DEF CallDenied, MarkAuthDead, CountsNothing, CountsDenial, Failed, TypeOK
    <2>10. CASE ResponseLost(c)
        <3>1. Lost' = Lost \cup {c} /\ c \notin Lost
            BY <2>10 DEF ResponseLost, Finish, Goto, Lost, Counting, TypeOK
        <3>2. QED
            BY <2>10, <3>1 DEF ResponseLost, CountsLoss, Failed
    <2>11. QED
        BY <1>3, <2>1, <2>2, <2>3, <2>4, <2>5, <2>6, <2>7, <2>8, <2>9, <2>10
        DEF Step, Reconnect, CallTool, Expire, ReleaseCurrent, KillTaken, Pause, Connected,
            Adopt, Discard, Publish, serverVars, callVars, killVars
<1>4. QED
    BY <1>1, <1>2, <1>3 DEF Next

(* Every failure is counted once in run_end.mcp_errors: each lost response, *)
(* each reconnect that failed, and one dead authorization, however many     *)
(* calls and attempts ran into it.                                          *)
THEOREM FailuresCounted == Spec => []FailuresCountOnce
<1>1. Init => Counting
    <2> SUFFICES ASSUME Init PROVE Counting
        OBVIOUS
    <2>1. Lost = {} /\ Failed = {}
        <3>1. \A i \in DOMAIN events : events[i] = "connected"
            BY DEF Init
        <3>2. QED
            BY <3>1 DEF Init, Lost, Failed
    <2>2. IsFiniteSet(Lost) /\ Cardinality(Lost) = 0 /\ Cardinality(Failed) = 0
        BY <2>1, FS_EmptySet
    <2>3. QED
        BY <2>2 DEF Init, Counting, FailuresCountOnce, Lost, Failed
<1>2. TypeOK /\ Counting /\ [Next]_vars => Counting'
    <2> SUFFICES ASSUME TypeOK, Counting, [Next]_vars PROVE IsFiniteSet(Lost') /\ FailuresCountOnce'
        BY ResultsLast DEF Counting
    <2>1. /\ IsFiniteSet(Lost)
          /\ errCount = Cardinality(Lost) + Cardinality(Failed) + (IF authDead THEN 1 ELSE 0)
        BY DEF Counting, FailuresCountOnce, Lost, Failed
    <2>2. Cardinality(Lost) \in Nat /\ Cardinality(Failed) \in Nat
        BY <2>1, FailedFinite, FS_CardinalityType
    <2>3. /\ IsFiniteSet(Lost')
          /\ errCount' = Cardinality(Lost') + Cardinality(Failed') + (IF authDead' THEN 1 ELSE 0)
        <3>1. CASE CountsNothing
            BY <2>1, <3>1 DEF CountsNothing
        <3>2. CASE CountsLoss
            <4>1. PICK c \in Calls \ Lost :
                        /\ Lost' = Lost \cup {c} /\ Failed' = Failed
                        /\ authDead' = authDead /\ errCount' = errCount + 1
                BY <3>2 DEF CountsLoss
            <4>2. IsFiniteSet(Lost') /\ Cardinality(Lost') = Cardinality(Lost) + 1
                BY <2>1, <4>1, FS_AddElement
            <4>3. QED
                BY <2>1, <2>2, <4>1, <4>2
        <3>3. CASE CountsFailure
            BY <2>1, <2>2, <3>3 DEF CountsFailure
        <3>4. CASE CountsDenial
            BY <2>1, <2>2, <3>4 DEF CountsDenial
        <3>5. QED
            BY <3>1, <3>2, <3>3, <3>4, StepCounts
    <2>4. QED
        BY <2>3 DEF FailuresCountOnce, Lost, Failed
<1>3. Counting => FailuresCountOnce
    BY DEF Counting
<1>4. QED
    BY <1>1, <1>2, <1>3, ServerTypeCorrect, PTL DEF Spec
=============================================================================
