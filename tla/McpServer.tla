------------------------------ MODULE McpServer ------------------------------
(***************************************************************************)
(* One live MCP connection and the tool calls that share it (Server in     *)
(* internal/mcp/server.go, Tool.InvokeOutcome in internal/mcp/tool.go),    *)
(* from the moment Connect has returned.  The loop may have several calls  *)
(* in flight; whichever finds the session dead reconnects, once, while the *)
(* others wait for its result.                                             *)
(*                                                                         *)
(* A step is one critical section of Server.mu, or one operation outside   *)
(* it: whoever takes a session out of the Server kills its transport in a  *)
(* later step, without the lock.  A call makes at most one connection      *)
(* attempt, so the attempt, its channel and the session it builds all go   *)
(* by the name of the call.  Arguments, results and error texts are left   *)
(* out.                                                                    *)
(***************************************************************************)
EXTENDS Naturals, Sequences, FiniteSets

CONSTANTS
    Calls,       \* the invocations of this server's tools in one run
    First,       \* the session Connect built
    None,        \* nil
    ClosesEarly  \* may Close overtake a call?  (cmdRun joins its calls first)

Sessions == Calls \cup {First}

ASSUME McpAssumption ==
    /\ None \notin Sessions /\ First \notin Calls
    /\ ClosesEarly \in BOOLEAN

VARIABLES
    (* fields of the Server *)
    sess, dead, closed, reconnecting, reconnectErr, errCount, authDead,
    (* locals of each call *)
    stage, held, waits, err, result,
    (* sessions taken out of the Server, to be killed by a call and by Close *)
    taken, closer, closing,
    (* channels of attempts that have been closed *)
    released,
    (* transports: not yet killed, and still connected to their server *)
    opened, up,
    (* contexts: the run's, and the calls whose own timeout is over *)
    runEnded, expired,
    (* what the observer was told *)
    events

serverVars == <<sess, dead, closed, reconnecting, reconnectErr, errCount, authDead>>
callVars   == <<stage, held, waits, err, result, released>>
killVars   == <<taken, closer, closing>>
envVars    == <<opened, up, runEnded, expired>>
vars == <<serverVars, callVars, killVars, envVars, events>>

Init ==
    /\ sess = First /\ dead = FALSE /\ closed = FALSE
    /\ reconnecting = None /\ reconnectErr = "none" /\ errCount = 0 /\ authDead = FALSE
    /\ stage = [c \in Calls |-> "idle"] /\ held = [c \in Calls |-> None]
    /\ taken = [c \in Calls |-> None] /\ waits = [c \in Calls |-> None]
    /\ err = [c \in Calls |-> "none"]
    /\ result = [c \in Calls |-> "none"] /\ released = {}
    /\ closer = "idle" /\ closing = None
    /\ opened = {First} /\ up = {First}
    /\ runEnded = FALSE /\ expired = {} /\ events = <<"connected">>

-----------------------------------------------------------------------------
Ended(c) == runEnded \/ c \in expired

Goto(c, s) == stage' = [stage EXCEPT ![c] = s]
Finish(c, r) == Goto(c, "done") /\ result' = [result EXCEPT ![c] = r]

(* session() gave no session: a call whose own clock ran out says so. *)
NoSession(c) ==
    Finish(c, IF runEnded THEN "aborted" ELSE IF c \in expired THEN "timed_out" ELSE "undispatched")

Tell(e) == events' = Append(events, e)

-----------------------------------------------------------------------------
(* The environment: the server dies under a session, the run is stopped, a  *)
(* call outlives its timeout.                                               *)
ServerDies ==
    \E s \in up :
        /\ up' = up \ {s}
        /\ UNCHANGED <<serverVars, callVars, killVars, opened, runEnded, expired, events>>

RunEnds ==
    /\ ~runEnded /\ runEnded' = TRUE
    /\ UNCHANGED <<serverVars, callVars, killVars, opened, up, expired, events>>

Expire(c) ==
    /\ stage[c] \notin {"idle", "done"} /\ c \notin expired
    /\ expired' = expired \cup {c}
    /\ UNCHANGED <<serverVars, callVars, killVars, opened, up, runEnded, events>>

(* A dead authorization is looked at before anything else. *)
Invoke(c) ==
    /\ stage[c] = "idle"
    /\ \/ authDead /\ Finish(c, "tool_error")
       \/ ~authDead /\ Goto(c, "session") /\ UNCHANGED result
    /\ UNCHANGED <<serverVars, held, waits, err, released, killVars, envVars, events>>

-----------------------------------------------------------------------------
(* session(): closed, alive, somebody else's reconnect, or our own. *)
EveryoneReconnects == None                    \* seeded defect
InFlight == reconnecting

Session(c) ==
    /\ stage[c] = "session"
    /\ \/ /\ closed /\ NoSession(c)
          /\ UNCHANGED <<reconnecting, held, waits>>
       \/ /\ ~closed /\ ~dead
          /\ held' = [held EXCEPT ![c] = sess] /\ Goto(c, "sending")
          /\ UNCHANGED <<reconnecting, waits, result>>
       \/ /\ ~closed /\ dead /\ InFlight # None
          /\ waits' = [waits EXCEPT ![c] = reconnecting] /\ Goto(c, "waiting")
          /\ UNCHANGED <<reconnecting, held, result>>
       \/ /\ ~closed /\ dead /\ InFlight = None
          /\ reconnecting' = c /\ Goto(c, "reconnecting")
          /\ UNCHANGED <<held, waits, result>>
    /\ UNCHANGED <<sess, dead, closed, reconnectErr, errCount, authDead, err, released,
                   killVars, envVars, events>>

(* The channel was closed, now or long ago: sessionAfterReconnect reads the *)
(* latest attempt's result, whichever that is.                              *)
Wake(c) ==
    /\ stage[c] = "waiting" /\ waits[c] \in released
    /\ \/ /\ reconnectErr # "none" \/ closed \/ dead
          /\ NoSession(c) /\ UNCHANGED held
       \/ /\ reconnectErr = "none" /\ ~closed /\ ~dead
          /\ held' = [held EXCEPT ![c] = sess] /\ Goto(c, "sending") /\ UNCHANGED result
    /\ UNCHANGED <<serverVars, waits, err, released, killVars, envVars, events>>

StopWaiting(c) ==
    /\ stage[c] = "waiting" /\ Ended(c)
    /\ NoSession(c)
    /\ UNCHANGED <<serverVars, held, waits, err, released, killVars, envVars, events>>

-----------------------------------------------------------------------------
(* reconnect(): tell, release the dead session, pause, connect, adopt, tell. *)
Disconnect(c) ==
    /\ stage[c] = "reconnecting"
    /\ Tell("disconnected") /\ Goto(c, "releasing")
    /\ UNCHANGED <<serverVars, held, waits, err, result, released, killVars, envVars>>

(* releaseCurrent: the session leaves the Server under the lock ... *)
ReleaseCurrent(c) ==
    /\ stage[c] = "releasing"
    /\ sess' = None /\ taken' = [taken EXCEPT ![c] = sess]
    /\ Goto(c, "killing")
    /\ UNCHANGED <<dead, closed, reconnecting, reconnectErr, errCount, authDead,
                   held, waits, err, result, released, closer, closing, envVars, events>>

(* ... and its transport is killed without it, after closeSession's grace. *)
KillTaken(c) ==
    /\ stage[c] = "killing"
    /\ opened' = opened \ {taken[c]} /\ up' = up \ {taken[c]}
    /\ taken' = [taken EXCEPT ![c] = None]
    /\ Goto(c, "pausing")
    /\ UNCHANGED <<serverVars, held, waits, err, result, released, closer, closing,
                   runEnded, expired, events>>

(* The attempt is over with this error. *)
GiveUp(c, e) == Goto(c, "publishing") /\ err' = [err EXCEPT ![c] = e]

(* sleepCtx: of a timer and a context that are both over, either may win. *)
Pause(c) ==
    /\ stage[c] = "pausing"
    /\ \/ Ended(c) /\ GiveUp(c, "ended")
       \/ Goto(c, "connecting") /\ UNCHANGED err
    /\ UNCHANGED <<serverVars, held, waits, result, released, killVars, envVars, events>>

(* connectOnce as far as a session that answered initialize. *)
Connected(c) ==
    /\ stage[c] = "connecting"
    /\ opened' = opened \cup {c} /\ up' = up \cup {c}
    /\ Goto(c, "adopting")
    /\ UNCHANGED <<serverVars, held, waits, err, result, released, killVars,
                   runEnded, expired, events>>

(* connectOnce failed and left nothing behind.  A credential refused on the *)
(* way condemns the server for the run (markAuthDead) and is counted there, *)
(* once; an attempt its own caller's context cut short is not counted.      *)
MarkAuthDead == authDead' = TRUE /\ errCount' = IF authDead THEN errCount ELSE errCount + 1

CountEach(cause) == errCount + 1              \* seeded defect
CountErrorFor(cause) == IF cause = "denied" THEN errCount + (IF authDead THEN 0 ELSE 1) ELSE errCount + 1

ConnectFails(c, cause) ==
    /\ stage[c] = "connecting"
    /\ authDead' = (authDead \/ cause = "denied")
    /\ \/ /\ Ended(c)
          /\ errCount' = IF cause = "denied" /\ ~authDead THEN errCount + 1 ELSE errCount
          /\ GiveUp(c, "ended") /\ UNCHANGED events
       \/ /\ ~Ended(c)
          /\ errCount' = CountErrorFor(cause)
          /\ GiveUp(c, cause) /\ Tell(IF cause = "denied" THEN "auth_failed" ELSE "connect_failed")
    /\ UNCHANGED <<sess, dead, closed, reconnecting, reconnectErr, held, waits, result, released,
                   killVars, envVars>>

(* adopt(): a connection that lost the race with Close is torn down again,  *)
(* by its own attempt and outside the lock.                                 *)
NeverTooLate == TRUE                          \* seeded defect
MayAdopt == ~closed

Adopt(c) ==
    /\ stage[c] = "adopting"
    /\ \/ /\ MayAdopt
          /\ sess' = c /\ dead' = FALSE
          /\ Goto(c, "reporting")
       \/ /\ ~MayAdopt
          /\ Goto(c, "discarding") /\ UNCHANGED <<sess, dead>>
    /\ UNCHANGED <<closed, reconnecting, reconnectErr, errCount, authDead,
                   held, waits, err, result, released, killVars, envVars, events>>

Discard(c) ==
    /\ stage[c] = "discarding"
    /\ opened' = opened \ {c} /\ up' = up \ {c}
    /\ GiveUp(c, "closed")
    /\ UNCHANGED <<serverVars, held, waits, result, released, killVars,
                   runEnded, expired, events>>

Report(c) ==
    /\ stage[c] = "reporting"
    /\ Tell("connected") /\ GiveUp(c, "none")
    /\ UNCHANGED <<serverVars, held, waits, result, released, killVars, envVars>>

(* Back in session(): publish the result of the attempt, then close its     *)
(* channel, so that no waiter reads the result before it is there.          *)
Publish(c) ==
    /\ stage[c] = "publishing"
    /\ reconnecting' = None /\ reconnectErr' = err[c]
    /\ held' = [held EXCEPT ![c] = sess]
    /\ Goto(c, "releasing_waiters")
    /\ UNCHANGED <<sess, dead, closed, errCount, authDead, waits, err, result, released,
                   killVars, envVars, events>>

LeaveWaiting(c) == released                   \* seeded defect
CloseChannel(c) == released \cup {c}

ReleaseWaiters(c) ==
    /\ stage[c] = "releasing_waiters"
    /\ released' = CloseChannel(c)
    /\ \/ err[c] = "none" /\ Goto(c, "sending") /\ UNCHANGED result
       \/ err[c] # "none" /\ NoSession(c)
    /\ UNCHANGED <<serverVars, held, waits, err, killVars, envVars, events>>

-----------------------------------------------------------------------------
(* CallTool on the session that was handed out (a call that Close overtook  *)
(* between adopt and publish holds none, and goes no further here).  The    *)
(* answer arrives, in time before a loss or over a connection of its own,   *)
(* or the call fails in a way that says nothing about the session (an error *)
(* of the server's, a token endpoint that is down) ...                      *)
Answered(c) ==
    /\ stage[c] = "sending" /\ held[c] # None
    /\ \E r \in {"ok", "tool_error"} : Finish(c, r)
    /\ UNCHANGED <<serverVars, held, waits, err, released, killVars, envVars, events>>

(* ... the run or the call ends first (nothing is concluded about the       *)
(* session, however the request failed) ...                                 *)
CallEnds(c) ==
    /\ stage[c] = "sending" /\ held[c] # None /\ Ended(c)
    /\ Finish(c, IF runEnded THEN "aborted" ELSE "timed_out")
    /\ UNCHANGED <<serverVars, held, waits, err, released, killVars, envVars, events>>

(* ... the authorization is refused before the request is sent ...  *)
CallDenied(c) ==
    /\ stage[c] = "sending" /\ held[c] # None
    /\ MarkAuthDead
    /\ Finish(c, IF runEnded THEN "aborted" ELSE IF c \in expired THEN "timed_out" ELSE "tool_error")
    /\ UNCHANGED <<sess, dead, closed, reconnecting, reconnectErr, held, waits, err, released,
                   killVars, envVars, events>>

(* ... or the response is lost: the session is condemned, unless another    *)
(* has replaced it already, and the call is not repeated.                   *)
CondemnsAny(c) == TRUE                        \* seeded defect
Condemns(c) == sess = held[c]

ResponseLost(c) ==
    /\ stage[c] = "sending" /\ held[c] # None /\ held[c] \notin up /\ ~Ended(c)
    /\ dead' = (dead \/ Condemns(c))
    /\ errCount' = errCount + 1
    /\ Finish(c, "indeterminate")
    /\ UNCHANGED <<sess, closed, reconnecting, reconnectErr, authDead, held, waits, err, released,
                   killVars, envVars, events>>

(* Close, once: the session leaves the Server under the lock ... *)
Close ==
    /\ ~closed
    /\ ClosesEarly \/ \A c \in Calls : stage[c] \in {"idle", "done"}
    /\ closed' = TRUE /\ sess' = None
    /\ closer' = "killing" /\ closing' = sess
    /\ UNCHANGED <<dead, reconnecting, reconnectErr, errCount, authDead, callVars, taken,
                   envVars, events>>

(* ... and its transport is killed without it, with the calls in flight. *)
CloseKills ==
    /\ closer = "killing"
    /\ opened' = opened \ {closing} /\ up' = up \ {closing}
    /\ closer' = "done" /\ closing' = None
    /\ Tell("closed")
    /\ UNCHANGED <<serverVars, callVars, taken, runEnded, expired>>

-----------------------------------------------------------------------------
Reconnect(c) ==
    \/ Disconnect(c) \/ ReleaseCurrent(c) \/ KillTaken(c) \/ Pause(c)
    \/ Connected(c) \/ \E cause \in {"failed", "denied"} : ConnectFails(c, cause)
    \/ Adopt(c) \/ Discard(c) \/ Report(c) \/ Publish(c) \/ ReleaseWaiters(c)

CallTool(c) == Answered(c) \/ CallEnds(c) \/ CallDenied(c) \/ ResponseLost(c)

Step(c) ==
    \/ Invoke(c) \/ Expire(c) \/ Session(c) \/ Wake(c) \/ StopWaiting(c)
    \/ Reconnect(c) \/ CallTool(c)

(* The run is over and its calls are done. *)
Over == closer = "done" /\ UNCHANGED vars

Next == ServerDies \/ RunEnds \/ Close \/ CloseKills \/ (\E c \in Calls : Step(c)) \/ Over

Spec == Init /\ [][Next]_vars

(* A goroutine that can run does, and every step of a reconnect is bounded  *)
(* by closeGrace or ConnectTimeout; nothing is assumed of the server, of    *)
(* Close or of the calls' timeouts.                                         *)
FairSpec == Spec /\ \A c \in Calls : WF_vars(Reconnect(c) \/ Wake(c))
-----------------------------------------------------------------------------
Stages == {"idle", "session", "waiting", "reconnecting", "releasing", "killing", "pausing",
           "connecting", "adopting", "discarding", "reporting", "publishing",
           "releasing_waiters", "sending", "done"}
Errors == {"none", "ended", "failed", "denied", "closed"}

(* Type invariant of the server and its calls. *)
TypeOK ==
    /\ sess \in Sessions \cup {None} /\ dead \in BOOLEAN /\ closed \in BOOLEAN
    /\ reconnecting \in Calls \cup {None} /\ reconnectErr \in Errors
    /\ errCount \in Nat /\ authDead \in BOOLEAN
    /\ stage \in [Calls -> Stages] /\ held \in [Calls -> Sessions \cup {None}]
    /\ taken \in [Calls -> Sessions \cup {None}]
    /\ closer \in {"idle", "killing", "done"} /\ closing \in Sessions \cup {None}
    /\ waits \in [Calls -> Calls \cup {None}] /\ err \in [Calls -> Errors]
    /\ result \in [Calls -> {"none", "ok", "tool_error", "aborted", "timed_out",
                             "undispatched", "indeterminate"}]
    /\ released \subseteq Calls
    /\ opened \subseteq Sessions /\ up \subseteq Sessions
    /\ runEnded \in BOOLEAN /\ expired \subseteq Calls
    /\ events \in Seq({"connected", "disconnected", "connect_failed", "auth_failed", "closed"})

(* One lost session buys one new server, whatever the number of calls that  *)
(* noticed: no two connections of one Server ever exist at a time, except   *)
(* that a reconnect need not wait for the transport Close is taking down    *)
(* (it found no session in releaseCurrent, for Close had it).               *)
OneConnection == Cardinality(opened \ {closing}) <= 1

(* Once Close has returned and the calls are done nothing is left running,  *)
(* whichever of Close and a reconnect was faster (adopt).                   *)
NothingLeaks == closer = "done" /\ (\A c \in Calls : stage[c] \in {"idle", "done"}) => opened = {}

(* A session is only condemned when its own connection is gone: a late loss *)
(* on the old session never costs the new one (markDead).                   *)
OnlyTheLostAreCondemned == dead /\ sess # None => sess \notin up

(* Every failure is counted once in run_end.mcp_errors: each lost response, *)
(* each failed reconnect, and one dead authorization however many calls and *)
(* attempts ran into it.                                                    *)
FailuresCountOnce ==
    errCount = Cardinality({c \in Calls : result[c] = "indeterminate"})
             + Cardinality({i \in DOMAIN events : events[i] = "connect_failed"})
             + (IF authDead THEN 1 ELSE 0)

(* A call is never handed a nil session while the server is open. *)
SessionsAreReal == \A c \in Calls : stage[c] = "sending" /\ ~closed => held[c] # None

(* A call that waits for another's reconnect gets on, even if no timeout    *)
(* comes to its help.                                                       *)
WaitersAreReleased == \A c \in Calls : stage[c] = "waiting" ~> stage[c] # "waiting"
=============================================================================
