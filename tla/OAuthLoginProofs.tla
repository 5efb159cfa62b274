-------------------------- MODULE OAuthLoginProofs --------------------------
(***************************************************************************)
(* Theorems about OAuthLogin for every set of calls and runs, whatever     *)
(* belongs to which.  The inductive invariant says who is inside the       *)
(* store's lock (Exclusive), what the file may hold meanwhile (HolderSees) *)
(* and which records have been exchanged (NotYetSpent): a logout does not  *)
(* take the lock, so the file of a holder may be gone, but never another.  *)
(***************************************************************************)
EXTENDS OAuthLogin, TLAPS

Stages == {"idle", "retry", "sent", "refused", "lock", "post", "save", "done"}
Call == [at: Stages, retried: BOOLEAN, forced: BOOLEAN, token: 0..MaxMinted,
         cur: Record \cup {None}, next: Record \cup {None}]
Handler == [phase: {"off", "up", "over"}, rec: Record \cup {None}, dead: BOOLEAN,
            lastForced: 0..MaxMinted, lifetime: Nat]

(* Type invariant of the credential, the handlers, the calls and commands.  *)
TypeOK ==
    /\ owner \in [Calls -> Runs] /\ stored \in Record \cup {None}
    /\ holder \in Calls \cup {None} /\ mu \in [Runs -> Calls \cup {None}]
    /\ run \in [Runs -> Handler]
    /\ \A p \in Runs : run[p].phase = "up" => run[p].rec # None
    /\ call \in [Calls -> Call]
    /\ \A c \in Calls : /\ call[c].at \in {"post", "save"} => call[c].cur # None
                        /\ call[c].at = "save" => call[c].next # None
    /\ minted \in Minted /\ live \subseteq 0..MaxMinted /\ left \in [Minted -> Nat]
    /\ spent \subseteq Record
    /\ login \in {"no", "listening", "lock"} /\ grant \in Record \cup {None}
    /\ login = "lock" => grant # None
    /\ listed \in Record \cup {None} /\ commands \in Nat

(* Who exchanges a record holds the lock, and nobody else does. *)
Inside(c) == call[c].at \in {"post", "save"}
Exclusive == \A c \in Calls : Inside(c) <=> holder = c

(* Access tokens are numbered as they are minted. *)
Numbered ==
    /\ stored # None => stored.access <= minted
    /\ grant # None => grant.access <= minted
    /\ \A r \in spent : r.access <= minted
    /\ \A c \in Calls : Inside(c) => call[c].cur.access <= minted
    /\ \A c \in Calls : call[c].at = "save" => call[c].next.access <= minted

(* What a login has got is not known to anybody yet. *)
GrantIsNew ==
    grant # None =>
        /\ stored # None => stored.access # grant.access
        /\ \A r \in spent : r.access # grant.access
        /\ \A c \in Calls : Inside(c) => call[c].cur.access # grant.access
        /\ \A c \in Calls : call[c].at = "save" => call[c].next.access # grant.access

(* Under the lock the file holds the record under exchange, or nothing any  *)
(* more; and the new one is newer.                                          *)
HolderSees ==
    \A c \in Calls :
        /\ Inside(c) => stored \in {call[c].cur, None}
        /\ call[c].at = "save" => call[c].next.access > call[c].cur.access

(* What the file holds has not been exchanged, except by a holder that has  *)
(* still to save what it got; and nobody has that yet.                      *)
NotYetSpent ==
    /\ stored \in spent => \E c \in Calls : call[c].at = "save" /\ call[c].cur = stored
    /\ \A c \in Calls : /\ call[c].at = "post" => call[c].cur \notin spent
                        /\ call[c].at = "save" => call[c].next \notin spent

OInv == TypeOK /\ Exclusive /\ Numbered /\ GrantIsNew /\ HolderSees /\ NotYetSpent
Rest == Exclusive /\ Numbered /\ GrantIsNew /\ HolderSees /\ NotYetSpent
-----------------------------------------------------------------------------
(* A login has stored the first record and nobody uses it yet. *)
LEMMA InitOInv == Init => OInv
<1> SUFFICES ASSUME Init PROVE OInv
    OBVIOUS
<1> USE OAuthAssumption DEF Init, RefreshInit, Locals, First, Record, Minted
<1>1. TypeOK
    BY DEF TypeOK, Call, Stages, Handler, NoHandler, Record, Minted
<1>2. Rest
    BY DEF Rest, Exclusive, Inside, Numbered, GrantIsNew, HolderSees, NotYetSpent
<1>3. QED
    BY <1>1, <1>2 DEF OInv, Rest

(* A call that starts again, or is done. *)
LEMMA LocalsIsCall ==
    ASSUME NEW st \in Stages, NEW again \in BOOLEAN
    PROVE  /\ Locals(st, again) \in Call /\ Locals(st, again).at = st
           /\ \A n \in 0..MaxMinted : /\ [Locals(st, again) EXCEPT !.token = n] \in Call
                                      /\ [Locals(st, again) EXCEPT !.token = n].at = st
<1>1. 0 \in 0..MaxMinted
    BY OAuthAssumption
<1>2. QED
    BY <1>1 DEF Locals, Call

LEMMA DoneIsCall == Done \in Call /\ Done.at = "done"
BY LocalsIsCall DEF Done, Stages

(* The parts of a step that several actions share keep their types. *)
LEMMA AdoptTypes ==
    ASSUME TypeOK, NEW c \in Calls, NEW r \in Record, NEW n \in Nat, Adopt(c, r, n)
    PROVE  /\ call' \in [Calls -> Call] /\ run' \in [Runs -> Handler]
           /\ \A p \in Runs : run'[p].phase = "up" => run'[p].rec # None
           /\ holder' = None /\ mu' \in [Runs -> Calls \cup {None}]
           /\ \E x \in Call : call' = [call EXCEPT ![c] = x] /\ x.at \notin {"post", "save"}
<1> DEFINE p == owner[c]
           h == [run[p] EXCEPT !.rec = r, !.lifetime = n,
                               !.lastForced = IF call[c].forced THEN r.access ELSE @]
           x == IF call[c].forced THEN Locals("retry", TRUE)
                ELSE [Locals("sent", call[c].retried) EXCEPT !.token = r.access]
<1> USE OAuthAssumption
<1>1. p \in Runs /\ run[p] \in Handler /\ call[c] \in Call /\ r.access \in 0..MaxMinted
    BY DEF TypeOK, Record, Minted
<1>2. h \in Handler /\ h.phase = run[p].phase /\ h.rec = r
    BY <1>1 DEF Handler
<1>3. x \in Call /\ x.at \in {"retry", "sent"}
    <2>1. CASE call[c].forced
        BY <2>1, LocalsIsCall DEF Stages
    <2>2. CASE ~call[c].forced
        <3>1. call[c].retried \in BOOLEAN
            BY <1>1 DEF Call
        <3>2. QED
            BY <1>1, <2>2, <3>1, LocalsIsCall DEF Stages
    <2>3. QED
        BY <2>1, <2>2
<1>4. run' = [run EXCEPT ![p] = h] /\ call' = [call EXCEPT ![c] = x]
      /\ holder' = None /\ mu' = [mu EXCEPT ![p] = None]
    BY DEF Adopt, Put, Unlock
<1> HIDE DEF h, x, p
<1>5. QED
    BY <1>1, <1>2, <1>3, <1>4 DEF TypeOK

LEMMA DenyTypes ==
    ASSUME TypeOK, NEW c \in Calls, Deny(c)
    PROVE  /\ call' = [call EXCEPT ![c] = Done] /\ run' \in [Runs -> Handler]
           /\ \A p \in Runs : run'[p].phase = run[p].phase /\ run'[p].rec = run[p].rec
           /\ holder' = None /\ mu' \in [Runs -> Calls \cup {None}]
<1>1. owner[c] \in Runs /\ run[owner[c]] \in Handler
    BY DEF TypeOK
<1>2. QED
    BY <1>1 DEF Deny, TypeOK, Handler, Put, Unlock

LEMMA FailTypes ==
    ASSUME TypeOK, NEW c \in Calls, Fail(c)
    PROVE  /\ call' = [call EXCEPT ![c] = Done] /\ run' = run
           /\ holder' = None /\ mu' \in [Runs -> Calls \cup {None}]
BY DEF Fail, TypeOK, Put, Unlock

(* A handler that ends, or has its credential condemned. *)
LEMMA HandlerTypes ==
    /\ NoHandler \in Handler
    /\ \A h \in Handler, ph \in {"off", "up", "over"} :
          /\ [h EXCEPT !.phase = ph] \in Handler /\ [h EXCEPT !.phase = ph].phase = ph
          /\ [h EXCEPT !.dead = TRUE] \in Handler
          /\ [h EXCEPT !.dead = TRUE].phase = h.phase /\ [h EXCEPT !.dead = TRUE].rec = h.rec
<1>1. 0 \in 0..MaxMinted
    BY OAuthAssumption
<1>2. NoHandler \in Handler
    BY <1>1 DEF NoHandler, Handler
<1>3. QED
    BY <1>2 DEF Handler

LEMMA KillTypes ==
    ASSUME TypeOK, NEW p \in Runs, Kill(p)
    PROVE  /\ call' \in [Calls -> Call] /\ run' \in [Runs -> Handler]
           /\ \A q \in Runs : run'[q].phase = "up" => run'[q].rec # None
           /\ \A c \in Calls : call'[c] = IF owner[c] = p THEN Done ELSE call[c]
           /\ holder' \in Calls \cup {None} /\ mu' \in [Runs -> Calls \cup {None}]
           /\ spent' \subseteq spent
<1> DEFINE h == [NoHandler EXCEPT !.phase = "over"]
<1>1. h \in Handler /\ h.phase = "over"
    BY HandlerTypes
<1>2. run' = [run EXCEPT ![p] = h]
    BY DEF Kill, Put
<1> HIDE DEF h
<1>3. run' \in [Runs -> Handler] /\ \A q \in Runs : run'[q].phase = "up" => run'[q].rec # None
    BY <1>1, <1>2 DEF TypeOK
<1>4. QED
    BY <1>3, DoneIsCall DEF Kill, TypeOK, Put

(* Type correctness is inductive on its own. *)
LEMMA TypeStep == TypeOK /\ [Next]_allVars => TypeOK'
<1> SUFFICES ASSUME TypeOK, [Next]_allVars PROVE TypeOK'
    OBVIOUS
<1> USE OAuthAssumption
<1>1. ASSUME RefreshStep, UNCHANGED <<owner, commandVars>> PROVE TypeOK'
    <2> DEFINE Common == /\ stored' \in Record \cup {None} /\ holder' \in Calls \cup {None}
                         /\ mu' \in [Runs -> Calls \cup {None}] /\ run' \in [Runs -> Handler]
                         /\ \A p \in Runs : run'[p].phase = "up" => run'[p].rec # None
                         /\ minted' \in Minted /\ live' \subseteq 0..MaxMinted
                         /\ left' \in [Minted -> Nat] /\ spent' \subseteq Record
               Locally == /\ call' \in [Calls -> Call]
                          /\ \A c \in Calls : /\ call'[c].at \in {"post", "save"} => call'[c].cur # None
                                              /\ call'[c].at = "save" => call'[c].next # None
    <2>0. SUFFICES Common /\ Locally
        BY <1>1 DEF TypeOK, commandVars
    <2>1. ASSUME NEW c \in Calls, NEW x \in Call, call' = [call EXCEPT ![c] = x],
                 x.at \in {"post", "save"} => x.cur # None, x.at = "save" => x.next # None
          PROVE  Locally
        BY <2>1 DEF TypeOK
    <2>2. ASSUME NEW c \in Calls, call' = [call EXCEPT ![c] = Done] PROVE Locally
        BY <2>1, <2>2, DoneIsCall
    <2>3. ASSUME UNCHANGED call PROVE Locally
        BY <2>3 DEF TypeOK
    <2> HIDE DEF Locally
    <2>4. ASSUME NEW p \in Callers, StartRun(p) PROVE Common /\ Locally
        <3> DEFINE h == [NoHandler EXCEPT !.phase = IF stored = None THEN "over" ELSE "up", !.rec = stored]
        <3>1. p \in Runs /\ run' = [run EXCEPT ![p] = h]
            BY <2>4 DEF Callers, TypeOK, StartRun, Put
        <3>2. h \in Handler /\ (h.phase = "up" => h.rec # None)
            <4>1. stored \in Record \cup {None}
                BY DEF TypeOK
            <4>2. 0 \in 0..MaxMinted
                OBVIOUS
            <4>3. QED
                BY <4>1, <4>2 DEF NoHandler, Handler
        <3> HIDE DEF h
        <3>3. run' \in [Runs -> Handler] /\ \A q \in Runs : run'[q].phase = "up" => run'[q].rec # None
            BY <3>1, <3>2 DEF TypeOK
        <3>4. QED
            BY <2>3, <2>4, <3>3 DEF StartRun, TypeOK, serverVars
    <2>5. ASSUME NEW p \in Callers, Kill(p) PROVE Common /\ Locally
        <3>1. p \in Runs
            BY DEF Callers, TypeOK
        <3>2. Locally
            BY <2>5, <3>1, KillTypes, DoneIsCall DEF TypeOK, Locally
        <3>3. QED
            BY <2>5, <3>1, <3>2, KillTypes DEF Kill, TypeOK, serverVars
    <2>6. ASSUME NEW c \in Calls, CallStep(c) \/ StopWaiting(c) PROVE Common /\ Locally
        <3>0. owner[c] \in Runs /\ run[owner[c]] \in Handler /\ call[c] \in Call
            BY DEF TypeOK
        <3>1. CASE Ask(c)
            <4>1. Common
                BY <3>0, <3>1 DEF Ask, Put, TypeOK, serverVars
            <4>2. CASE run[owner[c]].dead
                BY <2>2, <3>1, <4>1, <4>2 DEF Ask, Put
            <4>4. CASE ~run[owner[c]].dead /\ ~Fresh(run[owner[c]].rec, owner[c])
                <5> DEFINE x == [call[c] EXCEPT !.at = "lock"]
                <5>1. call' = [call EXCEPT ![c] = x]
                    BY <3>0, <3>1, <4>4 DEF Ask, Goto, TypeOK
                <5>2. x \in Call /\ x.at = "lock"
                    BY <3>0 DEF Call, Stages
                <5> HIDE DEF x
                <5>3. QED
                    BY <2>1, <4>1, <5>1, <5>2
            <4>3. CASE ~run[owner[c]].dead /\ Fresh(run[owner[c]].rec, owner[c])
                <5> DEFINE x == [call[c] EXCEPT !.at = "sent", !.token = run[owner[c]].rec.access]
                <5>1. call' = [call EXCEPT ![c] = x]
                    BY <3>0, <3>1, <4>3 DEF Ask, TypeOK
                <5>2. run[owner[c]].rec.access \in 0..MaxMinted
                    <6>1. run[owner[c]].rec \in Record
                        BY <3>0, <3>1 DEF Ask, TypeOK, Handler
                    <6>2. QED
                        BY <6>1 DEF Record, Minted
                <5>3. x \in Call /\ x.at = "sent"
                    BY <3>0, <5>2 DEF Call, Stages
                <5> HIDE DEF x
                <5>4. QED
                    BY <2>1, <4>1, <5>1, <5>3
            <4>5. QED
                BY <4>2, <4>3, <4>4
        <3>2. CASE Authorize(c)
            <4>1. Common
                <5>1. run' = run \/ run' = [run EXCEPT ![owner[c]] = [run[owner[c]] EXCEPT !.dead = TRUE]]
                    BY <3>0, <3>2 DEF Authorize, TypeOK
                <5>2. run' \in [Runs -> Handler] /\ \A p \in Runs : run'[p].phase = "up" => run'[p].rec # None
                    <6> DEFINE h == [run[owner[c]] EXCEPT !.dead = TRUE]
                    <6>1. h \in Handler /\ h.phase = run[owner[c]].phase /\ h.rec = run[owner[c]].rec
                        BY <3>0, HandlerTypes
                    <6> HIDE DEF h
                    <6>2. run' = run \/ run' = [run EXCEPT ![owner[c]] = h]
                        BY <5>1 DEF h
                    <6>3. /\ run \in [Runs -> Handler] /\ owner[c] \in Runs
                          /\ \A p \in Runs : run[p].phase = "up" => run[p].rec # None
                        BY <3>0 DEF TypeOK
                    <6>4. \A p \in Runs : run'[p] = run[p] \/ (p = owner[c] /\ run'[p] = h)
                        BY <6>2, <6>3
                    <6>5. run' \in [Runs -> Handler]
                        BY <6>1, <6>2, <6>3
                    <6>6. \A p \in Runs : run'[p].phase = "up" => run'[p].rec # None
                        BY <6>1, <6>3, <6>4
                    <6>7. QED
                        BY <6>5, <6>6
                <5>3. QED
                    BY <3>0, <3>2, <5>2 DEF Authorize, Put, TypeOK, serverVars
            <4>2. Locally
                BY <2>1, <2>2, <3>0, <3>2 DEF Authorize, Put, Call, Stages
            <4>3. QED
                BY <4>1, <4>2
        <3>3. CASE StopWaiting(c)
            BY <2>2, <3>0, <3>3 DEF StopWaiting, Put, TypeOK, serverVars
        <3>4. CASE Acquire(c)
            <4>1. CASE Deny(c)
                BY <2>2, <3>4, <4>1, DenyTypes DEF Acquire, TypeOK, serverVars
            <4>2. CASE stored # None /\ Adopt(c, stored, run[owner[c]].lifetime)
                <5>1. stored \in Record /\ run[owner[c]].lifetime \in Nat
                    BY <3>0, <4>2 DEF TypeOK, Handler
                <5>2. QED
                    BY <2>1, <3>4, <4>2, <5>1, AdoptTypes DEF Acquire, TypeOK, serverVars
            <4>3. CASE /\ stored # None /\ holder' = c /\ UNCHANGED <<mu, run>>
                       /\ call' = [call EXCEPT ![c].at = "post", ![c].cur = stored]
                <5> DEFINE x == [call[c] EXCEPT !.at = "post", !.cur = stored]
                <5>1. call' = [call EXCEPT ![c] = x]
                    BY <3>0, <4>3 DEF TypeOK
                <5>2. x \in Call /\ x.at = "post" /\ x.cur # None
                    BY <3>0, <4>3 DEF Call, Stages, TypeOK
                <5> HIDE DEF x
                <5>3. QED
                    BY <2>1, <3>4, <4>3, <5>1, <5>2 DEF Acquire, TypeOK, serverVars
            <4>4. QED
                BY <3>4, <4>1, <4>2, <4>3 DEF Acquire, Reread
        <3>5. CASE Refresh(c)
            <4>1. call[c].cur \in Record /\ minted + 1 \in Minted
                BY <3>0, <3>5 DEF Refresh, TypeOK, Call, Minted
            <4>2. /\ minted' \in Minted /\ live' \subseteq 0..MaxMinted /\ left' \in [Minted -> Nat]
                BY <3>5, <4>1 DEF Refresh, TypeOK, Put, Minted
            <4>3. CASE Fail(c)
                BY <2>2, <3>5, <4>2, <4>3, FailTypes, <4>1 DEF Refresh, TypeOK
            <4>4. ASSUME NEW rotate \in BOOLEAN,
                         call' = [call EXCEPT ![c].at = "save", ![c].next = Granted(call[c].cur, rotate)],
                         spent' = spent \cup {call[c].cur}, UNCHANGED <<holder, mu, run>>
                  PROVE  Common /\ Locally
                <5> DEFINE x == [call[c] EXCEPT !.at = "save", !.next = Granted(call[c].cur, rotate)]
                <5>1. call' = [call EXCEPT ![c] = x]
                    BY <3>0, <4>4 DEF TypeOK
                <5>2. Granted(call[c].cur, rotate) \in Record
                    BY <4>1 DEF Granted, Record, Minted
                <5>3. x \in Call /\ x.at = "save" /\ x.cur # None /\ x.next # None
                    BY <3>0, <4>1, <5>2 DEF Call, Stages
                <5> HIDE DEF x
                <5>4. QED
                    BY <2>1, <3>5, <4>1, <4>2, <4>4, <5>1, <5>3 DEF Refresh, TypeOK
            <4>5. QED
                BY <3>5, <4>3, <4>4 DEF Refresh
        <3>6. CASE Unavailable(c)
            BY <2>2, <3>6, FailTypes DEF Unavailable, Transient, TypeOK, serverVars
        <3>7. CASE RefreshRefused(c)
            <4>1. CASE Deny(c)
                BY <2>2, <3>7, <4>1, DenyTypes DEF RefreshRefused, TypeOK, serverVars
            <4>2. CASE stored # None /\ Adopt(c, stored, run[owner[c]].lifetime)
                <5>1. stored \in Record /\ run[owner[c]].lifetime \in Nat
                    BY <3>0, <4>2 DEF TypeOK, Handler
                <5>2. QED
                    BY <2>1, <3>7, <4>2, <5>1, AdoptTypes DEF RefreshRefused, TypeOK, serverVars
            <4>3. QED
                BY <3>7, <4>1, <4>2 DEF RefreshRefused
        <3>8. CASE Save(c)
            <4>1. call[c].next \in Record /\ Life \in Nat
                BY <3>0, <3>8 DEF Save, TypeOK, Call
            <4>2. QED
                BY <2>1, <3>8, <4>1, AdoptTypes DEF Save, TypeOK, serverVars
        <3>9. CASE SaveFails(c)
            BY <2>2, <3>0, <3>9 DEF SaveFails, Unlock, Put, TypeOK, serverVars, Handler
        <3>10. CASE Accepted(c)
            BY <2>2, <3>10 DEF Accepted, Put, TypeOK, serverVars
        <3>11. CASE Refused(c)
            <4>1. Common
                BY <3>11 DEF Refused, TypeOK, serverVars
            <4>2. Locally
                BY <2>1, <2>2, <3>0, <3>11 DEF Refused, Put, Call, Stages
            <4>3. QED
                BY <4>1, <4>2
        <3>12. QED
            BY <2>6, <3>1, <3>2, <3>3, <3>4, <3>5, <3>6, <3>7, <3>8, <3>9, <3>10, <3>11 DEF CallStep
    <2>7. CASE Tick
        BY <2>3, <2>7 DEF Tick, TypeOK
    <2>8. QED
        BY <1>1, <2>4, <2>5, <2>6, <2>7 DEF RefreshStep
<1>2. CASE StartLogin
    BY <1>2 DEF StartLogin, Command, vars, serverVars, TypeOK
<1>3. CASE Authorized
    <2>1. CASE "code" \in FirstCallback /\ minted < MaxMinted /\ login' = "lock"
        <3>1. minted + 1 \in Minted
            BY <2>1 DEF TypeOK, Minted
        <3>2. QED
            <4>1. /\ left' \in [Minted -> Nat] /\ minted' \in Minted
                  /\ UNCHANGED <<stored, refreshVars, spent, listed, commands>>
                BY <1>3, <2>1, <3>1 DEF Authorized, TypeOK, Put
            <4>2. PICK r \in {0, minted + 1} : /\ grant' = [access |-> minted + 1, refresh |-> r]
                                              /\ live' = live \cup ({r} \ {0})
                BY <1>3, <2>1 DEF Authorized
            <4>3. r \in 0..MaxMinted
                BY <3>1 DEF Minted
            <4>4. grant' \in Record /\ live' \subseteq 0..MaxMinted
                BY <3>1, <4>2, <4>3 DEF Record, TypeOK
            <4>5. QED
                BY <2>1, <4>1, <4>4 DEF refreshVars, TypeOK
    <2>2. CASE login' = "no" /\ UNCHANGED <<minted, live, left, grant>>
        BY <1>3, <2>2 DEF Authorized, refreshVars, TypeOK
    <2>3. QED
        BY <1>3, <2>1, <2>2 DEF Authorized
<1>4. CASE PersistLogin
    BY <1>4 DEF PersistLogin, refreshVars, serverVars, TypeOK
<1>5. CASE LookUp
    BY <1>5 DEF LookUp, Command, vars, serverVars, TypeOK
<1>6. CASE Logout
    BY <1>6 DEF Logout, refreshVars, TypeOK
<1>7. CASE UNCHANGED allVars
    BY <1>7 DEF allVars, vars, serverVars, commandVars, TypeOK
<1>8. QED
    BY <1>1, <1>2, <1>3, <1>4, <1>5, <1>6, <1>7 DEF Next, Over

-----------------------------------------------------------------------------
(* A call outside the lock stays outside, and touches nothing the others    *)
(* rely on.                                                                 *)
LEMMA OutsideStays ==
    ASSUME OInv, NEW c \in Calls, ~Inside(c), NEW x, x.at \notin {"post", "save"},
           call' = [call EXCEPT ![c] = x], UNCHANGED <<stored, holder, minted, spent, grant>>
    PROVE  Rest'
<1>1. call \in [Calls -> Call]
    BY DEF OInv, TypeOK
<1>2. \A d \in Calls : d # c => call'[d] = call[d]
    BY <1>1
<1>3. call'[c] = x
    BY <1>1
<1>4. ~Inside(c)'
    BY <1>3 DEF Inside
<1>5. \A d \in Calls : Inside(d)' => d # c /\ Inside(d)
    BY <1>2, <1>4 DEF Inside
<1>6. Exclusive'
    BY <1>2, <1>4 DEF OInv, Exclusive, Inside
<1>7. NotYetSpent'
    BY <1>2, <1>3 DEF OInv, NotYetSpent, Inside
<1>8. QED
    BY <1>2, <1>3, <1>5, <1>6, <1>7 DEF OInv, Rest, Numbered, GrantIsNew, HolderSees, Inside

(* Leaving the lock: the exchange was not granted, or its outcome is lost.  *)
LEMMA PostLeaves ==
    ASSUME OInv, NEW c \in Calls, call[c].at # "save", holder \in {c, None}, holder' = None,
           NEW x, x.at \notin {"post", "save"}, call' = [call EXCEPT ![c] = x],
           UNCHANGED <<stored, spent, grant>>, minted' \in {minted, minted + 1}
    PROVE  Rest'
<1>1. call \in [Calls -> Call] /\ minted \in Nat /\ minted <= minted' /\ minted' \in Nat
    BY DEF OInv, TypeOK, Minted
<1>2. \A d \in Calls : d # c => call'[d] = call[d]
    BY <1>1
<1>3. call'[c] = x
    BY <1>1
<1>4. \A d \in Calls : d # c => ~Inside(d)
    BY OAuthAssumption DEF OInv, Exclusive
<1>5. \A d \in Calls : ~Inside(d)' /\ call'[d].at # "save" /\ call'[d].at # "post" /\ call[d].at # "save"
    BY <1>2, <1>3, <1>4 DEF Inside
<1>6. Exclusive'
    BY <1>5, OAuthAssumption DEF Exclusive
<1>7. stored \notin spent
    BY <1>5 DEF OInv, NotYetSpent
<1>8. \A r \in Record : r.access \in Nat
    BY DEF Record, Minted
<1>9. Numbered'
    BY <1>1, <1>5, <1>8 DEF OInv, Numbered, TypeOK
<1>10. QED
    BY <1>5, <1>6, <1>7, <1>9 DEF OInv, Rest, GrantIsNew, HolderSees, NotYetSpent

(* Nobody is inside and a call enters: it reads what the file holds. *)
LEMMA AcquireStep == ASSUME OInv, NEW c \in Calls, Acquire(c), UNCHANGED grant PROVE Rest'
<1>0. /\ TypeOK /\ call \in [Calls -> Call] /\ call[c] \in Call
      /\ run[owner[c]].lifetime \in Nat /\ holder = None /\ call[c].at = "lock"
      /\ UNCHANGED <<stored, minted, spent>>
    BY DEF OInv, TypeOK, Handler, Acquire, LockFree, serverVars
<1>1. CASE Deny(c)
    BY <1>0, <1>1, DenyTypes, DoneIsCall, PostLeaves
<1>2. CASE stored # None /\ Adopt(c, stored, run[owner[c]].lifetime)
    <2>1. stored \in Record
        BY <1>0, <1>2 DEF TypeOK
    <2>2. QED
        BY <1>0, <1>2, <2>1, AdoptTypes, PostLeaves
<1>3. CASE /\ stored # None /\ holder' = c
           /\ call' = [call EXCEPT ![c].at = "post", ![c].cur = stored]
    <2>1. /\ call'[c].at = "post" /\ call'[c].cur = stored
          /\ \A d \in Calls : d # c => call'[d] = call[d]
        BY <1>0, <1>3 DEF Call
    <2>2. \A d \in Calls : ~Inside(d)
        BY <1>0, OAuthAssumption DEF OInv, Exclusive
    <2>3. /\ Inside(c)' /\ call'[c].at # "save"
          /\ \A d \in Calls : d # c => ~Inside(d)' /\ call'[d].at \notin {"post", "save"}
        BY <2>1, <2>2 DEF Inside
    <2>4. stored \notin spent
        BY <2>2 DEF OInv, NotYetSpent, Inside
    <2>5. Exclusive'
        BY <1>3, <2>3 DEF Exclusive
    <2>6. Numbered' /\ GrantIsNew'
        BY <1>0, <1>3, <2>1, <2>3 DEF OInv, Numbered, GrantIsNew
    <2>7. HolderSees' /\ NotYetSpent'
        BY <1>0, <2>1, <2>3, <2>4 DEF HolderSees, NotYetSpent
    <2>8. QED
        BY <2>5, <2>6, <2>7 DEF Rest
<1>4. QED
    BY <1>1, <1>2, <1>3 DEF Acquire, Reread

(* The exchange is granted: what is spent is still in the file, or gone,    *)
(* and the new record's number has not been seen before.                    *)
LEMMA GrantedStep ==
    ASSUME OInv, NEW c \in Calls, call[c].at = "post", NEW n, n.access = minted + 1, minted' = minted + 1,
           call' = [call EXCEPT ![c].at = "save", ![c].next = n],
           spent' = spent \cup {call[c].cur}, UNCHANGED <<stored, holder, grant>>
    PROVE  Rest'
<1>0. /\ TypeOK /\ call \in [Calls -> Call] /\ call[c] \in Call /\ minted \in Nat /\ Inside(c)
    BY DEF OInv, TypeOK, Minted, Inside
<1>1. /\ call'[c].at = "save" /\ call'[c].next = n /\ call'[c].cur = call[c].cur
      /\ \A d \in Calls : d # c => call'[d] = call[d]
    BY <1>0 DEF Call
<1>2. \A d \in Calls : d # c => ~Inside(d)
    BY <1>0 DEF OInv, Exclusive
<1>3. /\ Inside(c)' /\ \A d \in Calls : d # c => ~Inside(d)' /\ call'[d].at \notin {"post", "save"}
    BY <1>1, <1>2 DEF Inside
<1>4. Exclusive'
    BY <1>2, <1>3, <1>0 DEF OInv, Exclusive
<1>5. /\ \A r \in Record : r.access \in Nat
      /\ call[c].cur \in Record /\ call[c].cur.access <= minted
      /\ stored # None => stored \in Record /\ stored.access <= minted
      /\ grant # None => grant \in Record /\ grant.access <= minted /\ call[c].cur.access # grant.access
      /\ \A r \in spent : r \in Record /\ r.access <= minted
    BY <1>0 DEF OInv, TypeOK, Numbered, GrantIsNew, Inside, Call, Record, Minted
<1>6. Numbered'
    BY <1>0, <1>1, <1>3, <1>5 DEF Numbered
<1>7. GrantIsNew'
    BY <1>0, <1>1, <1>3, <1>5 DEF OInv, GrantIsNew
<1>8. HolderSees'
    BY <1>0, <1>1, <1>3, <1>5 DEF OInv, HolderSees
<1>9. NotYetSpent'
    <2>1. stored \in {call[c].cur, None} /\ None \notin spent'
        BY <1>0, <1>5, OAuthAssumption DEF OInv, HolderSees
    <2>2. n \notin spent'
        BY <1>0, <1>5
    <2>3. QED
        BY <1>1, <1>3, <2>1, <2>2 DEF NotYetSpent
<1>10. QED
    BY <1>4, <1>6, <1>7, <1>8, <1>9 DEF Rest

(* Saved, or thrown away: either way what the file holds is not spent.      *)
LEMMA SaveStep ==
    ASSUME OInv, NEW c \in Calls, call[c].at = "save", NEW x, x.at \notin {"post", "save"},
           call' = [call EXCEPT ![c] = x], holder' = None, UNCHANGED <<minted, grant>>,
           \/ stored' = call[c].next /\ spent' = spent
           \/ stored' = stored /\ spent' = spent \ {call[c].cur}
    PROVE  Rest'
<1>0. /\ TypeOK /\ call \in [Calls -> Call] /\ call[c] \in Call /\ Inside(c)
    BY DEF OInv, TypeOK, Inside
<1>1. call'[c] = x /\ \A d \in Calls : d # c => call'[d] = call[d]
    BY <1>0
<1>2. \A d \in Calls : d # c => ~Inside(d)
    BY <1>0 DEF OInv, Exclusive
<1>3. \A d \in Calls : ~Inside(d)' /\ call'[d].at \notin {"post", "save"}
    BY <1>1, <1>2 DEF Inside
<1>4. Exclusive'
    BY <1>3, OAuthAssumption DEF Exclusive
<1>5. stored' \notin spent'
    <2>1. stored \in {call[c].cur, None} /\ None \notin spent /\ call[c].next \notin spent
        BY <1>0, OAuthAssumption DEF OInv, TypeOK, HolderSees, NotYetSpent
    <2>2. QED
        BY <2>1
<1>6. Numbered' /\ GrantIsNew'
    BY <1>3 DEF OInv, Numbered, GrantIsNew
<1>7. HolderSees' /\ NotYetSpent'
    BY <1>3, <1>5 DEF HolderSees, NotYetSpent
<1>8. QED
    BY <1>4, <1>6, <1>7 DEF Rest

(* A run that dies takes at most one holder with it, and what that one had  *)
(* not saved was never in the file.                                         *)
LEMMA KillStep == ASSUME OInv, NEW p \in Runs, Kill(p), UNCHANGED grant PROVE Rest'
<1>0. TypeOK /\ UNCHANGED <<stored, minted>>
    BY DEF OInv, Kill, serverVars
<1>1. \A c \in Calls : call'[c] = IF owner[c] = p THEN Done ELSE call[c]
    BY <1>0, KillTypes
<1>2. spent' \subseteq spent
    BY <1>0, KillTypes
<1>3. \A c \in Calls : owner[c] = p => ~Inside(c)'
    BY <1>1, DoneIsCall DEF Inside
<1>4. \A c \in Calls : Inside(c)' => Inside(c) /\ call'[c] = call[c] /\ owner[c] # p
    BY <1>1, <1>3 DEF Inside
<1>5. Exclusive'
    <2>1. holder' = IF holder \in {c \in Calls : owner[c] = p} THEN None ELSE holder
        BY DEF Kill
    <2>2. QED
        BY <1>1, <1>3, <2>1, OAuthAssumption DEF OInv, Exclusive, Inside
<1>6. Numbered' /\ GrantIsNew' /\ HolderSees'
    BY <1>0, <1>2, <1>4 DEF OInv, Numbered, GrantIsNew, HolderSees, Inside
<1>7. NotYetSpent'
    <2>1. ASSUME stored \in spent' PROVE \E c \in Calls : call'[c].at = "save" /\ call'[c].cur = stored
        <3>1. PICK c \in Calls : call[c].at = "save" /\ call[c].cur = stored
            BY <1>2, <2>1 DEF OInv, NotYetSpent
        <3>2. owner[c] # p
            BY <2>1, <3>1 DEF Kill, Pending
        <3>3. QED
            BY <1>1, <3>1, <3>2
    <2>2. QED
        BY <1>0, <1>2, <1>4, <2>1 DEF OInv, NotYetSpent, Inside
<1>8. QED
    BY <1>5, <1>6, <1>7 DEF Rest

(* The step of one call. *)
LEMMA CallRest ==
    ASSUME OInv, NEW c \in Calls, CallStep(c) \/ StopWaiting(c), UNCHANGED grant PROVE Rest'
<1>0. /\ TypeOK /\ call \in [Calls -> Call] /\ call[c] \in Call /\ run[owner[c]].lifetime \in Nat
    BY DEF OInv, TypeOK, Handler
<1>1. Inside(c) => holder = c
    BY DEF OInv, Exclusive
<1>2. CASE Ask(c)
    <2>1. ~Inside(c) /\ UNCHANGED <<stored, holder, minted, spent>>
        BY <1>2 DEF Ask, Inside, serverVars
    <2>2. \/ call' = [call EXCEPT ![c] = Done]
          \/ call' = [call EXCEPT ![c] = [call[c] EXCEPT !.at = "lock"]]
          \/ call' = [call EXCEPT ![c] = [call[c] EXCEPT !.at = "sent", !.token = run[owner[c]].rec.access]]
        BY <1>0, <1>2 DEF Ask, Goto, Put
    <2>3. /\ [call[c] EXCEPT !.at = "lock"].at = "lock"
          /\ [call[c] EXCEPT !.at = "sent", !.token = run[owner[c]].rec.access].at = "sent"
        BY <1>0 DEF Call
    <2>4. QED
        BY <2>1, <2>2, <2>3, DoneIsCall, OutsideStays
<1>3. CASE Authorize(c)
    <2>1. ~Inside(c) /\ UNCHANGED <<stored, holder, minted, spent>>
        BY <1>3 DEF Authorize, Inside, serverVars
    <2>2. \/ call' = [call EXCEPT ![c] = Done]
          \/ call' = [call EXCEPT ![c] = [call[c] EXCEPT !.at = "lock", !.forced = TRUE]]
        BY <1>0, <1>3 DEF Authorize, Put
    <2>3. [call[c] EXCEPT !.at = "lock", !.forced = TRUE].at = "lock"
        BY <1>0 DEF Call
    <2>4. QED
        BY <2>1, <2>2, <2>3, DoneIsCall, OutsideStays
<1>4. CASE StopWaiting(c) \/ Accepted(c)
    BY <1>4, DoneIsCall, OutsideStays DEF StopWaiting, Accepted, Inside, Put, serverVars
<1>5. CASE Refused(c)
    <2>1. ~Inside(c) /\ UNCHANGED <<stored, holder, minted, spent>>
        BY <1>5 DEF Refused, Inside, serverVars
    <2>2. \/ call' = [call EXCEPT ![c] = Done]
          \/ call' = [call EXCEPT ![c] = [call[c] EXCEPT !.at = "refused"]]
        BY <1>0, <1>5 DEF Refused, Put
    <2>3. [call[c] EXCEPT !.at = "refused"].at = "refused"
        BY <1>0 DEF Call
    <2>4. QED
        BY <2>1, <2>2, <2>3, DoneIsCall, OutsideStays
<1>6. CASE Acquire(c)
    BY <1>6, AcquireStep
<1>7. CASE Refresh(c)
    <2>1. CASE Fail(c) /\ UNCHANGED spent
        BY <1>0, <1>1, <1>7, <2>1, FailTypes, DoneIsCall, PostLeaves DEF Refresh, Inside
    <2>2. ASSUME NEW rotate \in BOOLEAN,
                 call' = [call EXCEPT ![c].at = "save", ![c].next = Granted(call[c].cur, rotate)],
                 spent' = spent \cup {call[c].cur}, UNCHANGED <<holder, mu, run>>
          PROVE  Rest'
        <3>1. Granted(call[c].cur, rotate).access = minted + 1
            BY DEF Granted
        <3>2. QED
            BY <1>7, <2>2, <3>1, GrantedStep DEF Refresh
    <2>3. QED
        BY <1>7, <2>1, <2>2 DEF Refresh
<1>8. CASE Unavailable(c)
    BY <1>0, <1>1, <1>8, FailTypes, DoneIsCall, PostLeaves DEF Unavailable, Transient, Inside, serverVars
<1>9. CASE RefreshRefused(c)
    <2>1. call[c].at = "post" /\ holder = c /\ UNCHANGED <<stored, minted, spent>>
        BY <1>1, <1>9 DEF RefreshRefused, Inside, serverVars
    <2>2. CASE Deny(c)
        BY <1>0, <2>1, <2>2, DenyTypes, DoneIsCall, PostLeaves
    <2>3. CASE stored # None /\ Adopt(c, stored, run[owner[c]].lifetime)
        <3>1. stored \in Record
            BY <1>0, <2>3 DEF TypeOK
        <3>2. QED
            BY <1>0, <2>1, <2>3, <3>1, AdoptTypes, PostLeaves
    <2>4. QED
        BY <1>9, <2>2, <2>3 DEF RefreshRefused
<1>10. CASE Save(c)
    <2>1. call[c].next \in Record /\ Life \in Nat
        BY <1>0, <1>10, OAuthAssumption DEF Save, TypeOK, Call
    <2>2. QED
        BY <1>0, <1>10, <2>1, AdoptTypes, SaveStep DEF Save, serverVars
<1>11. CASE SaveFails(c)
    BY <1>11, DoneIsCall, SaveStep DEF SaveFails, Pending, Unlock, Put, serverVars
<1>12. QED
    BY <1>2, <1>3, <1>4, <1>5, <1>6, <1>7, <1>8, <1>9, <1>10, <1>11 DEF CallStep

(* Runs, logins and logouts together. *)
LEMMA OInvStep == OInv /\ [Next]_allVars => OInv'
<1> SUFFICES ASSUME OInv, [Next]_allVars PROVE Rest'
    BY TypeStep DEF OInv, Rest
<1>0. TypeOK /\ Rest
    BY DEF OInv, Rest
<1>1. ASSUME RefreshStep, UNCHANGED <<owner, commandVars>> PROVE Rest'
    <2>1. UNCHANGED grant
        BY <1>1 DEF commandVars
    <2>2. ASSUME NEW p \in Callers, StartRun(p) PROVE Rest'
        BY <1>0, <2>1, <2>2
        DEF StartRun, serverVars, Rest, Exclusive, Inside, Numbered, GrantIsNew, HolderSees, NotYetSpent
    <2>3. ASSUME NEW p \in Callers, Kill(p) PROVE Rest'
        BY <1>0, <2>1, <2>3, KillStep DEF Callers, TypeOK
    <2>4. CASE Tick
        BY <1>0, <2>1, <2>4
        DEF Tick, Rest, Exclusive, Inside, Numbered, GrantIsNew, HolderSees, NotYetSpent
    <2>5. QED
        BY <1>1, <2>1, <2>2, <2>3, <2>4, CallRest DEF RefreshStep
<1>2. CASE StartLogin \/ LookUp \/ UNCHANGED allVars
    BY <1>0, <1>2 DEF StartLogin, LookUp, allVars, vars, serverVars, commandVars,
                      Rest, Exclusive, Inside, Numbered, GrantIsNew, HolderSees, NotYetSpent
<1>3. CASE Authorized
    <2>1. CASE UNCHANGED <<minted, grant>>
        BY <1>0, <1>3, <2>1 DEF Authorized, refreshVars,
           Rest, Exclusive, Inside, Numbered, GrantIsNew, HolderSees, NotYetSpent
    <2>2. CASE minted' = minted + 1 /\ grant'.access = minted + 1
        <3>1. /\ \A r \in Record : r.access \in Nat
              /\ minted \in Nat /\ spent \subseteq Record
              /\ stored # None => stored \in Record
              /\ \A c \in Calls : /\ Inside(c) => call[c].cur \in Record
                                  /\ call[c].at = "save" => call[c].next \in Record
            BY <1>0 DEF TypeOK, Record, Minted, Call, Inside
        <3>2. Numbered' /\ GrantIsNew'
            BY <1>0, <1>3, <2>2, <3>1 DEF Authorized, refreshVars, Rest, Numbered, GrantIsNew, Inside
        <3>3. QED
            BY <1>0, <1>3, <3>2 DEF Authorized, refreshVars, Rest, Exclusive, Inside, HolderSees, NotYetSpent
    <2>3. QED
        BY <1>3, <2>1, <2>2 DEF Authorized
<1>4. CASE PersistLogin
    <2>1. CASE UNCHANGED stored
        BY <1>0, <1>4, <2>1 DEF PersistLogin, refreshVars, serverVars,
           Rest, Exclusive, Inside, Numbered, GrantIsNew, HolderSees, NotYetSpent
    <2>2. CASE LoginLockFree /\ stored' = grant
        <3>1. grant \in Record /\ grant # None /\ grant \notin spent
            BY <1>0, <1>4 DEF PersistLogin, TypeOK, Rest, GrantIsNew
        <3>2. \A c \in Calls : ~Inside(c)
            BY <1>0, <2>2, OAuthAssumption DEF LoginLockFree, Rest, Exclusive
        <3>3. QED
            BY <1>0, <1>4, <2>2, <3>1, <3>2 DEF PersistLogin, refreshVars, serverVars,
               Rest, Exclusive, Inside, Numbered, GrantIsNew, HolderSees, NotYetSpent
    <2>3. QED
        BY <1>4, <2>1, <2>2 DEF PersistLogin
<1>5. CASE Logout
    <2>1. None \notin spent
        BY <1>0, OAuthAssumption DEF TypeOK
    <2>2. QED
        BY <1>0, <1>5, <2>1 DEF Logout, refreshVars,
           Rest, Exclusive, Inside, Numbered, GrantIsNew, HolderSees, NotYetSpent
<1>6. QED
    BY <1>1, <1>2, <1>3, <1>4, <1>5 DEF Next, Over
-----------------------------------------------------------------------------
(* The strengthened invariant holds in every behaviour. *)
LEMMA Invariant == Spec => []OInv
BY InitOInv, OInvStep, PTL DEF Spec

(* Every value the runs, the calls and the commands hold is of its type. *)
THEOREM OAuthTypeCorrect == Spec => []TypeOK
<1>1. OInv => TypeOK
    BY DEF OInv
<1>2. QED
    BY <1>1, Invariant, PTL

(* Runs that share a credential do not spend it twice, however many there   *)
(* are, whenever they are killed, and whatever logins and logouts do beside *)
(* them.                                                                    *)
THEOREM CredentialSpentOnce == Spec => []RefreshedOnce
<1>1. OInv => RefreshedOnce
    BY DEF OInv, NotYetSpent, RefreshedOnce
<1>2. QED
    BY <1>1, Invariant, PTL

(* No refresh puts an older credential over a newer one: the one that saves *)
(* holds the lock, so the file can only hold what it has exchanged.         *)
THEOREM StoreOnlyAdvances == Spec => StoreAdvances
<1> DEFINE Advance == stored # None /\ stored' # None /\ stored' # stored =>
                          stored'.access > stored.access \/ stored' = grant
<1>1. OInv /\ [Next]_allVars => [Advance]_allVars
    <2> SUFFICES ASSUME OInv, Next, stored # None, stored' # None, stored' # stored,
                        stored' # grant
                 PROVE  stored'.access > stored.access
        OBVIOUS
    <2>1. ASSUME NEW c \in Calls, Save(c) PROVE stored'.access > stored.access
        BY <2>1 DEF Save, OInv, HolderSees, Inside
    <2>2. PICK c \in Calls : Save(c)
        BY DEF Next, RefreshStep, CallStep, StartRun, Kill, Ask, Authorize, StopWaiting, Acquire, Refresh,
               Unavailable, RefreshRefused, SaveFails, Accepted, Refused, Tick, StartLogin, Authorized,
               PersistLogin, LookUp, Logout, Over, allVars, vars
    <2>3. QED
        BY <2>1, <2>2
<1>2. Spec => [][Advance]_allVars
    BY <1>1, Invariant, PTL DEF Spec
<1>3. QED
    BY <1>2 DEF StoreAdvances
=============================================================================
