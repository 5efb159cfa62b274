---------------------------- MODULE OAuthRefresh ----------------------------
(***************************************************************************)
(* One OAuth credential shared by the runs that use it: the record in the  *)
(* token store (internal/oauthtoken/store.go), its cross-process lock, and *)
(* the handler each run serves tokens from (internal/mcp/oauth.go).  Each  *)
(* refresh may rotate the refresh token, so two runs that spend the same   *)
(* one lose the credential for every later run.                            *)
(*                                                                         *)
(* A call is one HTTP request of the MCP transport: it asks the handler    *)
(* for a token, is answered by the server, and when refused is authorized  *)
(* and tried once more.  Tokens are numbered in the order in which they    *)
(* are minted; a record keeps its refresh token when the authorization     *)
(* server sends no new one.                                                *)
(***************************************************************************)
EXTENDS Naturals, FiniteSets

CONSTANTS
    Calls, Runs,
    Owners,      \* the ways the calls may fall to the runs
    None,
    Margin,      \* per run: refreshMargin plus its own jitter, in ticks
    Life,        \* what a token lives for when it is issued, in ticks
    MaxMinted    \* bound: token responses the authorization server gives

Minted == 1..MaxMinted
Record == [access: Minted, refresh: 0..MaxMinted]   \* refresh 0: none was issued

ASSUME OAuthAssumption ==
    /\ Owners \subseteq [Calls -> Runs] /\ None \notin Calls /\ None \notin Record
    /\ Margin \in [Runs -> Nat] /\ Life \in Nat \ {0} /\ MaxMinted \in Nat \ {0}

VARIABLES
    owner,               \* the run each call belongs to
    stored, holder,      \* the file, and the call that holds the lock beside it
    run, mu,             \* a run's handler, and the call that holds its mutex
    call,                \* where a call is, with its locals
    minted, live, left,  \* the authorization server: tokens given out, refresh tokens
                         \* it accepts; the ticks each access token has left
    spent                \* auxiliary: records exchanged for one that did not go missing

serverVars == <<minted, live, left>>
vars == <<owner, stored, holder, run, mu, call, serverVars, spent>>

NoHandler == [phase |-> "off", rec |-> None, dead |-> FALSE, lastForced |-> 0, lifetime |-> 0]
Locals(s, again) ==
    [at |-> s, retried |-> again, forced |-> FALSE, token |-> 0,
     cur |-> None, next |-> None]
Done == Locals("done", FALSE)

(* A login has stored the first record.                                     *)
First == [access |-> 1, refresh |-> 1]

RefreshInit ==
    /\ owner \in Owners
    /\ stored = First /\ holder = None
    /\ run = [p \in Runs |-> NoHandler] /\ mu = [p \in Runs |-> None]
    /\ call = [c \in Calls |-> Locals("idle", FALSE)]
    /\ minted = 1 /\ live = {1} /\ left = [n \in Minted |-> IF n = 1 THEN Life ELSE 0]
    /\ spent = {}

-----------------------------------------------------------------------------
(* A token that lives shorter than four margins is refreshed later.         *)
ClampMargin(margin, life) ==
    IF life > 0 /\ life \div 4 < margin THEN life \div 4 ELSE margin

Fresh(r, p) == left[r.access] > ClampMargin(Margin[p], run[p].lifetime)

Put(f, x, v) == [f EXCEPT ![x] = v]
Goto(c, s) == call' = [call EXCEPT ![c].at = s]
Unlock(c) == holder' = None /\ mu' = Put(mu, owner[c], None)

(* The record whose replacement waits to be saved, if c holds one.          *)
Pending(c) == IF call[c].at = "save" THEN {call[c].cur} ELSE {}

-----------------------------------------------------------------------------
(* newRunOAuthHandler: without a credential the connection fails for good.  *)
StartRun(p) ==
    /\ run[p].phase = "off"
    /\ run' = Put(run, p, [NoHandler EXCEPT !.phase = IF stored = None THEN "over" ELSE "up",
                                            !.rec = stored])
    /\ UNCHANGED <<stored, holder, mu, call, serverVars, spent>>

(* A run ends at any point; the kernel frees its lock.  What the server had *)
(* granted and the file does not hold yet is lost.                          *)
Kill(p) ==
    LET mine == {c \in Calls : owner[c] = p} IN
    /\ run[p].phase = "up"
    /\ run' = Put(run, p, [NoHandler EXCEPT !.phase = "over"])
    /\ call' = [c \in Calls |-> IF c \in mine THEN Done ELSE call[c]]
    /\ holder' = (IF holder \in mine THEN None ELSE holder) /\ mu' = Put(mu, p, None)
    /\ spent' = spent \ UNION {Pending(c) : c \in mine}
    /\ UNCHANGED <<stored, serverVars>>

-----------------------------------------------------------------------------
(* token(), not forced: a dead credential, the cached token, or the lock.   *)
Ask(c) ==
    LET p == owner[c] IN
    /\ run[p].phase = "up" /\ call[c].at \in {"idle", "retry"} /\ mu[p] = None
    /\ \/ run[p].dead /\ call' = Put(call, c, Done) /\ UNCHANGED mu
       \/ /\ ~run[p].dead /\ Fresh(run[p].rec, p)
          /\ call' = [call EXCEPT ![c].at = "sent", ![c].token = run[p].rec.access]
          /\ UNCHANGED mu
       \/ /\ ~run[p].dead /\ ~Fresh(run[p].rec, p)
          /\ Goto(c, "lock") /\ mu' = Put(mu, p, c)
    /\ UNCHANGED <<stored, holder, run, serverVars, spent>>

(* Authorize: the server refused the call's token.  The token that the last *)
(* forced path produced is not worth another refresh.                       *)
Authorize(c) ==
    LET p == owner[c]
        damped == call[c].token = run[p].lastForced
    IN
    /\ call[c].at = "refused" /\ mu[p] = None
    /\ \/ /\ run[p].dead \/ damped
          /\ run' = [run EXCEPT ![p].dead = TRUE] /\ call' = Put(call, c, Done) /\ UNCHANGED mu
       \/ /\ ~run[p].dead /\ ~damped
          /\ call' = [call EXCEPT ![c].at = "lock", ![c].forced = TRUE]
          /\ mu' = Put(mu, p, c) /\ UNCHANGED run
    /\ UNCHANGED <<stored, holder, serverVars, spent>>

(* The context of the connection ends while the call waits for the lock, or *)
(* the lock or the record cannot be read.                                   *)
StopWaiting(c) ==
    /\ call[c].at = "lock"
    /\ call' = Put(call, c, Done) /\ mu' = Put(mu, owner[c], None)
    /\ UNCHANGED <<stored, holder, run, serverVars, spent>>

(* The rest of token() once WithLock has given a record, or an error: a     *)
(* denial is a verdict, anything else is forgotten.                         *)
Adopt(c, r, lifetime) ==
    LET p == owner[c] IN
    /\ run' = Put(run, p, [run[p] EXCEPT !.rec = r, !.lifetime = lifetime,
                              !.lastForced = IF call[c].forced THEN r.access ELSE @])
    /\ call' = Put(call, c, IF call[c].forced THEN Locals("retry", TRUE)
                            ELSE [Locals("sent", call[c].retried) EXCEPT !.token = r.access])
    /\ Unlock(c)

Deny(c) ==
    /\ run' = [run EXCEPT ![owner[c]].dead = TRUE]
    /\ call' = Put(call, c, Done) /\ Unlock(c)

KeptLock(c) == call' = Put(call, c, Done) /\ UNCHANGED <<holder, mu, run>>   \* seeded defect
Fail(c) == call' = Put(call, c, Done) /\ Unlock(c) /\ UNCHANGED run

-----------------------------------------------------------------------------
(* WithLock re-reads the record under the lock, and refreshLocked looks at  *)
(* it: gone, renewed by another run, without a refresh token, or to be      *)
(* exchanged.                                                               *)
CachedRead(c) == run[owner[c]].rec                            \* seeded defect
Reread(c) == stored
LockFree(c) == holder = None
Renewed(c, r) ==
    IF call[c].forced THEN r.access # call[c].token ELSE Fresh(r, owner[c])

Acquire(c) ==
    LET r == Reread(c) IN
    /\ call[c].at = "lock" /\ LockFree(c)
    /\ \/ r = None /\ Deny(c)
       \/ r # None /\ Renewed(c, r) /\ Adopt(c, r, run[owner[c]].lifetime)
       \/ r # None /\ ~Renewed(c, r) /\ r.refresh = 0 /\ Deny(c)
       \/ /\ r # None /\ ~Renewed(c, r) /\ r.refresh # 0
          /\ holder' = c /\ call' = [call EXCEPT ![c].at = "post", ![c].cur = r]
          /\ UNCHANGED <<mu, run>>
    /\ UNCHANGED <<stored, serverVars, spent>>

(* refreshGrant and applyTokenResponse: the authorization server mints an   *)
(* access token, with or without a new refresh token.  The answer arrives,  *)
(* or is lost with what it carried.                                         *)
Granted(r, rotate) ==
    [access |-> minted + 1, refresh |-> IF rotate THEN minted + 1 ELSE r.refresh]

Refresh(c) ==
    LET r == call[c].cur IN
    /\ call[c].at = "post" /\ r.refresh \in live /\ minted < MaxMinted
    /\ \E rotate \in BOOLEAN :
          /\ live' = IF rotate THEN (live \ {r.refresh}) \cup {minted + 1} ELSE live
          /\ \/ /\ call' = [call EXCEPT ![c].at = "save", ![c].next = Granted(r, rotate)]
                /\ spent' = spent \cup {r} /\ UNCHANGED <<holder, mu, run>>
             \/ Fail(c) /\ UNCHANGED spent
    /\ minted' = minted + 1 /\ left' = Put(left, minted + 1, Life)
    /\ UNCHANGED stored

(* Unreachable, 5xx, 429, no token response, the end of the context:        *)
(* transient.                                                               *)
Transient(c) == Fail(c)

Unavailable(c) ==
    /\ call[c].at = "post"
    /\ Transient(c)
    /\ UNCHANGED <<stored, serverVars, spent>>

(* A refusal is a denial; invalid_grant, for a refresh token that is not    *)
(* accepted any more, gets a second look at the file first.                 *)
RefreshRefused(c) ==
    /\ call[c].at = "post"
    /\ \E invalidGrant \in BOOLEAN :
          /\ invalidGrant => call[c].cur.refresh \notin live
          /\ IF invalidGrant /\ stored # None /\ stored # call[c].cur
             THEN Adopt(c, stored, run[owner[c]].lifetime)
             ELSE Deny(c)
    /\ UNCHANGED <<stored, serverVars, spent>>

(* Save, by rename; or it fails and the record is thrown away, though the   *)
(* lifetime it came with is remembered.                                     *)
Save(c) ==
    /\ call[c].at = "save"
    /\ stored' = call[c].next
    /\ Adopt(c, call[c].next, Life)
    /\ UNCHANGED <<serverVars, spent>>

SaveFails(c) ==
    /\ call[c].at = "save"
    /\ run' = [run EXCEPT ![owner[c]].lifetime = Life]
    /\ call' = Put(call, c, Done) /\ Unlock(c)
    /\ spent' = spent \ Pending(c)
    /\ UNCHANGED <<stored, serverVars>>

-----------------------------------------------------------------------------
(* The MCP server accepts a token that has not expired, and may refuse any. *)
Accepted(c) ==
    /\ call[c].at = "sent" /\ left[call[c].token] > 0
    /\ call' = Put(call, c, Done)
    /\ UNCHANGED <<stored, holder, run, mu, serverVars, spent>>

Refused(c) ==
    /\ call[c].at = "sent"
    /\ call' = IF call[c].retried THEN Put(call, c, Done) ELSE [call EXCEPT ![c].at = "refused"]
    /\ UNCHANGED <<stored, holder, run, mu, serverVars, spent>>

Tick ==
    /\ \E n \in Minted : left[n] > 0
    /\ left' = [n \in Minted |-> IF left[n] > 0 THEN left[n] - 1 ELSE 0]
    /\ UNCHANGED <<stored, holder, run, mu, call, minted, live, spent>>

CallStep(c) ==
    \/ Ask(c) \/ Authorize(c) \/ Acquire(c) \/ Refresh(c) \/ Unavailable(c)
    \/ RefreshRefused(c) \/ Save(c) \/ SaveFails(c) \/ Accepted(c) \/ Refused(c)

(* A run without a call does nothing that another could see.                *)
Callers == {owner[c] : c \in Calls}

RefreshStep ==
    \/ \E p \in Callers : StartRun(p) \/ Kill(p)
    \/ \E c \in Calls : CallStep(c) \/ StopWaiting(c)
    \/ Tick
=============================================================================
