----------------------------- MODULE OAuthLogin -----------------------------
(***************************************************************************)
(* The credential of OAuthRefresh together with the commands that create   *)
(* and remove it: amele mcp login (internal/mcp/login.go, loopback.go) and *)
(* amele mcp logout (cmd/amele/mcp_cmd.go, internal/mcp/logout.go), while  *)
(* runs use it.  A login takes the store's lock; a logout does not.        *)
(***************************************************************************)
EXTENDS OAuthRefresh

CONSTANTS
    ClientConfigured,  \* auth.client_id is set for this server
    MaxCommands        \* bound: logins and logouts together

ASSUME LoginAssumption == ClientConfigured \in BOOLEAN /\ MaxCommands \in Nat

VARIABLES
    login, grant,   \* a login: its step and its record
    listed,         \* a logout: the record it looked up
    commands        \* how many logins and logouts were begun

commandVars == <<login, grant, listed, commands>>
allVars == <<vars, commandVars>>

Command == commands < MaxCommands /\ commands' = commands + 1

Init ==
    /\ RefreshInit
    /\ login = "no" /\ grant = None /\ listed = None /\ commands = 0

refreshVars == <<owner, holder, run, mu, call>>

-----------------------------------------------------------------------------
(* What a server says of itself: whether it answers 401, whether metadata   *)
(* is found for it and for its authorization server, and what that holds.   *)
Discovery == [answers401: BOOLEAN, prm: BOOLEAN, firstIsHttps: BOOLEAN, s256: BOOLEAN,
              tokenHttps: BOOLEAN, cimd: BOOLEAN, sameResource: BOOLEAN]

PickAuthServer(d) == d.prm /\ d.firstIsHttps

CheckDiscovery(d) ==
    /\ d.s256 /\ d.tokenHttps /\ d.sameResource
    /\ ClientConfigured \/ d.cimd

MayLogin(d) == d.answers401 /\ PickAuthServer(d) /\ CheckDiscovery(d)

(* Probe and discovery, the question to the operator, and the listener.     *)
StartLogin ==
    /\ login = "no" /\ Command
    /\ \E may \in {MayLogin(d) : d \in Discovery}, confirmed \in BOOLEAN :
          login' = IF may /\ confirmed THEN "listening" ELSE "no"
    /\ UNCHANGED <<vars, grant, listed>>

(* The listener takes the first request that is a callback, whoever sent it *)
(* (serve, deliver); what is none is answered and ignored.  The wait also   *)
(* ends with the context or after five minutes.                             *)
Request == {"code", "refusal", "forged", "stray"}
FirstCallback == {"none"} \cup (Request \ {"stray"})

(* A forged state is found out by the SDK; a genuine code is exchanged, and *)
(* record() refuses an answer without a bearer token.                       *)
Authorized ==
    /\ login = "listening"
    /\ \/ /\ "code" \in FirstCallback /\ minted < MaxMinted
          /\ minted' = minted + 1 /\ left' = Put(left, minted + 1, Life)
          /\ \E r \in {0, minted + 1} :
                /\ grant' = [access |-> minted + 1, refresh |-> r] /\ live' = live \cup ({r} \ {0})
          /\ login' = "lock"
       \/ login' = "no" /\ UNCHANGED <<minted, live, left, grant>>
    /\ UNCHANGED <<stored, refreshVars, spent, listed, commands>>

(* persistLogin: whatever the lock protected is replaced; or the wait ends, *)
(* or the write fails.                                                      *)
AnyTime == TRUE                                               \* seeded defect
LoginLockFree == holder = None

PersistLogin ==
    /\ login = "lock" /\ login' = "no" /\ grant' = None
    /\ \/ LoginLockFree /\ stored' = grant
       \/ UNCHANGED stored
    /\ UNCHANGED <<refreshVars, serverVars, spent, listed, commands>>

-----------------------------------------------------------------------------
(* mcpLogout: look the record up, hand its token back if the server takes   *)
(* it, remove the file whatever it holds by then.                           *)
LookUp ==
    /\ listed = None /\ Command /\ stored # None /\ listed' = stored
    /\ UNCHANGED <<vars, login, grant>>

Logout ==
    /\ listed # None /\ listed' = None
    /\ live' \in {live, live \ {listed.refresh}}
    /\ stored' = None
    /\ UNCHANGED <<refreshVars, minted, left, spent, login, grant, commands>>

-----------------------------------------------------------------------------
Over ==
    /\ \A p \in Callers : run[p].phase = "over"
    /\ login = "no" /\ commands = MaxCommands /\ listed = None
    /\ UNCHANGED allVars

Next ==
    \/ RefreshStep /\ UNCHANGED <<owner, commandVars>>
    \/ StartLogin \/ Authorized \/ PersistLogin
    \/ LookUp \/ Logout
    \/ Over

Spec == Init /\ [][Next]_allVars

(* A call goes on when it can: requests have deadlines of their own, and a  *)
(* lock is freed by the step that ends its holder.                          *)
FairSpec == Spec /\ \A c \in Calls : WF_allVars(CallStep(c) /\ UNCHANGED <<owner, commandVars>>)

-----------------------------------------------------------------------------
(* Runs that share a credential do not spend it twice (docs/mcp.md, Refresh *)
(* and rotation): a record whose exchange was granted is never sent to the  *)
(* authorization server again, unless the answer was lost before the file   *)
(* held it.  Needs the lock, the re-read under it and the comparison with   *)
(* the refused token.                                                       *)
RefreshedOnce ==
    \A c \in Calls : call[c].at = "post" => call[c].cur \notin spent

(* A refresh never puts an older credential over a newer one: not over that *)
(* of another run, and not over that of a login which finished meanwhile.   *)
StoreAdvances ==
    [][stored # None /\ stored' # None /\ stored' # stored =>
          stored'.access > stored.access \/ stored' = grant]_allVars

(* Every request of a run comes back with an answer or an error, whatever   *)
(* other runs, logins and logouts do and whenever a run is killed: neither  *)
(* the mutex of a handler nor the lock of the store is kept.                *)
CallsEnd ==
    \A c \in Calls : run[owner[c]].phase = "up" ~> call[c].at = "done"

(* A call that was in flight with the old token comes back refused too, and *)
(* that says nothing about the replacement (the comment at oauth.go:358):   *)
(* only the refusal of the token the run holds condemns the credential.     *)
ReplacementSurvives ==
    [][\A c \in Calls : LET p == owner[c] IN
          call[c].at = "refused" /\ call'[c].at = "done" /\ run'[p].dead /\ ~run[p].dead =>
              run[p].rec.access = call[c].token]_allVars
=============================================================================
