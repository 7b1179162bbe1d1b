------------------------------- MODULE Sessions -------------------------------
(* Management sessions of one browser (src/internal/httpapi/router_manage_auth *)
(* and manage_sessions, src/internal/webauth/oidc): login by token and by the   *)
(* identity provider, forms protected by the session's secret, logout, and the  *)
(* rows behind them (src/internal/store/sqlite.go).  Requests of one browser    *)
(* overlap; each carries the cookies of its start, and answers may be lost.     *)
EXTENDS Naturals, FiniteSets, FiniteSetsExt

CONSTANTS
    Visits,      \* requests of the browser under way at once
    SessionIds,  \* numbered in the order they are made; a bound on logins
    StateIds     \* likewise, of identity-provider logins

ASSUME SessionAssumption ==
    /\ SessionIds \subseteq Nat \ {0} /\ StateIds \subseteq Nat \ {0}

VARIABLES
    states,      \* oidc_states: "unused", "fresh", or "over" (consumed or expired)
    sessions,    \* manage_sessions and oidc_sessions
    granted,     \* which kinds of credential the access configuration accepts
    jar,         \* the browser's cookies, 0 for none; csrf: whose secret it is
    visit,       \* what a request is doing
    overlapped   \* a login was under way together with another request

sessionVars == <<states, sessions, granted, jar, visit, overlapped>>
server == <<states, sessions>>

NoSession == [kind |-> "none", status |-> "unused", state |-> 0]
EmptyJar  == [manage |-> 0, oidc |-> 0, state |-> 0, csrf |-> 0]
NoVisit     == [op |-> "none", step |-> "idle", jar |-> EmptyJar, seen |-> {},
              as |-> 0, secret |-> 0, valid |-> {}]
\* the cookies a handler reads
Reads(op) == CASE op = "login" -> {}
               [] op = "callback" -> {"state"}
               [] op \in {"tokenLogin", "oidcLogout"} -> {"oidc"}
               [] op = "view" -> {"manage", "oidc"}
               [] op \in {"submit", "logout"} -> {"manage", "oidc", "csrf"}
Logins    == {"login", "callback", "tokenLogin"}
LiveOnes  == {s \in SessionIds : sessions[s].status = "live"}

\* GetManageSession, GetOIDCSession: revoked_at is null and expires_at > now.
\* (Mutant: the row is there.)
Known(s)   == s # 0 /\ sessions[s].status # "unused"
Found(s)   == s \in LiveOnes
Holder(j)  == IF j.manage # 0 THEN j.manage ELSE j.oidc
Unopened   == {s \in SessionIds : sessions[s].status = "unused"}
-------------------------------------------------------------------------------
\* The browser may come with a session of an earlier login and a page opened under it.
BrowserComesWith(kind) ==
    LET first == Min(SessionIds) IN
    /\ sessions = [s \in SessionIds |->
           IF s # first \/ kind = "none" THEN NoSession ELSE [kind |-> kind, status |-> "live", state |-> 0]]
    /\ jar = CASE kind = "none"     -> EmptyJar
                [] kind = "token"    -> [EmptyJar EXCEPT !.manage = first, !.csrf = first]
                [] kind = "identity" -> [EmptyJar EXCEPT !.oidc = first, !.csrf = first]

SessionsInit ==
    /\ states = [x \in StateIds |-> "unused"]
    /\ \E kind \in {"none", "token", "identity"} : BrowserComesWith(kind)
    /\ granted = {"token", "identity"}
    /\ visit = [v \in Visits |-> NoVisit]
    /\ overlapped = FALSE

At(v, op, step) == visit[v].step = step /\ visit[v].op \in op
Go(v, step)     == visit' = [visit EXCEPT ![v].step = step]

\* The answer with its Set-Cookie headers reaches the browser, or is lost.
Reply(v, cookies) ==
    /\ visit' = [visit EXCEPT ![v] = NoVisit]
    /\ jar' \in {jar, cookies}

Revoke(s) == sessions' = IF Found(s) THEN [sessions EXCEPT ![s].status = "over"] ELSE sessions

Visit(v, op, step) ==
    /\ visit[v].step = "idle"
    /\ visit' = [visit EXCEPT ![v] =
           [NoVisit EXCEPT !.op = op, !.step = step,
                !.jar = [c \in DOMAIN jar |-> IF c \in Reads(op) THEN jar[c] ELSE 0],
                !.valid = IF op # "submit" THEN {}
                          ELSE {s \in LiveOnes : sessions[s].kind \in granted}]]
    /\ overlapped' = (overlapped \/ \E w \in Visits \ {v} :
                         visit[w].step # "idle" /\ {op, visit[w].op} \cap Logins # {})
    /\ UNCHANGED <<server, granted, jar>>

Start(v) ==
    \/ Visit(v, "login", "createState")
    \/ jar.state # 0 /\ Visit(v, "callback", "consume")  \* without its cookie it is refused
    \/ Visit(v, "tokenLogin", "refresh")
    \/ \E op \in {"view", "submit"} : jar # EmptyJar /\ Visit(v, op, "refresh")
    \/ jar.csrf # 0 /\ Visit(v, "logout", "csrf")
    \/ jar.oidc # 0 /\ Visit(v, "oidcLogout", "revokeOidc")

\* loginPage: the cookies of a token session are cleared, whatever follows.
ClearedByLogin == [jar EXCEPT !.manage = 0, !.csrf = 0]
UnusedStates   == {x \in StateIds : states[x] = "unused"}

CreateOIDCState(v) ==
    /\ At(v, {"login"}, "createState")
    /\ UnusedStates # {}
    /\ states' = [states EXCEPT ![Min(UnusedStates)] = "fresh"]
    /\ Reply(v, [ClearedByLogin EXCEPT !.state = Min(UnusedStates)])
    /\ UNCHANGED <<sessions, granted, overlapped>>

CreateStateFails(v) ==
    /\ At(v, {"login"}, "createState")
    /\ Reply(v, ClearedByLogin)
    /\ UNCHANGED <<server, granted, overlapped>>

\* ConsumeOIDCState: one update ... where consumed_at is null and not expired.
\* (Mutant: the row is there.)
IsKept(x)     == states[x] # "unused"
Consumable(x) == states[x] = "fresh"

ConsumeOIDCState(v) ==
    LET x == visit[v].jar.state IN
    /\ At(v, {"callback"}, "consume")
    /\ \/ /\ Consumable(x)
          /\ states' = [states EXCEPT ![x] = "over"]
          /\ Go(v, "exchange") /\ UNCHANGED jar
       \/ /\ ~Consumable(x)
          /\ Reply(v, [jar EXCEPT !.state = 0]) /\ UNCHANGED states
       \/ /\ states' \in {states, [states EXCEPT ![x] = "over"]}  \* an error; it may be applied
          /\ Reply(v, [jar EXCEPT !.state = 0])
    /\ UNCHANGED <<sessions, granted, overlapped>>

Insert(kind, x, s) == sessions' = [sessions EXCEPT ![s] = [kind |-> kind, status |-> "live", state |-> x]]

\* The code is exchanged, the id_token verified against the state's nonce; any
\* of it may fail.  Then the session is stored under a new random name.
CreateOIDCSession(v) ==
    /\ At(v, {"callback"}, "exchange")
    /\ \/ /\ Unopened # {} /\ Insert("identity", visit[v].jar.state, Min(Unopened))
          /\ Reply(v, [jar EXCEPT !.oidc = Min(Unopened), !.state = 0])
       \/ Reply(v, [jar EXCEPT !.state = 0]) /\ UNCHANGED sessions
    /\ UNCHANGED <<states, granted, overlapped>>

\* refreshManageAuthorizer: the request is judged by the configuration of now.
Refresh(v) ==
    /\ At(v, {"view", "submit"}, "refresh")
    /\ visit' = [visit EXCEPT ![v].seen = granted, ![v].step = "readManage"]
    /\ UNCHANGED <<server, granted, jar, overlapped>>

\* manageLoginPage: a session of the identity provider ends first.
AuthenticateToken(v) ==
    /\ At(v, {"tokenLogin"}, "refresh")
    /\ \/ "token" \in granted /\ Go(v, "revokeOidc") /\ UNCHANGED jar
       \/ Reply(v, jar)
    /\ UNCHANGED <<server, granted, overlapped>>

\* clearSession: a failed revocation is logged only; the cookies go anyway.
AfterRevoke(v) ==
    CASE visit[v].op = "tokenLogin" -> Go(v, "create") /\ UNCHANGED jar
      [] visit[v].op = "logout"     -> Reply(v, EmptyJar)
      [] visit[v].op = "oidcLogout" -> Reply(v, [jar EXCEPT !.oidc = 0, !.state = 0])

RevokeOIDCSession(v) ==
    /\ visit[v].step = "revokeOidc"
    /\ \/ Revoke(visit[v].jar.oidc)
       \/ UNCHANGED sessions   \* an error
    /\ AfterRevoke(v)
    /\ UNCHANGED <<states, granted, overlapped>>

CreateManageSession(v) ==
    /\ At(v, {"tokenLogin"}, "create")
    /\ \/ /\ Unopened # {} /\ Insert("token", 0, Min(Unopened))
          /\ Reply(v, [EmptyJar EXCEPT !.manage = Min(Unopened), !.csrf = Min(Unopened)])
       \/ Reply(v, [jar EXCEPT !.oidc = 0, !.state = 0]) /\ UNCHANGED sessions   \* an error
    /\ UNCHANGED <<states, granted, overlapped>>

\* managePrincipal: the token session if it is there and its token still valid,
\* else the session of the identity provider.  A read that fails finds nothing.
Accepted(v, s) == Found(s) /\ sessions[s].kind \in visit[v].seen

AfterPrincipal(v) == IF visit[v].op = "view" THEN "ensure" ELSE "csrf"

Principal(v, s, otherwise) ==
    \/ Accepted(v, s) /\ visit' = [visit EXCEPT ![v].as = s, ![v].seen = {}, ![v].step = AfterPrincipal(v)]
                      /\ UNCHANGED jar
    \/ otherwise # "refused" /\ Go(v, otherwise) /\ UNCHANGED jar
    \/ otherwise = "refused" /\ Reply(v, jar)

ReadManageSession(v) ==
    /\ visit[v].step = "readManage" /\ Principal(v, visit[v].jar.manage, "readOidc")
    /\ UNCHANGED <<server, granted, overlapped>>

ReadOIDCSession(v) ==
    /\ visit[v].step = "readOidc" /\ Principal(v, visit[v].jar.oidc, "refused")
    /\ UNCHANGED <<server, granted, overlapped>>

\* ensureManageCSRFToken: the page's form gets the secret of the session.
EnsureManageCSRFToken(v) ==
    LET j == visit[v].jar IN
    /\ At(v, {"view"}, "ensure")
    /\ \/ Found(j.manage) /\ Reply(v, [jar EXCEPT !.csrf = j.manage])
       \/ ~Found(j.manage) /\ Found(j.oidc) /\ Reply(v, [jar EXCEPT !.csrf = j.oidc])
       \/ ~Found(j.manage) /\ ~Found(j.oidc) /\ Reply(v, jar)
    /\ UNCHANGED <<server, granted, overlapped>>

\* requireManageCSRF: the form's token is the cookie's, and the secret of the
\* live session the cookies name; the token session's if there is such a cookie.
FormMatches(j) == Found(Holder(j)) /\ j.csrf = Holder(j)

RequireManageCSRF(v) ==
    LET j == visit[v].jar IN
    /\ At(v, {"submit", "logout"}, "csrf")
    /\ \/ /\ FormMatches(j)
          /\ visit' = [visit EXCEPT ![v].secret = j.csrf,
                          ![v].step = IF visit[v].op = "submit" THEN "acting" ELSE "revokeManage"]
          /\ UNCHANGED jar
       \/ Reply(v, jar)
    /\ UNCHANGED <<server, granted, overlapped>>

\* The handler makes its change (other modules of this project).
Act(v) ==
    /\ visit[v].step = "acting" /\ Reply(v, jar)
    /\ UNCHANGED <<server, granted, overlapped>>

RevokeManageSession(v) ==
    /\ visit[v].step = "revokeManage"
    /\ \/ Revoke(visit[v].jar.manage)
       \/ UNCHANGED sessions   \* an error
    /\ Go(v, "revokeOidc")
    /\ UNCHANGED <<states, granted, jar, overlapped>>

Expire ==
    /\ \/ \E x \in StateIds : /\ states[x] = "fresh" /\ states' = [states EXCEPT ![x] = "over"]
                              /\ UNCHANGED sessions
       \/ \E s \in LiveOnes : sessions' = [sessions EXCEPT ![s].status = "over"] /\ UNCHANGED states
    /\ UNCHANGED <<granted, jar, visit, overlapped>>

\* An administrator revokes the token; the identity's mapping stays.
RevokeToken ==
    /\ "token" \in granted /\ granted' = granted \ {"token"}
    /\ UNCHANGED <<server, jar, visit, overlapped>>

SessionsNext ==
    \/ Expire \/ RevokeToken
    \/ \E v \in Visits :
        \/ Start(v) \/ CreateOIDCState(v) \/ CreateStateFails(v) \/ ConsumeOIDCState(v)
        \/ CreateOIDCSession(v) \/ Refresh(v) \/ AuthenticateToken(v) \/ RevokeOIDCSession(v)
        \/ CreateManageSession(v) \/ ReadManageSession(v) \/ ReadOIDCSession(v)
        \/ EnsureManageCSRFToken(v) \/ RequireManageCSRF(v) \/ Act(v) \/ RevokeManageSession(v)

SessionsSpec == SessionsInit /\ [][SessionsNext]_sessionVars
-------------------------------------------------------------------------------
SessionsTypeOK ==
    /\ states \in [StateIds -> {"unused", "fresh", "over"}]
    /\ granted \subseteq {"token", "identity"} /\ overlapped \in BOOLEAN
    /\ \A s \in SessionIds : /\ sessions[s].status \in {"unused", "live", "over"}
                             /\ sessions[s].status # "unused" => sessions[s].kind \in {"token", "identity"}
    /\ \A s \in {jar.manage, jar.csrf} \ {0} : sessions[s].status # "unused"
    /\ jar.manage # 0 => sessions[jar.manage].kind = "token"
    /\ jar.oidc # 0 => sessions[jar.oidc].kind = "identity"

\* postgres.go:933: a login at the identity provider opens one session at most,
\* however often and however concurrently its callback is called.
StateOpensOneSession ==
    \A s, t \in SessionIds : sessions[s].state # 0 /\ sessions[s].state = sessions[t].state => s = t

\* router_manage_auth.go:174: a change is made only for a session that had not
\* ended when its request began, by a credential accepted then, and with a form
\* of a session that had not ended either: logout, expiry, revocation and purge
\* are final for every request that comes after them.
OnlyLiveSessionsAct ==
    \A v \in Visits : visit[v].step = "acting" =>
        visit[v].as \in visit[v].valid /\ (visit[v].as # visit[v].secret => overlapped)
===============================================================================
