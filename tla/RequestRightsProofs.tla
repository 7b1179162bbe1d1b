------------------------ MODULE RequestRightsProofs ------------------------
(***************************************************************************)
(* Theorems about the rights that requests act with, for every set of      *)
(* requests, sessions, teams and claims: one login of the identity         *)
(* provider opens one session (LoginsOpenOneSession), changes are made     *)
(* for live sessions only (ChangesNeedLiveSessions), and a change reaches  *)
(* only the teams that whoever makes it manages (NobodyGainsBeyond).       *)
(***************************************************************************)
EXTENDS MCRequests, WellFoundedInduction, TLAPS

-----------------------------------------------------------------------------
(* Sessions: types *)

Kinds == {"token", "identity"}
Names == SessionIds \cup {0, Min(SessionIds)}
Jars  == [manage : Names, oidc : Names, state : StateIds \cup {0}, csrf : Names]

Steps == {"idle", "createState", "consume", "exchange", "refresh", "readManage", "readOidc",
          "csrf", "acting", "ensure", "revokeManage", "revokeOidc", "create"}
Ops   == {"none", "login", "callback", "tokenLogin", "view", "submit", "logout", "oidcLogout"}

VisitRec == [op : Ops, step : Steps, jar : Jars, seen : SUBSET Kinds,
             as : Names, secret : Names, valid : SUBSET SessionIds]

\* The steps of each kind of request.
StepsOf(op) ==
    CASE op = "none"       -> {"idle"}
      [] op = "login"      -> {"createState"}
      [] op = "callback"   -> {"consume", "exchange"}
      [] op = "tokenLogin" -> {"refresh", "revokeOidc", "create"}
      [] op = "view"       -> {"refresh", "readManage", "readOidc", "ensure"}
      [] op = "submit"     -> {"refresh", "readManage", "readOidc", "csrf", "acting"}
      [] op = "logout"     -> {"csrf", "revokeManage", "revokeOidc"}
      [] op = "oidcLogout" -> {"revokeOidc"}

SessionTypes ==
    /\ states \in [StateIds -> {"unused", "fresh", "over"}]
    /\ sessions \in [SessionIds -> [kind : Kinds \cup {"none"}, status : {"unused", "live", "over"},
                                    state : StateIds \cup {0}]]
    /\ granted \subseteq Kinds
    /\ jar \in Jars
    /\ visit \in [Visits -> VisitRec]
    /\ \A v \in Visits : visit[v].step \in StepsOf(visit[v].op)
    /\ \A v \in Visits : visit[v].op = "callback" => visit[v].jar.state # 0
    /\ overlapped \in BOOLEAN

LEMMA LeastIsMember ==
    ASSUME NEW S, S \subseteq Nat, S # {}
    PROVE  Min(S) \in S
<1> DEFINE Less == {p \in Nat \X Nat : p[1] < p[2]}
<1>1. IsWellFoundedOn(Less, Nat)
    BY NatLessThanWellFounded, Zenon DEF OpToRel
<1> HIDE DEF Less
<1>2. PICK m \in S : \A n \in S : ~ (<<n, m>> \in Less)
    BY <1>1, WFMin
<1>3. \A n \in S : m <= n
    <2> SUFFICES ASSUME NEW n \in S, ~(m <= n) PROVE FALSE
        OBVIOUS
    <2>1. m \in Nat /\ n \in Nat /\ n < m
        OBVIOUS
    <2>2. <<n, m>> \in Less
        BY <2>1 DEF Less
    <2> QED BY <1>2, <2>2
<1> QED BY <1>3 DEF Min

\* Names that are not made yet are numbers of their own.
LEMMA NewNames ==
    ASSUME SessionTypes
    PROVE  /\ Unopened # {} => Min(Unopened) \in SessionIds \ {0} /\ sessions[Min(Unopened)].status = "unused"
           /\ UnusedStates # {} => Min(UnusedStates) \in StateIds /\ states[Min(UnusedStates)] = "unused"
<1>1. Unopened \subseteq SessionIds /\ UnusedStates \subseteq StateIds
    BY DEF Unopened, UnusedStates
<1>2. Unopened \subseteq Nat /\ UnusedStates \subseteq Nat /\ 0 \notin SessionIds
    BY <1>1, SessionAssumption
<1> QED BY <1>1, <1>2, LeastIsMember DEF Unopened, UnusedStates

LEMMA SessionTypesInit == SessionsInit => SessionTypes
<1> SUFFICES ASSUME SessionsInit PROVE SessionTypes
    OBVIOUS
<1>1. EmptyJar \in Jars /\ EmptyJar.state = 0
    BY DEF EmptyJar, Jars, Names
<1>2. NoVisit \in VisitRec /\ NoVisit.step \in StepsOf(NoVisit.op) /\ NoVisit.op # "callback"
    BY <1>1 DEF NoVisit, VisitRec, Names, Ops, Steps, StepsOf
<1>3. PICK kind \in {"none", "token", "identity"} : BrowserComesWith(kind)
    BY DEF SessionsInit
<1>4. jar \in Jars
    <2>1. kind = "none" => jar = EmptyJar
        BY <1>3 DEF BrowserComesWith
    <2>2. kind = "token" => jar = [EmptyJar EXCEPT !.manage = Min(SessionIds), !.csrf = Min(SessionIds)]
        BY <1>3 DEF BrowserComesWith
    <2>3. kind = "identity" => jar = [EmptyJar EXCEPT !.oidc = Min(SessionIds), !.csrf = Min(SessionIds)]
        BY <1>3 DEF BrowserComesWith
    <2>4. Min(SessionIds) \in Names /\ 0 \in Names
        BY DEF Names
    <2>5. [EmptyJar EXCEPT !.oidc = Min(SessionIds), !.csrf = Min(SessionIds)] \in Jars
        BY <2>4 DEF EmptyJar, Jars
    <2>6. [EmptyJar EXCEPT !.manage = Min(SessionIds), !.csrf = Min(SessionIds)] \in Jars
        BY <2>4 DEF EmptyJar, Jars
    <2> QED BY <1>1, <2>1, <2>2, <2>3, <2>5, <2>6
<1>5. sessions \in [SessionIds -> [kind : Kinds \cup {"none"}, status : {"unused", "live", "over"},
                                   state : StateIds \cup {0}]]
    BY <1>3 DEF BrowserComesWith, NoSession, Kinds
<1> QED BY <1>2, <1>4, <1>5 DEF SessionsInit, SessionTypes, Kinds

\* What an answer leaves of its request, and which cookies may follow.
LEMMA ReplyTypes ==
    ASSUME SessionTypes, NEW v \in Visits, NEW cookies \in Jars, Reply(v, cookies)
    PROVE  /\ jar' \in Jars /\ visit' \in [Visits -> VisitRec]
           /\ \A w \in Visits : visit'[w].step \in StepsOf(visit'[w].op)
           /\ \A w \in Visits : visit'[w].op = "callback" => visit'[w].jar.state # 0
           /\ visit' = [visit EXCEPT ![v] = NoVisit]
<1>1. EmptyJar \in Jars
    BY DEF EmptyJar, Jars, Names
<1>2. NoVisit \in VisitRec /\ NoVisit.step \in StepsOf(NoVisit.op) /\ NoVisit.op # "callback"
    BY <1>1 DEF NoVisit, VisitRec, Names, Ops, Steps, StepsOf
<1> QED BY <1>2 DEF Reply, SessionTypes

\* What a step leaves of a request that goes on.
LEMMA GoesOnTypes ==
    ASSUME SessionTypes, NEW v \in Visits, NEW r \in VisitRec, visit' = [visit EXCEPT ![v] = r],
           r.op = visit[v].op, r.jar = visit[v].jar, r.step \in StepsOf(r.op)
    PROVE  /\ visit' \in [Visits -> VisitRec]
           /\ \A w \in Visits : visit'[w].step \in StepsOf(visit'[w].op)
           /\ \A w \in Visits : visit'[w].op = "callback" => visit'[w].jar.state # 0
BY DEF SessionTypes

LEMMA GoTypes ==
    ASSUME SessionTypes, NEW v \in Visits, NEW s \in Steps, Go(v, s), s \in StepsOf(visit[v].op)
    PROVE  /\ visit' \in [Visits -> VisitRec]
           /\ \A w \in Visits : visit'[w].step \in StepsOf(visit'[w].op)
           /\ \A w \in Visits : visit'[w].op = "callback" => visit'[w].jar.state # 0
           /\ visit' = [visit EXCEPT ![v] = [visit[v] EXCEPT !.step = s]]
<1> DEFINE r == [visit[v] EXCEPT !.step = s]
<1>1. r \in VisitRec /\ r.op = visit[v].op /\ r.jar = visit[v].jar /\ r.step = s
    BY DEF SessionTypes, VisitRec
<1>2. visit' = [visit EXCEPT ![v] = r]
    BY DEF Go
<1> HIDE DEF r
<1>3. /\ visit' \in [Visits -> VisitRec]
      /\ \A w \in Visits : visit'[w].step \in StepsOf(visit'[w].op)
      /\ \A w \in Visits : visit'[w].op = "callback" => visit'[w].jar.state # 0
    BY <1>1, <1>2, GoesOnTypes
<1> QED BY <1>2, <1>3 DEF r

\* A session is only ever opened under a new name, and what has ended stays ended.
Grows ==
    /\ \A s \in SessionIds : sessions[s].status # "unused" =>
          /\ sessions'[s].kind = sessions[s].kind /\ sessions'[s].state = sessions[s].state
          /\ sessions'[s].status # "unused"
          /\ sessions'[s].status = "live" => sessions[s].status = "live"
    /\ \A x \in StateIds : states[x] = "over" => states'[x] = "over"
    /\ granted' \subseteq granted
    /\ overlapped => overlapped'

Session == [kind : Kinds \cup {"none"}, status : {"unused", "live", "over"}, state : StateIds \cup {0}]

\* What the server's rows may be after a step, one row at a time.
OneSession(s, r) ==
    /\ sessions' = [sessions EXCEPT ![s] = r] /\ r \in Session
    /\ \/ sessions[s].status = "unused" /\ r.status = "live"
       \/ sessions[s].status = "live" /\ r = [sessions[s] EXCEPT !.status = "over"]

LEMMA OneSessionGrows ==
    ASSUME SessionTypes, NEW s \in SessionIds, NEW r, OneSession(s, r),
           states' = states, granted' = granted, overlapped' = overlapped
    PROVE  Grows /\ sessions' \in [SessionIds -> Session]
<1>1. sessions'[s] = r /\ \A t \in SessionIds \ {s} : sessions'[t] = sessions[t]
    BY DEF OneSession, SessionTypes
<1>2. sessions[s].status = "unused"
      \/ (sessions[s].status = "live" /\ r.kind = sessions[s].kind /\ r.state = sessions[s].state
          /\ r.status = "over")
    BY DEF OneSession, SessionTypes
<1>3. sessions' \in [SessionIds -> Session]
    BY DEF OneSession, SessionTypes, Session
<1> QED BY <1>1, <1>2, <1>3 DEF Grows

LEMMA RevokeIs ==
    ASSUME SessionTypes, NEW s, Revoke(s)
    PROVE  \/ sessions' = sessions
           \/ s \in SessionIds /\ OneSession(s, [sessions[s] EXCEPT !.status = "over"])
BY DEF SessionTypes, Revoke, Found, LiveOnes, OneSession, Session

LEMMA InsertIs ==
    ASSUME SessionTypes, NEW kind \in Kinds, NEW x \in StateIds \cup {0},
           Unopened # {}, Insert(kind, x, Min(Unopened))
    PROVE  /\ Min(Unopened) \in SessionIds \ {0}
           /\ OneSession(Min(Unopened), [kind |-> kind, status |-> "live", state |-> x])
BY NewNames DEF Insert, OneSession, Session

LEMMA RowsStay ==
    ASSUME SessionTypes, sessions' = sessions, states' = states, granted' = granted,
           overlapped' = overlapped
    PROVE  Grows /\ sessions' \in [SessionIds -> Session]
BY DEF SessionTypes, Grows, Session

\* The types after a step, and that the rows have only grown.
Keeps == SessionTypes' /\ Grows

LEMMA KeepsIs ==
    ASSUME SessionTypes, Grows, sessions' \in [SessionIds -> Session],
           states' \in [StateIds -> {"unused", "fresh", "over"}], overlapped' \in BOOLEAN,
           jar' \in Jars, visit' \in [Visits -> VisitRec],
           \A w \in Visits : visit'[w].step \in StepsOf(visit'[w].op),
           \A w \in Visits : visit'[w].op = "callback" => visit'[w].jar.state # 0
    PROVE  Keeps
<1>1. granted' \subseteq Kinds
    BY DEF SessionTypes, Grows
<1> QED
    BY <1>1 DEF Keeps, SessionTypes, VisitRec, Jars, Names, Session, StepsOf, Kinds, Ops, Steps

LEMMA SimpleKeeps ==
    ASSUME SessionTypes, UNCHANGED <<server, granted, overlapped>>,
           jar' \in Jars, visit' \in [Visits -> VisitRec],
           \A w \in Visits : visit'[w].step \in StepsOf(visit'[w].op),
           \A w \in Visits : visit'[w].op = "callback" => visit'[w].jar.state # 0
    PROVE  Keeps
<1>1. sessions' = sessions /\ states' = states /\ granted' = granted /\ overlapped' = overlapped
    BY DEF server
<1> QED BY <1>1, RowsStay, KeepsIs DEF SessionTypes

\* An answer with nothing changed on the server.
LEMMA ReplyKeeps ==
    ASSUME SessionTypes, NEW v \in Visits, NEW cookies \in Jars, Reply(v, cookies),
           UNCHANGED <<server, granted, overlapped>>
    PROVE  Keeps
BY ReplyTypes, SimpleKeeps

LEMMA GoKeeps ==
    ASSUME SessionTypes, NEW v \in Visits, NEW s \in Steps, Go(v, s), s \in StepsOf(visit[v].op),
           UNCHANGED <<server, granted, overlapped, jar>>
    PROVE  Keeps
BY GoTypes, SimpleKeeps DEF SessionTypes

LEMMA CookieTypes ==
    ASSUME SessionTypes
    PROVE  /\ jar \in Jars /\ EmptyJar \in Jars /\ ClearedByLogin \in Jars
           /\ [jar EXCEPT !.state = 0] \in Jars
           /\ [jar EXCEPT !.oidc = 0, !.state = 0] \in Jars
           /\ \A s \in Names : /\ [jar EXCEPT !.oidc = s, !.state = 0] \in Jars
                               /\ [EmptyJar EXCEPT !.manage = s, !.csrf = s] \in Jars
                               /\ [jar EXCEPT !.csrf = s] \in Jars
           /\ \A x \in StateIds : [ClearedByLogin EXCEPT !.state = x] \in Jars
<1>1. jar \in Jars /\ 0 \in Names
    BY DEF SessionTypes, Names
<1>2. EmptyJar \in Jars /\ ClearedByLogin \in Jars
    BY <1>1 DEF EmptyJar, ClearedByLogin, Jars
<1>3. [jar EXCEPT !.oidc = 0, !.state = 0] \in Jars
    BY <1>1 DEF Jars
<1>4. \A s \in Names : [jar EXCEPT !.oidc = s, !.state = 0] \in Jars
    BY <1>1 DEF Jars
<1>5. \A s \in Names : [EmptyJar EXCEPT !.manage = s, !.csrf = s] \in Jars
    BY <1>1 DEF Jars, EmptyJar
<1> QED BY <1>1, <1>2, <1>3, <1>4, <1>5 DEF Jars

LEMMA VisitKeeps ==
    ASSUME SessionTypes, NEW v \in Visits, NEW op \in Ops \ {"none"}, NEW st \in StepsOf(op) \cap Steps,
           op = "callback" => jar.state # 0, Visit(v, op, st)
    PROVE  Keeps
<1> DEFINE j == [c \in DOMAIN jar |-> IF c \in Reads(op) THEN jar[c] ELSE 0]
<1> DEFINE ok == IF op # "submit" THEN {} ELSE {s \in LiveOnes : sessions[s].kind \in granted}
<1> DEFINE r == [NoVisit EXCEPT !.op = op, !.step = st, !.jar = j, !.valid = ok]
<1>1. j \in Jars /\ (op = "callback" => j.state # 0)
    <2>1. DOMAIN jar = {"manage", "oidc", "state", "csrf"}
        BY DEF SessionTypes, Jars
    <2>2. j = [manage |-> j.manage, oidc |-> j.oidc, state |-> j.state, csrf |-> j.csrf]
        BY <2>1
    <2>3. j.manage \in Names /\ j.oidc \in Names /\ j.state \in StateIds \cup {0} /\ j.csrf \in Names
        BY <2>1 DEF SessionTypes, Jars, Names
    <2>4. op = "callback" => j.state = jar.state
        BY <2>1 DEF Reads
    <2> QED BY <2>2, <2>3, <2>4 DEF Jars
<1>2. ok \subseteq SessionIds
    BY DEF LiveOnes
<1> HIDE DEF j, ok
<1>3. r \in VisitRec /\ r.op = op /\ r.step = st /\ r.jar = j
    BY <1>1, <1>2 DEF NoVisit, VisitRec, Names, EmptyJar
<1>4. visit' = [visit EXCEPT ![v] = r]
    BY DEF Visit, j, ok
<1> HIDE DEF r
<1>5. /\ visit' \in [Visits -> VisitRec]
      /\ \A w \in Visits : visit'[w].step \in StepsOf(visit'[w].op)
      /\ \A w \in Visits : visit'[w].op = "callback" => visit'[w].jar.state # 0
    BY <1>1, <1>3, <1>4 DEF SessionTypes
<1>6. /\ sessions' = sessions /\ states' = states /\ granted' = granted /\ jar' = jar
      /\ overlapped' \in BOOLEAN /\ (overlapped => overlapped')
    BY DEF Visit, server, SessionTypes
<1>7. Grows /\ sessions' \in [SessionIds -> Session]
    BY <1>6 DEF Grows, SessionTypes, Session
<1> QED BY <1>5, <1>6, <1>7, KeepsIs DEF SessionTypes

LEMMA StartKeeps ==
    ASSUME SessionTypes, NEW v \in Visits, Start(v)
    PROVE  Keeps
<1>1. Visit(v, "login", "createState") => Keeps
    BY VisitKeeps DEF Ops, Steps, StepsOf
<1>2. jar.state # 0 /\ Visit(v, "callback", "consume") => Keeps
    BY VisitKeeps DEF Ops, Steps, StepsOf
<1>3. Visit(v, "tokenLogin", "refresh") => Keeps
    BY VisitKeeps DEF Ops, Steps, StepsOf
<1>4. Visit(v, "view", "refresh") \/ Visit(v, "submit", "refresh") => Keeps
    BY VisitKeeps DEF Ops, Steps, StepsOf
<1>5. Visit(v, "logout", "csrf") => Keeps
    BY VisitKeeps DEF Ops, Steps, StepsOf
<1>6. Visit(v, "oidcLogout", "revokeOidc") => Keeps
    BY VisitKeeps DEF Ops, Steps, StepsOf
<1> QED BY <1>1, <1>2, <1>3, <1>4, <1>5, <1>6 DEF Start

\* Steps that change what the server keeps of logins.
LEMMA StateStepsKeep ==
    ASSUME SessionTypes, NEW v \in Visits,
           CreateOIDCState(v) \/ CreateStateFails(v) \/ ConsumeOIDCState(v)
    PROVE  Keeps
<1>1. ASSUME NEW x \in StateIds, NEW to \in {"fresh", "over"},
             states[x] = "unused" => to = "fresh", states[x] # "unused" => to = "over",
             states' = [states EXCEPT ![x] = to], UNCHANGED <<sessions, granted, overlapped>>
      PROVE  Grows /\ sessions' \in [SessionIds -> Session]
             /\ states' \in [StateIds -> {"unused", "fresh", "over"}]
    BY <1>1 DEF SessionTypes, Grows, Session
<1>2. CASE CreateOIDCState(v)
    <2>1. Min(UnusedStates) \in StateIds /\ states[Min(UnusedStates)] = "unused"
        BY <1>2, NewNames DEF CreateOIDCState
    <2>2. Grows /\ sessions' \in [SessionIds -> Session]
          /\ states' \in [StateIds -> {"unused", "fresh", "over"}]
        BY <1>1, <1>2, <2>1 DEF CreateOIDCState
    <2>3. [ClearedByLogin EXCEPT !.state = Min(UnusedStates)] \in Jars
        BY <2>1, CookieTypes
    <2> QED BY <1>2, <2>2, <2>3, ReplyTypes, KeepsIs DEF CreateOIDCState, SessionTypes
<1>3. CASE CreateStateFails(v)
    BY <1>3, CookieTypes, ReplyKeeps DEF CreateStateFails
<1>4. CASE ConsumeOIDCState(v)
    <2> DEFINE x == visit[v].jar.state
    <2>1. x \in StateIds /\ visit[v].op = "callback"
        BY <1>4 DEF ConsumeOIDCState, At, SessionTypes, VisitRec, Jars
    <2>2. CASE /\ Consumable(x) /\ states' = [states EXCEPT ![x] = "over"]
               /\ Go(v, "exchange") /\ UNCHANGED jar
        <3>1. Grows /\ sessions' \in [SessionIds -> Session]
              /\ states' \in [StateIds -> {"unused", "fresh", "over"}]
            BY <1>1, <1>4, <2>1, <2>2 DEF ConsumeOIDCState, Consumable
        <3>2. "exchange" \in Steps /\ "exchange" \in StepsOf(visit[v].op)
            BY <2>1 DEF Steps, StepsOf
        <3> QED BY <1>4, <2>2, <3>1, <3>2, GoTypes, KeepsIs DEF ConsumeOIDCState, SessionTypes
    <2>3. CASE Reply(v, [jar EXCEPT !.state = 0]) /\ states' \in {states, [states EXCEPT ![x] = "over"]}
        <3>1. Grows /\ sessions' \in [SessionIds -> Session]
              /\ states' \in [StateIds -> {"unused", "fresh", "over"}]
            BY <1>4, <2>1, <2>3 DEF ConsumeOIDCState, SessionTypes, Grows, Session
        <3> QED BY <1>4, <2>3, <3>1, ReplyTypes, CookieTypes, KeepsIs
                DEF ConsumeOIDCState, SessionTypes
    <2> QED BY <1>4, <2>2, <2>3 DEF ConsumeOIDCState
<1> QED BY <1>2, <1>3, <1>4

\* Steps that open or end sessions.
LEMMA SessionStepsKeep ==
    ASSUME SessionTypes, NEW v \in Visits,
           \/ CreateOIDCSession(v) \/ CreateManageSession(v)
           \/ RevokeOIDCSession(v) \/ RevokeManageSession(v)
    PROVE  Keeps
<1>1. ASSUME Grows, sessions' \in [SessionIds -> Session], states' = states, overlapped' = overlapped,
             NEW cookies \in Jars, Reply(v, cookies)
      PROVE  Keeps
    BY <1>1, ReplyTypes, KeepsIs DEF SessionTypes
<1>2. ASSUME Grows, sessions' \in [SessionIds -> Session], states' = states, overlapped' = overlapped,
             NEW s \in Steps, Go(v, s), s \in StepsOf(visit[v].op), jar' = jar
      PROVE  Keeps
    BY <1>2, GoTypes, KeepsIs DEF SessionTypes
<1>3. ASSUME NEW kind \in Kinds, NEW x \in StateIds \cup {0}, Unopened # {},
             Insert(kind, x, Min(Unopened)), UNCHANGED <<states, granted, overlapped>>
      PROVE  Min(Unopened) \in Names /\ Grows /\ sessions' \in [SessionIds -> Session]
    BY <1>3, InsertIs, OneSessionGrows DEF Names
<1>4. ASSUME NEW s, Revoke(s) \/ UNCHANGED sessions, UNCHANGED <<states, granted, overlapped>>
      PROVE  Grows /\ sessions' \in [SessionIds -> Session]
    BY <1>4, RevokeIs, OneSessionGrows, RowsStay
<1>5. ASSUME sessions' = sessions, UNCHANGED <<states, granted, overlapped>>
      PROVE  Grows /\ sessions' \in [SessionIds -> Session]
    BY <1>5, RowsStay
<1>6. CASE CreateOIDCSession(v)
    <2>1. UNCHANGED <<states, granted, overlapped>> /\ visit[v].jar.state \in StateIds \cup {0}
          /\ "identity" \in Kinds
        BY <1>6 DEF CreateOIDCSession, SessionTypes, VisitRec, Jars, Kinds
    <2>2. CASE /\ Unopened # {} /\ Insert("identity", visit[v].jar.state, Min(Unopened))
               /\ Reply(v, [jar EXCEPT !.oidc = Min(Unopened), !.state = 0])
        <3>1. Min(Unopened) \in Names /\ Grows /\ sessions' \in [SessionIds -> Session]
            BY <1>3, <2>1, <2>2
        <3>2. [jar EXCEPT !.oidc = Min(Unopened), !.state = 0] \in Jars
            BY <3>1, CookieTypes
        <3> QED BY <1>1, <2>1, <2>2, <3>1, <3>2
    <2>3. CASE Reply(v, [jar EXCEPT !.state = 0]) /\ UNCHANGED sessions
        BY <1>1, <1>5, <2>1, <2>3, CookieTypes
    <2> QED BY <1>6, <2>2, <2>3 DEF CreateOIDCSession
<1>7. CASE CreateManageSession(v)
    <2>1. UNCHANGED <<states, granted, overlapped>> /\ "token" \in Kinds
        BY <1>7 DEF CreateManageSession, Kinds
    <2>2. CASE /\ Unopened # {} /\ Insert("token", 0, Min(Unopened))
               /\ Reply(v, [EmptyJar EXCEPT !.manage = Min(Unopened), !.csrf = Min(Unopened)])
        <3>1. Min(Unopened) \in Names /\ Grows /\ sessions' \in [SessionIds -> Session]
            BY <1>3, <2>1, <2>2
        <3>2. [EmptyJar EXCEPT !.manage = Min(Unopened), !.csrf = Min(Unopened)] \in Jars
            BY <3>1, CookieTypes
        <3> QED BY <1>1, <2>1, <2>2, <3>1, <3>2
    <2>3. CASE Reply(v, [jar EXCEPT !.oidc = 0, !.state = 0]) /\ UNCHANGED sessions
        BY <1>1, <1>5, <2>1, <2>3, CookieTypes
    <2> QED BY <1>7, <2>2, <2>3 DEF CreateManageSession
<1>8. CASE RevokeOIDCSession(v)
    <2>1. Grows /\ sessions' \in [SessionIds -> Session] /\ states' = states /\ overlapped' = overlapped
        BY <1>4, <1>8 DEF RevokeOIDCSession
    <2>2. visit[v].op \in {"tokenLogin", "logout", "oidcLogout"}
        BY <1>8 DEF RevokeOIDCSession, SessionTypes, VisitRec, Ops, StepsOf
    <2>3. CASE visit[v].op = "tokenLogin"
        <3>1. Go(v, "create") /\ jar' = jar
            BY <1>8, <2>3 DEF RevokeOIDCSession, AfterRevoke
        <3> QED BY <1>2, <2>1, <2>3, <3>1 DEF Steps, StepsOf
    <2>4. CASE visit[v].op = "logout"
        <3>1. Reply(v, EmptyJar)
            BY <1>8, <2>4 DEF RevokeOIDCSession, AfterRevoke
        <3> QED BY <1>1, <2>1, <3>1, CookieTypes
    <2>5. CASE visit[v].op = "oidcLogout"
        <3>1. Reply(v, [jar EXCEPT !.oidc = 0, !.state = 0])
            BY <1>8, <2>5 DEF RevokeOIDCSession, AfterRevoke
        <3> QED BY <1>1, <2>1, <3>1, CookieTypes
    <2> QED BY <2>2, <2>3, <2>4, <2>5
<1>9. CASE RevokeManageSession(v)
    <2>1. Grows /\ sessions' \in [SessionIds -> Session] /\ states' = states /\ overlapped' = overlapped
        BY <1>4, <1>9 DEF RevokeManageSession
    <2>2. visit[v].op = "logout"
        BY <1>9 DEF RevokeManageSession, SessionTypes, VisitRec, Ops, StepsOf
    <2> QED BY <1>2, <1>9, <2>1, <2>2 DEF RevokeManageSession, Steps, StepsOf
<1> QED BY <1>6, <1>7, <1>8, <1>9

\* How a request goes on with its principal, or is refused.
LEMMA PrincipalIs ==
    ASSUME SessionTypes, NEW v \in Visits, NEW s, NEW otherwise \in {"readOidc", "refused"},
           Principal(v, s, otherwise), visit[v].op \in {"view", "submit"}
    PROVE  \/ /\ Found(s) /\ sessions[s].kind \in visit[v].seen /\ jar' = jar
              /\ s \in SessionIds /\ AfterPrincipal(v) \in Steps \cap StepsOf(visit[v].op)
              /\ visit' = [visit EXCEPT ![v] =
                     [visit[v] EXCEPT !.as = s, !.seen = {}, !.step = AfterPrincipal(v)]]
           \/ otherwise = "readOidc" /\ Go(v, "readOidc") /\ jar' = jar
           \/ Reply(v, jar)
<1>1. CASE /\ Accepted(v, s) /\ UNCHANGED jar
           /\ visit' = [visit EXCEPT ![v].as = s, ![v].seen = {}, ![v].step = AfterPrincipal(v)]
    <2>1. visit' = [visit EXCEPT ![v] =
                     [visit[v] EXCEPT !.as = s, !.seen = {}, !.step = AfterPrincipal(v)]]
        BY <1>1 DEF SessionTypes
    <2> QED BY <1>1, <2>1 DEF Accepted, Found, LiveOnes, AfterPrincipal, Steps, StepsOf
<1> QED BY <1>1 DEF Principal

\* Steps of a request that reads: the server's rows stay.
LEMMA ReadStepsKeep ==
    ASSUME SessionTypes, NEW v \in Visits,
           \/ Refresh(v) \/ AuthenticateToken(v) \/ ReadManageSession(v) \/ ReadOIDCSession(v)
           \/ EnsureManageCSRFToken(v) \/ RequireManageCSRF(v) \/ Act(v)
    PROVE  Keeps
<1>0. UNCHANGED <<server, granted, overlapped>>
    BY DEF Refresh, AuthenticateToken, ReadManageSession, ReadOIDCSession, EnsureManageCSRFToken,
           RequireManageCSRF, Act
<1>1. ASSUME NEW r \in VisitRec, visit' = [visit EXCEPT ![v] = r], jar' = jar,
             r.op = visit[v].op, r.jar = visit[v].jar, r.step \in StepsOf(r.op)
      PROVE  Keeps
    BY <1>0, <1>1, GoesOnTypes, SimpleKeeps DEF SessionTypes
<1>2. visit[v] \in VisitRec /\ visit[v].step \in StepsOf(visit[v].op)
    BY DEF SessionTypes
<1>3. CASE Refresh(v)
    <2> DEFINE r == [visit[v] EXCEPT !.seen = granted, !.step = "readManage"]
    <2>1. r \in VisitRec /\ r.op = visit[v].op /\ r.jar = visit[v].jar /\ r.step = "readManage"
        BY <1>2 DEF SessionTypes, VisitRec, Steps
    <2>2. visit' = [visit EXCEPT ![v] = r] /\ jar' = jar /\ visit[v].op \in {"view", "submit"}
        BY <1>3 DEF Refresh, At, SessionTypes
    <2> HIDE DEF r
    <2> QED BY <1>1, <2>1, <2>2 DEF StepsOf
<1>4. CASE AuthenticateToken(v)
    <2>1. visit[v].op = "tokenLogin"
        BY <1>4 DEF AuthenticateToken, At
    <2>2. "revokeOidc" \in Steps \cap StepsOf(visit[v].op)
        BY <2>1 DEF Steps, StepsOf
    <2> QED BY <1>0, <1>4, <2>2, GoKeeps, ReplyKeeps DEF AuthenticateToken, SessionTypes
<1>5. ASSUME NEW s, NEW otherwise \in {"readOidc", "refused"}, Principal(v, s, otherwise),
             visit[v].op \in {"view", "submit"}
      PROVE  Keeps
    <2> DEFINE r == [visit[v] EXCEPT !.as = s, !.seen = {}, !.step = AfterPrincipal(v)]
    <2>1. CASE /\ s \in SessionIds /\ AfterPrincipal(v) \in Steps \cap StepsOf(visit[v].op)
               /\ visit' = [visit EXCEPT ![v] = r] /\ jar' = jar
        <3>1. r \in VisitRec /\ r.op = visit[v].op /\ r.jar = visit[v].jar
              /\ r.step \in StepsOf(visit[v].op)
            BY <1>2, <2>1 DEF VisitRec, Names
        <3> HIDE DEF r
        <3> QED BY <1>1, <2>1, <3>1
    <2>2. "readOidc" \in Steps \cap StepsOf(visit[v].op)
        BY <1>5 DEF Steps, StepsOf
    <2> QED BY <1>0, <1>5, <2>1, <2>2, PrincipalIs, GoKeeps, ReplyKeeps DEF SessionTypes
<1>6. CASE ReadManageSession(v) \/ ReadOIDCSession(v)
    <2>1. visit[v].op \in {"view", "submit"}
        BY <1>2, <1>6 DEF ReadManageSession, ReadOIDCSession, VisitRec, Ops, StepsOf
    <2> QED BY <1>5, <1>6, <2>1 DEF ReadManageSession, ReadOIDCSession
<1>7. CASE EnsureManageCSRFToken(v)
    <2>1. visit[v].jar.manage \in Names /\ visit[v].jar.oidc \in Names
        BY <1>2 DEF VisitRec, Jars
    <2> QED BY <1>0, <1>7, <2>1, CookieTypes, ReplyKeeps DEF EnsureManageCSRFToken
<1>8. CASE RequireManageCSRF(v)
    <2> DEFINE next == IF visit[v].op = "submit" THEN "acting" ELSE "revokeManage"
    <2> DEFINE r == [visit[v] EXCEPT !.secret = visit[v].jar.csrf, !.step = next]
    <2>1. visit[v].op \in {"submit", "logout"}
        BY <1>8 DEF RequireManageCSRF, At
    <2>2. r \in VisitRec /\ r.op = visit[v].op /\ r.jar = visit[v].jar /\ r.step = next
        BY <1>2 DEF VisitRec, Steps, Jars
    <2>3. next \in StepsOf(visit[v].op)
        BY <2>1 DEF StepsOf
    <2>4. \/ visit' = [visit EXCEPT ![v] = r] /\ jar' = jar
          \/ Reply(v, jar)
        BY <1>8 DEF RequireManageCSRF, SessionTypes
    <2> HIDE DEF r, next
    <2> QED BY <1>0, <1>1, <2>2, <2>3, <2>4, CookieTypes, ReplyKeeps
<1>9. CASE Act(v)
    BY <1>0, <1>9, CookieTypes, ReplyKeeps DEF Act
<1> QED BY <1>3, <1>4, <1>6, <1>7, <1>8, <1>9

LEMMA SessionsKeep ==
    ASSUME SessionTypes, [SessionsNext]_sessionVars
    PROVE  Keeps
<1>1. ASSUME visit' = visit, jar' = jar, overlapped' = overlapped, Grows,
             sessions' \in [SessionIds -> Session],
             states' \in [StateIds -> {"unused", "fresh", "over"}]
      PROVE  Keeps
    BY <1>1, KeepsIs DEF SessionTypes
<1>2. CASE UNCHANGED sessionVars
    BY <1>1, <1>2, RowsStay DEF sessionVars, SessionTypes
<1>3. CASE Expire
    <2>1. UNCHANGED <<granted, jar, visit, overlapped>>
        BY <1>3 DEF Expire
    <2>2. CASE \E x \in StateIds : /\ states[x] = "fresh" /\ states' = [states EXCEPT ![x] = "over"]
                                   /\ UNCHANGED sessions
        <3>1. Grows /\ sessions' \in [SessionIds -> Session]
              /\ states' \in [StateIds -> {"unused", "fresh", "over"}]
            BY <2>1, <2>2 DEF SessionTypes, Grows, Session
        <3> QED BY <1>1, <2>1, <3>1
    <2>3. CASE \E s \in LiveOnes : sessions' = [sessions EXCEPT ![s].status = "over"] /\ UNCHANGED states
        <3>1. PICK s \in LiveOnes : sessions' = [sessions EXCEPT ![s].status = "over"] /\ UNCHANGED states
            BY <2>3
        <3>2. s \in SessionIds /\ OneSession(s, [sessions[s] EXCEPT !.status = "over"])
            BY <3>1 DEF LiveOnes, OneSession, SessionTypes, Session
        <3>3. Grows /\ sessions' \in [SessionIds -> Session]
            BY <2>1, <3>1, <3>2, OneSessionGrows
        <3> QED BY <1>1, <2>1, <3>1, <3>3 DEF SessionTypes
    <2> QED BY <1>3, <2>2, <2>3 DEF Expire
<1>4. CASE RevokeToken
    <2>1. Grows /\ sessions' \in [SessionIds -> Session]
        BY <1>4 DEF RevokeToken, server, SessionTypes, Grows, Session
    <2> QED BY <1>1, <1>4, <2>1 DEF RevokeToken, server, SessionTypes
<1> QED
    BY <1>2, <1>3, <1>4, StartKeeps, StateStepsKeep, SessionStepsKeep, ReadStepsKeep DEF SessionsNext

-----------------------------------------------------------------------------
(* One login opens one session *)

Exchanging(v) == visit[v].step = "exchange"

\* A state that is being exchanged is consumed, has opened no session yet, and is
\* no other request's.
OneLogin ==
    /\ \A s \in SessionIds : sessions[s].state # 0 => states[sessions[s].state] = "over"
    /\ \A v \in Visits : Exchanging(v) =>
          /\ states[visit[v].jar.state] = "over"
          /\ \A s \in SessionIds : sessions[s].state # visit[v].jar.state
    /\ \A v, w \in Visits : Exchanging(v) /\ Exchanging(w) /\ visit[v].jar.state = visit[w].jar.state
                               => v = w
    /\ StateOpensOneSession

LEMMA OneLoginInit == SessionsInit => OneLogin
<1> SUFFICES ASSUME SessionsInit PROVE OneLogin
    OBVIOUS
<1>1. \A s \in SessionIds : sessions[s].state = 0
    BY DEF SessionsInit, BrowserComesWith, NoSession
<1>2. \A v \in Visits : ~Exchanging(v)
    BY DEF SessionsInit, Exchanging, NoVisit
<1> QED BY <1>1, <1>2 DEF OneLogin, StateOpensOneSession

\* Steps that begin no exchange and open no session for a state.
LEMMA NoNewLogin ==
    ASSUME SessionTypes, OneLogin, Keeps,
           \A w \in Visits : Exchanging(w)' => Exchanging(w) /\ visit'[w].jar.state = visit[w].jar.state,
           \A s \in SessionIds : sessions'[s].state \in {sessions[s].state, 0}
    PROVE  OneLogin'
<1>1. \A s \in SessionIds : sessions[s].state \in StateIds \cup {0} /\ 0 \notin StateIds
    BY SessionAssumption DEF SessionTypes
<1>2. \A w \in Visits : Exchanging(w) => visit[w].jar.state \in StateIds
    BY DEF SessionTypes, Exchanging, VisitRec, Jars, StepsOf, Ops
<1>3. \A x \in StateIds : states[x] = "over" => states'[x] = "over"
    BY DEF Keeps, Grows
<1>4. \A s \in SessionIds : sessions'[s].state # 0 => states'[sessions'[s].state] = "over"
    BY <1>1, <1>3 DEF OneLogin
<1>5. \A w \in Visits : Exchanging(w)' =>
          /\ states'[visit'[w].jar.state] = "over"
          /\ \A s \in SessionIds : sessions'[s].state # visit'[w].jar.state
    BY <1>1, <1>2, <1>3 DEF OneLogin
<1>6. StateOpensOneSession'
    BY DEF OneLogin, StateOpensOneSession
<1>7. \A v, w \in Visits : Exchanging(v)' /\ Exchanging(w)' /\ visit'[v].jar.state = visit'[w].jar.state
                              => v = w
    BY DEF OneLogin
<1> QED BY <1>4, <1>5, <1>6, <1>7 DEF OneLogin, Exchanging

LEMMA OneLoginStep ==
    ASSUME SessionTypes, OneLogin, [SessionsNext]_sessionVars
    PROVE  OneLogin'
<1>1. Keeps
    BY SessionsKeep
<1>2. \A s \in SessionIds : sessions[s].state \in StateIds \cup {0} /\ 0 \notin StateIds
    BY SessionAssumption DEF SessionTypes
<1>3. ASSUME NEW v \in Visits, NEW r, visit' = [visit EXCEPT ![v] = r], r.step # "exchange",
             \A s \in SessionIds : sessions'[s].state \in {sessions[s].state, 0}
      PROVE  OneLogin'
    BY <1>1, <1>3, NoNewLogin DEF Exchanging, SessionTypes
<1>4. ASSUME NEW v \in Visits, NEW s, Go(v, s), s # "exchange",
             \A t \in SessionIds : sessions'[t].state \in {sessions[t].state, 0}
      PROVE  OneLogin'
    <2>1. visit' = [visit EXCEPT ![v] = [visit[v] EXCEPT !.step = s]]
        BY <1>4 DEF Go, SessionTypes
    <2>2. [visit[v] EXCEPT !.step = s].step = s
        BY DEF SessionTypes, VisitRec
    <2> QED BY <1>3, <1>4, <2>1, <2>2
<1>5. ASSUME NEW v \in Visits, NEW cookies, Reply(v, cookies),
             \A s \in SessionIds : sessions'[s].state \in {sessions[s].state, 0}
      PROVE  OneLogin'
    <2>1. visit' = [visit EXCEPT ![v] = NoVisit] /\ NoVisit.step # "exchange"
        BY <1>5 DEF Reply, NoVisit
    <2> QED BY <1>3, <1>5, <2>1
<1>6. ASSUME visit' = visit, \A s \in SessionIds : sessions'[s].state \in {sessions[s].state, 0}
      PROVE  OneLogin'
    BY <1>1, <1>6, NoNewLogin DEF Exchanging
<1>7. sessions' = sessions => \A s \in SessionIds : sessions'[s].state \in {sessions[s].state, 0}
    OBVIOUS
<1>8. ASSUME NEW s, Revoke(s)
      PROVE  \A t \in SessionIds : sessions'[t].state \in {sessions[t].state, 0}
    BY <1>8 DEF Revoke, SessionTypes
<1>9. CASE UNCHANGED sessionVars \/ Expire \/ RevokeToken
    <2>1. visit' = visit
        BY <1>9 DEF sessionVars, Expire, RevokeToken
    <2>2. \A s \in SessionIds : sessions'[s].state \in {sessions[s].state, 0}
        BY <1>9 DEF sessionVars, Expire, RevokeToken, SessionTypes, server, LiveOnes
    <2> QED BY <1>6, <2>1, <2>2
<1>10. ASSUME NEW v \in Visits, Start(v)
       PROVE  OneLogin'
    <2>1. PICK op, st : Visit(v, op, st) /\ st # "exchange"
        BY <1>10 DEF Start
    <2> DEFINE r == [NoVisit EXCEPT !.op = op, !.step = st,
                        !.jar = [c \in DOMAIN jar |-> IF c \in Reads(op) THEN jar[c] ELSE 0],
                        !.valid = IF op # "submit" THEN {}
                                  ELSE {s \in LiveOnes : sessions[s].kind \in granted}]
    <2>2. visit' = [visit EXCEPT ![v] = r] /\ sessions' = sessions
        BY <2>1 DEF Visit, server
    <2>3. r.step = st
        BY DEF NoVisit
    <2> HIDE DEF r
    <2> QED BY <1>3, <1>7, <2>1, <2>2, <2>3
<1>11. ASSUME NEW v \in Visits, CreateOIDCState(v) \/ CreateStateFails(v)
       PROVE  OneLogin'
    BY <1>5, <1>7, <1>11 DEF CreateOIDCState, CreateStateFails, server
<1>12. ASSUME NEW v \in Visits, ConsumeOIDCState(v)
       PROVE  OneLogin'
    <2> DEFINE x == visit[v].jar.state
    <2>1. CASE /\ Consumable(x) /\ states' = [states EXCEPT ![x] = "over"] /\ Go(v, "exchange")
        <3>1. x \in StateIds
            BY <1>12 DEF ConsumeOIDCState, At, SessionTypes, VisitRec, Jars
        <3>2. sessions' = sessions /\ states'[x] = "over" /\ states[x] = "fresh"
            BY <1>12, <2>1, <3>1 DEF ConsumeOIDCState, Consumable, SessionTypes
        <3>3. \A w \in Visits : visit'[w].jar.state = visit[w].jar.state
            BY <2>1 DEF Go, SessionTypes
        <3>4. \A w \in Visits : Exchanging(w)' <=> Exchanging(w) \/ w = v
            BY <2>1 DEF Go, SessionTypes, Exchanging, VisitRec
        <3>5. \A w \in Visits : Exchanging(w) => visit[w].jar.state \in StateIds /\ visit[w].jar.state # x
            BY <3>2 DEF OneLogin, SessionTypes, Exchanging, VisitRec, Jars, StepsOf, Ops
        <3>6. \A s \in SessionIds : sessions[s].state # x
            BY <3>1, <3>2, <1>2 DEF OneLogin
        <3>7. \A y \in StateIds : states[y] = "over" => states'[y] = "over"
            BY <1>1 DEF Keeps, Grows
        <3>8. \A s \in SessionIds : sessions'[s].state # 0 => states'[sessions'[s].state] = "over"
            BY <1>2, <3>2, <3>7 DEF OneLogin
        <3>9. \A w \in Visits : Exchanging(w)' =>
                /\ states'[visit'[w].jar.state] = "over"
                /\ \A s \in SessionIds : sessions'[s].state # visit'[w].jar.state
            BY <3>2, <3>3, <3>4, <3>5, <3>6, <3>7 DEF OneLogin
        <3>10. \A u, w \in Visits : Exchanging(u)' /\ Exchanging(w)'
                    /\ visit'[u].jar.state = visit'[w].jar.state => u = w
            BY <3>3, <3>4, <3>5 DEF OneLogin
        <3>11. StateOpensOneSession'
            BY <3>2 DEF OneLogin, StateOpensOneSession
        <3> QED BY <3>8, <3>9, <3>10, <3>11 DEF OneLogin, Exchanging
    <2>2. CASE Reply(v, [jar EXCEPT !.state = 0])
        BY <1>5, <1>7, <1>12, <2>2 DEF ConsumeOIDCState
    <2> QED BY <1>12, <2>1, <2>2 DEF ConsumeOIDCState
<1>13. ASSUME NEW v \in Visits, CreateOIDCSession(v)
       PROVE  OneLogin'
    <2> DEFINE x == visit[v].jar.state
    <2>1. CASE Reply(v, [jar EXCEPT !.state = 0]) /\ UNCHANGED sessions
        BY <1>5, <1>7, <2>1
    <2>2. CASE /\ Unopened # {} /\ Insert("identity", x, Min(Unopened))
               /\ Reply(v, [jar EXCEPT !.oidc = Min(Unopened), !.state = 0])
        <3> DEFINE n == Min(Unopened)
        <3>1. x \in StateIds /\ Exchanging(v) /\ states' = states
            BY <1>13 DEF CreateOIDCSession, At, SessionTypes, VisitRec, Jars, Exchanging
        <3>2. n \in SessionIds
            BY <2>2, NewNames
        <3> HIDE DEF n
        <3>3. sessions'[n].state = x /\ \A s \in SessionIds \ {n} : sessions'[s] = sessions[s]
            BY <2>2, <3>2 DEF Insert, SessionTypes, n
        <3>4. \A w \in Visits : Exchanging(w)' => w # v /\ visit'[w] = visit[w] /\ Exchanging(w)
            BY <2>2 DEF Reply, SessionTypes, Exchanging, NoVisit
        <3>5. \A s \in SessionIds : sessions[s].state # x
            BY <3>1 DEF OneLogin
        <3>6. states[x] = "over"
            BY <3>1 DEF OneLogin
        <3>7. \A s \in SessionIds : sessions'[s].state # 0 => states'[sessions'[s].state] = "over"
            BY <3>1, <3>3, <3>6 DEF OneLogin
        <3>8. \A w \in Visits : Exchanging(w)' =>
                /\ states'[visit'[w].jar.state] = "over"
                /\ \A s \in SessionIds : sessions'[s].state # visit'[w].jar.state
            BY <3>1, <3>3, <3>4 DEF OneLogin
        <3>9. \A u, w \in Visits : Exchanging(u)' /\ Exchanging(w)'
                    /\ visit'[u].jar.state = visit'[w].jar.state => u = w
            BY <3>4 DEF OneLogin
        <3>10. StateOpensOneSession'
            BY <3>3, <3>5 DEF OneLogin, StateOpensOneSession
        <3> QED BY <3>7, <3>8, <3>9, <3>10 DEF OneLogin, Exchanging
    <2> QED BY <1>13, <2>1, <2>2 DEF CreateOIDCSession
<1>14. ASSUME NEW v \in Visits, CreateManageSession(v)
       PROVE  OneLogin'
    <2>1. \A s \in SessionIds : sessions'[s].state \in {sessions[s].state, 0}
        BY <1>14 DEF CreateManageSession, Insert, SessionTypes
    <2> QED BY <1>5, <1>14, <2>1 DEF CreateManageSession
<1>15. ASSUME NEW v \in Visits, RevokeOIDCSession(v) \/ RevokeManageSession(v)
       PROVE  OneLogin'
    <2>1. \A s \in SessionIds : sessions'[s].state \in {sessions[s].state, 0}
        BY <1>7, <1>8, <1>15 DEF RevokeOIDCSession, RevokeManageSession
    <2>2. CASE RevokeManageSession(v)
        BY <1>4, <2>1, <2>2 DEF RevokeManageSession
    <2>3. CASE RevokeOIDCSession(v)
        <3>1. visit[v].op \in {"tokenLogin", "logout", "oidcLogout"} /\ AfterRevoke(v)
            BY <2>3 DEF RevokeOIDCSession, SessionTypes, VisitRec, Ops, StepsOf
        <3>2. Go(v, "create") \/ \E cookies : Reply(v, cookies)
            BY <3>1 DEF AfterRevoke
        <3> QED BY <1>4, <1>5, <2>1, <3>2
    <2> QED BY <1>15, <2>2, <2>3
<1>16. ASSUME NEW v \in Visits,
              \/ Refresh(v) \/ AuthenticateToken(v) \/ ReadManageSession(v) \/ ReadOIDCSession(v)
              \/ EnsureManageCSRFToken(v) \/ RequireManageCSRF(v) \/ Act(v)
       PROVE  OneLogin'
    <2>1. \A s \in SessionIds : sessions'[s].state \in {sessions[s].state, 0}
        BY <1>7, <1>16 DEF Refresh, AuthenticateToken, ReadManageSession, ReadOIDCSession,
               EnsureManageCSRFToken, RequireManageCSRF, Act, server
    <2>3. ASSUME NEW s, NEW otherwise \in {"readOidc", "refused"}, Principal(v, s, otherwise)
          PROVE  OneLogin'
        <3>1. ASSUME visit' = [visit EXCEPT ![v].as = s, ![v].seen = {}, ![v].step = AfterPrincipal(v)]
              PROVE  OneLogin'
            <4> DEFINE r == [visit[v] EXCEPT !.as = s, !.seen = {}, !.step = AfterPrincipal(v)]
            <4>1. visit' = [visit EXCEPT ![v] = r]
                BY <3>1 DEF SessionTypes
            <4>2. r.step # "exchange"
                BY DEF SessionTypes, VisitRec, AfterPrincipal
            <4> QED BY <1>3, <2>1, <4>1, <4>2
        <3> QED BY <1>4, <1>5, <2>1, <2>3, <3>1 DEF Principal
    <2>4. CASE Refresh(v)
        <3> DEFINE r == [visit[v] EXCEPT !.seen = granted, !.step = "readManage"]
        <3>1. visit' = [visit EXCEPT ![v] = r]
            BY <2>4 DEF Refresh, SessionTypes
        <3>2. r.step # "exchange"
            BY DEF SessionTypes, VisitRec
        <3> QED BY <1>3, <2>1, <3>1, <3>2
    <2>5. CASE AuthenticateToken(v)
        BY <1>4, <1>5, <2>1, <2>5 DEF AuthenticateToken
    <2>6. CASE ReadManageSession(v) \/ ReadOIDCSession(v)
        BY <2>3, <2>6 DEF ReadManageSession, ReadOIDCSession
    <2>7. CASE EnsureManageCSRFToken(v) \/ Act(v)
        BY <1>5, <2>1, <2>7 DEF EnsureManageCSRFToken, Act
    <2>8. CASE RequireManageCSRF(v)
        <3> DEFINE next == IF visit[v].op = "submit" THEN "acting" ELSE "revokeManage"
        <3> DEFINE r == [visit[v] EXCEPT !.secret = visit[v].jar.csrf, !.step = next]
        <3>1. visit' = [visit EXCEPT ![v] = r] \/ Reply(v, jar)
            BY <2>8 DEF RequireManageCSRF, SessionTypes
        <3>2. r.step # "exchange"
            BY DEF SessionTypes, VisitRec
        <3> HIDE DEF r
        <3> QED BY <1>3, <1>5, <2>1, <3>1, <3>2
    <2> QED BY <1>16, <2>4, <2>5, <2>6, <2>7, <2>8
<1> QED
    BY <1>9, <1>10, <1>11, <1>12, <1>13, <1>14, <1>15, <1>16 DEF SessionsNext

-----------------------------------------------------------------------------
(* Which sessions a browser's cookies name *)

\* A cookie names a session that was opened.
Made(s) == s \in SessionIds => sessions[s].status # "unused"

CookiesMade ==
    /\ Made(jar.manage) /\ Made(jar.oidc)
    /\ \A v \in Visits : Made(visit[v].jar.manage) /\ Made(visit[v].jar.oidc)

\* Without overlapping logins a browser never has the cookies of both kinds of
\* session: the page that leads to the identity provider clears those of a token.
OnePath ==
    /\ jar.state # 0 => jar.manage = 0
    /\ ~overlapped =>
        /\ jar.manage = 0 \/ jar.oidc = 0
        /\ \A v, w \in Visits : v # w /\ visit[v].op # "none" /\ visit[w].op # "none"
                                   => visit[v].op \notin Logins
        /\ \A v \in Visits : visit[v].op = "callback" => jar.manage = 0
        /\ \A v \in Visits : visit[v].op = "submit" => visit[v].jar.manage = 0 \/ visit[v].jar.oidc = 0

\* A request that changes something is judged by sessions that were live, with
\* credentials accepted, when it began.
Cookies(v) == {visit[v].jar.manage, visit[v].jar.oidc}

Judged(v) == visit[v].op = "submit" =>
    /\ visit[v].step = "refresh" =>
          \A s \in Cookies(v) : Found(s) /\ sessions[s].kind \in granted => s \in visit[v].valid
    /\ visit[v].step \in {"readManage", "readOidc"} =>
          \A s \in Cookies(v) : Found(s) /\ sessions[s].kind \in visit[v].seen => s \in visit[v].valid
    /\ visit[v].step \in {"csrf", "acting"} =>
          visit[v].as \in Cookies(v) /\ visit[v].as \in visit[v].valid
    /\ visit[v].step = "acting" =>
          visit[v].secret = Holder(visit[v].jar)

CookieInv == CookiesMade /\ OnePath /\ \A v \in Visits : Judged(v)

LEMMA CookieInvInit == SessionsInit => CookieInv
<1> SUFFICES ASSUME SessionsInit PROVE CookieInv
    OBVIOUS
<1>1. 0 \notin SessionIds /\ \A v \in Visits : visit[v] = NoVisit
    BY SessionAssumption DEF SessionsInit
<1>2. PICK kind \in {"none", "token", "identity"} : BrowserComesWith(kind)
    BY DEF SessionsInit
<1> DEFINE first == Min(SessionIds)
<1>3. \/ kind = "none" /\ jar = EmptyJar
      \/ kind = "token" /\ jar = [EmptyJar EXCEPT !.manage = first, !.csrf = first]
      \/ kind = "identity" /\ jar = [EmptyJar EXCEPT !.oidc = first, !.csrf = first]
    BY <1>2 DEF BrowserComesWith
<1> HIDE DEF first
<1>4. /\ jar.state = 0 /\ jar.manage \in {0, first} /\ jar.oidc \in {0, first}
      /\ jar.manage = 0 \/ jar.oidc = 0
      /\ kind = "none" => jar.manage = 0 /\ jar.oidc = 0
    <2>1. CASE kind = "none"
        BY <1>3, <2>1 DEF EmptyJar
    <2>2. CASE kind = "token"
        BY <1>3, <2>2 DEF EmptyJar
    <2>3. CASE kind = "identity"
        BY <1>3, <2>3 DEF EmptyJar
    <2> QED BY <2>1, <2>2, <2>3
<1>5. kind # "none" /\ first \in SessionIds => sessions[first].status = "live"
    BY <1>2 DEF BrowserComesWith, first
<1>6. CookiesMade
    BY <1>1, <1>4, <1>5 DEF CookiesMade, Made, NoVisit, EmptyJar
<1>7. OnePath
    BY <1>1, <1>4 DEF OnePath, NoVisit
<1>8. \A v \in Visits : Judged(v)
    BY <1>1 DEF Judged, NoVisit
<1> QED BY <1>6, <1>7, <1>8 DEF CookieInv

\* Steps by which the browser gets no cookie of a session.
JarLess ==
    /\ jar'.manage \in {jar.manage, 0} /\ jar'.oidc \in {jar.oidc, 0}
    /\ jar'.state = jar.state \/ jar'.state = 0 \/ jar'.manage = 0

\* ... and no request begins.
VisitsLess ==
    \A w \in Visits : \/ visit'[w] = NoVisit
                      \/ visit'[w].op = visit[w].op /\ visit'[w].jar = visit[w].jar

LEMMA MadeStays ==
    ASSUME SessionTypes, Grows, NEW s, Made(s)
    PROVE  Made(s)'
BY DEF SessionTypes, Grows, Made

LEMMA NothingNew ==
    ASSUME SessionTypes, Keeps, CookiesMade, OnePath, JarLess, VisitsLess, overlapped' = overlapped
    PROVE  CookiesMade' /\ OnePath'
<1> DEFINE MadeThen(s) == s \in SessionIds => sessions'[s].status # "unused"
<1>1. 0 \notin SessionIds
    BY SessionAssumption
<1>2. \A s : Made(s) => MadeThen(s)
    BY DEF Keeps, Grows, Made
<1>3. Made(0) /\ NoVisit.jar.manage = 0 /\ NoVisit.jar.oidc = 0 /\ NoVisit.op = "none"
    BY <1>1 DEF Made, NoVisit, EmptyJar
<1>4. CookiesMade'
    <2> HIDE DEF MadeThen
    <2>1. MadeThen(jar'.manage) /\ MadeThen(jar'.oidc)
        BY <1>2, <1>3 DEF CookiesMade, JarLess
    <2>2. \A w \in Visits : MadeThen(visit'[w].jar.manage) /\ MadeThen(visit'[w].jar.oidc)
        <3> SUFFICES ASSUME NEW w \in Visits
                     PROVE  MadeThen(visit'[w].jar.manage) /\ MadeThen(visit'[w].jar.oidc)
            OBVIOUS
        <3>1. CASE visit'[w] = NoVisit
            BY <1>2, <1>3, <3>1
        <3>2. CASE visit'[w].jar = visit[w].jar
            BY <1>2, <3>2 DEF CookiesMade
        <3> QED BY <3>1, <3>2 DEF VisitsLess
    <2> QED BY <2>1, <2>2 DEF CookiesMade, Made, MadeThen
<1>5. OnePath'
    BY <1>3 DEF OnePath, JarLess, VisitsLess
<1> QED BY <1>4, <1>5

\* A request that this step leaves alone keeps its sessions.
LEMMA JudgedStays ==
    ASSUME SessionTypes, Keeps, CookiesMade, NEW w \in Visits, Judged(w), visit'[w] = visit[w]
    PROVE  Judged(w)'
<1>1. \A s \in Cookies(w) : (s \in SessionIds /\ sessions'[s].status = "live")
          => Found(s) /\ sessions'[s].kind = sessions[s].kind
    BY DEF Keeps, Grows, Found, LiveOnes, CookiesMade, Made, Cookies, SessionTypes
<1>2. granted' \subseteq granted
    BY DEF Keeps, Grows
<1>3. Cookies(w)' = Cookies(w)
    BY DEF Cookies
<1>4. \A s : Found(s)' <=> s \in SessionIds /\ sessions'[s].status = "live"
    BY DEF Found, LiveOnes
<1> QED BY <1>1, <1>2, <1>3, <1>4 DEF Judged

-----------------------------------------------------------------------------
(* Only live sessions act: one step of each kind *)

\* A request goes on, or ends, and the browser gets no cookie of a session.
LEMMA OneRequestGoesOn ==
    ASSUME SessionTypes, CookieInv, Keeps, JarLess, overlapped' = overlapped,
           NEW v \in Visits, NEW r, visit' = [visit EXCEPT ![v] = r],
           r = NoVisit \/ (r.op = visit[v].op /\ r.jar = visit[v].jar /\ Judged(v)')
    PROVE  CookieInv'
<1>1. visit'[v] = r /\ \A w \in Visits \ {v} : visit'[w] = visit[w]
    BY DEF SessionTypes
<1>2. VisitsLess
    BY <1>1 DEF VisitsLess
<1>3. CookiesMade' /\ OnePath'
    BY <1>2, NothingNew DEF CookieInv
<1>4. \A w \in Visits \ {v} : Judged(w)'
    BY <1>1, JudgedStays DEF CookieInv
<1>5. Judged(v)'
    BY <1>1 DEF Judged, NoVisit
<1> QED BY <1>3, <1>4, <1>5 DEF CookieInv

LEMMA RequestEnds ==
    ASSUME SessionTypes, CookieInv, Keeps, overlapped' = overlapped,
           NEW v \in Visits, NEW cookies, Reply(v, cookies),
           cookies.manage \in {jar.manage, 0}, cookies.oidc \in {jar.oidc, 0},
           cookies.state \in {jar.state, 0} \/ cookies.manage = 0
    PROVE  CookieInv'
<1>1. JarLess
    BY DEF JarLess, Reply
<1>2. visit' = [visit EXCEPT ![v] = NoVisit]
    BY DEF Reply
<1> QED BY <1>1, <1>2, OneRequestGoesOn

LEMMA RequestGoesOn ==
    ASSUME SessionTypes, CookieInv, Keeps, overlapped' = overlapped, jar' = jar,
           NEW v \in Visits, NEW st, Go(v, st),
           visit[v].op # "submit" \/ (visit[v].step = "readManage" /\ st = "readOidc")
    PROVE  CookieInv'
<1> DEFINE r == [visit[v] EXCEPT !.step = st]
<1>1. visit' = [visit EXCEPT ![v] = r] /\ r.op = visit[v].op /\ r.jar = visit[v].jar
      /\ r.step = st /\ r.seen = visit[v].seen /\ r.valid = visit[v].valid
    BY DEF Go, SessionTypes, VisitRec
<1> HIDE DEF r
<1>2. visit'[v] = r
    BY <1>1 DEF SessionTypes
<1>3. Judged(v)'
    <2>1. CASE visit[v].op # "submit"
        BY <1>1, <1>2, <2>1 DEF Judged
    <2>2. CASE visit[v].step = "readManage" /\ st = "readOidc"
        <3>1. \A s \in Cookies(v) : (s \in SessionIds /\ sessions'[s].status = "live")
                  => Found(s) /\ sessions'[s].kind = sessions[s].kind
            BY DEF Keeps, Grows, Found, LiveOnes, CookieInv, CookiesMade, Made, Cookies, SessionTypes
        <3>2. Cookies(v)' = Cookies(v)
            BY <1>1, <1>2 DEF Cookies
        <3>3. \A s : Found(s)' <=> s \in SessionIds /\ sessions'[s].status = "live"
            BY DEF Found, LiveOnes
        <3> QED BY <1>1, <1>2, <2>2, <3>1, <3>2, <3>3 DEF CookieInv, Judged
    <2> QED BY <2>1, <2>2
<1>4. JarLess
    BY DEF JarLess
<1> QED BY <1>1, <1>3, <1>4, OneRequestGoesOn

LEMMA RequestBegins ==
    ASSUME SessionTypes, CookieInv, NEW v \in Visits, Start(v)
    PROVE  CookieInv'
<1>1. Keeps
    BY StartKeeps
<1>2. PICK op \in Ops \ {"none"}, st \in Steps :
          /\ Visit(v, op, st)
          /\ op = "submit" => st = "refresh"
          /\ op = "callback" => jar.state # 0
    BY DEF Start, Ops, Steps
<1> DEFINE j == [c \in DOMAIN jar |-> IF c \in Reads(op) THEN jar[c] ELSE 0]
<1> DEFINE ok == IF op # "submit" THEN {} ELSE {s \in LiveOnes : sessions[s].kind \in granted}
<1> DEFINE r == [NoVisit EXCEPT !.op = op, !.step = st, !.jar = j, !.valid = ok]
<1>3. r.op = op /\ r.step = st /\ r.jar = j /\ r.valid = ok
    BY DEF NoVisit
<1>4. j.manage \in {jar.manage, 0} /\ j.oidc \in {jar.oidc, 0}
      /\ (op = "submit" => j.manage = jar.manage /\ j.oidc = jar.oidc)
    <2>1. DOMAIN jar = {"manage", "oidc", "state", "csrf"}
        BY DEF SessionTypes, Jars
    <2>2. op = "submit" => "manage" \in Reads(op) /\ "oidc" \in Reads(op)
        BY DEF Reads
    <2> QED BY <2>1, <2>2
<1>5. visit' = [visit EXCEPT ![v] = r] /\ UNCHANGED <<sessions, granted, jar>>
      /\ visit[v].step = "idle"
      /\ overlapped' = (overlapped \/ \E w \in Visits \ {v} :
                           visit[w].step # "idle" /\ {op, visit[w].op} \cap Logins # {})
    BY <1>2 DEF Visit, server
<1> HIDE DEF r, j
<1>6. visit'[v] = r /\ \A w \in Visits \ {v} : visit'[w] = visit[w]
    BY <1>5 DEF SessionTypes
<1>7. 0 \notin SessionIds
    BY SessionAssumption
<1>8. CookiesMade'
    BY <1>3, <1>4, <1>5, <1>6, <1>7 DEF CookieInv, CookiesMade, Made
<1>9. \A w \in Visits : visit[w].op # "none" => visit[w].step # "idle"
    BY DEF SessionTypes, StepsOf, VisitRec, Ops
<1>10. OnePath'
    <2>1. jar'.state # 0 => jar'.manage = 0
        BY <1>5 DEF CookieInv, OnePath
    <2>2. ASSUME ~overlapped'
          PROVE  /\ jar'.manage = 0 \/ jar'.oidc = 0
                 /\ \A u, w \in Visits : u # w /\ visit'[u].op # "none" /\ visit'[w].op # "none"
                                           => visit'[u].op \notin Logins
                 /\ \A u \in Visits : visit'[u].op = "callback" => jar'.manage = 0
                 /\ \A u \in Visits : visit'[u].op = "submit" => visit'[u].jar.manage = 0 \/ visit'[u].jar.oidc = 0
        <3>1. ~overlapped /\ \A w \in Visits \ {v} :
                  visit[w].op # "none" => op \notin Logins /\ visit[w].op \notin Logins
            BY <1>5, <1>9, <2>2
        <3>2. jar'.manage = 0 \/ jar'.oidc = 0
            BY <1>5, <3>1 DEF CookieInv, OnePath
        <3>3. \A u, w \in Visits : u # w /\ visit'[u].op # "none" /\ visit'[w].op # "none"
                                           => visit'[u].op \notin Logins
            BY <1>3, <1>6, <3>1 DEF CookieInv, OnePath
        <3>4. \A u \in Visits : visit'[u].op = "callback" => jar'.manage = 0
            BY <1>2, <1>3, <1>5, <1>6, <3>1 DEF CookieInv, OnePath
        <3>5. \A u \in Visits : visit'[u].op = "submit" => visit'[u].jar.manage = 0 \/ visit'[u].jar.oidc = 0
            BY <1>3, <1>4, <1>6, <3>1 DEF CookieInv, OnePath
        <3> QED BY <3>2, <3>3, <3>4, <3>5
    <2> QED BY <2>1, <2>2 DEF OnePath
<1>11. \A w \in Visits \ {v} : Judged(w)'
    BY <1>1, <1>6, JudgedStays DEF CookieInv
<1>12. Judged(v)'
    <2>1. ok = {s \in SessionIds : sessions'[s].status = "live" /\ sessions'[s].kind \in granted'} \/ op # "submit"
        BY <1>5 DEF LiveOnes
    <2>2. \A s : Found(s)' <=> s \in SessionIds /\ sessions'[s].status = "live"
        BY DEF Found, LiveOnes
    <2> HIDE DEF ok
    <2> QED BY <1>2, <1>3, <1>6, <2>1, <2>2 DEF Judged
<1> QED BY <1>8, <1>10, <1>11, <1>12 DEF CookieInv

\* A session is opened for the browser; the answer with its cookie may be lost.
LEMMA SessionOpens ==
    ASSUME SessionTypes, CookieInv, NEW v \in Visits, Keeps, overlapped' = overlapped,
           NEW n \in SessionIds, sessions'[n].status # "unused", NEW cookies, Reply(v, cookies),
           cookies.state = 0,
           \/ cookies.manage = n /\ cookies.oidc = 0 /\ visit[v].op = "tokenLogin"
           \/ cookies.manage = jar.manage /\ cookies.oidc = n /\ visit[v].op = "callback"
    PROVE  CookieInv'
<1>1. CASE jar' = jar
    BY <1>1, RequestEnds DEF Reply
<1>2. CASE jar' = cookies
    <2>1. visit'[v] = NoVisit /\ \A w \in Visits \ {v} : visit'[w] = visit[w]
        BY DEF Reply, SessionTypes
    <2>2. NoVisit.op = "none" /\ NoVisit.jar.manage = 0 /\ NoVisit.jar.oidc = 0 /\ 0 \notin SessionIds
        BY SessionAssumption DEF NoVisit, EmptyJar
    <2>3. \A s \in SessionIds : sessions[s].status # "unused" => sessions'[s].status # "unused"
        BY DEF Keeps, Grows
    <2>4. CookiesMade'
        <3>1. \A s \in {jar'.manage, jar'.oidc} : s \in SessionIds => sessions'[s].status # "unused"
            BY <1>2, <2>2, <2>3 DEF CookieInv, CookiesMade, Made
        <3>2. \A w \in Visits : \A s \in {visit'[w].jar.manage, visit'[w].jar.oidc} :
                  s \in SessionIds => sessions'[s].status # "unused"
            BY <2>1, <2>2, <2>3 DEF CookieInv, CookiesMade, Made
        <3> QED BY <3>1, <3>2 DEF CookiesMade, Made
    <2>5. OnePath'
        <3>1. ASSUME ~overlapped
              PROVE  /\ jar'.manage = 0 \/ jar'.oidc = 0
                     /\ \A w \in Visits : visit'[w].op = "callback" => jar'.manage = 0
            <4>1. \A w \in Visits \ {v} : visit'[w].op = "none"
                BY <2>1, <3>1 DEF CookieInv, OnePath, Logins
            <4>2. visit[v].op = "callback" => jar.manage = 0
                BY <3>1 DEF CookieInv, OnePath
            <4> QED BY <1>2, <2>1, <2>2, <4>1, <4>2
        <3> QED BY <1>2, <2>1, <2>2, <3>1 DEF CookieInv, OnePath
    <2>6. \A w \in Visits : Judged(w)'
        <3>1. Judged(v)'
            BY <2>1, <2>2 DEF Judged
        <3> QED BY <2>1, <3>1, JudgedStays DEF CookieInv
    <2> QED BY <2>4, <2>5, <2>6 DEF CookieInv
<1> QED BY <1>1, <1>2 DEF Reply

\* The steps of a request that changes something.
LEMMA PrincipalJudged ==
    ASSUME SessionTypes, CookieInv, NEW v \in Visits, Keeps, overlapped' = overlapped,
           NEW s \in Cookies(v), NEW otherwise \in {"readOidc", "refused"}, Principal(v, s, otherwise),
           visit[v].step \in {"readManage", "readOidc"},
           otherwise = "readOidc" => visit[v].step = "readManage"
    PROVE  CookieInv'
<1>1. CASE /\ Accepted(v, s) /\ UNCHANGED jar
           /\ visit' = [visit EXCEPT ![v].as = s, ![v].seen = {}, ![v].step = AfterPrincipal(v)]
    <2> DEFINE r == [visit[v] EXCEPT !.as = s, !.seen = {}, !.step = AfterPrincipal(v)]
    <2>1. visit' = [visit EXCEPT ![v] = r] /\ r.op = visit[v].op /\ r.jar = visit[v].jar
          /\ r.step = AfterPrincipal(v) /\ r.as = s /\ r.valid = visit[v].valid
        BY <1>1 DEF SessionTypes, VisitRec
    <2> HIDE DEF r
    <2>2. visit'[v] = r
        BY <2>1 DEF SessionTypes
    <2>3. visit[v].op = "submit" => s \in visit[v].valid
        BY <1>1 DEF CookieInv, Judged, Accepted
    <2>4. Cookies(v)' = Cookies(v)
        BY <2>1, <2>2 DEF Cookies
    <2>5. Judged(v)'
        BY <2>1, <2>2, <2>3, <2>4 DEF Judged, AfterPrincipal
    <2> QED BY <1>1, <2>1, <2>5, OneRequestGoesOn DEF JarLess
<1>2. CASE otherwise = "readOidc" /\ Go(v, otherwise) /\ UNCHANGED jar
    BY <1>2, RequestGoesOn
<1>3. CASE Reply(v, jar)
    BY <1>3, RequestEnds
<1> QED BY <1>1, <1>2, <1>3 DEF Principal

LEMMA CookieInvStep ==
    ASSUME SessionTypes, CookieInv, [SessionsNext]_sessionVars
    PROVE  CookieInv'
<1>1. Keeps
    BY SessionsKeep
<1>2. CASE UNCHANGED <<jar, visit, overlapped>>
    <2>1. JarLess /\ VisitsLess
        BY <1>2 DEF JarLess, VisitsLess
    <2> QED BY <1>1, <1>2, <2>1, NothingNew, JudgedStays DEF CookieInv
<1>3. CASE UNCHANGED sessionVars \/ Expire \/ RevokeToken
    BY <1>2, <1>3 DEF sessionVars, Expire, RevokeToken
<1>4. ASSUME NEW v \in Visits, Start(v)
      PROVE  CookieInv'
    BY <1>4, RequestBegins
<1>5. [jar EXCEPT !.state = 0].manage = jar.manage /\ [jar EXCEPT !.state = 0].oidc = jar.oidc
      /\ [jar EXCEPT !.state = 0].state = 0
    BY DEF SessionTypes, Jars
<1>6. ClearedByLogin.manage = 0 /\ ClearedByLogin.oidc = jar.oidc
      /\ \A x : [ClearedByLogin EXCEPT !.state = x].manage = 0 /\ [ClearedByLogin EXCEPT !.state = x].oidc = jar.oidc
    BY DEF SessionTypes, Jars, ClearedByLogin
<1>7. [jar EXCEPT !.oidc = 0, !.state = 0].manage = jar.manage
      /\ [jar EXCEPT !.oidc = 0, !.state = 0].oidc = 0 /\ [jar EXCEPT !.oidc = 0, !.state = 0].state = 0
    BY DEF SessionTypes, Jars
<1>8. ASSUME NEW v \in Visits, CreateOIDCState(v) \/ CreateStateFails(v)
      PROVE  CookieInv'
    BY <1>1, <1>6, <1>8, RequestEnds DEF CreateOIDCState, CreateStateFails
<1>9. ASSUME NEW v \in Visits, ConsumeOIDCState(v)
      PROVE  CookieInv'
    <2>1. visit[v].op # "submit"
        BY <1>9 DEF ConsumeOIDCState, At
    <2>2. (Go(v, "exchange") /\ UNCHANGED jar) \/ Reply(v, [jar EXCEPT !.state = 0])
        BY <1>9 DEF ConsumeOIDCState
    <2> QED BY <1>1, <1>5, <1>9, <2>1, <2>2, RequestGoesOn, RequestEnds DEF ConsumeOIDCState
<1>10. ASSUME NEW v \in Visits, CreateOIDCSession(v)
       PROVE  CookieInv'
    <2>1. CASE Reply(v, [jar EXCEPT !.state = 0])
        BY <1>1, <1>5, <1>10, <2>1, RequestEnds DEF CreateOIDCSession
    <2>2. CASE /\ Unopened # {} /\ Insert("identity", visit[v].jar.state, Min(Unopened))
               /\ Reply(v, [jar EXCEPT !.oidc = Min(Unopened), !.state = 0])
        <3> DEFINE n == Min(Unopened)
        <3> DEFINE c == [jar EXCEPT !.oidc = n, !.state = 0]
        <3>1. n \in SessionIds
            BY <2>2, NewNames
        <3>2. Insert("identity", visit[v].jar.state, n) /\ Reply(v, c)
            BY <2>2
        <3> HIDE DEF n
        <3>3. sessions'[n].status # "unused"
            BY <3>1, <3>2 DEF Insert, SessionTypes
        <3>4. c.manage = jar.manage /\ c.oidc = n /\ c.state = 0
            BY DEF SessionTypes, Jars
        <3> HIDE DEF c
        <3>5. visit[v].op = "callback" /\ overlapped' = overlapped
            BY <1>10 DEF CreateOIDCSession, At
        <3> QED BY <1>1, <3>1, <3>2, <3>3, <3>4, <3>5, SessionOpens
    <2> QED BY <1>10, <2>1, <2>2 DEF CreateOIDCSession
<1>11. ASSUME NEW v \in Visits, CreateManageSession(v)
       PROVE  CookieInv'
    <2>1. CASE Reply(v, [jar EXCEPT !.oidc = 0, !.state = 0])
        BY <1>1, <1>7, <1>11, <2>1, RequestEnds DEF CreateManageSession
    <2>2. CASE /\ Unopened # {} /\ Insert("token", 0, Min(Unopened))
               /\ Reply(v, [EmptyJar EXCEPT !.manage = Min(Unopened), !.csrf = Min(Unopened)])
        <3> DEFINE n == Min(Unopened)
        <3> DEFINE c == [EmptyJar EXCEPT !.manage = n, !.csrf = n]
        <3>1. n \in SessionIds
            BY <2>2, NewNames
        <3>2. Insert("token", 0, n) /\ Reply(v, c)
            BY <2>2
        <3> HIDE DEF n
        <3>3. sessions'[n].status # "unused"
            BY <3>1, <3>2 DEF Insert, SessionTypes
        <3>4. c.manage = n /\ c.oidc = 0 /\ c.state = 0
            BY DEF EmptyJar
        <3> HIDE DEF c
        <3>5. visit[v].op = "tokenLogin" /\ overlapped' = overlapped
            BY <1>11 DEF CreateManageSession, At
        <3> QED BY <1>1, <3>1, <3>2, <3>3, <3>4, <3>5, SessionOpens
    <2> QED BY <1>11, <2>1, <2>2 DEF CreateManageSession
<1>12. ASSUME NEW v \in Visits, RevokeOIDCSession(v)
       PROVE  CookieInv'
    <2>1. visit[v].op \in {"tokenLogin", "logout", "oidcLogout"} /\ AfterRevoke(v)
        BY <1>12 DEF RevokeOIDCSession, SessionTypes, VisitRec, Ops, StepsOf
    <2>2. EmptyJar.manage = 0 /\ EmptyJar.oidc = 0 /\ EmptyJar.state = 0
        BY DEF EmptyJar
    <2>3. (Go(v, "create") /\ UNCHANGED jar) \/ Reply(v, EmptyJar) \/ Reply(v, [jar EXCEPT !.oidc = 0, !.state = 0])
        BY <2>1 DEF AfterRevoke
    <2> QED BY <1>1, <1>7, <1>12, <2>1, <2>2, <2>3, RequestGoesOn, RequestEnds DEF RevokeOIDCSession
<1>13. ASSUME NEW v \in Visits, RevokeManageSession(v)
       PROVE  CookieInv'
    <2>1. visit[v].op # "submit"
        BY <1>13 DEF RevokeManageSession, SessionTypes, VisitRec, StepsOf
    <2> QED BY <1>1, <1>13, <2>1, RequestGoesOn DEF RevokeManageSession
<1>14. ASSUME NEW v \in Visits, AuthenticateToken(v) \/ Act(v)
       PROVE  CookieInv'
    <2>1. AuthenticateToken(v) => visit[v].op # "submit"
        BY DEF AuthenticateToken, At
    <2> QED BY <1>1, <1>14, <2>1, RequestGoesOn, RequestEnds DEF AuthenticateToken, Act
<1>15. ASSUME NEW v \in Visits, Refresh(v)
       PROVE  CookieInv'
    <2> DEFINE r == [visit[v] EXCEPT !.seen = granted, !.step = "readManage"]
    <2>1. visit' = [visit EXCEPT ![v] = r] /\ r.op = visit[v].op /\ r.jar = visit[v].jar
          /\ r.step = "readManage" /\ r.seen = granted /\ r.valid = visit[v].valid
        BY <1>15 DEF Refresh, SessionTypes, VisitRec
    <2> HIDE DEF r
    <2>2. visit'[v] = r /\ visit[v].step = "refresh" /\ UNCHANGED <<sessions, jar, overlapped>>
        BY <1>15, <2>1 DEF Refresh, SessionTypes, At, server
    <2>3. Cookies(v)' = Cookies(v) /\ \A s : Found(s)' <=> Found(s)
        BY <2>1, <2>2 DEF Cookies, Found, LiveOnes
    <2>4. Judged(v)'
        BY <2>1, <2>2, <2>3 DEF CookieInv, Judged
    <2> QED BY <1>1, <2>1, <2>2, <2>4, OneRequestGoesOn DEF JarLess
<1>16. ASSUME NEW v \in Visits, ReadManageSession(v) \/ ReadOIDCSession(v)
       PROVE  CookieInv'
    <2>1. visit[v].jar.manage \in Cookies(v) /\ visit[v].jar.oidc \in Cookies(v)
        BY DEF Cookies
    <2> QED BY <1>1, <1>16, <2>1, PrincipalJudged DEF ReadManageSession, ReadOIDCSession
<1>17. ASSUME NEW v \in Visits, EnsureManageCSRFToken(v)
       PROVE  CookieInv'
    <2>1. \A s : [jar EXCEPT !.csrf = s].manage = jar.manage /\ [jar EXCEPT !.csrf = s].oidc = jar.oidc
                 /\ [jar EXCEPT !.csrf = s].state = jar.state
        BY DEF SessionTypes, Jars
    <2>2. PICK c : Reply(v, c) /\ c.manage = jar.manage /\ c.oidc = jar.oidc /\ c.state = jar.state
        BY <1>17, <2>1 DEF EnsureManageCSRFToken
    <2> QED BY <1>1, <1>17, <2>2, RequestEnds DEF EnsureManageCSRFToken
<1>18. ASSUME NEW v \in Visits, RequireManageCSRF(v)
       PROVE  CookieInv'
    <2>1. CASE Reply(v, jar)
        BY <1>1, <1>18, <2>1, RequestEnds DEF RequireManageCSRF
    <2>2. CASE /\ FormMatches(visit[v].jar) /\ UNCHANGED jar
               /\ visit' = [visit EXCEPT ![v].secret = visit[v].jar.csrf,
                               ![v].step = IF visit[v].op = "submit" THEN "acting" ELSE "revokeManage"]
        <3> DEFINE st == IF visit[v].op = "submit" THEN "acting" ELSE "revokeManage"
        <3> DEFINE r == [visit[v] EXCEPT !.secret = visit[v].jar.csrf, !.step = st]
        <3>1. visit' = [visit EXCEPT ![v] = r] /\ r.op = visit[v].op /\ r.jar = visit[v].jar
              /\ r.step = st /\ r.as = visit[v].as /\ r.valid = visit[v].valid /\ r.secret = visit[v].jar.csrf
            BY <2>2 DEF SessionTypes, VisitRec
        <3> HIDE DEF r
        <3>2. visit'[v] = r /\ visit[v].step = "csrf" /\ overlapped' = overlapped
            BY <1>18, <3>1 DEF RequireManageCSRF, SessionTypes, At
        <3>3. Cookies(v)' = Cookies(v) /\ Holder(r.jar) = Holder(visit[v].jar)
            BY <3>1, <3>2 DEF Cookies
        <3>4. Judged(v)'
            BY <2>2, <3>1, <3>2, <3>3 DEF CookieInv, Judged, FormMatches
        <3> QED BY <1>1, <2>2, <3>1, <3>2, <3>4, OneRequestGoesOn DEF JarLess
    <2> QED BY <1>18, <2>1, <2>2 DEF RequireManageCSRF
<1> QED
    BY <1>3, <1>4, <1>8, <1>9, <1>10, <1>11, <1>12, <1>13, <1>14, <1>15, <1>16, <1>17, <1>18
       DEF SessionsNext

LEMMA LiveOnesAct ==
    ASSUME SessionTypes, CookieInv
    PROVE  OnlyLiveSessionsAct
<1> SUFFICES ASSUME NEW v \in Visits, visit[v].step = "acting"
             PROVE  visit[v].as \in visit[v].valid /\ (visit[v].as # visit[v].secret => overlapped)
    BY DEF OnlyLiveSessionsAct
<1>1. visit[v].op = "submit" /\ visit[v].valid \subseteq SessionIds /\ 0 \notin SessionIds
    BY SessionAssumption DEF SessionTypes, VisitRec, Ops, StepsOf
<1>2. visit[v].as \in Cookies(v) /\ visit[v].as \in visit[v].valid /\ visit[v].secret = Holder(visit[v].jar)
    BY <1>1 DEF CookieInv, Judged
<1>3. ~overlapped => visit[v].jar.manage = 0 \/ visit[v].jar.oidc = 0
    BY <1>1 DEF CookieInv, OnePath
<1>4. ~overlapped => visit[v].as = visit[v].secret
    BY <1>1, <1>2, <1>3 DEF Cookies, Holder
<1> QED BY <1>2, <1>4

-----------------------------------------------------------------------------
(* The theorems about sessions *)

LEMMA SessionStepsOfSpec ==
    /\ Init => SessionsInit
    /\ [Next]_vars => [SessionsNext]_sessionVars
BY DEF Init, Next, vars, sessionVars

\* A login at the identity provider opens one session at most, however often and
\* however concurrently its callback is called (ConsumeOIDCState, postgres.go:933).
THEOREM LoginsOpenOneSession == Spec => []StateOpensOneSession
<1>1. Init => SessionTypes /\ OneLogin
    BY SessionStepsOfSpec, SessionTypesInit, OneLoginInit
<1>2. SessionTypes /\ OneLogin /\ [Next]_vars => (SessionTypes /\ OneLogin)'
    BY SessionStepsOfSpec, SessionsKeep, OneLoginStep DEF Keeps
<1>3. OneLogin => StateOpensOneSession
    BY DEF OneLogin
<1> QED BY <1>1, <1>2, <1>3, PTL DEF Spec

\* A request changes something only as a session that had not ended, by a
\* credential accepted, when the request began, and with a form of a session of
\* its own cookies (requireManageCSRF, router_manage_auth.go:174).
THEOREM ChangesNeedLiveSessions == Spec => []OnlyLiveSessionsAct
<1>1. Init => SessionTypes /\ CookieInv
    BY SessionStepsOfSpec, SessionTypesInit, CookieInvInit
<1>2. SessionTypes /\ CookieInv /\ [Next]_vars => (SessionTypes /\ CookieInv)'
    BY SessionStepsOfSpec, SessionsKeep, CookieInvStep DEF Keeps
<1>3. SessionTypes /\ CookieInv => OnlyLiveSessionsAct
    BY LiveOnesAct
<1> QED BY <1>1, <1>2, <1>3, PTL DEF Spec

-----------------------------------------------------------------------------
(* Rights: what a configuration gives *)

\* Teams whose publishers or administrators the claims name.
HitTeams(cs, claims) ==
    {t \in DOMAIN cs.teams :
        (cs.teams[t].members \cup cs.teams[t].publishers) \cap claims # {}
        \/ cs.teams[t].managers \cap claims # {}}
ManTeams(cs, claims) == {t \in DOMAIN cs.teams : cs.teams[t].managers \cap claims # {}}

Publishable(cs, t) == {<<"publish", s>> : s \in Owners(cs, t)}

LEMMA ReachIs ==
    ASSUME NEW cs, NEW claims
    PROVE  Reach(cs, claims) =
               (UNION {Publishable(cs, t) : t \in HitTeams(cs, claims)})
               \cup {<<"manage", t>> : t \in ManTeams(cs, claims)}
               \cup (IF cs.admins \cap claims # {} THEN {<<"admin">>} ELSE {})
<1> DEFINE A == {u \in DOMAIN cs.teams :
                    (cs.teams[u].members \cup cs.teams[u].publishers) \cap claims # {}}
<1> DEFINE M == {u \in DOMAIN cs.teams : cs.teams[u].managers \cap claims # {}}
<1> DEFINE P == {Publisher(cs, t) : t \in A}
<1> DEFINE Q == {Manager(cs, t) : t \in M}
<1> DEFINE G == IF cs.admins \cap claims # {} THEN {Admin} ELSE {}
<1>1. /\ \A t : Publisher(cs, t).publish = TRUE /\ Publisher(cs, t).admin = FALSE
                /\ Publisher(cs, t).owners = Owners(cs, t) /\ Publisher(cs, t).managed = {}
      /\ \A t : Manager(cs, t).publish = TRUE /\ Manager(cs, t).admin = FALSE
                /\ Manager(cs, t).owners = Owners(cs, t) /\ Manager(cs, t).managed = {t}
      /\ Admin.publish = FALSE /\ Admin.admin = TRUE /\ Admin.owners = {} /\ Admin.managed = {}
    BY DEF Publisher, Manager, Admin, NoPrincipal
<1>2. Person(cs, claims) = Merged(P \cup Q \cup G)
    BY DEF Person
<1> DEFINE p == Person(cs, claims)
<1> HIDE DEF P, Q, G
<1>3. /\ p.publish = (\E x \in P \cup Q \cup G : x.publish) /\ p.admin = (\E x \in P \cup Q \cup G : x.admin)
      /\ p.owners = UNION {x.owners : x \in P \cup Q \cup G}
      /\ p.managed = UNION {x.managed : x \in P \cup Q \cup G}
    BY <1>2 DEF Merged
<1> HIDE DEF p, A, M
<1>4. p.publish <=> A \cup M # {}
    BY <1>1, <1>3 DEF P, Q, G
<1>5. p.admin <=> cs.admins \cap claims # {}
    BY <1>1, <1>3 DEF P, Q, G
<1>6. p.managed = M
    <2>1. \A t \in M : Manager(cs, t) \in P \cup Q \cup G
        BY DEF Q
    <2>2. \A x \in P \cup Q \cup G : x.managed \subseteq M
        BY <1>1 DEF P, Q, G
    <2> QED BY <1>1, <1>3, <2>1, <2>2
<1>7. p.owners = UNION {Owners(cs, t) : t \in A \cup M}
    <2>1. \A t \in M : Manager(cs, t) \in P \cup Q \cup G
        BY DEF Q
    <2>2. \A t \in A : Publisher(cs, t) \in P \cup Q \cup G
        BY DEF P
    <2>3. \A x \in P \cup Q \cup G : x.owners \subseteq UNION {Owners(cs, t) : t \in A \cup M}
        BY <1>1 DEF P, Q, G
    <2>4. \A t \in A \cup M : Owners(cs, t) \subseteq UNION {x.owners : x \in P \cup Q \cup G}
        BY <1>1, <2>1, <2>2
    <2> QED BY <1>3, <2>3, <2>4
<1>8. HitTeams(cs, claims) = A \cup M /\ ManTeams(cs, claims) = M
    BY DEF HitTeams, ManTeams, A, M
<1>9. (IF p.publish THEN {<<"publish", s>> : s \in p.owners} ELSE {})
          = UNION {Publishable(cs, t) : t \in A \cup M}
    BY <1>4, <1>7 DEF Publishable
<1>10. Reach(cs, claims) = (IF p.publish THEN {<<"publish", s>> : s \in p.owners} ELSE {})
           \cup {<<"manage", t>> : t \in p.managed} \cup (IF p.admin THEN {<<"admin">>} ELSE {})
    BY DEF Reach, p
<1> QED BY <1>5, <1>6, <1>8, <1>9, <1>10

\* Two configurations that differ in the teams of own only.
SameBut(cs, ds, own) ==
    /\ ds.admins = cs.admins
    /\ \A t : t \notin own => /\ t \in DOMAIN cs.teams <=> t \in DOMAIN ds.teams
                              /\ t \in DOMAIN cs.teams => ds.teams[t] = cs.teams[t]

LEMMA ReachStays ==
    ASSUME NEW cs, NEW ds, NEW own, NEW claims, SameBut(cs, ds, own)
    PROVE  Reach(cs, claims) \ Reach(ds, claims) \subseteq Within(cs, own)
<1> SUFFICES ASSUME NEW h \in Reach(cs, claims), h \notin Reach(ds, claims)
             PROVE  h \in Within(cs, own)
    OBVIOUS
<1>1. \A t : t \notin own =>
          /\ t \in HitTeams(cs, claims) => t \in HitTeams(ds, claims)
          /\ t \in ManTeams(cs, claims) => t \in ManTeams(ds, claims)
          /\ t \in DOMAIN cs.teams => Publishable(ds, t) = Publishable(cs, t)
    BY DEF SameBut, HitTeams, ManTeams, Publishable, Owners
<1>2. HitTeams(cs, claims) \subseteq DOMAIN cs.teams /\ ManTeams(cs, claims) \subseteq DOMAIN cs.teams
    BY DEF HitTeams, ManTeams
<1>3. CASE h \in UNION {Publishable(cs, t) : t \in HitTeams(cs, claims)}
    <2>1. PICK t \in HitTeams(cs, claims) : h \in Publishable(cs, t)
        BY <1>3
    <2>2. t \in own
        <3> SUFFICES ASSUME t \notin own PROVE FALSE
            OBVIOUS
        <3>1. t \in HitTeams(ds, claims) /\ h \in Publishable(ds, t)
            BY <1>1, <1>2, <2>1
        <3>2. h \in UNION {Publishable(ds, u) : u \in HitTeams(ds, claims)}
            BY <3>1
        <3> QED BY <3>2, ReachIs
    <2> QED BY <1>2, <2>1, <2>2 DEF Within, Publishable
<1>4. CASE h \in {<<"manage", t>> : t \in ManTeams(cs, claims)}
    <2>1. PICK t \in ManTeams(cs, claims) : h = <<"manage", t>>
        BY <1>4
    <2>2. t \in own
        <3> SUFFICES ASSUME t \notin own PROVE FALSE
            OBVIOUS
        <3>1. h \in {<<"manage", u>> : u \in ManTeams(ds, claims)}
            BY <1>1, <2>1
        <3> QED BY <3>1, ReachIs
    <2>3. h \in {<<"manage", u>> : u \in own}
        BY <2>1, <2>2
    <2>4. {<<"manage", u>> : u \in own} \subseteq Within(cs, own)
        BY Zenon DEF Within
    <2> QED BY <2>3, <2>4
<1>5. CASE h \in (IF cs.admins \cap claims # {} THEN {<<"admin">>} ELSE {})
    <2>1. h \in (IF ds.admins \cap claims # {} THEN {<<"admin">>} ELSE {})
        BY <1>5 DEF SameBut
    <2> QED BY <2>1, ReachIs
<1> QED BY <1>3, <1>4, <1>5, ReachIs

LEMMA HandedOutStays ==
    ASSUME NEW cs, NEW ds, NEW own, SameBut(cs, ds, own)
    PROVE  \A h \in HandedOut(cs) \ HandedOut(ds) : h[1] \in own
<1> SUFFICES ASSUME NEW h \in HandedOut(cs), h \notin HandedOut(ds), h[1] \notin own
             PROVE  FALSE
    OBVIOUS
<1>1. PICK t \in DOMAIN cs.teams : h \in {<<t, role>> : role \in cs.teams[t].tokens}
    BY DEF HandedOut
<1>2. PICK role \in cs.teams[t].tokens : h = <<t, role>>
    BY <1>1
<1>3. t \in DOMAIN ds.teams /\ role \in ds.teams[t].tokens
    BY <1>2 DEF SameBut
<1> QED BY <1>2, <1>3 DEF HandedOut

-----------------------------------------------------------------------------
(* Rights: what a change reaches *)

PolicyTypes ==
    /\ AreConfigs(configs)
    /\ content \in [Spaces -> 0..2]
    /\ rights = [q \in Authors |-> rights[q]]

LEMMA TeamsChanged ==
    ASSUME PolicyTypes, NEW team \in DOMAIN configs.teams, NEW c \in TeamConfig
    PROVE  AreConfigs([configs EXCEPT !.teams[team] = c])
<1> DEFINE ds == [configs EXCEPT !.teams[team] = c]
<1>1. ds = [teams |-> [configs.teams EXCEPT ![team] = c], admins |-> configs.admins]
    BY DEF PolicyTypes, AreConfigs
<1> HIDE DEF ds
<1>2. ds.teams = [configs.teams EXCEPT ![team] = c] /\ ds.admins = configs.admins
    BY <1>1
<1>3. DOMAIN ds.teams = DOMAIN configs.teams /\ ds.teams \in [DOMAIN ds.teams -> TeamConfig]
    BY <1>2 DEF PolicyTypes, AreConfigs
<1>4. AreConfigs(ds)
    BY <1>1, <1>2, <1>3 DEF PolicyTypes, AreConfigs
<1> QED BY <1>4 DEF ds

LEMMA PolicyTypesInit == PolicyInit => PolicyTypes
BY PolicyAssumption DEF PolicyInit, PolicyTypes

\* Who makes a change that ends his request.
Ends(q) == rights[q] # NoPrincipal /\ rights'[q] = NoPrincipal

LEMMA WriteTypes ==
    ASSUME PolicyTypes, NEW q \in Authors, NEW space \in Spaces, NEW copy \in 0..2, Write(q, space, copy)
    PROVE  PolicyTypes' /\ configs' = configs /\ \A s \in Spaces \ {space} : content'[s] = content[s]
BY DEF Write, Changes, Done, PolicyTypes

LEMMA SaveTypes ==
    ASSUME PolicyTypes, NEW q \in Authors, NEW cs, AreConfigs(cs), Save(q, cs)
    PROVE  PolicyTypes' /\ configs' = cs /\ content' = content
BY DEF Save, Changes, Done, PolicyTypes

\* A team's form, saved.
TeamSaved(q, original, team, publishers, managers) ==
    LET old == IF original \in DOMAIN configs.teams THEN configs.teams[original] ELSE NewTeam
        members == IF rights[q].admin THEN {} ELSE old.members
    IN [old EXCEPT !.extra = @ \ {team}, !.members = members, !.publishers = publishers, !.managers = managers]

LEMMA TeamSavedIs ==
    ASSUME PolicyTypes, NEW q \in Authors, NEW original, NEW team \in Teams,
           NEW publishers \in Forms, NEW managers \in Forms
    PROVE  LET c == TeamSaved(q, original, team, publishers, managers) IN
           /\ c \in TeamConfig
           /\ original \in DOMAIN configs.teams => c.extra \subseteq configs.teams[original].extra
           /\ AreConfigs(Renamed(configs, original, team, c))
<1> DEFINE old == IF original \in DOMAIN configs.teams THEN configs.teams[original] ELSE NewTeam
<1> DEFINE members == IF rights[q].admin THEN {} ELSE old.members
<1> DEFINE c == [old EXCEPT !.extra = @ \ {team}, !.members = members,
                     !.publishers = publishers, !.managers = managers]
<1>1. NewTeam \in TeamConfig
    BY DEF NewTeam, TeamConfig
<1>2. old \in TeamConfig
    BY <1>1 DEF PolicyTypes, AreConfigs
<1> HIDE DEF old
<1>3. members \subseteq Claims /\ publishers \subseteq Claims /\ managers \subseteq Claims
    BY <1>2, PolicyAssumption DEF TeamConfig
<1> HIDE DEF members
<1>4. c \in TeamConfig /\ c.extra = old.extra \ {team}
    BY <1>2, <1>3 DEF TeamConfig
<1>5. c = TeamSaved(q, original, team, publishers, managers)
    BY DEF TeamSaved, c, old, members
<1> HIDE DEF c
<1>6. AreConfigs(Renamed(configs, original, team, c))
    <2> DEFINE ds == Renamed(configs, original, team, c)
    <2> DEFINE ts == (DOMAIN configs.teams \ {original}) \cup {team}
    <2>1. /\ ds.teams = [t \in ts |-> IF t = team THEN c ELSE configs.teams[t]]
          /\ ds.admins = (IF original = GlobalAdminTeam THEN {} ELSE configs.admins)
          /\ ds = [teams |-> ds.teams, admins |-> ds.admins]
        BY DEF Renamed
    <2> HIDE DEF ds
    <2>2. DOMAIN ds.teams = ts /\ ts \subseteq Teams
        BY <2>1 DEF PolicyTypes, AreConfigs
    <2>3. ds.teams \in [DOMAIN ds.teams -> TeamConfig]
        BY <1>4, <2>1, <2>2 DEF PolicyTypes, AreConfigs
    <2>4. AreConfigs(ds)
        BY <2>1, <2>2, <2>3 DEF PolicyTypes, AreConfigs
    <2> QED BY <2>4 DEF ds
<1>7. original \in DOMAIN configs.teams => c.extra \subseteq configs.teams[original].extra
    BY <1>4 DEF old
<1> QED BY <1>4, <1>5, <1>6, <1>7

\* Spaces and tokens of one team.
LEMMA TeamEdits ==
    ASSUME PolicyTypes, NEW team \in DOMAIN configs.teams
    PROVE  /\ \A x \in SUBSET Spaces : LET c == [configs.teams[team] EXCEPT !.extra = x] IN
                  c \in TeamConfig /\ [configs EXCEPT !.teams[team].extra = x] = [configs EXCEPT !.teams[team] = c]
           /\ \A x \in SUBSET Roles : LET c == [configs.teams[team] EXCEPT !.tokens = x] IN
                  c \in TeamConfig /\ [configs EXCEPT !.teams[team].tokens = x] = [configs EXCEPT !.teams[team] = c]
           /\ configs.teams[team].extra \subseteq Spaces /\ configs.teams[team].tokens \subseteq Roles
<1>1. configs.teams[team] \in TeamConfig
    BY DEF PolicyTypes, AreConfigs
<1> QED BY <1>1 DEF TeamConfig

LEMMA PolicyTypesStep ==
    ASSUME PolicyTypes, [PolicyNext]_policyVars
    PROVE  PolicyTypes'
<1>1. CASE UNCHANGED policyVars
    BY <1>1 DEF policyVars, PolicyTypes, AreConfigs
<1>2. ASSUME NEW q \in Authors, Judge(q) \/ Refuse(q)
      PROVE  PolicyTypes'
    BY <1>2 DEF Judge, Refuse, Done, PolicyTypes, AreConfigs
<1>3. ASSUME NEW q \in Authors, NEW team \in Teams, NEW publishers \in Forms, NEW managers \in Forms,
             NEW original, SaveTeam(q, original, team, publishers, managers)
      PROVE  PolicyTypes'
    <2>1. Save(q, Renamed(configs, original, team, TeamSaved(q, original, team, publishers, managers)))
        BY <1>3 DEF SaveTeam, TeamSaved
    <2> QED BY <2>1, TeamSavedIs, SaveTypes
<1>4. ASSUME NEW q \in Authors, NEW team, DeleteTeam(q, team)
      PROVE  PolicyTypes'
    <2> DEFINE rest == DOMAIN configs.teams \ {team}
    <2> DEFINE ds == [configs EXCEPT !.teams = Restrict(configs.teams, rest)]
    <2> DEFINE es == [configs EXCEPT !.admins = {}]
    <2>1. Save(q, ds) \/ Save(q, es)
        BY <1>4 DEF DeleteTeam
    <2>2. AreConfigs(es)
        BY DEF PolicyTypes, AreConfigs
    <2>3. AreConfigs(ds)
        <3>1. Restrict(configs.teams, rest) = [t \in rest |-> configs.teams[t]]
            BY DEF Restrict
        <3>2. ds = [teams |-> [t \in rest |-> configs.teams[t]], admins |-> configs.admins]
            BY <3>1 DEF PolicyTypes, AreConfigs
        <3> HIDE DEF ds
        <3>3. [t \in rest |-> configs.teams[t]] \in [rest -> TeamConfig] /\ rest \subseteq Teams
            BY DEF PolicyTypes, AreConfigs
        <3> HIDE DEF rest
        <3>4. ds.teams = [t \in rest |-> configs.teams[t]] /\ ds.admins = configs.admins
              /\ DOMAIN ds.teams = rest
            BY <3>2
        <3> QED BY <3>2, <3>3, <3>4 DEF PolicyTypes, AreConfigs
    <2> QED BY <2>1, <2>2, <2>3, SaveTypes
<1>5. ASSUME NEW q \in Authors, NEW admins \in Forms, SaveGlobalAdmins(q, admins)
      PROVE  PolicyTypes'
    <2>1. AreConfigs([configs EXCEPT !.admins = admins])
        BY PolicyAssumption DEF PolicyTypes, AreConfigs
    <2> QED BY <1>5, <2>1, SaveTypes DEF SaveGlobalAdmins
<1>6. ASSUME NEW q \in Authors, NEW team \in Teams, NEW space \in Spaces,
             AssignSpace(q, team, space) \/ UnassignSpace(q, team, space)
      PROVE  PolicyTypes'
    <2> DEFINE c(x) == [configs.teams[team] EXCEPT !.extra = x]
    <2>1. team \in DOMAIN configs.teams
        BY <1>6 DEF AssignSpace, UnassignSpace, MayHaveSpace
    <2>2. PICK x \in SUBSET Spaces : Save(q, [configs EXCEPT !.teams[team].extra = x])
        <3>1. configs.teams[team].extra \subseteq Spaces
            BY <2>1, TeamEdits
        <3>2. CASE AssignSpace(q, team, space)
            <4>1. configs.teams[team].extra \cup {space} \in SUBSET Spaces
                BY <3>1 DEF Roles
            <4>2. Save(q, [configs EXCEPT !.teams[team].extra = configs.teams[team].extra \cup {space}])
                BY <3>2 DEF AssignSpace
            <4> QED BY <4>1, <4>2
        <3>3. CASE UnassignSpace(q, team, space)
            <4>1. configs.teams[team].extra \ {space} \in SUBSET Spaces
                BY <3>1 DEF Roles
            <4>2. Save(q, [configs EXCEPT !.teams[team].extra = configs.teams[team].extra \ {space}])
                BY <3>3 DEF UnassignSpace
            <4> QED BY <4>1, <4>2
        <3> QED BY <1>6, <3>2, <3>3
    <2>3. c(x) \in TeamConfig /\ Save(q, [configs EXCEPT !.teams[team] = c(x)])
        BY <2>1, <2>2, TeamEdits
    <2> HIDE DEF c
    <2> QED BY <2>1, <2>3, TeamsChanged, SaveTypes
<1>7. ASSUME NEW q \in Authors, NEW team \in Teams, NEW role \in Roles,
             CreateTeamToken(q, team, role) \/ RevokeTeamToken(q, team, role)
      PROVE  PolicyTypes'
    <2> DEFINE c(x) == [configs.teams[team] EXCEPT !.tokens = x]
    <2>1. team \in DOMAIN configs.teams
        BY <1>7 DEF CreateTeamToken, RevokeTeamToken, MayHandToken
    <2>2. PICK x \in SUBSET Roles : Save(q, [configs EXCEPT !.teams[team].tokens = x])
        <3>1. configs.teams[team].tokens \subseteq Roles
            BY <2>1, TeamEdits
        <3>2. CASE CreateTeamToken(q, team, role)
            <4>1. configs.teams[team].tokens \cup {role} \in SUBSET Roles
                BY <3>1 DEF Roles
            <4>2. Save(q, [configs EXCEPT !.teams[team].tokens = configs.teams[team].tokens \cup {role}])
                BY <3>2 DEF CreateTeamToken
            <4> QED BY <4>1, <4>2
        <3>3. CASE RevokeTeamToken(q, team, role)
            <4>1. configs.teams[team].tokens \ {role} \in SUBSET Roles
                BY <3>1 DEF Roles
            <4>2. Save(q, [configs EXCEPT !.teams[team].tokens = configs.teams[team].tokens \ {role}])
                BY <3>3 DEF RevokeTeamToken
            <4> QED BY <4>1, <4>2
        <3> QED BY <1>7, <3>2, <3>3
    <2>3. c(x) \in TeamConfig /\ Save(q, [configs EXCEPT !.teams[team] = c(x)])
        BY <2>1, <2>2, TeamEdits
    <2> HIDE DEF c
    <2> QED BY <2>1, <2>3, TeamsChanged, SaveTypes
<1>8. ASSUME NEW q \in Authors, NEW space \in Spaces,
             \/ Publish(q, space) \/ ReplaceRelease(q, space) \/ DeleteRelease(q, space)
             \/ ImportUpstream(q, space)
      PROVE  PolicyTypes'
    <2>1. CASE ImportUpstream(q, space)
        BY <2>1 DEF ImportUpstream, Changes, Done, PolicyTypes, AreConfigs
    <2>2. content[space] \in 0..2
        BY DEF PolicyTypes
    <2>3. ReplaceRelease(q, space) => 3 - content[space] \in 0..2
        BY <2>2 DEF ReplaceRelease
    <2>4. \/ ImportUpstream(q, space) \/ \E copy \in 0..2 : Write(q, space, copy)
        BY <1>8, <2>3 DEF Publish, ReplaceRelease, DeleteRelease
    <2> QED BY <2>1, <2>4, WriteTypes
<1> QED BY <1>1, <1>2, <1>3, <1>4, <1>5, <1>6, <1>7, <1>8 DEF PolicyNext

LEMMA SameIsMutual ==
    ASSUME NEW cs, NEW ds, NEW own, SameBut(cs, ds, own)
    PROVE  SameBut(ds, cs, own)
BY DEF SameBut

\* A change of the teams of own only, which opens no space to them.
LEMMA OwnTeamsOnly ==
    ASSUME NEW q \in Authors, NEW own, own = rights[q].managed,
           SameBut(configs, configs', own), content' = content,
           \A t \in own \cap DOMAIN configs'.teams : \A s \in configs'.teams[t].extra :
               \E u \in own \cap DOMAIN configs.teams : s \in configs.teams[u].extra
    PROVE  StaysWithin(q)
<1>1. SameBut(configs', configs, own)
    BY SameIsMutual
<1>2. \A claims \in SUBSET Claims :
          Changed(Reach(configs, claims), Reach(configs', claims))
              \subseteq Within(configs, own) \cup Within(configs', own)
    BY <1>1, ReachStays DEF Changed
<1>3. \A h \in Changed(HandedOut(configs), HandedOut(configs')) : h[1] \in own
    BY <1>1, HandedOutStays DEF Changed
<1>4. UNION {Owners(configs', t) : t \in own \cap DOMAIN configs'.teams}
          \subseteq own \cup UNION {Owners(configs, t) : t \in own \cap DOMAIN configs.teams}
    <2> SUFFICES ASSUME NEW t \in own \cap DOMAIN configs'.teams, NEW s \in Owners(configs', t)
                 PROVE  s \in own \cup UNION {Owners(configs, u) : u \in own \cap DOMAIN configs.teams}
        OBVIOUS
    <2>1. CASE s = t
        BY <2>1
    <2>2. CASE s \in configs'.teams[t].extra
        <3>1. PICK u \in own \cap DOMAIN configs.teams : s \in configs.teams[u].extra
            BY <2>2
        <3>2. s \in Owners(configs, u)
            BY <3>1 DEF Owners
        <3> QED BY <3>1, <3>2
    <2> QED BY <2>1, <2>2 DEF Owners
<1>5. \A s \in Spaces : content[s] \notin {0, content'[s]} => s \in own
    OBVIOUS
<1> QED BY <1>2, <1>3, <1>4, <1>5 DEF StaysWithin

LEMMA OnlyOwnReach ==
    ASSUME PolicyTypes, NEW q \in Authors, PolicyNext
    PROVE  StaysWithin(q)
<1> SUFFICES ASSUME Ends(q), ~rights[q].admin PROVE StaysWithin(q)
    BY DEF StaysWithin, Ends
<1> DEFINE own == rights[q].managed
<1>1. ASSUME NEW p \in Authors, Done(p)
      PROVE  p = q
    BY <1>1 DEF Ends, Done, PolicyTypes
<1>2. ASSUME NEW p \in Authors, Judge(p)
      PROVE  FALSE
    BY <1>2 DEF Ends, Judge, PolicyTypes
<1>3. ASSUME configs' = configs, \A s \in Spaces : content[s] \notin {0, content'[s]} => s \in own
      PROVE  StaysWithin(q)
    BY <1>3 DEF StaysWithin, Changed
<1>4. ASSUME NEW p \in Authors, Refuse(p)
      PROVE  StaysWithin(q)
    BY <1>3, <1>4 DEF Refuse
<1>5. ASSUME NEW p \in Authors, NEW team \in Teams, NEW publishers \in Forms, NEW managers \in Forms,
             NEW original, SaveTeam(p, original, team, publishers, managers)
      PROVE  StaysWithin(q)
    <2> DEFINE c == TeamSaved(q, original, team, publishers, managers)
    <2> DEFINE ds == Renamed(configs, original, team, c)
    <2>1. p = q
        BY <1>1, <1>5 DEF SaveTeam, Save, Changes
    <2>2. /\ original \in DOMAIN configs.teams /\ {original, team} \subseteq own
          /\ team = original \/ team \notin DOMAIN configs.teams
          /\ Save(q, ds)
        BY <1>5, <2>1 DEF SaveTeam, TeamSaved, MayEdit
    <2>3. c.extra \subseteq configs.teams[original].extra
        BY <2>2, TeamSavedIs
    <2> HIDE DEF c
    <2>4. original # GlobalAdminTeam
        BY <2>2, PolicyAssumption DEF PolicyTypes, AreConfigs
    <2>5. /\ ds.teams = [t \in (DOMAIN configs.teams \ {original}) \cup {team} |->
                            IF t = team THEN c ELSE configs.teams[t]]
          /\ ds.admins = configs.admins
        BY <2>4 DEF Renamed
    <2> HIDE DEF ds
    <2>6. configs' = ds /\ content' = content
        BY <2>2 DEF Save
    <2>7. SameBut(configs, ds, own)
        BY <2>2, <2>5 DEF SameBut
    <2>8. \A t \in own \cap DOMAIN ds.teams : \A s \in ds.teams[t].extra :
              \E u \in own \cap DOMAIN configs.teams : s \in configs.teams[u].extra
        BY <2>2, <2>3, <2>5
    <2> QED BY <2>6, <2>7, <2>8, OwnTeamsOnly
<1>6. ASSUME NEW p \in Authors, NEW x, DeleteTeam(p, x) \/ SaveGlobalAdmins(p, x)
      PROVE  StaysWithin(q)
    <2>1. p = q /\ rights[p].admin
        BY <1>1, <1>6 DEF DeleteTeam, SaveGlobalAdmins, Save, Changes
    <2> QED BY <2>1
<1>7. ASSUME NEW p \in Authors, NEW team, NEW space,
             AssignSpace(p, team, space) \/ UnassignSpace(p, team, space)
      PROVE  StaysWithin(q)
    <2>1. p = q /\ rights[p].admin
        BY <1>1, <1>7 DEF AssignSpace, UnassignSpace, Save, Changes
    <2> QED BY <2>1
<1>8. ASSUME NEW p \in Authors, NEW team \in Teams, NEW role \in Roles,
             CreateTeamToken(p, team, role) \/ RevokeTeamToken(p, team, role)
      PROVE  StaysWithin(q)
    <2>1. p = q
        BY <1>1, <1>8 DEF CreateTeamToken, RevokeTeamToken, Save, Changes
    <2>2. team \in DOMAIN configs.teams /\ team \in own
        BY <1>8, <2>1 DEF CreateTeamToken, RevokeTeamToken, MayHandToken, MayEdit
    <2>3. PICK x : Save(q, [configs EXCEPT !.teams[team].tokens = x])
        BY <1>8, <2>1 DEF CreateTeamToken, RevokeTeamToken
    <2> DEFINE ds == [configs EXCEPT !.teams[team].tokens = x]
    <2>4. /\ DOMAIN ds.teams = DOMAIN configs.teams /\ ds.admins = configs.admins
          /\ \A t \in DOMAIN ds.teams : t # team => ds.teams[t] = configs.teams[t]
          /\ ds.teams[team].extra = configs.teams[team].extra
        BY <2>2 DEF PolicyTypes, AreConfigs, TeamConfig
    <2>5. Save(q, ds)
        BY <2>3
    <2> HIDE DEF ds
    <2>6. configs' = ds /\ content' = content
        BY <2>5 DEF Save
    <2>7. SameBut(configs, ds, own)
        BY <2>2, <2>4 DEF SameBut
    <2>8. \A t \in own \cap DOMAIN ds.teams : \A s \in ds.teams[t].extra :
              \E u \in own \cap DOMAIN configs.teams : s \in configs.teams[u].extra
        BY <2>2, <2>4
    <2> QED BY <2>6, <2>7, <2>8, OwnTeamsOnly
<1>9. ASSUME NEW p \in Authors, NEW space \in Spaces, NEW copy \in 0..2, Write(p, space, copy),
             content[space] = 0 \/ CanDeleteOwner(rights[p], space)
      PROVE  StaysWithin(q)
    <2>1. p = q
        BY <1>1, <1>9 DEF Write, Changes
    <2>2. configs' = configs /\ \A s \in Spaces \ {space} : content'[s] = content[s]
        BY <1>9, WriteTypes
    <2>3. content[space] = 0 \/ space \in own
        BY <1>9, <2>1 DEF CanDeleteOwner
    <2> QED BY <1>3, <2>2, <2>3
<1>10. ASSUME NEW p \in Authors, NEW space \in Spaces,
              \/ Publish(p, space) \/ ReplaceRelease(p, space) \/ DeleteRelease(p, space)
              \/ ImportUpstream(p, space)
       PROVE  StaysWithin(q)
    <2>1. CASE ImportUpstream(p, space)
        BY <1>3, <2>1 DEF ImportUpstream
    <2>2. content[space] \in 0..2
        BY DEF PolicyTypes
    <2>3. ReplaceRelease(p, space) => 3 - content[space] \in 0..2
        BY <2>2 DEF ReplaceRelease
    <2>4. \/ ImportUpstream(p, space)
          \/ \E copy \in 0..2 : /\ Write(p, space, copy)
                                /\ content[space] = 0 \/ CanDeleteOwner(rights[p], space)
        BY <1>10, <2>3 DEF Publish, ReplaceRelease, DeleteRelease
    <2> QED BY <1>9, <2>1, <2>4
<1> QED BY <1>2, <1>4, <1>5, <1>6, <1>7, <1>8, <1>10 DEF PolicyNext

LEMMA PolicyStepsOfSpec ==
    /\ Init => PolicyInit
    /\ [Next]_vars => [PolicyNext]_policyVars
BY DEF Init, Next, vars, policyVars

\* Rights are judged before the wait for the lock (router_manage_access.go:52):
\* whatever the configuration has become, the change of who is no global
\* administrator stays within the teams and spaces he was judged to manage.
THEOREM NobodyGainsBeyond == Spec => NobodyReachesBeyond
<1>1. Init => PolicyTypes
    BY PolicyStepsOfSpec, PolicyTypesInit
<1>2. PolicyTypes /\ [Next]_vars => PolicyTypes'
    BY PolicyStepsOfSpec, PolicyTypesStep
<1>3. PolicyTypes /\ [Next]_vars => [\A q \in Authors : StaysWithin(q)]_policyVars
    BY PolicyStepsOfSpec, OnlyOwnReach
<1> QED BY <1>1, <1>2, <1>3, PTL DEF Spec, NobodyReachesBeyond
=============================================================================
