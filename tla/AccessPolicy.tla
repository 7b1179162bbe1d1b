----------------------------- MODULE AccessPolicy -----------------------------
(* Who may do what: the rights that a configuration gives to a credential      *)
(* (src/internal/auth/auth.go), and the requests that use them to change the    *)
(* configuration and the releases (src/internal/httpapi).  A request's rights   *)
(* are read before it waits for the lock under which it works, and not again;   *)
(* the change itself is one step, for the lock is AccessConfig's matter.  A     *)
(* name stands for all its spellings, which the program takes for equal.        *)
EXTENDS FiniteSets, Naturals, Functions

CONSTANTS
    Authors,         \* requests under way at once
    Teams, Extras,   \* names of teams, each also a space, and of other spaces
    Claims,          \* e-mail addresses, subjects, domains and groups
    Forms,           \* the lists of claims that a form may hold: some sets of them
    NoTeam,
    BootstrapToken,  \* whether the server was given an administrator's token
    InitialConfigs,  \* what the database holds at first
    MaxChanges       \* bound on what happens

GlobalAdminTeam == "platform-admin"
Spaces          == Teams \cup Extras
Roles           == {"read", "publish"}

\* members are the mappings by e-mail, subject and domain, which no form has;
\* a team's own space is always among those it publishes to.
TeamConfig == [extra: SUBSET Spaces, members: SUBSET Claims, publishers: SUBSET Claims,
               managers: SUBSET Claims, tokens: SUBSET Roles]
NewTeam    == [extra |-> {}, members |-> {}, publishers |-> {}, managers |-> {}, tokens |-> {}]
AreConfigs(cs) ==
    /\ cs = [teams |-> cs.teams, admins |-> cs.admins]
    /\ DOMAIN cs.teams \subseteq Teams /\ cs.teams \in [DOMAIN cs.teams -> TeamConfig]
    /\ cs.admins \subseteq Claims

ASSUME PolicyAssumption ==
    /\ Forms \subseteq SUBSET Claims /\ NoTeam \notin Teams /\ MaxChanges \in Nat
    /\ GlobalAdminTeam \notin Teams    \* reserved (validateTeamConfigRole)
    /\ BootstrapToken \in BOOLEAN
    /\ \A cs \in InitialConfigs : AreConfigs(cs)

VARIABLES
    configs,     \* the teams' configurations, and the global administrators' mappings
    upstream,    \* spaces with modules of the Official Forge
    content,     \* of a space: without releases (0), or the bytes of its release
    rights,      \* of a request: the principal it was judged to be
    changes      \* how many changes there were

policyVars == <<configs, upstream, content, rights, changes>>
-------------------------------------------------------------------------------
(* The principals of newAuthorizer and how they are merged *)

NoPrincipal == [publish |-> FALSE, manage |-> FALSE, admin |-> FALSE, owners |-> {}, managed |-> {}]
Admin  == [NoPrincipal EXCEPT !.admin = TRUE]

Owners(cs, t)    == {t} \cup cs.teams[t].extra
Publisher(cs, t) == [NoPrincipal EXCEPT !.publish = TRUE, !.owners = Owners(cs, t)]
Manager(cs, t)   == [Publisher(cs, t) EXCEPT !.manage = TRUE, !.managed = {t}]
TokenHolder(cs, t, role) == [Publisher(cs, t) EXCEPT !.publish = role = "publish"]

Merged(ps) == [publish |-> \E p \in ps : p.publish, manage |-> \E p \in ps : p.manage,
               admin   |-> \E p \in ps : p.admin,
               owners  |-> UNION {p.owners : p \in ps},
               managed |-> UNION {p.managed : p \in ps}]

Person(cs, claims) == Merged(
    {Publisher(cs, t) : t \in {u \in DOMAIN cs.teams :
        (cs.teams[u].members \cup cs.teams[u].publishers) \cap claims # {}}}
    \cup {Manager(cs, t) : t \in {u \in DOMAIN cs.teams : cs.teams[u].managers \cap claims # {}}}
    \cup (IF cs.admins \cap claims # {} THEN {Admin} ELSE {}))

Principals(cs) ==
    {Person(cs, claims) : claims \in SUBSET Claims}
    \cup (UNION {{TokenHolder(cs, t, role) : role \in cs.teams[t].tokens} : t \in DOMAIN cs.teams})
    \cup (IF BootstrapToken THEN {Admin} ELSE {})

CanPublishOwner(p, s) == p.publish /\ s \in p.owners
CanDeleteOwner(p, s)  == p.admin \/ (p.manage /\ s \in p.managed)

\* canManageAccessTeam of the names in a team's form: the one it had and the new
\* one.  (Mutant: only of the new one.)
NewNameOnly(p, original, team) == p.admin \/ (p.manage /\ team \in p.managed)
MayEdit(p, original, team)     == p.admin \/ (p.manage /\ {original, team} \subseteq p.managed)

\* saveAccessConfigs: not without teams, and not without credentials
HasCredentials(cs) ==
    \/ BootstrapToken \/ cs.admins # {}
    \/ \E t \in DOMAIN cs.teams : LET c == cs.teams[t] IN
           c.members \cup c.publishers \cup c.managers # {} \/ c.tokens # {}
MayBeSaved(cs) == (DOMAIN cs.teams # {} \/ cs.admins # {}) /\ HasCredentials(cs)
-------------------------------------------------------------------------------
PolicyInit ==
    /\ configs \in InitialConfigs
    /\ upstream = {}
    /\ content = [s \in Spaces |-> 0]
    /\ rights = [q \in Authors |-> NoPrincipal]
    /\ changes = 0

\* requireManage, or the authorizer's Require functions: not with read rights only
Judge(q) ==
    /\ rights[q] = NoPrincipal
    /\ \E p \in Principals(configs) : /\ p.publish \/ p.manage \/ p.admin
                                      /\ rights' = [rights EXCEPT ![q] = p]
    /\ UNCHANGED <<configs, upstream, content, changes>>

Done(q) == rights' = [rights EXCEPT ![q] = NoPrincipal]
Changes(q) == changes < MaxChanges /\ changes' = changes + 1 /\ Done(q)

\* The form is refused, or the save fails.
Refuse(q) == rights[q] # NoPrincipal /\ Done(q) /\ UNCHANGED <<configs, upstream, content, changes>>

Save(q, cs) ==
    /\ MayBeSaved(cs)
    /\ configs' = cs
    /\ Changes(q)
    /\ UNCHANGED <<upstream, content>>

\* accessConfigsWithUpsertedTeam.  The form's lists replace the team's; tokens
\* and spaces stay, and what a team administrator does not see.
Renamed(cs, original, team, c) ==
    [teams  |-> [t \in (DOMAIN cs.teams \ {original}) \cup {team} |-> IF t = team THEN c ELSE cs.teams[t]],
     admins |-> IF original = GlobalAdminTeam THEN {} ELSE cs.admins]

SaveTeam(q, original, team, publishers, managers) ==
    LET exists == original \in DOMAIN configs.teams
        old    == IF exists THEN configs.teams[original] ELSE NewTeam
        members == IF rights[q].admin THEN {} ELSE old.members
    IN
    /\ rights[q].admin \/ rights[q].manage
    /\ team = original \/ team \notin DOMAIN configs.teams
    /\ MayEdit(rights[q], original, team)
    /\ rights[q].admin \/ exists
    /\ Save(q, Renamed(configs, original, team,
            [old EXCEPT !.extra = @ \ {team}, !.members = members,
                        !.publishers = publishers, !.managers = managers]))

DeleteTeam(q, team) ==
    /\ rights[q].admin
    /\ \/ /\ team \in DOMAIN configs.teams
          /\ Save(q, [configs EXCEPT !.teams = Restrict(@, DOMAIN @ \ {team})])
       \/ /\ team = GlobalAdminTeam /\ configs.admins # {}
          /\ Save(q, [configs EXCEPT !.admins = {}])

SaveGlobalAdmins(q, admins) ==
    rights[q].admin /\ Save(q, [configs EXCEPT !.admins = admins])

\* publishSpaceConfigsFromForm
MayHaveSpace(team, space) ==
    team \in DOMAIN configs.teams /\ space # team /\ space \notin DOMAIN configs.teams

AssignSpace(q, team, space) ==
    /\ rights[q].admin
    /\ MayHaveSpace(team, space) /\ space \notin upstream
    /\ Save(q, [configs EXCEPT !.teams[team].extra = @ \cup {space}])

UnassignSpace(q, team, space) ==
    /\ rights[q].admin
    /\ MayHaveSpace(team, space) /\ space \in configs.teams[team].extra
    /\ Save(q, [configs EXCEPT !.teams[team].extra = @ \ {space}])

\* manageAccessTokenPage: a token is created (or rotated), or the last one of
\* its role is revoked.
MayHandToken(p, team) == MayEdit(p, team, team) /\ team \in DOMAIN configs.teams

CreateTeamToken(q, team, role) ==
    /\ MayHandToken(rights[q], team)
    /\ Save(q, [configs EXCEPT !.teams[team].tokens = @ \cup {role}])

RevokeTeamToken(q, team, role) ==
    /\ MayHandToken(rights[q], team) /\ role \in configs.teams[team].tokens
    /\ Save(q, [configs EXCEPT !.teams[team].tokens = @ \ {role}])
-------------------------------------------------------------------------------
(* Releases: a space stands for a module in it with one release *)

Write(q, space, bytes) ==
    /\ content' = [content EXCEPT ![space] = bytes]
    /\ Changes(q)
    /\ UNCHANGED <<configs, upstream>>

Publish(q, space) ==
    CanPublishOwner(rights[q], space) /\ content[space] = 0 /\ Write(q, space, 1)

\* replace=true of the form, whose archive has other bytes
ReplaceRelease(q, space) ==
    /\ CanPublishOwner(rights[q], space) /\ CanDeleteOwner(rights[q], space)
    /\ content[space] # 0 /\ Write(q, space, 3 - content[space])

\* A release, or a module; only global administrators may force the latter.
DeleteRelease(q, space) ==
    CanDeleteOwner(rights[q], space) /\ content[space] # 0 /\ Write(q, space, 0)

ImportUpstream(q, space) ==
    /\ rights[q].admin /\ space \notin upstream
    /\ upstream' = upstream \cup {space}
    /\ Changes(q)
    /\ UNCHANGED <<configs, content>>

PolicyNext == \E q \in Authors :
    \/ Judge(q) \/ Refuse(q)
    \/ \E team \in Teams, publishers, managers \in Forms :
          \E original \in Teams \cup {NoTeam, GlobalAdminTeam} : SaveTeam(q, original, team, publishers, managers)
    \/ \E team \in Teams \cup {GlobalAdminTeam} : DeleteTeam(q, team)
    \/ \E admins \in Forms : SaveGlobalAdmins(q, admins)
    \/ \E team \in Teams, space \in Spaces : AssignSpace(q, team, space) \/ UnassignSpace(q, team, space)
    \/ \E team \in Teams, role \in Roles : CreateTeamToken(q, team, role) \/ RevokeTeamToken(q, team, role)
    \/ \E space \in Spaces :
          Publish(q, space) \/ ReplaceRelease(q, space) \/ DeleteRelease(q, space) \/ ImportUpstream(q, space)

PolicySpec == PolicyInit /\ [][PolicyNext]_policyVars
-------------------------------------------------------------------------------
PolicyTypeOK ==
    /\ AreConfigs(configs) /\ upstream \subseteq Spaces
    /\ content \in [Spaces -> 0..2] /\ changes \in 0..MaxChanges

\* What a person may do with the configuration, and what a team's token may.
Reach(cs, claims) == LET p == Person(cs, claims) IN
    (IF p.publish THEN {<<"publish", s>> : s \in p.owners} ELSE {})
    \cup {<<"manage", t>> : t \in p.managed} \cup (IF p.admin THEN {<<"admin">>} ELSE {})
HandedOut(cs) == UNION {{<<t, role>> : role \in cs.teams[t].tokens} : t \in DOMAIN cs.teams}
Within(cs, managed) ==
    (UNION {{<<"publish", s>> : s \in Owners(cs, t)} : t \in managed \cap DOMAIN cs.teams})
    \cup {<<"manage", t>> : t \in managed}
Changed(S, T) == (S \ T) \cup (T \ S)

\* What the change of request q, if it makes one now, does to the rights of others.
StaysWithin(q) ==
    LET own == rights[q].managed IN
    rights[q] # NoPrincipal /\ rights'[q] = NoPrincipal /\ ~rights[q].admin =>
        /\ \A claims \in SUBSET Claims :
              Changed(Reach(configs, claims), Reach(configs', claims))
                  \subseteq Within(configs, own) \cup Within(configs', own)
        /\ UNION {Owners(configs', t) : t \in own \cap DOMAIN configs'.teams}
              \subseteq own \cup UNION {Owners(configs, t) : t \in own \cap DOMAIN configs.teams}
        /\ \A h \in Changed(HandedOut(configs), HandedOut(configs')) : h[1] \in own
        /\ \A s \in Spaces : content[s] \notin {0, content'[s]} => s \in own

\* router_manage_access.go:52: rights are judged before the wait for the lock.
\* Whatever the configuration has become meanwhile, the change of a team
\* administrator gives and takes only rights in the teams he was judged to
\* manage, opens to nobody a space those teams do not have, hands out and
\* revokes only their tokens; and whoever is not a global administrator deletes
\* and replaces only in the spaces of his teams, not in the extra ones.
NobodyReachesBeyond == [][\A q \in Authors : StaysWithin(q)]_policyVars
===============================================================================
