------------------------------- MODULE Members -------------------------------
(***************************************************************************)
(* Identity in the corpus server: a person logs in through OIDC and gets   *)
(* an app_user row and a first role (auth/provision.ts), administrators    *)
(* add, change and remove roles (routes/members.ts).  A session carries    *)
(* the roles its login read, in an encrypted cookie, until it ends.        *)
(* Requests interleave statement by statement and may die.                 *)
(***************************************************************************)
EXTENDS Naturals, FiniteSets

CONSTANTS
    Persons,       \* accounts at the identity provider: an issuer and a subject
    Operator,      \* the person who was made SYSTEM_ADMIN by hand
    EmailOf,       \* the address the provider tells of an account
    Browsers,      \* each has one session and one request in progress
    Organizations, \* SYSTEM and DEFAULT come with the migration
    GrantableRoles,
    NoSession,
    MaxAdminCalls  \* a bound on the requests of administrators

ASSUME MembersAssumption ==
    /\ Operator \in Persons
    /\ {"DEFAULT", "SYSTEM"} \subseteq Organizations
    /\ {"RESEARCHER", "SYSTEM_ADMIN"} \subseteq GrantableRoles
    /\ MaxAdminCalls \in Nat

VARIABLES
    accounts,   \* app_user
    member,     \* organization_member, what is committed of it
    call,       \* the request of a browser: a login, or a change of a role
    session,    \* its cookie
    bare,       \* persons who have no role yet, or whose roles were removed
    adminCalls

membersVars == <<accounts, member, call, session, bare, adminCalls>>

Grants == Organizations \X GrantableRoles
CallSteps == {"none", "asked", "unknown", "created", "known", "deleted"}
NoCall == [step |-> "none", person |-> Operator, old |-> {}, new |-> {}]

MembersTypeOK ==
    /\ accounts \subseteq Persons
    /\ member \in [Persons -> SUBSET Grants]
    /\ \A p \in Persons : member[p] # {} => p \in accounts
    /\ call \in [Browsers -> [step : CallSteps, person : Persons, old : SUBSET Grants, new : SUBSET Grants]]
    /\ session \in [Browsers -> {NoSession} \cup
          [person : accounts, roles : SUBSET GrantableRoles, org : Organizations, bare : BOOLEAN]]
    /\ bare \subseteq accounts

MembersInit ==
    /\ accounts = {Operator}
    /\ member = [p \in Persons |-> IF p = Operator THEN {<<"SYSTEM", "SYSTEM_ADMIN">>} ELSE {}]
    /\ call = [b \in Browsers |-> NoCall]
    /\ session = [b \in Browsers |-> NoSession]
    /\ bare = {}
    /\ adminCalls = 0

GoOn(b, step)    == call' = [call EXCEPT ![b].step = step]
EndCall(b)       == call' = [call EXCEPT ![b] = NoCall]

\* GET /auth/login: verifier, state and nonce go into the session.
Login(b) ==
    /\ call[b] = NoCall
    /\ GoOn(b, "asked")
    /\ UNCHANGED <<accounts, member, session, bare, adminCalls>>

\* GET /auth/callback: the provider names a person, who is looked up.
Callback(b) ==
    /\ call[b].step = "asked"
    /\ \E p \in Persons :
          call' = [call EXCEPT ![b] = [step |-> IF p \in accounts THEN "known" ELSE "unknown",
                                       person |-> p, old |-> {}, new |-> {}]]
    /\ UNCHANGED <<accounts, member, session, bare, adminCalls>>

\* The account and the address are unique: who comes second is told AUTH_FAILED.
CreateUser(b) ==
    /\ call[b].step = "unknown"
    /\ LET p == call[b].person IN
       IF \E q \in accounts : q = p \/ EmailOf[q] = EmailOf[p]
       THEN EndCall(b) /\ UNCHANGED <<accounts, bare>>
       ELSE /\ GoOn(b, "created")
            /\ accounts' = accounts \cup {p}
            /\ bare' = bare \cup {p}
    /\ UNCHANGED <<member, session, adminCalls>>

\* A second statement, outside any transaction; it throws where an administrator
\* has granted that role meanwhile.
GrantDefault(b) ==
    /\ call[b].step = "created"
    /\ LET p == call[b].person IN
       IF <<"DEFAULT", "RESEARCHER">> \in member[p]
       THEN EndCall(b) /\ UNCHANGED <<member, bare>>
       ELSE /\ GoOn(b, "known")
            /\ member' = [member EXCEPT ![p] = @ \cup {<<"DEFAULT", "RESEARCHER">>}]
            /\ bare' = bare \ {p}
    /\ UNCHANGED <<accounts, session, adminCalls>>

\* The roles of all organizations go into the session, with one organization.
OpenSession(b) ==
    /\ call[b].step = "known"
    /\ LET p     == call[b].person
           roles == {g[2] : g \in member[p]}
       IN \E org \in IF "SYSTEM_ADMIN" \in roles THEN {"SYSTEM"}
                     ELSE IF member[p] = {} THEN {"DEFAULT"} ELSE {g[1] : g \in member[p]} :
            session' = [session EXCEPT ![b] =
                [person |-> p, roles |-> roles, org |-> org, bare |-> p \in bare]]
    /\ EndCall(b)
    /\ UNCHANGED <<accounts, member, bare, adminCalls>>

\* GET /auth/logout, or the cookie's maxAge: what the login left there goes too.
CloseSession(b) ==
    /\ call[b].step \in {"none", "asked"}
    /\ session[b] # NoSession \/ call[b] # NoCall
    /\ session' = [session EXCEPT ![b] = NoSession]
    /\ EndCall(b)
    /\ UNCHANGED <<accounts, member, bare, adminCalls>>

\* The provider refuses, a statement throws, or the process dies: what was
\* committed stays, a transaction is rolled back.
EndEarly(b) ==
    /\ call[b] # NoCall
    /\ EndCall(b)
    /\ UNCHANGED <<accounts, member, session, bare, adminCalls>>

-----------------------------------------------------------------------------
\* requireRoles and requireSameOrganization look at the session only.
MayManage(b, org) ==
    /\ session[b] # NoSession
    /\ \/ "SYSTEM_ADMIN" \in session[b].roles
       \/ "ORGANIZATION_ADMIN" \in session[b].roles /\ session[b].org = org

ManageCall(b, org) ==
    /\ call[b] = NoCall /\ MayManage(b, org)
    /\ adminCalls < MaxAdminCalls
    /\ adminCalls' = adminCalls + 1

\* A row that a transaction in progress has deleted.
Locked(p, g) == \E b \in Browsers : call[b].step = "deleted" /\ call[b].person = p /\ g \in call[b].old

\* POST .../members: the person is found by the address.
AddMember(b) ==
    /\ \E p \in accounts, org \in Organizations, role \in GrantableRoles :
        /\ ManageCall(b, org)
        /\ ~Locked(p, <<org, role>>)
        /\ member' = [member EXCEPT ![p] = @ \cup {<<org, role>>}]
        /\ bare' = bare \ {p}
    /\ UNCHANGED <<accounts, call, session>>

\* A bug: the two statements of a change are not in one transaction.
DeleteOldMutant(b) ==
    /\ \E p \in accounts, org \in Organizations, old, new \in GrantableRoles :
        /\ ManageCall(b, org)
        /\ ~Locked(p, <<org, old>>)
        /\ call' = [call EXCEPT ![b] = [step |-> "deleted", person |-> p,
                      old |-> member[p] \cap {<<org, old>>}, new |-> {<<org, new>>}]]
        /\ member' = [member EXCEPT ![p] = @ \ {<<org, old>>}]
    /\ UNCHANGED <<accounts, session, bare>>

\* PATCH .../members/:userId, the first statement of its transaction: nobody else
\* sees it yet.  The old role need not be there.
DeleteOld(b) ==
    /\ \E p \in accounts, org \in Organizations, old, new \in GrantableRoles :
        /\ ManageCall(b, org)
        /\ ~Locked(p, <<org, old>>)
        /\ call' = [call EXCEPT ![b] = [step |-> "deleted", person |-> p,
                      old |-> member[p] \cap {<<org, old>>}, new |-> {<<org, new>>}]]
    /\ UNCHANGED <<accounts, member, session, bare>>

\* The insert waits for a transaction that has deleted such a row (where two wait
\* for each other the database ends one of them, EndEarly), then both are visible.
CommitChange(b) ==
    /\ call[b].step = "deleted"
    /\ \A g \in call[b].new : \A c \in Browsers \ {b} :
          ~(call[c].step = "deleted" /\ call[c].person = call[b].person /\ g \in call[c].old)
    /\ member' = [member EXCEPT ![call[b].person] = (@ \ call[b].old) \cup call[b].new]
    /\ bare' = bare \ {call[b].person}
    /\ EndCall(b)
    /\ UNCHANGED <<accounts, session, adminCalls>>

\* DELETE .../members/:userId: one role, or all of the organization.
RemoveMember(b) ==
    /\ \E p \in accounts, org \in Organizations :
       \E roles \in {{r} : r \in GrantableRoles} \cup {GrantableRoles} :
        LET gone == {<<org, r>> : r \in roles} IN
        /\ ManageCall(b, org)
        /\ \A g \in gone : ~Locked(p, g)
        /\ member' = [member EXCEPT ![p] = @ \ gone]
        /\ bare' = IF member[p] \ gone = {} THEN bare \cup {p} ELSE bare
    /\ UNCHANGED <<accounts, call, session>>

MembersNext ==
    \E b \in Browsers :
        \/ Login(b) \/ Callback(b) \/ CreateUser(b) \/ GrantDefault(b) \/ OpenSession(b)
        \/ CloseSession(b) \/ EndEarly(b)
        \/ AddMember(b) \/ DeleteOld(b) \/ CommitChange(b) \/ RemoveMember(b)

MembersSpec == MembersInit /\ [][MembersNext]_membersVars

-----------------------------------------------------------------------------
\* A login never meets a person between two roles: a session without a role was
\* opened while the person's first login had not finished, or after an
\* administrator removed the last one, and never because a change was under way.
EmptySessionsAreExplained ==
    \A b \in Browsers :
        session[b] # NoSession /\ session[b].roles = {} => session[b].bare
=============================================================================
