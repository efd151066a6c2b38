-------------------------------- MODULE Auth ---------------------------------
(***************************************************************************)
(* Authentication and the resolution of the actor: AuthService (login,     *)
(* dev_login, refresh) and get_current_actor, over the accounts and the    *)
(* memberships of the database. Accounts are changed by an operator,       *)
(* memberships by OrganizationService (see Memberships), at any moment: a  *)
(* request reads the account in one statement and the membership in        *)
(* another.                                                                *)
(*                                                                         *)
(* A token is not stored by the server. Here the tokens are the pairs that *)
(* clients hold, each with its age; a pair too old for either of its       *)
(* tokens is dropped, and stands for any other token that does not decode. *)
(*                                                                         *)
(* The response of a request leaves before its unit of work commits: the   *)
(* exit of get_session runs after the response is sent.                    *)
(***************************************************************************)
EXTENDS Permissions, Settings, Integers, FiniteSets

CONSTANTS
  Users,           \* the accounts
  Organizations,   \* positive numbers: a user's memberships, oldest first
  Sessions,        \* database sessions, one open request each
  Roles,           \* the roles memberships are given
  Statuses,        \* the statuses accounts are given
  Required,        \* the permissions routes require
  Matrix,          \* ROLE_PERMISSIONS, or the same with an editing mistake
  Deployments,     \* the settings operators try to boot with
  ACCESS_TTL,      \* access_token_ttl_minutes
  REFRESH_TTL,     \* refresh_token_ttl_minutes
  MaxPairs         \* bound on the pairs that clients hold at a time

UserStatus == {"invited", "active", "suspended", "disabled"}

ASSUME AuthAssumption ==
  /\ Organizations \subseteq Nat \ {0}
  /\ Roles \subseteq Role
  /\ Statuses \subseteq UserStatus
  /\ Matrix \in [Role -> SUBSET Permission]
  /\ Deployments \subseteq Settings
  /\ ACCESS_TTL \in Nat \ {0}
  /\ REFRESH_TTL \in Nat \ {0}
  /\ MaxPairs \in Nat

NoUser == "no user"
NoOrg  == 0
NoRole == "no role"

VARIABLES
  settings,    \* the settings the process booted with
  account,     \* users.status
  password,    \* users.password_hash: none, outdated parameters, or current
  member,      \* the role of each live membership
  tokens,      \* the token pairs clients hold
  opened,      \* how long ago each user last opened a session
  answers,     \* the response the last step sent, if any
  pc,          \* the statement each session runs next
  user,        \* the account each request is about
  org,         \* the organization it asked for, then the one it got
  role,        \* the role of the membership it loaded
  dev,         \* history: the chain of tokens began with dev-login
  need,        \* the permission its route requires
  upgrade,     \* whether the login rehashes the password
  entries,     \* the audit row it has inserted: what and where
  kept,        \* the audit row it has committed
  held,        \* history: memberships the user had since the request arrived
  was_active   \* history: the account was active since the request arrived

world   == <<settings, account, password, member>>
request == <<user, org, role, dev, need, upgrade, entries, kept, held, was_active>>
vars    == <<settings, account, password, member, tokens, opened, answers, pc,
             user, org, role, dev, need, upgrade, entries, kept, held, was_active>>

Never == IF ACCESS_TTL > REFRESH_TTL THEN ACCESS_TTL ELSE REFRESH_TTL

Pair == [user: Users, org: Organizations, age: 0..Never, dev: BOOLEAN]

TokenType == {"access", "refresh"}

Entry == {"opened", "failed"} \X Organizations

-----------------------------------------------------------------------------
\* can_authenticate
CanAuthenticate(status) == status = "active"

\* The live memberships of a user, as pairs of organization and role.
Live(u) == {m \in Organizations \X Roles : member[u][m[1]] = m[2]}

\* list_active_for_user()[0]
Oldest(u) ==
  CHOOSE o \in Organizations :
    /\ member[u][o] # NoRole
    /\ \A p \in Organizations : member[u][p] # NoRole => o <= p

Ttl(typ) == IF typ = "access" THEN ACCESS_TTL ELSE REFRESH_TTL

\* Fault: the typ claim is not compared.
Decodes_AnyType(p, typ, expected) == p.age < Ttl(typ)

\* decode_token on the token of type typ of a pair.
Decodes(p, typ, expected) == p.age < Ttl(typ) /\ typ = expected

Init ==
  /\ settings \in {s \in Deployments : Boots(s)}
  /\ account \in [Users -> Statuses]
  /\ password \in [Users -> {"none", "outdated", "current"}]
  /\ member \in [Users -> [Organizations -> Roles \cup {NoRole}]]
  /\ tokens = {}
  /\ opened = [u \in Users |-> Never]
  /\ answers = {}
  /\ pc = [t \in Sessions |-> "idle"]
  /\ user = [t \in Sessions |-> NoUser]
  /\ org = [t \in Sessions |-> NoOrg]
  /\ role = [t \in Sessions |-> NoRole]
  /\ dev = [t \in Sessions |-> FALSE]
  /\ need = [t \in Sessions |-> "none"]
  /\ upgrade = [t \in Sessions |-> FALSE]
  /\ entries = [t \in Sessions |-> {}]
  /\ kept = [t \in Sessions |-> {}]
  /\ held = [t \in Sessions |-> {}]
  /\ was_active = [t \in Sessions |-> FALSE]

At(t, label) == pc[t] = label

Goto(t, label) == pc' = [pc EXCEPT ![t] = label]

Silent == answers' = {}

Say(t, code) == answers' = {[to |-> t, about |-> user[t], code |-> code]}

\* The end of the unit of work.
Close(t) ==
  /\ Goto(t, "idle")
  /\ user' = [user EXCEPT ![t] = NoUser]
  /\ org' = [org EXCEPT ![t] = NoOrg]
  /\ role' = [role EXCEPT ![t] = NoRole]
  /\ dev' = [dev EXCEPT ![t] = FALSE]
  /\ need' = [need EXCEPT ![t] = "none"]
  /\ upgrade' = [upgrade EXCEPT ![t] = FALSE]
  /\ entries' = [entries EXCEPT ![t] = {}]
  /\ kept' = [kept EXCEPT ![t] = {}]
  /\ held' = [held EXCEPT ![t] = {}]
  /\ was_active' = [was_active EXCEPT ![t] = FALSE]

\* An exception the handlers turn into a response: the transaction rolls back.
Refuse(t, code) ==
  /\ Close(t)
  /\ Say(t, code)
  /\ UNCHANGED <<world, tokens, opened>>

\* A request about user u arrives; the first statement loads the account.
Arrive(t, u, o) ==
  /\ At(t, "idle")
  /\ user' = [user EXCEPT ![t] = u]
  /\ org' = [org EXCEPT ![t] = o]
  /\ held' = [held EXCEPT ![t] = Live(u)]
  /\ was_active' = [was_active EXCEPT ![t] = CanAuthenticate(account[u])]
  /\ Silent
  /\ UNCHANGED <<world, tokens, opened, role, entries, kept>>

-----------------------------------------------------------------------------
(* AuthService.login *)

\* verify_password: a user without a hash never passes.
VerifyPassword(u, correct) == correct /\ password[u] # "none"

\* Fault: the rehash comes before the account's status is looked at.
Rehash_BeforeStatus(u, correct) ==
  VerifyPassword(u, correct) /\ password[u] = "outdated"

\* needs_rehash, reached only by an active user with the right password.
Rehash(u, correct) ==
  /\ VerifyPassword(u, correct)
  /\ CanAuthenticate(account[u])
  /\ password[u] = "outdated"

\* get_by_email, then the checks on what it returned.
Login(t, u, correct) ==
  /\ Arrive(t, u, NoOrg)
  /\ upgrade' = [upgrade EXCEPT ![t] = Rehash(u, correct)]
  /\ Goto(t, IF VerifyPassword(u, correct) /\ CanAuthenticate(account[u])
               THEN "resolve" ELSE "failed")
  /\ UNCHANGED <<dev, need>>

\* An unknown address has no organization to file the attempt under.
LoginUnknown(t) ==
  /\ At(t, "idle")
  /\ Refuse(t, "unauthorized")

\* _record_failed_login: nothing to file under.
FailUnfiled(t) ==
  /\ At(t, "failed")
  /\ Live(user[t]) = {}
  /\ Refuse(t, "unauthorized")

\* _record_failed_login: the row is inserted.
FileFailure(t) ==
  /\ At(t, "failed")
  /\ Live(user[t]) # {}
  /\ entries' = [entries EXCEPT ![t] = {<<"failed", Oldest(user[t])>>}]
  /\ Goto(t, "keep")
  /\ Silent
  /\ UNCHANGED <<world, tokens, opened, user, org, role, dev, need, upgrade,
                 kept, held, was_active>>

\* What a commit of the session writes to its user.
Written(t) == IF upgrade[t] THEN [password EXCEPT ![user[t]] = "current"]
                            ELSE password

\* Fault: the row is left to the commit of the unit of work.
Saved_Later(t) == kept[t]

\* Fault: the row is filed under no organization.
Saved_Unfiled(t) == {<<"failed", NoOrg>>}

\* session.commit() in the middle of the request.
Saved(t) == entries[t]

KeepFailure(t) ==
  /\ At(t, "keep")
  /\ kept' = [kept EXCEPT ![t] = Saved(t)]
  /\ entries' = [entries EXCEPT ![t] = {}]
  /\ password' = Written(t)
  /\ Goto(t, "refuse")
  /\ Silent
  /\ UNCHANGED <<settings, account, member, tokens, opened, user, org, role,
                 dev, need, upgrade, held, was_active>>

\* The exception rolls back a transaction with nothing in it.
FailLogin(t) ==
  /\ At(t, "refuse")
  /\ Refuse(t, "unauthorized")

-----------------------------------------------------------------------------
(* AuthService.dev_login and refresh *)

DevLogin(t, u, o) ==
  /\ "dev-login" \in AuthRoutes(settings)
  /\ dev_auth_active(settings)
  /\ CanAuthenticate(account[u])
  /\ Arrive(t, u, o)
  /\ dev' = [dev EXCEPT ![t] = TRUE]
  /\ Goto(t, "resolve")
  /\ UNCHANGED <<need, upgrade>>

Refresh(t, p, typ) ==
  /\ Decodes(p, typ, "refresh")
  /\ CanAuthenticate(account[p.user])
  /\ Arrive(t, p.user, p.org)
  /\ dev' = [dev EXCEPT ![t] = p.dev]
  /\ Goto(t, "resolve")
  /\ UNCHANGED <<need, upgrade>>

\* The token does not decode, or the account is not active.
RefuseToken(t) ==
  /\ At(t, "idle")
  /\ Refuse(t, "unauthorized")

-----------------------------------------------------------------------------
(* _establish_session *)

\* _resolve_membership: the organization asked for, or the oldest.
Resolved(t) == IF org[t] = NoOrg THEN Oldest(user[t]) ELSE org[t]

HasMembership(t) ==
  IF org[t] = NoOrg THEN Live(user[t]) # {} ELSE member[user[t]][org[t]] # NoRole

Resolve(t) ==
  /\ At(t, "resolve")
  /\ HasMembership(t)
  /\ org' = [org EXCEPT ![t] = Resolved(t)]
  /\ role' = [role EXCEPT ![t] = member[user[t]][Resolved(t)]]
  /\ entries' = [entries EXCEPT ![t] = {<<"opened", Resolved(t)>>}]
  /\ Goto(t, "issue")
  /\ Silent
  /\ UNCHANGED <<world, tokens, opened, user, dev, need, upgrade, kept, held,
                 was_active>>

RefuseMembership(t) ==
  /\ At(t, "resolve") \/ At(t, "membership")
  /\ ~HasMembership(t)
  /\ Refuse(t, "not_a_member")

\* issue_tokens, and the response; MaxPairs bounds the pairs in use.
Issue(t) ==
  /\ At(t, "issue")
  /\ Cardinality(tokens) < MaxPairs
  /\ tokens' = tokens \cup
       {[user |-> user[t], org |-> org[t], age |-> 0, dev |-> dev[t]]}
  /\ opened' = [opened EXCEPT ![user[t]] = 0]
  /\ Say(t, "tokens")
  /\ Goto(t, "commit")
  /\ UNCHANGED <<world, request>>

Commit(t) ==
  /\ At(t, "commit")
  /\ password' = Written(t)
  /\ Close(t)
  /\ Silent
  /\ UNCHANGED <<settings, account, member, tokens, opened>>

-----------------------------------------------------------------------------
(* get_current_actor, and the permission check of the route *)

\* The header chooses the organization, else the claim does: issue_tokens
\* puts one in every token.
Call(t, p, typ, header, permission) ==
  /\ Decodes(p, typ, "access")
  /\ Arrive(t, p.user, IF header = NoOrg THEN p.org ELSE header)
  /\ need' = [need EXCEPT ![t] = permission]
  /\ Goto(t, IF CanAuthenticate(account[p.user]) THEN "membership" ELSE "inactive")
  /\ UNCHANGED <<dev, upgrade>>

RefuseInactive(t) ==
  /\ At(t, "inactive")
  /\ Refuse(t, "account_inactive")

\* Fault: a revoked membership still counts, with the role it had.
RoleIn_Revoked(t) ==
  IF member[user[t]][org[t]] # NoRole THEN member[user[t]][org[t]]
  ELSE CHOOSE r \in Roles : TRUE

\* The role of the membership that get_active returned.
RoleIn(t) == member[user[t]][org[t]]

\* get_active, the actor, require_permission.
LoadMembership(t) ==
  LET actor == for_membership(RoleIn(t)) IN
  /\ At(t, "membership")
  /\ RoleIn(t) # NoRole
  /\ has_permission(Matrix, actor, need[t])
  /\ role' = [role EXCEPT ![t] = RoleIn(t)]
  /\ Goto(t, "act")
  /\ Silent
  /\ UNCHANGED <<world, tokens, opened, user, org, dev, need, upgrade, entries,
                 kept, held, was_active>>

RefusePermission(t) ==
  /\ At(t, "membership")
  /\ RoleIn(t) # NoRole
  /\ ~has_permission(Matrix, for_membership(RoleIn(t)), need[t])
  /\ Refuse(t, "permission_denied")

\* The handler and its commit, which the other modules describe.
Act(t) ==
  /\ At(t, "act")
  /\ Refuse(t, "done")

-----------------------------------------------------------------------------
\* Any exception, a lost connection, a crash of the process.
Rollback(t) ==
  /\ ~At(t, "idle")
  /\ Close(t)
  /\ Silent
  /\ UNCHANGED <<world, tokens, opened>>

\* The histories follow what happens to the user of a running request.
Noted(u, memberships, active) ==
  /\ held' = [t \in Sessions |->
       IF user[t] = u THEN held[t] \cup memberships ELSE held[t]]
  /\ was_active' = [t \in Sessions |->
       IF user[t] = u THEN was_active[t] \/ active ELSE was_active[t]]

\* OrganizationService commits a grant, a change of role or a revocation.
SetMembership(u, o, r) ==
  /\ member[u][o] # r
  /\ member' = [member EXCEPT ![u] = [member[u] EXCEPT ![o] = r]]
  /\ Noted(u, IF r = NoRole THEN {} ELSE {<<o, r>>}, FALSE)
  /\ Silent
  /\ UNCHANGED <<settings, account, password, tokens, opened, pc, user, org,
                 role, dev, need, upgrade, entries, kept>>

\* An operator changes the status of an account.
SetStatus(u, status) ==
  /\ account[u] # status
  /\ account' = [account EXCEPT ![u] = status]
  /\ Noted(u, {}, CanAuthenticate(status))
  /\ Silent
  /\ UNCHANGED <<settings, password, member, tokens, opened, pc, user, org,
                 role, dev, need, upgrade, entries, kept>>

\* A unit of time passes.
Tick ==
  /\ tokens' = {[p EXCEPT !.age = p.age + 1] : p \in {q \in tokens : q.age + 1 < Never}}
  /\ opened' = [u \in Users |-> IF opened[u] < Never THEN opened[u] + 1 ELSE Never]
  /\ Silent
  /\ UNCHANGED <<world, pc, request>>

-----------------------------------------------------------------------------
Statement(t) ==
  \/ FailUnfiled(t)
  \/ FileFailure(t)
  \/ KeepFailure(t)
  \/ FailLogin(t)
  \/ Resolve(t)
  \/ RefuseMembership(t)
  \/ Issue(t)
  \/ Commit(t)
  \/ RefuseInactive(t)
  \/ LoadMembership(t)
  \/ RefusePermission(t)
  \/ Act(t)
  \/ Rollback(t)

Arrival(t) ==
  \/ LoginUnknown(t)
  \/ RefuseToken(t)
  \/ \E u \in Users :
       \/ \E correct \in BOOLEAN : Login(t, u, correct)
       \/ \E o \in Organizations \cup {NoOrg} : DevLogin(t, u, o)
  \/ \E p \in tokens, typ \in TokenType :
       \/ Refresh(t, p, typ)
       \/ \E o \in Organizations \cup {NoOrg}, permission \in Required :
            Call(t, p, typ, o, permission)

Next ==
  \/ \E t \in Sessions : Statement(t) \/ Arrival(t)
  \/ \E u \in Users :
       \/ \E o \in Organizations, r \in Roles \cup {NoRole} : SetMembership(u, o, r)
       \/ \E status \in Statuses : SetStatus(u, status)
  \/ Tick

Spec == Init /\ [][Next]_vars

-----------------------------------------------------------------------------
(* Properties *)

\* Every variable stays in its set.
TypeOK ==
  /\ settings \in Settings
  /\ account \in [Users -> UserStatus]
  /\ password \in [Users -> {"none", "outdated", "current"}]
  /\ member \in [Users -> [Organizations -> Roles \cup {NoRole}]]
  /\ tokens \subseteq Pair
  /\ opened \in [Users -> 0..Never]
  /\ pc \in [Sessions -> {"idle", "failed", "keep", "refuse", "resolve", "issue",
                          "commit", "inactive", "membership", "act"}]
  /\ user \in [Sessions -> Users \cup {NoUser}]
  /\ org \in [Sessions -> Organizations \cup {NoOrg}]
  /\ role \in [Sessions -> Roles \cup {NoRole}]
  /\ dev \in [Sessions -> BOOLEAN]
  /\ need \in [Sessions -> Required \cup {"none"}]
  /\ upgrade \in [Sessions -> BOOLEAN]
  /\ entries \in [Sessions -> SUBSET Entry]
  /\ kept \in [Sessions -> SUBSET Entry]
  /\ held \in [Sessions -> SUBSET (Organizations \X Roles)]
  /\ was_active \in [Sessions -> BOOLEAN]

\* A login that fails for somebody with an organization to file it under is on
\* record when its 401 goes out, although the request then rolls back.
FailuresAreKept ==
  [][\A a \in answers' :
       a.code = "unauthorized" /\ a.about # NoUser
       => \/ \E o \in Organizations : <<"failed", o>> \in kept[a.to]
          \/ Live(a.about) = {}]_answers

\* The commit in the middle of a failing login keeps its audit row and nothing
\* else the session had pending.
OnlyTheFailureIsKept ==
  [][(\E t \in Sessions : kept'[t] \ kept[t] # {}) =>
       UNCHANGED <<password, tokens>>]_kept

\* A request gets past its token only within ACCESS_TTL of a login or a
\* refresh of its user, whichever of its tokens the client sends.
AccessIsFresh ==
  [][\A t \in Sessions :
       At(t, "idle") /\ pc'[t] \in {"membership", "inactive"} =>
         opened[user'[t]] < ACCESS_TTL]_pc

\* Whoever acts, or is given tokens, has been active, with that role in that
\* organization, at some moment since the request arrived: a suspension or a
\* revocation holds from the next request on, whatever the token says.
RightsAreCurrent ==
  \A t \in Sessions : pc[t] \in {"issue", "act"} =>
    was_active[t] /\ <<org[t], role[t]>> \in held[t]

\* Every chain of tokens begins with a password, unless the process runs in
\* development with the stub enabled; a deployment signs with its own key.
TokensAreEarned ==
  \A p \in tokens :
    /\ p.dev => settings.environment = "development" /\ settings.dev_auth_enabled
    /\ settings.environment \in {"staging", "production"} =>
         settings.secret_key = "proper"

\* A request of an agent never gets to do what agents must not, even with a
\* mistake in the matrix.
AgentIsFenced ==
  \A t \in Sessions : At(t, "act") /\ role[t] = "agent" =>
    need[t] \notin AGENT_FORBIDDEN_PERMISSIONS
=============================================================================
