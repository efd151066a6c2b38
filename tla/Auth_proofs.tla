----------------------------- MODULE Auth_proofs -----------------------------
(***************************************************************************)
(* Proofs about Auth, for any sets of users, organizations and sessions,   *)
(* any matrix, any settings a process may be started with and any          *)
(* lifetimes of the tokens.                                                *)
(***************************************************************************)
EXTENDS Auth, WellFoundedInduction, TLAPS

-----------------------------------------------------------------------------
(* The matrix *)

\* permissions_for_role and role_has_permission are one decision, taken for a
\* whole role or for one permission, whatever the table says.
THEOREM PermissionsAgree ==
  ASSUME NEW matrix \in [Role -> SUBSET Permission], NEW r \in Role,
         NEW permission
  PROVE  permission \in permissions_for_role(matrix, r)
           <=> role_has_permission(matrix, r, permission)
BY DEF permissions_for_role, role_has_permission

\* No table gives the agent role a permission behind the fence.
THEOREM FenceHolds ==
  ASSUME NEW matrix \in [Role -> SUBSET Permission]
  PROVE  permissions_for_role(matrix, "agent") \cap AGENT_FORBIDDEN_PERMISSIONS = {}
BY DEF permissions_for_role

-----------------------------------------------------------------------------
(* The inductive invariant *)

\* What a session knows about the user and the organization of its request.
Admitted(t) ==
  /\ pc[t] = "idle" => user[t] = NoUser
  /\ pc[t] # "idle" => user[t] \in Users /\ Live(user[t]) \subseteq held[t]
  /\ pc[t] \in {"membership", "issue", "commit", "act"} => org[t] \in Organizations
  /\ pc[t] \in {"resolve", "membership", "issue", "act"} => was_active[t]
  /\ pc[t] \in {"issue", "act"} => <<org[t], role[t]>> \in held[t]
  /\ pc[t] = "act" => has_permission(Matrix, for_membership(role[t]), need[t])

\* What a failing login has pending, and what it has saved.
Failing(t) ==
  /\ pc[t] \in {"failed", "keep", "refuse"} => ~upgrade[t]
  /\ pc[t] = "keep" => \E o \in Organizations : entries[t] = {<<"failed", o>>}
  /\ pc[t] = "refuse" => \E o \in Organizations : <<"failed", o>> \in kept[t]

\* A chain of tokens that began with dev-login exists only where it may.
Earned ==
  /\ Boots(settings)
  /\ \A t \in Sessions : dev[t] => dev_auth_active(settings)
  /\ \A p \in tokens : p.dev => dev_auth_active(settings)

\* No pair is younger than the last session its user opened.
Dated == \A p \in tokens : opened[p.user] <= p.age

IInv ==
  /\ TypeOK
  /\ \A t \in Sessions : Admitted(t) /\ Failing(t)
  /\ Earned
  /\ Dated

-----------------------------------------------------------------------------
(* Lemmas about the operators *)

\* A set of organizations has an oldest one.
LEMMA OldestExists ==
  ASSUME NEW T \in SUBSET Nat, T # {}
  PROVE  \E x \in T : \A y \in T : x <= y
<1>1. PICK x \in T : \A y \in T : ~(<<y, x>> \in OpToRel(<, Nat))
  BY NatLessThanWellFounded, WFMin
<1>2. \A y \in T : ~(y < x)
  BY <1>1 DEF OpToRel
<1> QED
  BY <1>2

\* The lifetimes bound the ages of the tokens.
LEMMA NeverIsLate ==
  /\ Never \in Nat \ {0}
  /\ \A typ \in TokenType : Ttl(typ) <= Never /\ Ttl(typ) \in Nat
BY AuthAssumption DEF Never, TokenType, Ttl

\* A live membership is a pair that the user holds now.
LEMMA LivePairs ==
  ASSUME TypeOK, NEW u \in Users
  PROVE  /\ \A o \in Organizations : member[u][o] # NoRole => <<o, member[u][o]>> \in Live(u)
         /\ \A m \in Live(u) : m[1] \in Organizations /\ member[u][m[1]] = m[2]
BY DEF Live, TypeOK

\* list_active_for_user()[0] is a live membership, if there is one.
LEMMA OldestIsLive ==
  ASSUME TypeOK, NEW u \in Users, Live(u) # {}
  PROVE  Oldest(u) \in Organizations /\ member[u][Oldest(u)] # NoRole
<1> DEFINE T == {o \in Organizations : member[u][o] # NoRole}
<1>1. T # {}
  <2>1. PICK m \in Live(u) : TRUE
    OBVIOUS
  <2>2. m \in Organizations \X Roles /\ member[u][m[1]] = m[2]
    BY <2>1 DEF Live
  <2>3. m[2] \in Role
    BY <2>2, AuthAssumption
  <2>4. m[2] # NoRole
    BY <2>3 DEF Role, NoRole
  <2> QED
    BY <2>2, <2>4
<1>2. T \in SUBSET Nat
  BY AuthAssumption
<1>3. \E o \in T : \A p \in T : o <= p
  BY <1>1, <1>2, OldestExists
<1>4. \E o \in Organizations :
        /\ member[u][o] # NoRole
        /\ \A p \in Organizations : member[u][p] # NoRole => o <= p
  BY <1>3
<1> QED
  BY <1>4 DEF Oldest

\* _resolve_membership finds a live membership of the user, if it finds any.
LEMMA ResolvedIsLive ==
  ASSUME TypeOK, NEW t \in Sessions, user[t] \in Users, HasMembership(t)
  PROVE  /\ Resolved(t) \in Organizations
         /\ member[user[t]][Resolved(t)] \in Roles
         /\ <<Resolved(t), member[user[t]][Resolved(t)]>> \in Live(user[t])
<1>1. Resolved(t) \in Organizations /\ member[user[t]][Resolved(t)] # NoRole
  <2>1. CASE org[t] = NoOrg
    BY <2>1, OldestIsLive DEF HasMembership, Resolved
  <2>2. CASE org[t] # NoOrg
    BY <2>2 DEF HasMembership, Resolved, TypeOK
  <2> QED
    BY <2>1, <2>2
<1> QED
  BY <1>1, LivePairs DEF TypeOK

-----------------------------------------------------------------------------
(* The invariant is inductive *)

\* A process that has booted with idle sessions and no tokens satisfies it.
LEMMA InitEstablishes == Init => IInv
<1> SUFFICES ASSUME Init PROVE IInv
  OBVIOUS
<1>1. TypeOK
  BY NeverIsLate, AuthAssumption DEF Init, TypeOK
<1>2. \A t \in Sessions : Admitted(t) /\ Failing(t)
  BY DEF Init, Admitted, Failing
<1>3. Earned /\ Dated
  BY DEF Init, Earned, Dated
<1> QED
  BY <1>1, <1>2, <1>3 DEF IInv

\* A step of one session that changes nothing in the world around it owes the
\* invariant its own work only.
LEMMA SessionStep ==
  ASSUME IInv, NEW t \in Sessions, UNCHANGED <<settings, member>>,
         \A u \in Sessions \ {t} :
            /\ pc'[u] = pc[u] /\ user'[u] = user[u] /\ org'[u] = org[u]
            /\ role'[u] = role[u] /\ dev'[u] = dev[u] /\ need'[u] = need[u]
            /\ upgrade'[u] = upgrade[u] /\ entries'[u] = entries[u]
            /\ kept'[u] = kept[u] /\ held'[u] = held[u]
            /\ was_active'[u] = was_active[u],
         TypeOK', Admitted(t)', Failing(t)', Earned', Dated'
  PROVE  IInv'
<1> SUFFICES ASSUME NEW u \in Sessions, u # t
             PROVE  Admitted(u)' /\ Failing(u)'
  BY DEF IInv
<1>1. Admitted(u) /\ Failing(u)
  BY DEF IInv
<1>2. Admitted(u)'
  BY <1>1 DEF Admitted, Live, has_permission, permissions, for_membership
<1>3. Failing(u)'
  BY <1>1 DEF Failing
<1> QED
  BY <1>2, <1>3

\* The end of a request forgets it.
LEMMA CloseStep ==
  ASSUME IInv, NEW t \in Sessions, Close(t),
         UNCHANGED <<settings, account, member, tokens, opened>>,
         password' \in [Users -> {"none", "outdated", "current"}]
  PROVE  IInv'
<1> USE DEF Goto
<1>1. TypeOK'
  BY DEF IInv, TypeOK, Close
<1>2. Admitted(t)' /\ Failing(t)'
  BY DEF IInv, TypeOK, Close, Admitted, Failing
<1>3. Earned'
  BY DEF IInv, TypeOK, Close, Earned
<1>4. Dated'
  BY DEF IInv, Dated
<1> QED
  BY <1>1, <1>2, <1>3, <1>4, SessionStep DEF IInv, TypeOK, Close

\* A refusal ends the request, as a rollback does.
LEMMA RefuseStep ==
  ASSUME IInv, NEW t \in Sessions, NEW c, Refuse(t, c) \/ Rollback(t)
  PROVE  IInv'
BY CloseStep DEF Refuse, Rollback, world, IInv, TypeOK

\* The commit writes the password hash that the login has upgraded.
LEMMA CommitStep ==
  ASSUME IInv, NEW t \in Sessions, Commit(t)
  PROVE  IInv'
<1>1. password' \in [Users -> {"none", "outdated", "current"}]
  BY DEF Commit, Written, IInv, TypeOK
<1> QED
  BY <1>1, CloseStep DEF Commit

\* The arrival of a request notes what its user is and has at that moment.
LEMMA ArriveStep ==
  ASSUME IInv, NEW t \in Sessions, NEW u \in Users,
         NEW o \in Organizations \cup {NoOrg}, Arrive(t, u, o),
         NEW l \in {"resolve", "failed", "membership", "inactive"}, Goto(t, l),
         NEW d \in BOOLEAN, dev' = [dev EXCEPT ![t] = d],
         NEW g \in BOOLEAN, upgrade' = [upgrade EXCEPT ![t] = g],
         NEW n \in Required \cup {"none"}, need' = [need EXCEPT ![t] = n],
         d => dev_auth_active(settings),
         l = "failed" => g = FALSE,
         l = "membership" => o \in Organizations,
         l \in {"resolve", "membership"} => CanAuthenticate(account[u])
  PROVE  IInv'
<1> USE DEF Goto
<1>0. Live(u) \in SUBSET (Organizations \X Roles)
  BY DEF Live
<1>1. TypeOK'
  BY <1>0 DEF IInv, TypeOK, Arrive, world, CanAuthenticate
<1>2. Admitted(t)'
  <2>1. /\ pc'[t] = l /\ user'[t] = u /\ org'[t] = o /\ held'[t] = Live(u)
        /\ was_active'[t] = CanAuthenticate(account[u]) /\ member' = member
    BY DEF IInv, TypeOK, Arrive, world
  <2>2. Live(u)' = Live(u)
    BY <2>1 DEF Live
  <2> QED
    BY <2>1, <2>2 DEF Admitted, Live
<1>3. Failing(t)'
  BY DEF IInv, TypeOK, Arrive, Failing
<1>4. Earned' /\ Dated'
  BY DEF IInv, TypeOK, Arrive, world, Earned, Dated
<1> QED
  BY <1>1, <1>2, <1>3, <1>4, SessionStep DEF IInv, TypeOK, Arrive, world

\* The first statement of login, dev_login, refresh and get_current_actor.
LEMMA ArrivalStep ==
  ASSUME IInv, NEW t \in Sessions, Arrival(t)
  PROVE  IInv'
<1>0. /\ dev = [dev EXCEPT ![t] = dev[t]] /\ dev[t] \in BOOLEAN
      /\ need = [need EXCEPT ![t] = need[t]] /\ need[t] \in Required \cup {"none"}
      /\ upgrade = [upgrade EXCEPT ![t] = upgrade[t]] /\ upgrade[t] \in BOOLEAN
      /\ dev[t] => dev_auth_active(settings)
  BY DEF IInv, TypeOK, Earned
<1>1. ASSUME NEW u \in Users, NEW correct \in BOOLEAN, Login(t, u, correct)
      PROVE  IInv'
  <2>1. PICK g \in BOOLEAN : g = Rehash(u, correct)
    BY DEF Rehash
  <2>2. PICK l \in {"resolve", "failed"} :
          l = IF VerifyPassword(u, correct) /\ CanAuthenticate(account[u])
                THEN "resolve" ELSE "failed"
    OBVIOUS
  <2>3. (l = "failed" => g = FALSE) /\ (l = "resolve" => CanAuthenticate(account[u]))
    BY <2>1, <2>2 DEF Rehash
  <2>4. /\ Arrive(t, u, NoOrg) /\ Goto(t, l)
        /\ upgrade' = [upgrade EXCEPT ![t] = g]
        /\ dev' = [dev EXCEPT ![t] = dev[t]]
        /\ need' = [need EXCEPT ![t] = need[t]]
    BY <1>0, <1>1, <2>1, <2>2 DEF Login
  <2>5. CASE l = "failed"
    <3>1. /\ Arrive(t, u, NoOrg) /\ Goto(t, "failed")
          /\ upgrade' = [upgrade EXCEPT ![t] = FALSE]
          /\ dev' = [dev EXCEPT ![t] = dev[t]]
          /\ need' = [need EXCEPT ![t] = need[t]]
      BY <2>3, <2>4, <2>5
    <3> QED
      BY <1>0, <3>1, ArriveStep
  <2>6. CASE l = "resolve"
    <3>1. /\ Arrive(t, u, NoOrg) /\ Goto(t, "resolve")
          /\ upgrade' = [upgrade EXCEPT ![t] = g]
          /\ dev' = [dev EXCEPT ![t] = dev[t]]
          /\ need' = [need EXCEPT ![t] = need[t]]
          /\ CanAuthenticate(account[u])
      BY <2>3, <2>4, <2>6
    <3> QED
      BY <1>0, <3>1, ArriveStep
  <2> QED
    BY <2>5, <2>6
<1>2. ASSUME NEW u \in Users, NEW o \in Organizations \cup {NoOrg}, DevLogin(t, u, o)
      PROVE  IInv'
  BY <1>0, <1>2, ArriveStep DEF DevLogin
<1>3. ASSUME NEW p \in tokens, NEW typ \in TokenType, Refresh(t, p, typ)
      PROVE  IInv'
  <2>1. p.user \in Users /\ p.org \in Organizations /\ p.dev \in BOOLEAN
    BY DEF IInv, TypeOK, Pair
  <2>2. p.dev => dev_auth_active(settings)
    BY DEF IInv, Earned
  <2>3. /\ Arrive(t, p.user, p.org) /\ Goto(t, "resolve")
        /\ dev' = [dev EXCEPT ![t] = p.dev]
        /\ need' = [need EXCEPT ![t] = need[t]]
        /\ upgrade' = [upgrade EXCEPT ![t] = upgrade[t]]
        /\ CanAuthenticate(account[p.user])
    BY <1>0, <1>3 DEF Refresh
  <2> QED
    BY <1>0, <2>1, <2>2, <2>3, ArriveStep
<1>4. ASSUME NEW p \in tokens, NEW typ \in TokenType,
             NEW o \in Organizations \cup {NoOrg}, NEW permission \in Required,
             Call(t, p, typ, o, permission)
      PROVE  IInv'
  <2>1. p.user \in Users /\ p.org \in Organizations
    BY DEF IInv, TypeOK, Pair
  <2>2. PICK asked \in Organizations : asked = IF o = NoOrg THEN p.org ELSE o
    BY <2>1
  <2>3. PICK l \in {"membership", "inactive"} :
          l = IF CanAuthenticate(account[p.user]) THEN "membership" ELSE "inactive"
    OBVIOUS
  <2>4. /\ Arrive(t, p.user, asked) /\ Goto(t, l)
        /\ need' = [need EXCEPT ![t] = permission]
        /\ dev' = [dev EXCEPT ![t] = dev[t]]
        /\ upgrade' = [upgrade EXCEPT ![t] = upgrade[t]]
    BY <1>0, <1>4, <2>2, <2>3 DEF Call
  <2> QED
    BY <1>0, <2>1, <2>3, <2>4, ArriveStep
<1>5. ASSUME LoginUnknown(t) \/ RefuseToken(t)
      PROVE  IInv'
  BY <1>5, RefuseStep DEF LoginUnknown, RefuseToken
<1> QED
  BY <1>1, <1>2, <1>3, <1>4, <1>5 DEF Arrival

\* _record_failed_login, to its commit; the login has nothing else pending.
LEMMA FailingStep ==
  ASSUME IInv, NEW t \in Sessions, FileFailure(t) \/ KeepFailure(t)
  PROVE  IInv'
<1> USE DEF At, Goto
<1>0. Admitted(t) /\ Failing(t)
  BY DEF IInv
<1>1. CASE FileFailure(t)
  <2>1. user[t] \in Users /\ Oldest(user[t]) \in Organizations
    BY <1>0, <1>1, OldestIsLive DEF FileFailure, Admitted, IInv
  <2>2. <<"failed", Oldest(user[t])>> \in Entry
    BY <2>1 DEF Entry
  <2>3. TypeOK'
    BY <1>1, <2>2 DEF FileFailure, IInv, TypeOK, world
  <2>4. Admitted(t)' /\ Failing(t)'
    <3>1. entries'[t] = {<<"failed", Oldest(user[t])>>} /\ pc'[t] = "keep"
      BY <1>1 DEF FileFailure, IInv, TypeOK
    <3>2. UNCHANGED <<member, user, upgrade, held>>
      BY <1>1 DEF FileFailure, world
    <3>3. pc[t] = "failed"
      BY <1>1 DEF FileFailure
    <3> QED
      BY <1>0, <2>1, <3>1, <3>2, <3>3 DEF Admitted, Failing, Live
  <2>5. Earned' /\ Dated'
    BY <1>1 DEF FileFailure, IInv, Earned, Dated, world
  <2> QED
    BY <1>1, <2>3, <2>4, <2>5, SessionStep DEF FileFailure, IInv, TypeOK, world
<1>2. CASE KeepFailure(t)
  <2>1. ~upgrade[t] /\ \E o \in Organizations : entries[t] = {<<"failed", o>>}
    BY <1>0, <1>2 DEF KeepFailure, Failing
  <2>2. password' = password
    BY <1>2, <2>1 DEF KeepFailure, Written
  <2>3. TypeOK'
    BY <1>2, <2>2 DEF KeepFailure, Saved, IInv, TypeOK
  <2>4. Admitted(t)' /\ Failing(t)'
    <3>1. kept'[t] = entries[t] /\ pc'[t] = "refuse" /\ pc[t] = "keep"
      BY <1>2 DEF KeepFailure, Saved, IInv, TypeOK
    <3>2. UNCHANGED <<member, user, upgrade, held>>
      BY <1>2 DEF KeepFailure
    <3> QED
      BY <1>0, <2>1, <3>1, <3>2 DEF Admitted, Failing, Live
  <2>5. Earned' /\ Dated'
    BY <1>2 DEF KeepFailure, IInv, Earned, Dated
  <2> QED
    BY <1>2, <2>3, <2>4, <2>5, SessionStep DEF KeepFailure, IInv, TypeOK
<1> QED
  BY <1>1, <1>2

\* _resolve_membership reads a membership that the user has now.
LEMMA ResolveStep ==
  ASSUME IInv, NEW t \in Sessions, Resolve(t)
  PROVE  IInv'
<1> USE DEF At, Goto
<1>0. Admitted(t) /\ pc[t] = "resolve"
  BY DEF IInv, Resolve
<1>1. /\ user[t] \in Users /\ Resolved(t) \in Organizations
      /\ member[user[t]][Resolved(t)] \in Roles
      /\ <<Resolved(t), member[user[t]][Resolved(t)]>> \in held[t]
  BY <1>0, ResolvedIsLive DEF Resolve, Admitted, IInv
<1>2. <<"opened", Resolved(t)>> \in Entry
  BY <1>1 DEF Entry
<1>3. TypeOK'
  BY <1>1, <1>2 DEF Resolve, IInv, TypeOK, world
<1>4. Admitted(t)' /\ Failing(t)'
  <2>1. /\ pc'[t] = "issue" /\ org'[t] = Resolved(t)
        /\ role'[t] = member[user[t]][Resolved(t)]
    BY DEF Resolve, IInv, TypeOK
  <2>2. UNCHANGED <<member, user, held, was_active>>
    BY DEF Resolve, world
  <2> QED
    BY <1>0, <1>1, <2>1, <2>2 DEF Admitted, Failing, Live
<1>5. Earned' /\ Dated'
  BY DEF Resolve, IInv, Earned, Dated, world
<1> QED
  BY <1>3, <1>4, <1>5, SessionStep DEF Resolve, IInv, TypeOK, world

\* issue_tokens hands out a new pair.
LEMMA IssueStep ==
  ASSUME IInv, NEW t \in Sessions, Issue(t)
  PROVE  IInv'
<1> USE DEF At, Goto
<1> DEFINE new == [user |-> user[t], org |-> org[t], age |-> 0, dev |-> dev[t]]
<1>0. Admitted(t) /\ pc[t] = "issue"
  BY DEF IInv, Issue
<1>1. /\ new \in Pair /\ (new.dev => dev_auth_active(settings))
      /\ new.user = user[t] /\ new.age = 0 /\ user[t] \in Users
  BY <1>0, NeverIsLate DEF IInv, TypeOK, Admitted, Pair, Earned
<1>2. tokens' = tokens \cup {new} /\ opened' = [opened EXCEPT ![user[t]] = 0]
  BY DEF Issue
<1> HIDE DEF new
<1>3. TypeOK'
  BY <1>1, <1>2, NeverIsLate DEF Issue, IInv, TypeOK, world, request
<1>4. Admitted(t)' /\ Failing(t)'
  <2>1. pc'[t] = "commit" /\ UNCHANGED <<member, user, org, held>>
    BY DEF Issue, IInv, TypeOK, world, request
  <2> QED
    BY <1>0, <2>1 DEF Admitted, Failing, Live
<1>5. Earned'
  BY <1>1, <1>2 DEF Issue, IInv, Earned, world, request
<1>6. Dated'
  <2> SUFFICES ASSUME NEW p \in tokens'
               PROVE  opened'[p.user] <= p.age
    BY DEF Dated
  <2>1. CASE p = new
    BY <1>1, <1>2, <2>1 DEF IInv, TypeOK
  <2>2. CASE p \in tokens
    <3>1. p.user \in Users /\ p.age \in Nat /\ opened[p.user] <= p.age
      BY <2>2 DEF IInv, TypeOK, Pair, Dated
    <3> QED
      BY <1>2, <3>1 DEF IInv, TypeOK
  <2> QED
    BY <1>2, <2>1, <2>2
<1> QED
  BY <1>3, <1>4, <1>5, <1>6, SessionStep DEF Issue, IInv, TypeOK, world, request

\* get_active returns a membership that the user has now, and the permission
\* is checked against its role.
LEMMA LoadMembershipStep ==
  ASSUME IInv, NEW t \in Sessions, LoadMembership(t)
  PROVE  IInv'
<1> USE DEF At, Goto
<1>0. Admitted(t) /\ pc[t] = "membership"
  BY DEF IInv, LoadMembership
<1>1. /\ user[t] \in Users /\ org[t] \in Organizations
      /\ RoleIn(t) = member[user[t]][org[t]] /\ RoleIn(t) # NoRole
  BY <1>0 DEF Admitted, LoadMembership, RoleIn
<1>2. RoleIn(t) \in Roles /\ <<org[t], RoleIn(t)>> \in held[t]
  BY <1>0, <1>1, LivePairs DEF IInv, TypeOK, Admitted
<1>3. TypeOK'
  BY <1>2 DEF LoadMembership, IInv, TypeOK, world
<1>4. Admitted(t)' /\ Failing(t)'
  <2>1. /\ pc'[t] = "act" /\ role'[t] = RoleIn(t)
        /\ has_permission(Matrix, for_membership(RoleIn(t)), need[t])
    BY DEF LoadMembership, IInv, TypeOK
  <2>2. UNCHANGED <<member, user, org, need, held, was_active>>
    BY DEF LoadMembership, world
  <2> QED
    BY <1>0, <1>1, <1>2, <2>1, <2>2
       DEF Admitted, Failing, Live, has_permission, permissions, for_membership
<1>5. Earned' /\ Dated'
  BY DEF LoadMembership, IInv, Earned, Dated, world
<1> QED
  BY <1>3, <1>4, <1>5, SessionStep DEF LoadMembership, IInv, TypeOK, world

\* A membership that is granted, changed or revoked while requests run: those
\* of its user note what it has had.
LEMMA SetMembershipStep ==
  ASSUME IInv, NEW u \in Users, NEW o \in Organizations, NEW r \in Roles \cup {NoRole},
         SetMembership(u, o, r)
  PROVE  IInv'
<1> DEFINE got == IF r = NoRole THEN {} ELSE {<<o, r>>}
<1>0. NoRole \notin Roles
  BY AuthAssumption DEF Role, NoRole
<1>1. got \in SUBSET (Organizations \X Roles)
  OBVIOUS
<1>2. /\ held' = [t \in Sessions |-> IF user[t] = u THEN held[t] \cup got ELSE held[t]]
      /\ was_active' = [t \in Sessions |->
                          IF user[t] = u THEN was_active[t] \/ FALSE ELSE was_active[t]]
  BY DEF SetMembership, Noted
<1> HIDE DEF got
<1>3. \A t \in Sessions :
        held[t] \subseteq held'[t] /\ (was_active'[t] <=> was_active[t])
  BY <1>2 DEF IInv, TypeOK
<1>4. was_active' \in [Sessions -> BOOLEAN]
  BY <1>2 DEF IInv, TypeOK
<1>5. held' \in [Sessions -> SUBSET (Organizations \X Roles)]
  BY <1>1, <1>2 DEF IInv, TypeOK
<1>6. member' \in [Users -> [Organizations -> Roles \cup {NoRole}]]
  BY DEF SetMembership, IInv, TypeOK
<1>7. TypeOK'
  BY <1>4, <1>5, <1>6 DEF SetMembership, IInv, TypeOK
<1>8. \A v \in Users : Live(v)' \subseteq Live(v) \cup (IF v = u THEN got ELSE {})
  <2> SUFFICES ASSUME NEW v \in Users, NEW m \in Live(v)'
               PROVE  m \in Live(v) \cup (IF v = u THEN got ELSE {})
    OBVIOUS
  <2>1. m \in Organizations \X Roles /\ member'[v][m[1]] = m[2]
    BY DEF Live
  <2>2. CASE v = u /\ m[1] = o
    <3>1. m[2] = r /\ m = <<m[1], m[2]>>
      BY <2>1, <2>2 DEF SetMembership, IInv, TypeOK
    <3>2. m = <<o, r>> /\ r # NoRole
      BY <1>0, <2>1, <2>2, <3>1
    <3> QED
      BY <2>2, <3>2 DEF got
  <2>3. CASE ~(v = u /\ m[1] = o)
    <3>1. member'[v][m[1]] = member[v][m[1]]
      BY <2>1, <2>3 DEF SetMembership, IInv, TypeOK
    <3> QED
      BY <2>1, <3>1 DEF Live
  <2> QED
    BY <2>2, <2>3
<1>9. ASSUME NEW t \in Sessions
      PROVE  Admitted(t)' /\ Failing(t)'
  <2>1. Admitted(t) /\ Failing(t)
    BY DEF IInv
  <2>2. UNCHANGED <<pc, user, org, role, need, upgrade, entries, kept>>
    BY DEF SetMembership
  <2>3. pc[t] # "idle" => Live(user[t])' \subseteq held'[t]
    BY <1>2, <1>3, <1>8, <2>1, <2>2 DEF Admitted
  <2>4. Admitted(t)'
    BY <1>3, <2>1, <2>2, <2>3 DEF Admitted, has_permission, permissions, for_membership
  <2> QED
    BY <2>1, <2>2, <2>4 DEF Failing
<1>10. Earned' /\ Dated'
  BY DEF SetMembership, IInv, Earned, Dated
<1> QED
  BY <1>7, <1>9, <1>10 DEF IInv

\* An account that changes its status while requests run.
LEMMA SetStatusStep ==
  ASSUME IInv, NEW u \in Users, NEW status \in Statuses, SetStatus(u, status)
  PROVE  IInv'
<1> DEFINE active == CanAuthenticate(status)
<1>2. /\ held' = [t \in Sessions |-> IF user[t] = u THEN held[t] \cup {} ELSE held[t]]
      /\ was_active' = [t \in Sessions |->
                          IF user[t] = u THEN was_active[t] \/ active ELSE was_active[t]]
  BY DEF SetStatus, Noted
<1>3. held' = held
  BY <1>2 DEF IInv, TypeOK
<1>4. /\ was_active' \in [Sessions -> BOOLEAN]
      /\ \A t \in Sessions : was_active[t] => was_active'[t]
  BY <1>2 DEF IInv, TypeOK, CanAuthenticate
<1>5. TypeOK'
  BY <1>3, <1>4, AuthAssumption DEF SetStatus, IInv, TypeOK
<1>6. ASSUME NEW t \in Sessions
      PROVE  Admitted(t)' /\ Failing(t)'
  <2>1. Admitted(t) /\ Failing(t)
    BY DEF IInv
  <2>2. UNCHANGED <<member, pc, user, org, role, need, upgrade, entries, kept>>
    BY DEF SetStatus
  <2>3. Admitted(t)'
    BY <1>3, <1>4, <2>1, <2>2 DEF Admitted, Live, has_permission, permissions, for_membership
  <2> QED
    BY <2>1, <2>2, <2>3 DEF Failing
<1>7. Earned' /\ Dated'
  BY DEF SetStatus, IInv, Earned, Dated
<1> QED
  BY <1>5, <1>6, <1>7 DEF IInv

\* Time passes for the tokens and for the sessions alike.
LEMMA TickStep ==
  ASSUME IInv, Tick
  PROVE  IInv'
<1>1. ASSUME NEW p \in tokens'
      PROVE  \E q \in tokens :
               /\ p = [q EXCEPT !.age = q.age + 1] /\ q.age + 1 < Never
               /\ q \in Pair
  BY <1>1 DEF Tick, IInv, TypeOK
<1>2. tokens' \subseteq Pair
  <2> SUFFICES ASSUME NEW p \in tokens'
               PROVE  p \in Pair
    OBVIOUS
  <2>1. PICK q \in Pair : p = [q EXCEPT !.age = q.age + 1] /\ q.age + 1 < Never
    BY <1>1
  <2>2. q.age + 1 \in 0..Never
    BY <2>1, NeverIsLate DEF Pair
  <2> QED
    BY <2>1, <2>2 DEF Pair
<1>3. opened' \in [Users -> 0..Never]
  BY NeverIsLate DEF Tick, IInv, TypeOK
<1>4. TypeOK'
  BY <1>2, <1>3 DEF Tick, IInv, TypeOK, world, request
<1>5. \A t \in Sessions : Admitted(t)' /\ Failing(t)'
  BY DEF Tick, IInv, world, request, Admitted, Failing, Live, has_permission,
         permissions, for_membership
<1>6. Earned'
  <2>1. \A p \in tokens' : p.dev => dev_auth_active(settings)
    <3> SUFFICES ASSUME NEW p \in tokens', p.dev
                 PROVE  dev_auth_active(settings)
      OBVIOUS
    <3>1. PICK q \in tokens : p = [q EXCEPT !.age = q.age + 1] /\ q \in Pair
      BY <1>1
    <3>2. q.dev
      BY <3>1 DEF Pair
    <3> QED
      BY <3>1, <3>2 DEF IInv, Earned
  <2> QED
    BY <2>1 DEF Tick, IInv, Earned, world, request
<1>7. Dated'
  <2> SUFFICES ASSUME NEW p \in tokens'
               PROVE  opened'[p.user] <= p.age
    BY DEF Dated
  <2>1. PICK q \in tokens : /\ p = [q EXCEPT !.age = q.age + 1] /\ q.age + 1 < Never
                            /\ q \in Pair
    BY <1>1
  <2>2. p.user = q.user /\ p.age = q.age + 1 /\ q.user \in Users /\ q.age \in Nat
    BY <2>1 DEF Pair
  <2>3. opened[q.user] <= q.age /\ opened[q.user] \in Nat
    BY <2>1, <2>2, NeverIsLate DEF IInv, TypeOK, Dated
  <2>4. opened'[q.user] = opened[q.user] + 1
    BY <2>1, <2>2, <2>3, NeverIsLate DEF Tick
  <2> QED
    BY <2>2, <2>3, <2>4
<1> QED
  BY <1>4, <1>5, <1>6, <1>7 DEF IInv

\* Every step keeps the invariant.
LEMMA NextPreserves == IInv /\ [Next]_vars => IInv'
<1> SUFFICES ASSUME IInv, [Next]_vars PROVE IInv'
  OBVIOUS
<1>1. CASE UNCHANGED vars
  BY <1>1 DEF vars, IInv, TypeOK, Admitted, Failing, Earned, Dated, Live,
              has_permission, permissions, for_membership
<1>2. ASSUME NEW t \in Sessions, Statement(t)
      PROVE  IInv'
  BY <1>2, RefuseStep, FailingStep, ResolveStep, IssueStep, CommitStep,
     LoadMembershipStep
     DEF Statement, FailUnfiled, FailLogin, RefuseMembership, RefuseInactive,
         RefusePermission, Act
<1>3. ASSUME NEW t \in Sessions, Arrival(t)
      PROVE  IInv'
  BY <1>3, ArrivalStep
<1> QED
  BY <1>1, <1>2, <1>3, SetMembershipStep, SetStatusStep, TickStep DEF Next

\* What requests know, what a failing login has pending, and what the tokens
\* stem from hold in every state.
THEOREM InductiveInvariant == Spec => []IInv
BY InitEstablishes, NextPreserves, PTL DEF Spec

-----------------------------------------------------------------------------
(* What the invariant gives *)

\* Every variable stays in its set, for any constants.
THEOREM TypeCorrect == Spec => []TypeOK
<1>1. IInv => TypeOK
  BY DEF IInv
<1> QED
  BY <1>1, InductiveInvariant, PTL

\* Nobody acts or is given tokens on an account or a membership that was not
\* there at some moment since the request arrived.
THEOREM RightsHold == Spec => []RightsAreCurrent
<1>1. IInv => RightsAreCurrent
  BY DEF IInv, Admitted, RightsAreCurrent
<1> QED
  BY <1>1, InductiveInvariant, PTL

\* No chain of tokens begins without a password outside development, and a
\* deployment signs with its own key.
THEOREM TokensHold == Spec => []TokensAreEarned
<1>1. IInv => TokensAreEarned
  <2> SUFFICES ASSUME IInv, NEW p \in tokens
               PROVE  /\ p.dev => settings.environment = "development"
                                  /\ settings.dev_auth_enabled
                      /\ settings.environment \in {"staging", "production"} =>
                           settings.secret_key = "proper"
    BY DEF TokensAreEarned
  <2>1. p.dev => dev_auth_active(settings)
    BY DEF IInv, Earned
  <2>2. settings \in Settings /\ Boots(settings)
    BY DEF IInv, TypeOK, Earned
  <2>3. settings.environment \in {"staging", "production"} => Problems(settings) = {}
    BY <2>2 DEF Boots
  <2>4. Problems(settings) = {} => settings.secret_key = "proper"
    BY <2>2 DEF Problems, Settings, SecretKey
  <2> QED
    BY <2>1, <2>3, <2>4 DEF dev_auth_active
<1> QED
  BY <1>1, InductiveInvariant, PTL

\* A request of an agent never gets past the fence, whatever the matrix says.
THEOREM AgentsAreFenced == Spec => []AgentIsFenced
<1>1. IInv => AgentIsFenced
  <2> SUFFICES ASSUME IInv, NEW t \in Sessions, pc[t] = "act", role[t] = "agent"
               PROVE  need[t] \notin AGENT_FORBIDDEN_PERMISSIONS
    BY DEF AgentIsFenced, At
  <2>1. has_permission(Matrix, for_membership("agent"), need[t])
    BY DEF IInv, Admitted
  <2>2. need[t] \in permissions_for_role(Matrix, "agent")
    BY <2>1 DEF has_permission, permissions, for_membership
  <2> QED
    BY <2>2, FenceHolds, AuthAssumption
<1> QED
  BY <1>1, InductiveInvariant, PTL

\* The answer of a request that is refused names its user.
LEMMA RefusalAnswers ==
  ASSUME NEW t \in Sessions, NEW c, Refuse(t, c), NEW a \in answers'
  PROVE  a.to = t /\ a.about = user[t] /\ a.code = c
BY DEF Refuse, Say

\* The 401 of a failed login goes out when its audit row has been committed,
\* unless there is no organization to file it under.
THEOREM FailuresHold == Spec => FailuresAreKept
<1> DEFINE OnRecord(a) ==
      a.code = "unauthorized" /\ a.about # NoUser
      => \/ \E o \in Organizations : <<"failed", o>> \in kept[a.to]
         \/ Live(a.about) = {}
<1>1. ASSUME IInv, [Next]_vars, answers' # answers, NEW a \in answers'
      PROVE  OnRecord(a)
  <2>1. ASSUME NEW t \in Sessions, FailUnfiled(t)
        PROVE  OnRecord(a)
    BY <1>1, <2>1, RefusalAnswers DEF FailUnfiled
  <2>2. ASSUME NEW t \in Sessions, FailLogin(t)
        PROVE  OnRecord(a)
    <3>1. a.to = t
      BY <1>1, <2>2, RefusalAnswers DEF FailLogin
    <3>2. \E o \in Organizations : <<"failed", o>> \in kept[t]
      BY <1>1, <2>2 DEF FailLogin, At, IInv, Failing
    <3> QED
      BY <3>1, <3>2
  <2>3. ASSUME NEW t \in Sessions, LoginUnknown(t) \/ RefuseToken(t)
        PROVE  OnRecord(a)
    <3>1. a.about = user[t] /\ pc[t] = "idle"
      BY <1>1, <2>3, RefusalAnswers DEF LoginUnknown, RefuseToken, At
    <3> QED
      BY <1>1, <3>1 DEF IInv, Admitted
  <2>4. ASSUME NEW t \in Sessions, NEW c, Refuse(t, c), c # "unauthorized"
        PROVE  OnRecord(a)
    BY <1>1, <2>4, RefusalAnswers
  <2>5. ASSUME NEW t \in Sessions, Issue(t)
        PROVE  OnRecord(a)
    BY <1>1, <2>5 DEF Issue, Say
  <2>6. CASE Silent
    BY <1>1, <2>6 DEF Silent
  <2>7. ASSUME NEW t \in Sessions, Statement(t)
        PROVE  OnRecord(a)
    <3>1. CASE FailUnfiled(t) \/ FailLogin(t) \/ Issue(t)
      BY <2>1, <2>2, <2>5, <3>1
    <3>2. CASE RefuseMembership(t) \/ RefuseInactive(t) \/ RefusePermission(t) \/ Act(t)
      BY <2>4, <3>2 DEF RefuseMembership, RefuseInactive, RefusePermission, Act
    <3>3. CASE FileFailure(t) \/ KeepFailure(t) \/ Resolve(t) \/ Commit(t)
               \/ LoadMembership(t) \/ Rollback(t)
      BY <2>6, <3>3 DEF FileFailure, KeepFailure, Resolve, Commit, LoadMembership, Rollback
    <3> QED
      BY <2>7, <3>1, <3>2, <3>3 DEF Statement
  <2>8. ASSUME NEW t \in Sessions, Arrival(t)
        PROVE  OnRecord(a)
    BY <2>3, <2>6, <2>8 DEF Arrival, Login, DevLogin, Refresh, Call, Arrive
  <2>9. CASE Tick \/ \E u \in Users :
               \/ \E o \in Organizations, r \in Roles \cup {NoRole} : SetMembership(u, o, r)
               \/ \E status \in Statuses : SetStatus(u, status)
    BY <2>6, <2>9 DEF Tick, SetMembership, SetStatus
  <2> QED
    BY <1>1, <2>7, <2>8, <2>9 DEF Next, vars
<1>2. IInv /\ [Next]_vars => [\A a \in answers' : OnRecord(a)]_answers
  BY <1>1
<1> QED
  BY <1>2, InductiveInvariant, PTL DEF Spec, FailuresAreKept

\* Only the commit inside a failing login adds to what is kept.
LEMMA OnlyFailuresKeep ==
  ASSUME IInv, [Next]_vars, NEW t \in Sessions, kept'[t] \ kept[t] # {}
  PROVE  \E s \in Sessions : KeepFailure(s)
<1>1. ASSUME NEW s \in Sessions, Close(s)
      PROVE  kept'[t] \ kept[t] = {}
  BY <1>1 DEF Close, IInv, TypeOK
<1>2. ASSUME NEW s \in Sessions, Statement(s), ~KeepFailure(s)
      PROVE  FALSE
  BY <1>1, <1>2
     DEF Statement, FailUnfiled, FileFailure, FailLogin, Resolve, RefuseMembership,
         Issue, Commit, RefuseInactive, LoadMembership, RefusePermission, Act,
         Rollback, Refuse, request
<1>3. ASSUME NEW s \in Sessions, Arrival(s)
      PROVE  FALSE
  BY <1>1, <1>3 DEF Arrival, LoginUnknown, RefuseToken, Refuse, Login, DevLogin,
                    Refresh, Call, Arrive
<1> QED
  BY <1>2, <1>3 DEF Next, Tick, SetMembership, SetStatus, request, vars

\* The commit in the middle of a failing login keeps nothing but its row.
THEOREM OnlyTheFailure == Spec => OnlyTheFailureIsKept
<1>1. ASSUME IInv, [Next]_vars, NEW t \in Sessions, kept'[t] \ kept[t] # {}
      PROVE  UNCHANGED <<password, tokens>>
  <2>1. PICK s \in Sessions : KeepFailure(s)
    BY <1>1, OnlyFailuresKeep
  <2>2. ~upgrade[s]
    BY <1>1, <2>1 DEF KeepFailure, At, IInv, Failing
  <2> QED
    BY <2>1, <2>2 DEF KeepFailure, Written
<1>2. IInv /\ [Next]_vars =>
        [(\E t \in Sessions : kept'[t] \ kept[t] # {}) => UNCHANGED <<password, tokens>>]_kept
  BY <1>1
<1> QED
  BY <1>2, InductiveInvariant, PTL DEF Spec, OnlyTheFailureIsKept

\* A request gets past its token only within the lifetime of an access token
\* of its user's last login or refresh.
THEOREM AccessHolds == Spec => AccessIsFresh
<1>1. ASSUME IInv, [Next]_vars, NEW t \in Sessions, At(t, "idle"),
             pc'[t] \in {"membership", "inactive"}
      PROVE  opened[user'[t]] < ACCESS_TTL
  <2>0. pc[t] = "idle"
    BY <1>1 DEF At
  <2>1. PICK p \in tokens, typ \in TokenType,
             o \in Organizations \cup {NoOrg}, permission \in Required :
          Call(t, p, typ, o, permission)
    <3>1. ASSUME NEW s \in Sessions, Close(s)
          PROVE  FALSE
      BY <1>1, <2>0, <3>1 DEF Close, Goto, IInv, TypeOK
    <3>2. ASSUME NEW s \in Sessions, Statement(s)
          PROVE  FALSE
      BY <1>1, <2>0, <3>1, <3>2
         DEF Statement, FailUnfiled, FileFailure, KeepFailure, FailLogin, Resolve,
             RefuseMembership, Issue, Commit, RefuseInactive, LoadMembership,
             RefusePermission, Act, Rollback, Refuse, At, Goto, IInv, TypeOK
    <3>3. ASSUME NEW s \in Sessions, Arrival(s)
          PROVE  \E p \in tokens, typ \in TokenType,
                    o \in Organizations \cup {NoOrg}, permission \in Required :
                   Call(t, p, typ, o, permission)
      <4>1. CASE s = t
        BY <1>1, <2>0, <3>1, <3>3, <4>1
           DEF Arrival, LoginUnknown, RefuseToken, Refuse, Login, DevLogin, Refresh,
               Goto, IInv, TypeOK
      <4>2. CASE s # t
        BY <1>1, <2>0, <3>1, <3>3, <4>2
           DEF Arrival, LoginUnknown, RefuseToken, Refuse, Login, DevLogin, Refresh,
               Call, Goto, IInv, TypeOK
      <4> QED
        BY <4>1, <4>2
    <3> QED
      BY <1>1, <2>0, <3>2, <3>3 DEF Next, Tick, SetMembership, SetStatus, vars
  <2>2. p.age < ACCESS_TTL /\ user'[t] = p.user
    BY <1>1, <2>1 DEF Call, Decodes, Ttl, Arrive, IInv, TypeOK
  <2>3. /\ p.user \in Users /\ p.age \in Nat /\ opened[p.user] <= p.age
        /\ opened[p.user] \in 0..Never
    BY <1>1 DEF IInv, TypeOK, Pair, Dated
  <2> QED
    BY <2>2, <2>3, NeverIsLate, AuthAssumption
<1>2. IInv /\ [Next]_vars =>
        [\A t \in Sessions : At(t, "idle") /\ pc'[t] \in {"membership", "inactive"} =>
            opened[user'[t]] < ACCESS_TTL]_pc
  BY <1>1
<1> QED
  BY <1>2, InductiveInvariant, PTL DEF Spec, AccessIsFresh
=============================================================================
