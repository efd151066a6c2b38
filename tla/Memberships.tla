---------------------------- MODULE Memberships ----------------------------
(***************************************************************************)
(* Who belongs to one organization: the resolution of the actor at the     *)
(* start of a request (get_current_actor), OrganizationService's           *)
(* add_member, change_member_role and revoke_member, and the operator's    *)
(* seed command, each one transaction at READ COMMITTED, any number at     *)
(* once.                                                                   *)
(*                                                                         *)
(* The role is read once, before the handler, and kept in CurrentActor; no *)
(* read takes a lock. A flush writes the changed columns of one row by     *)
(* primary key and waits for its row lock; an INSERT waits for an          *)
(* uncommitted row with the same (organization_id, user_id), then the      *)
(* unique index, which knows nothing of revoked_at, decides.               *)
(***************************************************************************)
EXTENDS Integers, Sequences

CONSTANTS
  Users,        \* accounts that may authenticate
  Roles,        \* membership roles
  Owner,        \* the one role with ORG_MEMBER_MANAGE
  SEED_USERS,   \* the accounts and roles the seed sets up, in its order
  Sessions,     \* database sessions, one open request or command each
  Nobody,       \* the holder of a free lock, the actor of an idle session
  System,       \* the actor of the seed
  NoRow         \* no row loaded, no before image, no role

Row == [role: Roles, revoked: BOOLEAN]

SeedLength == Len(SEED_USERS)

ASSUME MembershipsAssumption ==
  /\ Owner \in Roles
  /\ Nobody \notin Sessions \cup Users \cup {System}
  /\ System \notin Users
  /\ NoRow \notin Row \cup Roles
  /\ SEED_USERS \in Seq([user: Users, role: Roles])
  /\ \E k \in 1..SeedLength : SEED_USERS[k].role = Owner

VARIABLES
  members,    \* memberships: the committed rows, by user
  emitted,    \* the rows the last step appended to audit_logs
  lock,       \* who holds the lock of each row
  claim,      \* whose uncommitted INSERT holds each key of the unique index
  pc,         \* the statement each session runs next
  actor,      \* the user each session acts for
  role,       \* that user's role, as read at the start of the request
  target,     \* the user whose membership the session works on
  seen,       \* that membership as the session read it
  draft,      \* the rows the session has assigned to or inserted, by user
  step,       \* the entry of SEED_USERS a seed is at
  entries     \* audit rows the session has inserted

tables == <<members, emitted>>
vars   == <<members, emitted, lock, claim, pc, actor, role, target, seen, draft,
            step, entries>>

-----------------------------------------------------------------------------
(* Rows *)

Entry == [user: Users, before: Row \cup {NoRow}, after: Row,
          by: Users \cup {System}]

Existing == DOMAIN members

Live == {u \in Existing : ~members[u].revoked}

NoDraft == [u \in Users |-> NoRow]

\* The user create_with_owner makes the owner of the seeded organization.
Founder ==
  SEED_USERS[CHOOSE k \in 1..SeedLength : SEED_USERS[k].role = Owner].user

\* Fault: the role is not passed on.
NewRow_NoRole(r) == [role |-> NoRow, revoked |-> FALSE]

NewRow(r) == [role |-> r, revoked |-> FALSE]

\* Fault: every column of the loaded row is written.
Flushed_AllColumns(current, old, new) == new

\* Only the changed columns of a flushed row are written.
Flushed(current, old, new) ==
  [role    |-> IF new.role # old.role THEN new.role ELSE current.role,
   revoked |-> IF new.revoked # old.revoked THEN new.revoked ELSE current.revoked]

\* No organization yet: its first rows come with the seed.
Init ==
  /\ members = [u \in {} |-> NewRow(Owner)]
  /\ emitted = {}
  /\ lock = [u \in Users |-> Nobody]
  /\ claim = [u \in Users |-> Nobody]
  /\ pc = [t \in Sessions |-> "idle"]
  /\ actor = [t \in Sessions |-> Nobody]
  /\ role = [t \in Sessions |-> NoRow]
  /\ target = [t \in Sessions |-> Founder]
  /\ seen = [t \in Sessions |-> NoRow]
  /\ draft = [t \in Sessions |-> NoDraft]
  /\ step = [t \in Sessions |-> 0]
  /\ entries = [t \in Sessions |-> {}]

At(t, label) == pc[t] = label

Goto(t, label) == pc' = [pc EXCEPT ![t] = label]

NothingCommitted == UNCHANGED members /\ emitted' = {}

\* Who holds a row lock or a key of the unique index stops holding it.
Released(holders, t) ==
  [u \in Users |-> IF holders[u] = t THEN Nobody ELSE holders[u]]

\* The end of the transaction.
Close(t) ==
  /\ Goto(t, "idle")
  /\ lock' = Released(lock, t)
  /\ claim' = Released(claim, t)
  /\ actor' = [actor EXCEPT ![t] = Nobody]
  /\ role' = [role EXCEPT ![t] = NoRow]
  /\ target' = [target EXCEPT ![t] = Founder]
  /\ seen' = [seen EXCEPT ![t] = NoRow]
  /\ draft' = [draft EXCEPT ![t] = NoDraft]
  /\ step' = [step EXCEPT ![t] = 0]
  /\ entries' = [entries EXCEPT ![t] = {}]

\* The rows the session has changed or inserted.
Drafted(t) == {u \in Users : draft[t][u] # NoRow}

-----------------------------------------------------------------------------
(* get_current_actor *)

\* The header or the claim selects the organization; a live membership admits.
Admit(t, u) ==
  /\ At(t, "idle")
  /\ u \in Live
  /\ actor' = [actor EXCEPT ![t] = u]
  /\ role' = [role EXCEPT ![t] = members[u].role]
  /\ Goto(t, "handler")
  /\ NothingCommitted
  /\ UNCHANGED <<lock, claim, target, seen, draft, step, entries>>

\* not_a_member.
RefuseActor(t, u) ==
  /\ At(t, "idle")
  /\ u \notin Live
  /\ Close(t)
  /\ NothingCommitted

\* require_permission(ORG_MEMBER_MANAGE), on the role read at the start.
MayManage(t) == role[t] = Owner

RefusePermission(t) ==
  /\ At(t, "handler")
  /\ ~MayManage(t)
  /\ Close(t)
  /\ NothingCommitted

-----------------------------------------------------------------------------
(* add_member *)

\* get_active finds no live membership.
AddMember(t, u, r) ==
  /\ At(t, "handler")
  /\ MayManage(t)
  /\ u \notin Live
  /\ target' = [target EXCEPT ![t] = u]
  /\ draft' = [draft EXCEPT ![t][u] = NewRow(r)]
  /\ Goto(t, "insert")
  /\ NothingCommitted
  /\ UNCHANGED <<lock, claim, actor, role, seen, step, entries>>

\* ConflictError: a live member already.
RefuseMember(t, u) ==
  /\ At(t, "handler")
  /\ MayManage(t)
  /\ u \in Live
  /\ Close(t)
  /\ NothingCommitted

\* uq_memberships_organization_id_user_id, revoked rows included.
IndexAdmits(u) == u \notin Existing

\* Fault: the before image is taken after the change.
EntryOf_After(t) ==
  [user |-> target[t], before |-> draft[t][target[t]],
   after |-> draft[t][target[t]], by |-> actor[t]]

\* The audit row of the change at hand.
EntryOf(t) ==
  [user |-> target[t], before |-> seen[t], after |-> draft[t][target[t]],
   by |-> actor[t]]

\* The INSERT and, right after it, its audit row.
InsertMember(t) ==
  LET u == target[t] IN
  /\ At(t, "insert")
  /\ claim[u] = Nobody
  /\ IndexAdmits(u)
  /\ claim' = [claim EXCEPT ![u] = t]
  /\ entries' = [entries EXCEPT ![t] = @ \cup {EntryOf(t)}]
  /\ Goto(t, IF actor[t] = System THEN "seed" ELSE "commit")
  /\ NothingCommitted
  /\ UNCHANGED <<lock, actor, role, target, seen, draft, step>>

\* IntegrityError, which nobody catches.
InsertRejected(t) ==
  /\ At(t, "insert")
  /\ claim[target[t]] = Nobody
  /\ ~IndexAdmits(target[t])
  /\ Close(t)
  /\ NothingCommitted

-----------------------------------------------------------------------------
(* change_member_role, revoke_member *)

\* _require_membership, without a lock, then the assignments.
Assign(t, u, new) ==
  /\ target' = [target EXCEPT ![t] = u]
  /\ seen' = [seen EXCEPT ![t] = members[u]]
  /\ draft' = [draft EXCEPT ![t][u] = new]
  /\ Goto(t, "flush")
  /\ NothingCommitted
  /\ UNCHANGED <<lock, claim, actor, role, step, entries>>

ChangeRole(t, u, r) ==
  /\ At(t, "handler")
  /\ MayManage(t)
  /\ u \in Live
  /\ members[u].role # r
  /\ Assign(t, u, [members[u] EXCEPT !.role = r])

\* The same role: the membership is returned as it is, and nothing is written.
KeepRole(t, u) ==
  /\ At(t, "handler")
  /\ MayManage(t)
  /\ u \in Live
  /\ Close(t)
  /\ NothingCommitted

\* Fault: the acting user is not looked at.
MayRevoke_Anyone(t, u) == TRUE

\* cannot_revoke_self otherwise.
MayRevoke(t, u) == u # actor[t]

RevokeMember(t, u) ==
  /\ At(t, "handler")
  /\ MayManage(t)
  /\ u \in Live
  /\ MayRevoke(t, u)
  /\ Assign(t, u, [members[u] EXCEPT !.revoked = TRUE])

\* Membership not found, or cannot_revoke_self.
RefuseChange(t, u) ==
  /\ At(t, "handler")
  /\ MayManage(t)
  /\ u \notin Live \/ ~MayRevoke(t, u)
  /\ Close(t)
  /\ NothingCommitted

\* The flush of record(): the UPDATE, by primary key alone, and the audit row.
Flush(t) ==
  LET u == target[t] IN
  /\ At(t, "flush")
  /\ lock[u] = Nobody
  /\ lock' = [lock EXCEPT ![u] = t]
  /\ entries' = [entries EXCEPT ![t] = {EntryOf(t)}]
  /\ Goto(t, "commit")
  /\ NothingCommitted
  /\ UNCHANGED <<claim, actor, role, target, seen, draft, step>>

-----------------------------------------------------------------------------
(* seed *)

\* No organization has the slug: create_with_owner first.
SeedOrganization(t) ==
  /\ At(t, "idle")
  /\ Existing = {}
  /\ actor' = [actor EXCEPT ![t] = System]
  /\ target' = [target EXCEPT ![t] = Founder]
  /\ draft' = [draft EXCEPT ![t][Founder] = NewRow(Owner)]
  /\ Goto(t, "insert")
  /\ NothingCommitted
  /\ UNCHANGED <<lock, claim, role, seen, step, entries>>

\* The organization is there.
SeedAgain(t) ==
  /\ At(t, "idle")
  /\ Existing # {}
  /\ actor' = [actor EXCEPT ![t] = System]
  /\ Goto(t, "seed")
  /\ NothingCommitted
  /\ UNCHANGED <<lock, claim, role, target, seen, draft, step, entries>>

SeedUser(t) == SEED_USERS[step[t] + 1]

\* What get_active finds inside the command: its own inserts too.
SeedFinds(t, u) == u \in Live \cup Drafted(t)

\* The owner is skipped, and whoever is a member already.
SeedSkip(t) ==
  /\ At(t, "seed")
  /\ step[t] < SeedLength
  /\ SeedUser(t).role = Owner \/ SeedFinds(t, SeedUser(t).user)
  /\ step' = [step EXCEPT ![t] = @ + 1]
  /\ NothingCommitted
  /\ UNCHANGED <<lock, claim, pc, actor, role, target, seen, draft, entries>>

SeedMember(t) ==
  LET u == SeedUser(t).user IN
  /\ At(t, "seed")
  /\ step[t] < SeedLength
  /\ SeedUser(t).role # Owner
  /\ ~SeedFinds(t, u)
  /\ target' = [target EXCEPT ![t] = u]
  /\ draft' = [draft EXCEPT ![t][u] = NewRow(SeedUser(t).role)]
  /\ step' = [step EXCEPT ![t] = @ + 1]
  /\ Goto(t, "insert")
  /\ NothingCommitted
  /\ UNCHANGED <<lock, claim, actor, role, seen, entries>>

SeedEnds(t) ==
  /\ At(t, "seed")
  /\ step[t] = SeedLength
  /\ Goto(t, "commit")
  /\ NothingCommitted
  /\ UNCHANGED <<lock, claim, actor, role, target, seen, draft, step, entries>>

-----------------------------------------------------------------------------
(* The unit of work *)

\* What the session's statements have made of a row.
Written(t, u) ==
  IF u \in Drafted(t)
    THEN IF u \in Existing THEN Flushed(members[u], seen[t], draft[t][u])
                           ELSE draft[t][u]
    ELSE members[u]

Commit(t) ==
  /\ At(t, "commit")
  /\ members' = [u \in Existing \cup Drafted(t) |-> Written(t, u)]
  /\ emitted' = entries[t]
  /\ Close(t)

\* Any exception, a lost connection, a crash of the process.
Rollback(t) ==
  /\ ~At(t, "idle")
  /\ Close(t)
  /\ NothingCommitted

-----------------------------------------------------------------------------
Handler(t) ==
  \/ RefusePermission(t)
  \/ InsertMember(t)
  \/ InsertRejected(t)
  \/ Flush(t)
  \/ SeedOrganization(t)
  \/ SeedAgain(t)
  \/ SeedSkip(t)
  \/ SeedMember(t)
  \/ SeedEnds(t)

Request(t, u) ==
  \/ Admit(t, u)
  \/ RefuseActor(t, u)
  \/ RefuseMember(t, u)
  \/ KeepRole(t, u)
  \/ RevokeMember(t, u)
  \/ RefuseChange(t, u)

Next ==
  \E t \in Sessions :
    \/ Handler(t)
    \/ Commit(t)
    \/ Rollback(t)
    \/ \E u \in Users :
         \/ Request(t, u)
         \/ \E r \in Roles : AddMember(t, u, r) \/ ChangeRole(t, u, r)

Spec == Init /\ [][Next]_vars

-----------------------------------------------------------------------------
(* Properties *)

\* Every variable stays in its set.
TypeOK ==
  /\ Existing \subseteq Users /\ members \in [Existing -> Row]
  /\ emitted \subseteq Entry
  /\ lock \in [Users -> Sessions \cup {Nobody}]
  /\ claim \in [Users -> Sessions \cup {Nobody}]
  /\ pc \in [Sessions ->
               {"idle", "handler", "insert", "flush", "seed", "commit"}]
  /\ actor \in [Sessions -> Users \cup {System, Nobody}]
  /\ role \in [Sessions -> Roles \cup {NoRow}]
  /\ target \in [Sessions -> Users]
  /\ seen \in [Sessions -> Row \cup {NoRow}]
  /\ draft \in [Sessions -> [Users -> Row \cup {NoRow}]]
  /\ step \in [Sessions -> 0..SeedLength]
  /\ entries \in [Sessions -> SUBSET Entry]

\* The memberships are an access list (see AccessList): the organization is
\* there from its first commit with an owner, and changes by one account per
\* commit after it, the seed's too. A revocation is final: a role change
\* computed before it, a second revocation, add_member or the seed never gives
\* the access back; and no row disappears.
List == INSTANCE AccessList WITH
  Revoked <- NoRow,
  access  <- [u \in Existing |->
               IF members[u].revoked THEN NoRow ELSE members[u].role]

ImplementsAccessList == List!Spec

\* The trail explains who had access: whatever appears or changes in
\* memberships is named, with its new value, by an audit row of the same
\* commit, and each audit row tells of a change that landed.
AccessIsExplained ==
  [][/\ \A u \in DOMAIN members' :
          \/ u \in Existing /\ members'[u] = members[u]
          \/ \E e \in emitted' :
               /\ e.user = u
               /\ (e.before = NoRow) = (u \notin Existing)
               /\ \A c \in {"role", "revoked"} :
                    \/ u \in Existing /\ members'[u][c] = members[u][c]
                    \/ e.after[c] = members'[u][c]
     /\ \A e \in emitted' :
          /\ e.user \in DOMAIN members'
          /\ \A c \in {"role", "revoked"} :
               e.before = NoRow \/ e.before[c] # e.after[c]
                 => members'[e.user][c] = e.after[c]]_tables

Owners == {u \in Live : members[u].role = Owner}

\* The last owner leaves by their own hand only, or by a request of someone
\* who was an owner when it began and is none any more: revoke_member refuses
\* the acting user's own membership.
LastOwnerLeavesByOwnHand ==
  [][Owners # {} /\ Owners' = {} =>
       \E e \in emitted' :
         \/ e.by \notin Owners
         \/ e.user = e.by /\ e.after.role # Owner]_tables

\* The seed inserts only what is missing.
SeedIsIdempotent ==
  \A t \in Sessions :
    At(t, "insert") /\ actor[t] = System => target[t] \notin Existing
=============================================================================
