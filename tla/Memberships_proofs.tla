------------------------- MODULE Memberships_proofs -------------------------
(***************************************************************************)
(* Proofs about Memberships, for any sets of users, roles and sessions and *)
(* any list of seeded accounts.                                            *)
(***************************************************************************)
EXTENDS Memberships, TLAPS

-----------------------------------------------------------------------------
(* The inductive invariant *)

\* A request that changes a membership has read it live, changes that one row
\* only, holds no key of the unique index, and does not revoke itself.
Changing(t) ==
  seen[t] # NoRow =>
    /\ pc[t] \in {"flush", "commit"}
    /\ target[t] \in Existing
    /\ Drafted(t) = {target[t]}
    /\ ~seen[t].revoked
    /\ draft[t][target[t]].revoked => target[t] # actor[t]
    /\ \A u \in Users : claim[u] # t

\* Every row a session has inserted is claimed, the one at hand excepted.
Inserting(t) ==
  seen[t] = NoRow =>
    /\ pc[t] # "flush"
    /\ \A u \in Drafted(t) : claim[u] = t \/ (pc[t] = "insert" /\ u = target[t])

\* The audit rows so far: one for each row inserted or flushed, with its images.
Trail(t) ==
  /\ \A e \in entries[t] :
       /\ e.user \in Drafted(t)
       /\ e.before = seen[t] /\ e.after = draft[t][e.user] /\ e.by = actor[t]
       /\ seen[t] = NoRow => claim[e.user] = t
  /\ \A u \in Drafted(t) : claim[u] = t \/ pc[t] = "commit" =>
       \E e \in entries[t] : e.user = u

\* What a session has done so far, by the step it is in.
Work(t) ==
  /\ pc[t] # "idle" => actor[t] # Nobody
  /\ pc[t] \in {"idle", "handler"} => draft[t] = NoDraft
  /\ pc[t] \in {"insert", "flush"} => target[t] \in Drafted(t)
  /\ Changing(t)
  /\ Inserting(t)
  /\ Trail(t)

WorkSoFar == \A t \in Sessions : Work(t)

\* A claimed key of the unique index belongs to no committed row.
Claims ==
  \A u \in Users : claim[u] # Nobody =>
    u \notin Existing /\ u \in Drafted(claim[u])

IInv == TypeOK /\ WorkSoFar /\ Claims

-----------------------------------------------------------------------------
(* Lemmas about the operators *)

\* A session without a draft has drafted no row.
LEMMA NoDraftIsEmpty == \A t \in Sessions : draft[t] = NoDraft => Drafted(t) = {}
BY DEF NoDraft, Drafted

\* The seeded accounts are users with roles; one of them founds the organization.
LEMMA SeededAccounts ==
  /\ SeedLength \in Nat
  /\ \A k \in 1..SeedLength : SEED_USERS[k].user \in Users /\ SEED_USERS[k].role \in Roles
  /\ Founder \in Users
<1>1. /\ SeedLength \in Nat
      /\ \A k \in 1..SeedLength : SEED_USERS[k].user \in Users /\ SEED_USERS[k].role \in Roles
  <2> DEFINE Account == [user: Users, role: Roles]
  <2>1. SEED_USERS \in Seq(Account)
    BY MembershipsAssumption
  <2>2. SeedLength \in Nat /\ \A k \in 1..SeedLength : SEED_USERS[k] \in Account
    <3> HIDE DEF Account
    <3> QED
      BY <2>1 DEF SeedLength
  <2> QED
    BY <2>2
<1>2. (CHOOSE k \in 1..SeedLength : SEED_USERS[k].role = Owner) \in 1..SeedLength
  BY MembershipsAssumption
<1> QED
  BY <1>1, <1>2 DEF Founder

\* A new membership is a row that is live.
LEMMA NewRowIsLive ==
  ASSUME NEW r \in Roles
  PROVE  NewRow(r) \in Row /\ ~NewRow(r).revoked /\ NewRow(r).role = r
BY DEF NewRow, Row

\* A flush keeps a row a row, and takes back no revocation unless the session
\* itself has.
LEMMA FlushedKeeps ==
  ASSUME NEW r \in Row, NEW old \in Row, NEW new \in Row
  PROVE  /\ Flushed(r, old, new) \in Row
         /\ \A c \in {"role", "revoked"} :
              \/ new[c] # old[c] /\ Flushed(r, old, new)[c] = new[c]
              \/ new[c] = old[c] /\ Flushed(r, old, new)[c] = r[c]
BY DEF Flushed, Row

\* The session assigns to, or adds, one row.
Drafting(t, u, x) == draft' = [draft EXCEPT ![t][u] = x]

\* Assigning one row of a session's draft adds it to what the session drafted.
LEMMA DraftAssigned ==
  ASSUME TypeOK, NEW t \in Sessions, NEW u \in Users, NEW x \in Row,
         Drafting(t, u, x)
  PROVE  /\ draft' \in [Sessions -> [Users -> Row \cup {NoRow}]]
         /\ draft'[t][u] = x
         /\ \A v \in Users \ {u} : draft'[t][v] = draft[t][v]
         /\ \A s \in Sessions \ {t} : draft'[s] = draft[s]
         /\ Drafted(t)' = Drafted(t) \cup {u}
<1>1. /\ draft \in [Sessions -> [Users -> Row \cup {NoRow}]]
      /\ x # NoRow
  BY MembershipsAssumption DEF TypeOK
<1>2. /\ draft' \in [Sessions -> [Users -> Row \cup {NoRow}]]
      /\ draft'[t] = [draft[t] EXCEPT ![u] = x]
      /\ \A s \in Sessions \ {t} : draft'[s] = draft[s]
  BY <1>1 DEF Drafting
<1>3. /\ draft'[t][u] = x
      /\ \A v \in Users \ {u} : draft'[t][v] = draft[t][v]
  BY <1>1, <1>2
<1>4. Drafted(t)' = Drafted(t) \cup {u}
  BY <1>1, <1>3 DEF Drafted
<1> QED
  BY <1>2, <1>3, <1>4

-----------------------------------------------------------------------------
(* The invariant is inductive *)

\* An empty database and idle sessions satisfy the invariant.
LEMMA InitEstablishes == Init => IInv
<1> SUFFICES ASSUME Init PROVE IInv
  OBVIOUS
<1>1. Existing = {}
  BY DEF Init, Existing
<1>2. TypeOK
  <2>1. members \in [Existing -> Row] /\ Existing \subseteq Users
    BY <1>1 DEF Init, Existing
  <2>2. /\ target \in [Sessions -> Users] /\ step \in [Sessions -> 0..SeedLength]
        /\ draft \in [Sessions -> [Users -> Row \cup {NoRow}]]
    BY SeededAccounts DEF Init, NoDraft
  <2> QED
    BY <2>1, <2>2 DEF Init, TypeOK
<1>3. Claims
  BY DEF Init, Claims
<1>4. ASSUME NEW t \in Sessions PROVE Work(t)
  <2>1. /\ pc[t] = "idle" /\ seen[t] = NoRow /\ entries[t] = {}
        /\ draft[t] = NoDraft /\ Drafted(t) = {}
    BY NoDraftIsEmpty DEF Init
  <2> QED
    BY <2>1 DEF Work, Changing, Inserting, Trail
<1> QED
  BY <1>2, <1>3, <1>4 DEF IInv, WorkSoFar

\* What the step of a session that commits nothing owes the invariant: the
\* other sessions, and the keys they claimed, are as they were.
LEMMA QuietStep ==
  ASSUME IInv, NEW t \in Sessions, NothingCommitted, TypeOK', Work(t)',
         \A s \in Sessions \ {t} :
            /\ pc'[s] = pc[s] /\ actor'[s] = actor[s] /\ target'[s] = target[s]
            /\ seen'[s] = seen[s] /\ draft'[s] = draft[s] /\ entries'[s] = entries[s],
         \A u \in Users : claim'[u] # claim[u] => {claim[u], claim'[u]} \subseteq {Nobody, t},
         \A u \in Users : claim'[u] = t => u \notin Existing /\ u \in Drafted(t)'
  PROVE  IInv'
<1>1. Existing' = Existing
  BY DEF NothingCommitted, Existing
<1>2. ASSUME NEW s \in Sessions, s # t PROVE Work(s)'
  <2>1. Work(s) /\ Drafted(s)' = Drafted(s)
    BY <1>2 DEF IInv, WorkSoFar, Drafted
  <2>2. \A u \in Users : claim'[u] = s <=> claim[u] = s
    BY <1>2, MembershipsAssumption
  <2>3. Changing(s)' /\ Inserting(s)'
    BY <1>1, <1>2, <2>1, <2>2 DEF Work, Changing, Inserting, Drafted
  <2>4. Trail(s)'
    BY <1>2, <2>1, <2>2 DEF Work, Trail, Drafted
  <2> QED
    BY <1>2, <2>1, <2>3, <2>4 DEF Work
<1>3. Claims'
  <2> SUFFICES ASSUME NEW u \in Users, claim'[u] # Nobody
               PROVE  u \notin Existing' /\ u \in Drafted(claim[u])'
    BY DEF Claims
  <2>1. CASE claim'[u] = t
    BY <1>1, <2>1 DEF Drafted
  <2>2. CASE claim'[u] # t
    <3>1. claim'[u] = claim[u] /\ claim[u] \in Sessions \ {t}
      BY <2>2 DEF IInv, TypeOK
    <3> QED
      BY <1>1, <3>1 DEF IInv, Claims, Drafted
  <2> QED
    BY <2>1, <2>2
<1> QED
  BY <1>2, <1>3 DEF IInv, WorkSoFar

-----------------------------------------------------------------------------
(* get_current_actor *)

\* A session that closes without a commit gives up its locks and its claims.
LEMMA CloseStep ==
  ASSUME IInv, NEW t \in Sessions, Close(t), NothingCommitted
  PROVE  IInv'
<1> USE DEF Goto, NothingCommitted
<1>1. /\ pc'[t] = "idle" /\ seen'[t] = NoRow /\ entries'[t] = {}
      /\ draft'[t] = NoDraft /\ Drafted(t)' = {}
  BY DEF Close, IInv, TypeOK, Drafted, NoDraft
<1>2. Work(t)'
  BY <1>1 DEF Work, Changing, Inserting, Trail
<1>3. TypeOK'
  BY SeededAccounts, MembershipsAssumption DEF Close, Released, IInv, TypeOK, Existing, NoDraft
<1>4. /\ \A u \in Users : claim'[u] # claim[u] => {claim[u], claim'[u]} \subseteq {Nobody, t}
      /\ \A u \in Users : claim'[u] # t
  BY MembershipsAssumption DEF Close, Released
<1> QED
  BY <1>2, <1>3, <1>4, QuietStep DEF Close, IInv, TypeOK

\* An admitted session has an actor and nothing else yet.
LEMMA AdmitStep ==
  ASSUME IInv, NEW t \in Sessions, NEW u \in Users, Admit(t, u)
  PROVE  IInv'
<1> USE DEF At, Goto, NothingCommitted
<1>1. TypeOK'
  BY DEF Admit, IInv, TypeOK, Live, Existing, Row
<1>2. /\ Drafted(t) = {} /\ Drafted(t)' = {} /\ draft'[t] = NoDraft
      /\ seen'[t] = NoRow /\ entries'[t] = {}
  BY NoDraftIsEmpty DEF Admit, IInv, WorkSoFar, Work, Changing, Trail, Drafted
<1>3. pc'[t] = "handler" /\ actor'[t] # Nobody
  BY MembershipsAssumption DEF Admit, IInv, TypeOK
<1>5. Work(t)'
  BY <1>2, <1>3 DEF Work, Changing, Inserting, Trail
<1>4. \A v \in Users : claim[v] # t
  BY <1>2, MembershipsAssumption DEF IInv, Claims
<1> QED
  BY <1>1, <1>4, <1>5, QuietStep DEF Admit, IInv, TypeOK

-----------------------------------------------------------------------------
(* add_member *)

\* add_member drafts the row it is about to insert.
LEMMA AddMemberStep ==
  ASSUME IInv, NEW t \in Sessions, NEW u \in Users, NEW r \in Roles, AddMember(t, u, r)
  PROVE  IInv'
<1> USE DEF At, Goto, NothingCommitted
<1>1. /\ Drafted(t) = {} /\ entries[t] = {} /\ seen[t] = NoRow
      /\ pc[t] = "handler" /\ actor[t] # Nobody
  BY NoDraftIsEmpty DEF AddMember, IInv, WorkSoFar, Work, Changing, Trail
<1>2. /\ draft' \in [Sessions -> [Users -> Row \cup {NoRow}]]
      /\ \A s \in Sessions \ {t} : draft'[s] = draft[s]
      /\ Drafted(t)' = {u}
  <2>1. TypeOK /\ Drafting(t, u, NewRow(r)) /\ NewRow(r) \in Row
    BY NewRowIsLive DEF AddMember, Drafting, IInv
  <2> QED
    BY <1>1, <2>1, DraftAssigned
<1>3. TypeOK'
  BY <1>2 DEF AddMember, IInv, TypeOK, Existing
<1>4. \A v \in Users : claim[v] # t
  BY <1>1, MembershipsAssumption DEF IInv, Claims
<1>5. Work(t)'
  BY <1>1, <1>2, <1>4 DEF AddMember, IInv, TypeOK, Work, Changing, Inserting, Trail
<1> QED
  BY <1>2, <1>3, <1>4, <1>5, QuietStep DEF AddMember, IInv, TypeOK

\* The INSERT claims its key and adds its audit row.
LEMMA InsertMemberStep ==
  ASSUME IInv, NEW t \in Sessions, InsertMember(t)
  PROVE  IInv'
<1> USE DEF At, Goto, NothingCommitted
<1>1. /\ pc[t] = "insert" /\ seen[t] = NoRow /\ target[t] \in Drafted(t)
      /\ actor[t] # Nobody /\ target[t] \notin Existing
      /\ claim' = [claim EXCEPT ![target[t]] = t]
      /\ entries' = [entries EXCEPT ![t] = @ \cup {EntryOf(t)}]
      /\ pc'[t] \in {"seed", "commit"}
      /\ Drafted(t)' = Drafted(t) /\ claim[target[t]] = Nobody
  BY DEF InsertMember, IndexAdmits, IInv, TypeOK, WorkSoFar, Work, Changing, Drafted
<1>2. EntryOf(t) \in Entry
  BY <1>1 DEF IInv, TypeOK, EntryOf, Entry, Drafted
<1>3. TypeOK'
  BY <1>1, <1>2 DEF InsertMember, IInv, TypeOK, Existing
<1>4. /\ claim'[target[t]] = t
      /\ \A v \in Users \ {target[t]} : claim'[v] = claim[v]
  BY <1>1 DEF IInv, TypeOK
<1>5. Trail(t)'
  <2>1. \A e \in entries'[t] : e \in entries[t] \/ e = EntryOf(t)
    BY <1>1 DEF IInv, TypeOK
  <2>2. ASSUME NEW e \in entries'[t]
        PROVE  /\ e.user \in Drafted(t)'
               /\ e.before = seen'[t] /\ e.after = draft'[t][e.user] /\ e.by = actor'[t]
               /\ seen'[t] = NoRow => claim'[e.user] = t
    <3>1. CASE e = EntryOf(t)
      BY <1>1, <1>4, <3>1 DEF EntryOf, InsertMember
    <3>2. CASE e \in entries[t]
      BY <1>1, <1>4, <3>2 DEF IInv, WorkSoFar, Work, Trail, InsertMember, Drafted
    <3> QED
      BY <2>1, <3>1, <3>2
  <2>3. ASSUME NEW v \in Drafted(t)
        PROVE  \E e \in entries'[t] : e.user = v
    <3>1. CASE v = target[t]
      <4>1. EntryOf(t) \in entries'[t] /\ EntryOf(t).user = v
        BY <1>1, <3>1 DEF IInv, TypeOK, EntryOf
      <4> QED
        BY <4>1
    <3>2. CASE v # target[t]
      <4>1. claim[v] = t
        BY <1>1, <3>2 DEF IInv, WorkSoFar, Work, Inserting
      <4>2. PICK e \in entries[t] : e.user = v
        BY <4>1 DEF IInv, WorkSoFar, Work, Trail
      <4> QED
        BY <1>1, <4>2 DEF IInv, TypeOK
    <3> QED
      BY <3>1, <3>2
  <2> QED
    BY <1>1, <2>2, <2>3 DEF Trail
<1>6. Work(t)'
  BY <1>1, <1>4, <1>5
     DEF InsertMember, IInv, TypeOK, WorkSoFar, Work, Changing, Inserting, Drafted
<1>7. \A v \in Users : claim'[v] = t => v \notin Existing /\ v \in Drafted(t)'
  BY <1>1, <1>4, MembershipsAssumption DEF IInv, Claims
<1>8. \A v \in Users : claim'[v] # claim[v] => {claim[v], claim'[v]} \subseteq {Nobody, t}
  BY <1>1, <1>4
<1> QED
  BY <1>1, <1>3, <1>6, <1>7, <1>8, QuietStep DEF InsertMember, IInv, TypeOK

-----------------------------------------------------------------------------
(* change_member_role, revoke_member *)

\* Both read a live membership and draft a change of it; neither revokes the
\* acting user's own.
LEMMA AssignStep ==
  ASSUME IInv, NEW t \in Sessions, NEW u \in Live, NEW x \in Row,
         At(t, "handler"), Assign(t, u, x), x.revoked => u # actor[t]
  PROVE  IInv'
<1> USE DEF At, Goto, NothingCommitted
<1>1. u \in Users /\ u \in Existing /\ members[u] \in Row /\ ~members[u].revoked
  BY DEF IInv, TypeOK, Live, Existing
<1>2. /\ Drafted(t) = {} /\ entries[t] = {} /\ seen[t] = NoRow
      /\ pc[t] = "handler" /\ actor[t] # Nobody
  BY NoDraftIsEmpty DEF IInv, WorkSoFar, Work, Changing, Trail
<1>3. /\ draft' \in [Sessions -> [Users -> Row \cup {NoRow}]]
      /\ \A s \in Sessions \ {t} : draft'[s] = draft[s]
      /\ draft'[t][u] = x /\ Drafted(t)' = {u}
  <2>1. TypeOK /\ Drafting(t, u, x)
    BY DEF Assign, Drafting, IInv
  <2> QED
    BY <1>1, <1>2, <2>1, DraftAssigned
<1>4. TypeOK'
  BY <1>1, <1>3 DEF Assign, IInv, TypeOK, Existing
<1>5. \A v \in Users : claim[v] # t
  BY <1>2, MembershipsAssumption DEF IInv, Claims
<1>6. Existing' = Existing /\ members[u] # NoRow
  BY <1>1, MembershipsAssumption DEF Assign, Existing
<1>7. Work(t)'
  BY <1>1, <1>2, <1>3, <1>5, <1>6
     DEF Assign, IInv, TypeOK, Work, Changing, Inserting, Trail
<1> QED
  BY <1>3, <1>4, <1>5, <1>7, QuietStep DEF Assign, IInv, TypeOK

\* The flush adds the one audit row of the change.
LEMMA FlushStep ==
  ASSUME IInv, NEW t \in Sessions, Flush(t)
  PROVE  IInv'
<1> USE DEF At, Goto, NothingCommitted
<1>1. /\ pc[t] = "flush" /\ seen[t] # NoRow /\ Drafted(t) = {target[t]}
      /\ actor[t] # Nobody /\ target[t] \in Users
      /\ entries'[t] = {EntryOf(t)} /\ pc'[t] = "commit"
      /\ Drafted(t)' = Drafted(t) /\ Existing' = Existing
  BY DEF Flush, IInv, TypeOK, WorkSoFar, Work, Changing, Inserting, Drafted, Existing
<1>2. EntryOf(t) \in Entry
  BY <1>1 DEF IInv, TypeOK, EntryOf, Entry, Drafted
<1>3. TypeOK'
  BY <1>1, <1>2 DEF Flush, IInv, TypeOK, Existing
<1>4. Trail(t)'
  <2>1. /\ seen' = seen /\ draft' = draft /\ actor' = actor
        /\ EntryOf(t).user = target[t] /\ EntryOf(t).before = seen[t]
        /\ EntryOf(t).after = draft[t][target[t]] /\ EntryOf(t).by = actor[t]
    BY DEF Flush, EntryOf
  <2>2. \A e \in entries'[t] : e = EntryOf(t)
    BY <1>1
  <2> QED
    BY <1>1, <2>1, <2>2 DEF Trail
<1>5. Work(t)'
  BY <1>1, <1>4 DEF Flush, IInv, TypeOK, WorkSoFar, Work, Changing, Inserting, Drafted
<1>6. \A v \in Users : claim[v] # t
  BY <1>1 DEF IInv, WorkSoFar, Work, Changing
<1> QED
  BY <1>1, <1>3, <1>5, <1>6, QuietStep DEF Flush, IInv, TypeOK

-----------------------------------------------------------------------------
(* seed *)

\* The founding owner's row is drafted.
LEMMA SeedOrganizationStep ==
  ASSUME IInv, NEW t \in Sessions, SeedOrganization(t)
  PROVE  IInv'
<1> USE DEF At, Goto, NothingCommitted
<1>1. /\ Drafted(t) = {} /\ entries[t] = {} /\ seen[t] = NoRow /\ pc[t] = "idle"
      /\ Founder \in Users /\ NewRow(Owner) \in Row /\ System # Nobody
  BY NoDraftIsEmpty, SeededAccounts, NewRowIsLive, MembershipsAssumption
     DEF SeedOrganization, IInv, WorkSoFar, Work, Changing, Trail
<1>2. /\ draft' \in [Sessions -> [Users -> Row \cup {NoRow}]]
      /\ \A s \in Sessions \ {t} : draft'[s] = draft[s]
      /\ Drafted(t)' = {Founder}
  <2>1. TypeOK /\ Drafting(t, Founder, NewRow(Owner))
    BY DEF SeedOrganization, Drafting, IInv
  <2> QED
    BY <1>1, <2>1, DraftAssigned
<1>3. TypeOK'
  BY <1>1, <1>2 DEF SeedOrganization, IInv, TypeOK, Existing
<1>4. \A v \in Users : claim[v] # t
  BY <1>1, MembershipsAssumption DEF IInv, Claims
<1>5. Work(t)'
  BY <1>1, <1>2, <1>4
     DEF SeedOrganization, IInv, TypeOK, Work, Changing, Inserting, Trail
<1> QED
  BY <1>2, <1>3, <1>4, <1>5, QuietStep DEF SeedOrganization, IInv, TypeOK

\* The command acts as the system.
LEMMA SeedAgainStep ==
  ASSUME IInv, NEW t \in Sessions, SeedAgain(t)
  PROVE  IInv'
<1> USE DEF At, Goto, NothingCommitted
<1>1. /\ Drafted(t) = {} /\ Drafted(t)' = {} /\ seen'[t] = NoRow /\ entries'[t] = {}
  BY NoDraftIsEmpty DEF SeedAgain, IInv, WorkSoFar, Work, Changing, Trail, Drafted
<1>2. pc'[t] = "seed" /\ actor'[t] # Nobody
  BY MembershipsAssumption DEF SeedAgain, IInv, TypeOK
<1>3. TypeOK'
  BY DEF SeedAgain, IInv, TypeOK, Existing
<1>4. Work(t)'
  BY <1>1, <1>2 DEF Work, Changing, Inserting, Trail
<1>5. \A v \in Users : claim[v] # t
  BY <1>1, MembershipsAssumption DEF IInv, Claims
<1> QED
  BY <1>3, <1>4, <1>5, QuietStep DEF SeedAgain, IInv, TypeOK

\* Between two entries of the list, a seed has claimed every row it drafted and
\* added its audit row.
LEMMA BetweenSeeds ==
  ASSUME IInv, NEW t \in Sessions, pc[t] = "seed"
  PROVE  /\ seen[t] = NoRow /\ actor[t] # Nobody
         /\ \A u \in Drafted(t) : claim[u] = t /\ \E e \in entries[t] : e.user = u
         /\ \A u \in Users : claim[u] = t => u \notin Existing /\ u \in Drafted(t)
         /\ \A e \in entries[t] :
              /\ e.user \in Drafted(t)
              /\ e.before = seen[t] /\ e.after = draft[t][e.user] /\ e.by = actor[t]
              /\ claim[e.user] = t
<1>1. Work(t) /\ seen[t] = NoRow
  BY DEF IInv, WorkSoFar, Work, Changing
<1>2. \A u \in Users : claim[u] = t => u \notin Existing /\ u \in Drafted(t)
  BY MembershipsAssumption DEF IInv, Claims
<1>3. \A u \in Drafted(t) : claim[u] = t /\ \E e \in entries[t] : e.user = u
  BY <1>1 DEF Work, Inserting, Trail
<1> QED
  BY <1>1, <1>2, <1>3 DEF Work, Trail

\* A seeded account that needs nothing is passed over.
LEMMA SeedSkipStep ==
  ASSUME IInv, NEW t \in Sessions, SeedSkip(t)
  PROVE  IInv'
<1> USE DEF At, Goto, NothingCommitted
<1>1. TypeOK'
  BY SeededAccounts DEF SeedSkip, IInv, TypeOK, Existing
<1>2. Drafted(t)' = Drafted(t) /\ Existing' = Existing
  BY DEF SeedSkip, Drafted, Existing
<1>3. Work(t)'
  BY <1>2, BetweenSeeds
     DEF SeedSkip, IInv, WorkSoFar, Work, Changing, Inserting, Trail
<1> QED
  BY <1>1, <1>2, <1>3, BetweenSeeds, QuietStep DEF SeedSkip, IInv, TypeOK

\* The row of the next seeded account is drafted: one it has not drafted yet.
LEMMA SeedMemberStep ==
  ASSUME IInv, NEW t \in Sessions, SeedMember(t)
  PROVE  IInv'
<1> USE DEF At, Goto, NothingCommitted
<1> DEFINE u == SeedUser(t).user
           r == SeedUser(t).role
<1>1. /\ u \in Users /\ r \in Roles /\ step[t] + 1 \in 0..SeedLength
      /\ pc[t] = "seed" /\ u \notin Drafted(t)
  BY SeededAccounts DEF SeedMember, SeedUser, SeedFinds, IInv, TypeOK
<1>2. /\ Drafting(t, u, NewRow(r)) /\ target'[t] = u /\ pc'[t] = "insert"
      /\ step' = [step EXCEPT ![t] = step[t] + 1]
      /\ target' = [target EXCEPT ![t] = u]
      /\ pc' = [pc EXCEPT ![t] = "insert"]
      /\ UNCHANGED <<members, lock, claim, actor, role, seen, entries>>
      /\ emitted' = {}
  BY DEF SeedMember, Drafting, IInv, TypeOK
<1> HIDE DEF u, r
<1>3. /\ draft' \in [Sessions -> [Users -> Row \cup {NoRow}]]
      /\ \A v \in Users \ {u} : draft'[t][v] = draft[t][v]
      /\ \A s \in Sessions \ {t} : draft'[s] = draft[s]
      /\ Drafted(t)' = Drafted(t) \cup {u}
  BY <1>1, <1>2, NewRowIsLive, DraftAssigned DEF IInv
<1>4. TypeOK'
  BY <1>1, <1>2, <1>3 DEF IInv, TypeOK, Existing
<1>5. Trail(t)'
  <2>1. ASSUME NEW e \in entries'[t]
        PROVE  /\ e.user \in Drafted(t)'
               /\ e.before = seen'[t] /\ e.after = draft'[t][e.user] /\ e.by = actor'[t]
               /\ claim'[e.user] = t
    <3>1. e \in entries[t] /\ e.user \in Drafted(t) /\ e.user \in Users
      BY <1>1, <1>2, BetweenSeeds DEF Drafted
    <3>2. e.user # u
      BY <1>1, <3>1
    <3> QED
      BY <1>1, <1>2, <1>3, <3>1, <3>2, BetweenSeeds
  <2>2. \A v \in Drafted(t)' : claim'[v] = t \/ pc'[t] = "commit" =>
           \E e \in entries'[t] : e.user = v
    BY <1>1, <1>2, <1>3, BetweenSeeds
  <2> QED
    BY <2>1, <2>2 DEF Trail
<1>6. Work(t)'
  <2>1. seen'[t] = NoRow /\ actor'[t] # Nobody /\ u \in Drafted(t)'
    BY <1>1, <1>2, <1>3, BetweenSeeds
  <2>2. Inserting(t)'
    BY <1>1, <1>2, <1>3, <2>1, BetweenSeeds DEF Inserting
  <2> QED
    BY <1>2, <1>5, <2>1, <2>2 DEF Work, Changing
<1>7. \A v \in Users : claim'[v] = t => v \notin Existing /\ v \in Drafted(t)'
  BY <1>1, <1>2, <1>3, BetweenSeeds
<1> QED
  BY <1>2, <1>3, <1>4, <1>6, <1>7, QuietStep DEF IInv, TypeOK

\* A seed that is through goes to its commit.
LEMMA SeedEndsStep ==
  ASSUME IInv, NEW t \in Sessions, SeedEnds(t)
  PROVE  IInv'
<1> USE DEF At, Goto, NothingCommitted
<1>1. TypeOK'
  BY DEF SeedEnds, IInv, TypeOK, Existing
<1>2. Drafted(t)' = Drafted(t) /\ pc[t] = "seed" /\ pc'[t] = "commit"
  BY DEF SeedEnds, Drafted, IInv, TypeOK
<1>3. Trail(t)' /\ Inserting(t)' /\ Changing(t)'
  BY <1>2, BetweenSeeds DEF SeedEnds, Trail, Inserting, Changing
<1>4. Work(t)'
  BY <1>2, <1>3, BetweenSeeds DEF SeedEnds, Work
<1> QED
  BY <1>1, <1>2, <1>4, BetweenSeeds, QuietStep DEF SeedEnds, IInv, TypeOK

-----------------------------------------------------------------------------
(* The commit *)

\* A commit inserts the rows its session claimed, or flushes the one row the
\* session read live.
LEMMA CommitRows ==
  ASSUME IInv, NEW t \in Sessions, Commit(t)
  PROVE  /\ Existing' = Existing \cup Drafted(t)
         /\ \A u \in Existing \ Drafted(t) : members'[u] = members[u]
         /\ \A u \in Drafted(t) \ Existing :
              /\ seen[t] = NoRow /\ claim[u] = t
              /\ members'[u] = draft[t][u] /\ draft[t][u] \in Row
         /\ \A u \in Drafted(t) \cap Existing :
              /\ seen[t] \in Row /\ ~seen[t].revoked
              /\ u = target[t] /\ Drafted(t) = {u} /\ draft[t][u] \in Row
              /\ draft[t][u].revoked => u # actor[t]
              /\ members'[u] = Flushed(members[u], seen[t], draft[t][u])
<1>1. /\ pc[t] = "commit" /\ Work(t)
      /\ members' = [u \in Existing \cup Drafted(t) |-> Written(t, u)]
  BY DEF Commit, At, IInv, WorkSoFar
<1>2. Existing' = Existing \cup Drafted(t)
  BY <1>1 DEF Existing
<1>3. \A u \in Existing' : members'[u] = Written(t, u)
  BY <1>1, <1>2
<1>4. \A u \in Drafted(t) : draft[t][u] \in Row /\ u \in Users
  BY DEF Drafted, IInv, TypeOK
<1>5. ASSUME NEW u \in Drafted(t) \ Existing
      PROVE  seen[t] = NoRow /\ claim[u] = t
  BY <1>1, <1>5 DEF Work, Changing, Inserting
<1>6. ASSUME NEW u \in Drafted(t) \cap Existing
      PROVE  /\ seen[t] \in Row /\ ~seen[t].revoked
             /\ u = target[t] /\ Drafted(t) = {u}
             /\ draft[t][u].revoked => u # actor[t]
  <2>1. seen[t] # NoRow
    <3> SUFFICES ASSUME seen[t] = NoRow PROVE FALSE
      OBVIOUS
    <3>1. claim[u] = t /\ u \in Users
      BY <1>1, <1>4, <1>6 DEF Work, Inserting
    <3> QED
      BY <1>6, <3>1, MembershipsAssumption DEF IInv, Claims
  <2>2. Changing(t) /\ seen[t] \in Row
    BY <1>1, <2>1 DEF Work, IInv, TypeOK
  <2> QED
    BY <1>6, <2>1, <2>2 DEF Changing
<1> QED
  BY <1>2, <1>3, <1>4, <1>5, <1>6 DEF Written

\* A commit keeps the invariant.
LEMMA CommitStep ==
  ASSUME IInv, NEW t \in Sessions, Commit(t)
  PROVE  IInv'
<1> USE DEF At, Goto
<1>1. TypeOK'
  <2>1. Existing' \subseteq Users
    BY CommitRows DEF IInv, TypeOK, Drafted
  <2>2. \A u \in Existing' : members'[u] \in Row
    <3> SUFFICES ASSUME NEW u \in Existing' PROVE members'[u] \in Row
      OBVIOUS
    <3>1. CASE u \notin Existing
      BY <3>1, CommitRows
    <3>2. CASE u \in Existing /\ u \notin Drafted(t)
      BY <3>2, CommitRows DEF IInv, TypeOK
    <3>3. CASE u \in Existing /\ u \in Drafted(t)
      <4>1. members[u] \in Row
        BY <3>3 DEF IInv, TypeOK
      <4> QED
        BY <3>3, <4>1, CommitRows, FlushedKeeps
    <3> QED
      BY <3>1, <3>2, <3>3
  <2>3. members' \in [Existing' -> Row]
    <3>1. members' = [u \in Existing' |-> members'[u]]
      BY CommitRows DEF Commit
    <3> QED
      BY <2>2, <3>1
  <2>4. /\ target' \in [Sessions -> Users]
        /\ draft' \in [Sessions -> [Users -> Row \cup {NoRow}]]
        /\ step' \in [Sessions -> 0..SeedLength]
    BY SeededAccounts DEF Commit, Close, IInv, TypeOK, NoDraft
  <2> QED
    BY <2>1, <2>3, <2>4 DEF Commit, Close, Released, IInv, TypeOK
<1>2. /\ \A s \in Sessions \ {t} :
           /\ pc'[s] = pc[s] /\ actor'[s] = actor[s] /\ target'[s] = target[s]
           /\ seen'[s] = seen[s] /\ draft'[s] = draft[s] /\ entries'[s] = entries[s]
           /\ Drafted(s)' = Drafted(s)
      /\ \A u \in Users : claim'[u] = IF claim[u] = t THEN Nobody ELSE claim[u]
  BY DEF Commit, Close, Released, IInv, TypeOK, Drafted
<1>3. ASSUME NEW s \in Sessions PROVE Work(s)'
  <2>1. CASE s = t
    <3>1. /\ pc'[t] = "idle" /\ seen'[t] = NoRow /\ entries'[t] = {}
          /\ draft'[t] = NoDraft /\ Drafted(t)' = {}
      BY DEF Commit, Close, IInv, TypeOK, Drafted, NoDraft
    <3> QED
      BY <2>1, <3>1 DEF Work, Changing, Inserting, Trail
  <2>2. CASE s # t
    <3>1. /\ Work(s) /\ Existing \subseteq Existing'
          /\ \A u \in Users : claim'[u] = s <=> claim[u] = s
      BY <1>2, <2>2, CommitRows, MembershipsAssumption DEF IInv, WorkSoFar
    <3>2. Changing(s)' /\ Inserting(s)'
      BY <1>2, <2>2, <3>1 DEF Work, Changing, Inserting, Drafted
    <3>3. Trail(s)'
      BY <1>2, <2>2, <3>1 DEF Work, Trail, Drafted
    <3> QED
      BY <1>2, <2>2, <3>1, <3>2, <3>3 DEF Work
  <2> QED
    BY <2>1, <2>2
<1>4. Claims'
  <2> SUFFICES ASSUME NEW u \in Users, claim'[u] # Nobody
               PROVE  u \notin Existing' /\ u \in Drafted(claim[u])'
    BY DEF Claims
  <2>1. claim'[u] = claim[u] /\ claim[u] \in Sessions \ {t}
    BY <1>2 DEF IInv, TypeOK
  <2>2. u \notin Existing /\ u \in Drafted(claim[u])
    BY <2>1 DEF IInv, Claims
  <2>3. u \notin Drafted(t)
    BY <2>1, <2>2, CommitRows
  <2> QED
    BY <1>2, <2>1, <2>2, <2>3, CommitRows DEF Drafted
<1> QED
  BY <1>1, <1>3, <1>4 DEF IInv, WorkSoFar

-----------------------------------------------------------------------------
(* The invariant holds *)

\* Every step keeps the invariant.
LEMMA NextPreserves == IInv /\ [Next]_vars => IInv'
<1> SUFFICES ASSUME IInv, [Next]_vars PROVE IInv'
  OBVIOUS
<1>1. CASE UNCHANGED vars
  BY <1>1 DEF vars, IInv, TypeOK, WorkSoFar, Work, Changing, Inserting, Trail, Claims,
              Existing, Drafted
<1>2. ASSUME NEW t \in Sessions, Handler(t) PROVE IInv'
  BY <1>2, CloseStep, InsertMemberStep, FlushStep, SeedOrganizationStep, SeedAgainStep,
     SeedSkipStep, SeedMemberStep, SeedEndsStep
     DEF Handler, RefusePermission, InsertRejected
<1>3. ASSUME NEW t \in Sessions, Commit(t) \/ Rollback(t) PROVE IInv'
  BY <1>3, CommitStep, CloseStep DEF Rollback
<1>4. ASSUME NEW t \in Sessions, NEW u \in Users, Request(t, u) PROVE IInv'
  <2>1. CASE Admit(t, u)
    BY <2>1, AdmitStep
  <2>2. CASE RevokeMember(t, u)
    <3>1. u \in Live /\ [members[u] EXCEPT !.revoked = TRUE] \in Row /\ u # actor[t]
      BY <2>2 DEF RevokeMember, MayRevoke, Live, Existing, IInv, TypeOK, Row
    <3> QED
      BY <2>2, <3>1, AssignStep DEF RevokeMember
  <2>3. CASE RefuseActor(t, u) \/ RefuseMember(t, u) \/ KeepRole(t, u) \/ RefuseChange(t, u)
    BY <2>3, CloseStep DEF RefuseActor, RefuseMember, KeepRole, RefuseChange
  <2> QED
    BY <1>4, <2>1, <2>2, <2>3 DEF Request
<1>5. ASSUME NEW t \in Sessions, NEW u \in Users, NEW r \in Roles,
             AddMember(t, u, r) \/ ChangeRole(t, u, r)
      PROVE  IInv'
  <2>1. CASE ChangeRole(t, u, r)
    <3>1. /\ u \in Live /\ [members[u] EXCEPT !.role = r] \in Row
          /\ ~[members[u] EXCEPT !.role = r].revoked
      BY <2>1 DEF ChangeRole, Live, Existing, IInv, TypeOK, Row
    <3> QED
      BY <2>1, <3>1, AssignStep DEF ChangeRole
  <2> QED
    BY <1>5, <2>1, AddMemberStep
<1> QED
  BY <1>1, <1>2, <1>3, <1>4, <1>5 DEF Next

\* The inductive invariant holds in every state.
THEOREM InductiveInvariant == Spec => []IInv
BY InitEstablishes, NextPreserves, PTL DEF Spec

\* Every variable stays in its set, for any constants.
THEOREM TypeCorrect == Spec => []TypeOK
<1>1. IInv => TypeOK
  BY DEF IInv
<1> QED
  BY <1>1, InductiveInvariant, PTL

-----------------------------------------------------------------------------
(* What a commit may do *)

\* Only a commit changes a membership or shows an audit row.
LEMMA OnlyCommitsShow ==
  ASSUME [Next]_vars
  PROVE  \/ UNCHANGED tables
         \/ members' = members /\ emitted' = {}
         \/ \E t \in Sessions : Commit(t)
BY DEF Next, vars, tables, Handler, Request, Rollback, NothingCommitted, Admit,
       RefuseActor, RefusePermission, AddMember, RefuseMember, InsertMember,
       InsertRejected, Assign, ChangeRole, KeepRole, RevokeMember, RefuseChange, Flush,
       SeedOrganization, SeedAgain, SeedSkip, SeedMember, SeedEnds

\* The audit rows of a commit are about the rows it writes, one for each.
LEMMA CommitTrail ==
  ASSUME IInv, NEW t \in Sessions, Commit(t)
  PROVE  /\ \A e \in emitted' :
              /\ e.user \in Drafted(t)
              /\ e.before = seen[t] /\ e.after = draft[t][e.user] /\ e.by = actor[t]
         /\ \A u \in Drafted(t) : \E e \in emitted' : e.user = u
<1>1. emitted' = entries[t] /\ pc[t] = "commit" /\ Trail(t)
  BY DEF Commit, At, IInv, WorkSoFar, Work
<1> QED
  BY <1>1 DEF Trail

\* An organization with an owner loses its last one only to a request of that
\* owner, or of somebody who has stopped being an owner since it began
\* (revoke_member's cannot_revoke_self).
THEOREM LastOwnerStays == Spec => LastOwnerLeavesByOwnHand
<1>1. ASSUME IInv, [Next]_vars, ~UNCHANGED tables, Owners # {}, Owners' = {}
      PROVE  \E e \in emitted' :
               e.by \notin Owners \/ (e.user = e.by /\ e.after.role # Owner)
  <2>1. members' # members
    BY <1>1 DEF Owners, Live, Existing
  <2>2. PICK t \in Sessions : Commit(t)
    BY <1>1, <2>1, OnlyCommitsShow DEF tables
  <2>3. PICK o \in Owners : actor[t] \in Owners => o = actor[t]
    BY <1>1
  <2>4. /\ o \in Existing /\ members[o] \in Row
        /\ ~members[o].revoked /\ members[o].role = Owner
    BY <1>1, <2>3 DEF Owners, Live, Existing, IInv, TypeOK
  <2>5. members'[o].revoked \/ members'[o].role # Owner
    BY <1>1, <2>2, <2>4, CommitRows DEF Owners, Live, Existing
  <2>6. o \in Drafted(t)
    BY <1>1, <2>2, <2>4, <2>5, CommitRows
  <2>7. PICK e \in emitted' : e.user = o /\ e.after = draft[t][o] /\ e.by = actor[t]
    BY <1>1, <2>2, <2>6, CommitTrail
  <2>8. CASE actor[t] \notin Owners
    BY <2>7, <2>8
  <2>9. CASE actor[t] \in Owners
    <3>1. /\ seen[t] \in Row /\ ~seen[t].revoked /\ draft[t][o] \in Row
          /\ o = actor[t] /\ ~draft[t][o].revoked
          /\ members'[o] = Flushed(members[o], seen[t], draft[t][o])
      BY <1>1, <2>2, <2>3, <2>4, <2>6, <2>9, CommitRows
    <3>2. ~members'[o].revoked /\ draft[t][o].role # Owner
      BY <2>4, <2>5, <3>1 DEF Flushed, Row
    <3> QED
      BY <2>7, <3>1, <3>2
  <2> QED
    BY <2>8, <2>9
<1>2. IInv /\ [Next]_vars =>
        [Owners # {} /\ Owners' = {} =>
           \E e \in emitted' :
             \/ e.by \notin Owners
             \/ e.user = e.by /\ e.after.role # Owner]_tables
  BY <1>1
<1> QED
  BY <1>2, InductiveInvariant, PTL DEF Spec, LastOwnerLeavesByOwnHand

\* The audit trail and the memberships change together, and say the same.
THEOREM TrailExplainsAccess == Spec => AccessIsExplained
<1>1. ASSUME IInv, [Next]_vars, ~UNCHANGED tables, NEW u \in DOMAIN members'
      PROVE  \/ u \in Existing /\ members'[u] = members[u]
             \/ \E e \in emitted' :
                  /\ e.user = u
                  /\ (e.before = NoRow) = (u \notin Existing)
                  /\ \A c \in {"role", "revoked"} :
                       \/ u \in Existing /\ members'[u][c] = members[u][c]
                       \/ e.after[c] = members'[u][c]
  <2>1. CASE members' = members
    BY <2>1 DEF Existing
  <2>2. ASSUME NEW t \in Sessions, Commit(t), u \in Drafted(t)
        PROVE  \E e \in emitted' :
                  /\ e.user = u
                  /\ (e.before = NoRow) = (u \notin Existing)
                  /\ \A c \in {"role", "revoked"} :
                       \/ u \in Existing /\ members'[u][c] = members[u][c]
                       \/ e.after[c] = members'[u][c]
    <3>1. PICK e \in emitted' :
             e.user = u /\ e.before = seen[t] /\ e.after = draft[t][u]
      BY <1>1, <2>2, CommitTrail
    <3>2. CASE u \notin Existing
      BY <1>1, <2>2, <3>1, <3>2, CommitRows
    <3>3. CASE u \in Existing
      <4>1. /\ seen[t] \in Row /\ draft[t][u] \in Row /\ members[u] \in Row
            /\ members'[u] = Flushed(members[u], seen[t], draft[t][u])
        BY <1>1, <2>2, <3>3, CommitRows DEF IInv, TypeOK
      <4>2. seen[t] # NoRow
        BY <4>1, MembershipsAssumption
      <4>3. \A c \in {"role", "revoked"} :
              members'[u][c] = members[u][c] \/ draft[t][u][c] = members'[u][c]
        BY <4>1, FlushedKeeps
      <4> QED
        BY <3>1, <3>3, <4>2, <4>3
    <3> QED
      BY <3>2, <3>3
  <2>3. ASSUME NEW t \in Sessions, Commit(t), u \notin Drafted(t)
        PROVE  u \in Existing /\ members'[u] = members[u]
    <3>1. u \in Existing'
      BY DEF Existing
    <3> QED
      BY <1>1, <2>3, <3>1, CommitRows
  <2> QED
    BY <1>1, <2>1, <2>2, <2>3, OnlyCommitsShow DEF tables
<1>2. ASSUME IInv, [Next]_vars, ~UNCHANGED tables, NEW e \in emitted'
      PROVE  /\ e.user \in DOMAIN members'
             /\ \A c \in {"role", "revoked"} :
                  e.before = NoRow \/ e.before[c] # e.after[c]
                    => members'[e.user][c] = e.after[c]
  <2>1. PICK t \in Sessions : Commit(t)
    BY <1>2, OnlyCommitsShow
  <2>2. e.user \in Drafted(t) /\ e.before = seen[t] /\ e.after = draft[t][e.user]
    BY <1>2, <2>1, CommitTrail
  <2>3. e.user \in DOMAIN members'
    <3>1. e.user \in Existing'
      BY <1>2, <2>1, <2>2, CommitRows
    <3> QED
      BY <3>1 DEF Existing
  <2>4. CASE e.user \notin Existing
    BY <1>2, <2>1, <2>2, <2>3, <2>4, CommitRows
  <2>5. CASE e.user \in Existing
    <3>1. /\ seen[t] \in Row /\ draft[t][e.user] \in Row /\ members[e.user] \in Row
          /\ members'[e.user] = Flushed(members[e.user], seen[t], draft[t][e.user])
      BY <1>2, <2>1, <2>2, <2>5, CommitRows DEF IInv, TypeOK
    <3>2. seen[t] # NoRow
      BY <3>1, MembershipsAssumption
    <3>3. \A c \in {"role", "revoked"} :
            draft[t][e.user][c] # seen[t][c] => members'[e.user][c] = draft[t][e.user][c]
      BY <3>1, FlushedKeeps
    <3> QED
      BY <2>2, <2>3, <3>2, <3>3
  <2> QED
    BY <2>4, <2>5
<1>3. IInv /\ [Next]_vars =>
        [/\ \A u \in DOMAIN members' :
              \/ u \in Existing /\ members'[u] = members[u]
              \/ \E e \in emitted' :
                   /\ e.user = u
                   /\ (e.before = NoRow) = (u \notin Existing)
                   /\ \A c \in {"role", "revoked"} :
                        \/ u \in Existing /\ members'[u][c] = members[u][c]
                        \/ e.after[c] = members'[u][c]
         /\ \A e \in emitted' :
              /\ e.user \in DOMAIN members'
              /\ \A c \in {"role", "revoked"} :
                   e.before = NoRow \/ e.before[c] # e.after[c]
                     => members'[e.user][c] = e.after[c]]_tables
  BY <1>1, <1>2
<1> QED
  BY <1>3, InductiveInvariant, PTL DEF Spec, AccessIsExplained
-----------------------------------------------------------------------------
(* What the seed finds *)

\* The accounts a seed creates: the founder and everyone who is no owner.
Required ==
  {Founder} \cup
    {SEED_USERS[k].user : k \in {j \in 1..SeedLength : SEED_USERS[j].role # Owner}}

\* The first commit of an organization is the one of a whole seed.
Founded == Existing # {} => Required \subseteq Existing

\* A row lock is held only between a flush and the commit right after it.
LocksAreUsed == \A u \in Users : lock[u] # Nobody => pc[lock[u]] = "commit"

\* The session is about to insert the founder.
Fresh(t) == pc[t] = "insert" /\ step[t] = 0

\* A request works on one row, and holds a key of the index only when it is
\* done with its work.
Handling(t) ==
  pc[t] # "idle" /\ actor[t] # System =>
    /\ Existing # {}
    /\ Drafted(t) \subseteq {target[t]}
    /\ \A u \in Users : claim[u] = t => pc[t] = "commit"

\* A seed that holds the founder's key has made the founder an owner and has
\* drafted whom it has passed.
Opening(t) ==
  actor[t] = System /\ claim[Founder] = t =>
    /\ draft[t][Founder].role = Owner
    /\ \A k \in 1..step[t] :
         SEED_USERS[k].role # Owner => SEED_USERS[k].user \in Drafted(t)
    /\ pc[t] = "commit" => step[t] = SeedLength

\* A seed of an organization that is there holds nothing, and tries to insert
\* revoked accounts only.
Repeating(t) ==
  actor[t] = System /\ claim[Founder] # t /\ ~Fresh(t) =>
    /\ Existing # {}
    /\ \A u \in Users : claim[u] # t
    /\ pc[t] = "insert" => target[t] \in Existing /\ members[target[t]].revoked

\* Nobody inserts a revoked membership.
Granting(t) == seen[t] = NoRow => \A u \in Drafted(t) : ~draft[t][u].revoked

Seeding(t) ==
  /\ pc[t] \in {"handler", "flush"} => actor[t] # System
  /\ pc[t] = "seed" => actor[t] = System
  /\ pc[t] = "idle" => actor[t] = Nobody /\ step[t] = 0
  /\ pc[t] = "insert" => claim[target[t]] # t
  /\ actor[t] = System /\ Fresh(t) =>
       /\ target[t] = Founder /\ Drafted(t) = {Founder}
       /\ draft[t][Founder].role = Owner
  /\ Granting(t)
  /\ Handling(t)
  /\ Opening(t)
  /\ Repeating(t)

SeedInv == Founded /\ LocksAreUsed /\ \A t \in Sessions : Seeding(t)

\* No other session moves.
Alone(t) ==
  \A s \in Sessions \ {t} :
    /\ pc'[s] = pc[s] /\ actor'[s] = actor[s] /\ target'[s] = target[s]
    /\ seen'[s] = seen[s] /\ draft'[s] = draft[s] /\ step'[s] = step[s]

\* What the step of a session that commits nothing owes the invariant.
LEMMA QuietSeed ==
  ASSUME IInv, SeedInv, NEW t \in Sessions, UNCHANGED members, Seeding(t)', Alone(t),
         \A u \in Users : claim'[u] # claim[u] => {claim[u], claim'[u]} \subseteq {Nobody, t},
         \A u \in Users : \/ lock'[u] = Nobody
                          \/ lock'[u] = lock[u] /\ lock[u] # t
                          \/ lock'[u] = t /\ pc'[t] = "commit"
  PROVE  SeedInv'
<1>1. Existing' = Existing /\ Founded'
  BY DEF Existing, Founded, SeedInv
<1>2. LocksAreUsed'
  BY DEF LocksAreUsed, SeedInv, Alone, IInv, TypeOK
<1>3. ASSUME NEW s \in Sessions, s # t PROVE Seeding(s)'
  <2>1. Seeding(s) /\ Drafted(s)' = Drafted(s) /\ target[s] \in Users /\ Founder \in Users
    BY <1>3, SeededAccounts DEF SeedInv, Alone, Drafted, IInv, TypeOK
  <2>2. \A u \in Users : claim'[u] = s <=> claim[u] = s
    BY <1>3, MembershipsAssumption
  <2>3. Granting(s)' /\ Handling(s)' /\ Opening(s)' /\ Repeating(s)'
    BY <1>1, <1>3, <2>1, <2>2
       DEF Seeding, Granting, Handling, Opening, Repeating, Fresh, Alone
  <2> QED
    BY <1>1, <1>3, <2>1, <2>2, <2>3 DEF Seeding, Fresh, Alone
<1> QED
  BY <1>1, <1>2, <1>3 DEF SeedInv

\* A session that ends without a commit has nothing left of its work.
LEMMA CloseSeed ==
  ASSUME IInv, SeedInv, NEW t \in Sessions, Close(t), UNCHANGED members
  PROVE  SeedInv'
<1>1. /\ pc'[t] = "idle" /\ actor'[t] = Nobody /\ step'[t] = 0 /\ Drafted(t)' = {}
      /\ \A u \in Users : claim'[u] = IF claim[u] = t THEN Nobody ELSE claim[u]
      /\ \A u \in Users : lock'[u] = IF lock[u] = t THEN Nobody ELSE lock[u]
  BY DEF Close, Goto, Released, Drafted, NoDraft, IInv, TypeOK
<1>2. Seeding(t)'
  BY <1>1, MembershipsAssumption
     DEF Seeding, Granting, Handling, Opening, Repeating, Fresh
<1> QED
  BY <1>1, <1>2, QuietSeed DEF Close, Goto, Alone, IInv, TypeOK

\* Once an organization is there, nobody can hold the founder's key.
LEMMA OpeningIsFirst ==
  ASSUME IInv, SeedInv, NEW t \in Sessions, claim[Founder] = t
  PROVE  Existing = {}
BY SeededAccounts, MembershipsAssumption DEF SeedInv, Founded, Required, IInv, Claims

\* A session that has not committed and is past no flush holds no lock.
LEMMA NoLockYet ==
  ASSUME SeedInv, NEW t \in Sessions, pc[t] # "commit"
  PROVE  \A u \in Users : lock[u] # t
BY MembershipsAssumption DEF SeedInv, LocksAreUsed

\* get_current_actor and the handlers of the requests.
LEMMA RequestSeed ==
  ASSUME IInv, SeedInv, NEW t \in Sessions, NEW u \in Users,
         \/ Admit(t, u) \/ RevokeMember(t, u)
         \/ \E r \in Roles : AddMember(t, u, r) \/ ChangeRole(t, u, r)
  PROVE  SeedInv'
<1> USE DEF At, Goto, NothingCommitted
<1> DEFINE Quiet == /\ pc[t] \in {"idle", "handler"}
                    /\ pc'[t] \in {"handler", "insert", "flush"}
                    /\ UNCHANGED <<members, claim, lock>>
                    /\ actor'[t] # System /\ Existing # {}
                    /\ target'[t] \in Users
                    /\ Drafted(t)' \subseteq {target'[t]} /\ Granting(t)'
                    /\ Alone(t)
<1>0. ASSUME pc[t] \in {"idle", "handler"} PROVE draft[t] = NoDraft /\ Drafted(t) = {}
  BY <1>0, NoDraftIsEmpty DEF IInv, WorkSoFar, Work
<1>1. Quiet
  <2>1. CASE Admit(t, u)
    <3>1. Drafted(t)' = {}
      BY <1>0, <2>1 DEF Admit, Drafted
    <3> QED
      BY <2>1, <3>1, MembershipsAssumption DEF Admit, Live, Granting, Alone, IInv, TypeOK
  <2>2. ASSUME NEW r \in Roles, AddMember(t, u, r) PROVE Quiet
    <3>1. TypeOK /\ Drafting(t, u, NewRow(r)) /\ NewRow(r) \in Row /\ ~NewRow(r).revoked
      BY <2>2, NewRowIsLive DEF AddMember, Drafting, IInv
    <3>2. draft'[t][u] = NewRow(r) /\ Drafted(t)' = {u}
      BY <1>0, <2>2, <3>1, DraftAssigned DEF AddMember
    <3>3. \A s \in Sessions \ {t} : draft'[s] = draft[s]
      BY <3>1, DraftAssigned
    <3>4. Granting(t)'
      BY <3>1, <3>2 DEF Granting
    <3>5. pc[t] = "handler" /\ actor[t] # System /\ Existing # {}
      BY <2>2 DEF AddMember, SeedInv, Seeding, Handling
    <3>6. /\ pc'[t] = "insert" /\ target'[t] = u /\ actor'[t] = actor[t]
          /\ UNCHANGED <<members, claim, lock>>
      BY <2>2 DEF AddMember, IInv, TypeOK
    <3>7. Alone(t)
      BY <2>2, <3>3 DEF AddMember, Alone, IInv, TypeOK
    <3> QED
      BY <3>2, <3>4, <3>5, <3>6, <3>7
  <2>3. ASSUME NEW x \in Row, u \in Live, pc[t] = "handler", Assign(t, u, x) PROVE Quiet
    <3>1. TypeOK /\ Drafting(t, u, x) /\ members[u] \in Row /\ members[u] # NoRow
      BY <2>3, MembershipsAssumption DEF Assign, Drafting, Live, Existing, IInv, TypeOK
    <3>2. Drafted(t)' = {u} /\ \A s \in Sessions \ {t} : draft'[s] = draft[s]
      BY <1>0, <2>3, <3>1, DraftAssigned
    <3> QED
      BY <2>3, <3>1, <3>2
         DEF Assign, Live, Granting, Alone, SeedInv, Seeding, IInv, TypeOK
  <2>4. ASSUME NEW r \in Roles, ChangeRole(t, u, r) PROVE Quiet
    <3>1. u \in Live /\ [members[u] EXCEPT !.role = r] \in Row
      BY <2>4 DEF ChangeRole, Live, Existing, IInv, TypeOK, Row
    <3> QED
      BY <2>3, <2>4, <3>1 DEF ChangeRole
  <2>5. CASE RevokeMember(t, u)
    <3>1. u \in Live /\ [members[u] EXCEPT !.revoked = TRUE] \in Row
      BY <2>5 DEF RevokeMember, Live, Existing, IInv, TypeOK, Row
    <3> QED
      BY <2>3, <2>5, <3>1 DEF RevokeMember
  <2> QED
    BY <2>1, <2>2, <2>4, <2>5
<1> HIDE DEF Quiet
<1>2. \A v \in Users : claim[v] # t /\ lock[v] # t
  <2>1. Drafted(t) = {} /\ pc[t] # "commit"
    BY <1>0, <1>1 DEF Quiet
  <2> QED
    BY <2>1, NoLockYet, MembershipsAssumption DEF IInv, Claims
<1>3. Seeding(t)'
  BY <1>1, <1>2 DEF Quiet, Seeding, Granting, Handling, Opening, Repeating, Fresh, Existing
<1> QED
  BY <1>1, <1>2, <1>3, QuietSeed DEF Quiet

\* The flush of a request takes the row lock it commits with.
LEMMA FlushSeed ==
  ASSUME IInv, SeedInv, NEW t \in Sessions, Flush(t)
  PROVE  SeedInv'
<1> USE DEF At, Goto, NothingCommitted
<1>1. /\ pc[t] = "flush" /\ pc'[t] = "commit" /\ actor[t] # System
      /\ UNCHANGED <<members, claim, actor, target, seen, draft, step>>
      /\ lock' = [lock EXCEPT ![target[t]] = t]
      /\ Alone(t) /\ Drafted(t)' = Drafted(t)
  BY DEF Flush, Alone, Drafted, SeedInv, Seeding, IInv, TypeOK
<1>2. Seeding(t)'
  BY <1>1 DEF SeedInv, Seeding, Granting, Handling, Opening, Repeating, Fresh, Existing
<1>3. \A u \in Users : \/ lock'[u] = lock[u] /\ lock[u] # t
                       \/ lock'[u] = t /\ pc'[t] = "commit"
  BY <1>1, NoLockYet DEF IInv, TypeOK
<1> QED
  BY <1>1, <1>2, <1>3, QuietSeed

\* An INSERT the index admits: of a request, or of the seed that founds the
\* organization.
LEMMA InsertSeed ==
  ASSUME IInv, SeedInv, NEW t \in Sessions, InsertMember(t)
  PROVE  SeedInv'
<1> USE DEF At, Goto, NothingCommitted
<1>1. /\ pc[t] = "insert" /\ target[t] \in Users /\ target[t] \notin Existing
      /\ pc'[t] = IF actor[t] = System THEN "seed" ELSE "commit"
      /\ UNCHANGED <<members, lock, actor, target, seen, draft, step>>
      /\ claim[target[t]] = Nobody /\ claim' = [claim EXCEPT ![target[t]] = t]
      /\ Alone(t) /\ Drafted(t)' = Drafted(t)
  BY DEF InsertMember, IndexAdmits, Alone, Drafted, IInv, TypeOK
<1>2. \A u \in Users : claim'[u] = IF u = target[t] THEN t ELSE claim[u]
  BY <1>1 DEF IInv, TypeOK
<1>3. actor[t] = System => claim'[Founder] = t /\ draft[t][Founder].role = Owner
  <2>1. CASE claim[Founder] = t
    BY <1>2, <2>1, SeededAccounts DEF SeedInv, Seeding, Opening
  <2>2. CASE claim[Founder] # t
    BY <1>1, <1>2, <2>2, SeededAccounts DEF SeedInv, Seeding, Repeating
  <2> QED
    BY <2>1, <2>2
<1>4. actor[t] = System =>
        \A k \in 1..step[t] :
          SEED_USERS[k].role # Owner => SEED_USERS[k].user \in Drafted(t)
  <2>1. CASE step[t] = 0
    BY <2>1
  <2>2. CASE step[t] # 0
    BY <1>1, <2>2 DEF SeedInv, Seeding, Opening, Repeating, Fresh
  <2> QED
    BY <2>1, <2>2
<1>5. Seeding(t)'
  <2>0. Granting(t)'
    BY <1>1 DEF SeedInv, Seeding, Granting
  <2>1. CASE actor[t] = System
    BY <1>1, <1>3, <1>4, <2>0, <2>1, MembershipsAssumption
       DEF Seeding, Handling, Opening, Repeating, Fresh
  <2>2. CASE actor[t] # System
    BY <1>1, <2>0, <2>2
       DEF SeedInv, Seeding, Handling, Opening, Repeating, Fresh, Existing
  <2> QED
    BY <2>1, <2>2
<1> QED
  BY <1>1, <1>2, <1>5, NoLockYet, QuietSeed

\* The seed begins, on an empty database or on an organization that is there.
LEMMA SeedBegins ==
  ASSUME IInv, SeedInv, NEW t \in Sessions, SeedOrganization(t) \/ SeedAgain(t)
  PROVE  SeedInv'
<1> USE DEF At, Goto, NothingCommitted
<1>1. /\ pc[t] = "idle" /\ actor'[t] = System
      /\ UNCHANGED <<members, claim, lock, step>>
      /\ Alone(t) /\ Drafted(t) = {}
  BY NoDraftIsEmpty
     DEF SeedOrganization, SeedAgain, Alone, IInv, TypeOK, WorkSoFar, Work
<1>2. \A v \in Users : claim[v] # t /\ lock[v] # t
  BY <1>1, NoLockYet, MembershipsAssumption DEF IInv, Claims
<1>3. CASE SeedAgain(t)
  <2>1. pc'[t] = "seed" /\ Existing' # {} /\ Drafted(t)' = {}
    BY <1>1, <1>3 DEF SeedAgain, Existing, Drafted, IInv, TypeOK
  <2>2. Seeding(t)'
    BY <1>1, <1>2, <2>1, SeededAccounts, MembershipsAssumption
       DEF Seeding, Granting, Handling, Opening, Repeating, Fresh
  <2> QED
    BY <1>1, <1>2, <2>2, QuietSeed
<1>4. CASE SeedOrganization(t)
  <2>1. pc'[t] = "insert" /\ target'[t] = Founder /\ Founder \in Users
    BY <1>4, SeededAccounts DEF SeedOrganization, IInv, TypeOK
  <2>2. /\ Drafted(t)' = {Founder}
        /\ draft'[t][Founder].role = Owner /\ ~draft'[t][Founder].revoked
    <3>1. /\ TypeOK /\ Drafting(t, Founder, NewRow(Owner)) /\ NewRow(Owner) \in Row
          /\ NewRow(Owner).role = Owner /\ ~NewRow(Owner).revoked
      BY <1>4, NewRowIsLive, MembershipsAssumption DEF SeedOrganization, Drafting, IInv
    <3> QED
      BY <1>1, <2>1, <3>1, DraftAssigned
  <2>3. step'[t] = 0
    BY <1>1 DEF SeedInv, Seeding
  <2>4. Seeding(t)'
    BY <1>1, <1>2, <2>1, <2>2, <2>3, MembershipsAssumption
       DEF Seeding, Granting, Handling, Opening, Repeating, Fresh
  <2> QED
    BY <1>1, <1>2, <2>4, QuietSeed
<1> QED
  BY <1>3, <1>4
\* A commit takes back no revocation and removes no row.
LEMMA CommitKeepsRevoked ==
  ASSUME IInv, NEW t \in Sessions, Commit(t), NEW u \in Existing
  PROVE  u \in Existing' /\ (members[u].revoked => members'[u].revoked)
<1>1. u \in Existing'
  BY CommitRows
<1>2. CASE u \notin Drafted(t)
  BY <1>1, <1>2, CommitRows
<1>3. CASE u \in Drafted(t)
  <2>1. /\ seen[t] \in Row /\ ~seen[t].revoked /\ draft[t][u] \in Row
        /\ members'[u] = Flushed(members[u], seen[t], draft[t][u])
        /\ members[u] \in Row
    BY <1>3, CommitRows DEF IInv, TypeOK
  <2> QED
    BY <1>1, <2>1 DEF Flushed, Row
<1> QED
  BY <1>2, <1>3

\* A seed passes over an account that needs nothing: its owner's, or a member's.
LEMMA SeedPasses ==
  ASSUME IInv, SeedInv, NEW t \in Sessions, SeedSkip(t)
  PROVE  SeedInv'
<1> USE DEF At, Goto, NothingCommitted
<1>1. /\ pc[t] = "seed" /\ actor[t] = System /\ step[t] \in 0..SeedLength
      /\ step'[t] = step[t] + 1
      /\ UNCHANGED <<members, lock, claim, pc, actor, target, seen, draft>>
      /\ Alone(t) /\ Drafted(t)' = Drafted(t)
  BY DEF SeedSkip, Alone, Drafted, SeedInv, Seeding, IInv, TypeOK
<1>2. Opening(t)'
  <2> SUFFICES ASSUME claim[Founder] = t, NEW k \in 1..step[t] + 1,
                      SEED_USERS[k].role # Owner
               PROVE  SEED_USERS[k].user \in Drafted(t)
    BY <1>1 DEF SeedInv, Seeding, Opening
  <2>1. CASE k = step[t] + 1
    <3>1. SEED_USERS[k].user \in Live \cup Drafted(t)
      BY <1>1, <2>1 DEF SeedSkip, SeedUser, SeedFinds
    <3>2. Existing = {}
      BY OpeningIsFirst
    <3> QED
      BY <3>1, <3>2 DEF Live
  <2>2. CASE k # step[t] + 1
    BY <1>1, <2>2 DEF SeedInv, Seeding, Opening
  <2> QED
    BY <2>1, <2>2
<1>3. Seeding(t)'
  BY <1>1, <1>2 DEF SeedInv, Seeding, Granting, Handling, Repeating, Fresh, Existing
<1> QED
  BY <1>1, <1>3, NoLockYet, QuietSeed

\* A seed drafts the next account: anyone in an organization it founds, a
\* revoked member of one that is there.
LEMMA SeedDrafts ==
  ASSUME IInv, SeedInv, NEW t \in Sessions, SeedMember(t)
  PROVE  SeedInv'
<1> USE DEF At, Goto, NothingCommitted
<1> DEFINE u == SeedUser(t).user
           r == SeedUser(t).role
<1>1. /\ pc[t] = "seed" /\ actor[t] = System /\ step[t] \in 0..SeedLength
      /\ step[t] + 1 \in 1..SeedLength
      /\ pc'[t] = "insert" /\ target'[t] = u /\ step'[t] = step[t] + 1
      /\ UNCHANGED <<members, lock, claim, actor, seen>>
      /\ u \in Users /\ r \in Roles /\ r # Owner
      /\ u \notin Live /\ u \notin Drafted(t)
      /\ u = SEED_USERS[step[t] + 1].user /\ r = SEED_USERS[step[t] + 1].role
      /\ Drafting(t, u, NewRow(r)) /\ Alone(t)
  BY SeededAccounts
     DEF SeedMember, SeedUser, SeedFinds, Drafting, Alone, SeedInv, Seeding, IInv, TypeOK
<1> HIDE DEF u, r
<1>2. /\ Drafted(t)' = Drafted(t) \cup {u}
      /\ draft'[t][u] = NewRow(r) /\ ~NewRow(r).revoked
      /\ \A v \in Users \ {u} : draft'[t][v] = draft[t][v]
  BY <1>1, NewRowIsLive, DraftAssigned DEF IInv
<1>3. claim[u] # t
  BY <1>1, MembershipsAssumption DEF IInv, Claims
<1>4. Opening(t)'
  <2> SUFFICES ASSUME claim[Founder] = t
               PROVE  /\ draft'[t][Founder].role = Owner
                      /\ \A k \in 1..step[t] + 1 :
                           SEED_USERS[k].role # Owner => SEED_USERS[k].user \in Drafted(t)'
    BY <1>1 DEF Opening
  <2>0. draft'[t][Founder].role = Owner
    BY <1>1, <1>2, <1>3, SeededAccounts DEF SeedInv, Seeding, Opening
  <2> SUFFICES ASSUME NEW k \in 1..step[t] + 1, SEED_USERS[k].role # Owner
               PROVE  SEED_USERS[k].user \in Drafted(t)'
    BY <2>0
  <2>1. CASE k = step[t] + 1
    BY <1>1, <1>2, <2>1
  <2>2. CASE k # step[t] + 1
    BY <1>1, <1>2, <2>2 DEF SeedInv, Seeding, Opening
  <2> QED
    BY <2>1, <2>2
<1>5. Repeating(t)'
  <2> SUFFICES ASSUME claim[Founder] # t
               PROVE  /\ Existing # {}
                      /\ \A v \in Users : claim[v] # t
                      /\ u \in Existing /\ members[u].revoked
    BY <1>1 DEF Repeating, Existing
  <2>1. Existing # {} /\ \A v \in Users : claim[v] # t
    BY <1>1 DEF SeedInv, Seeding, Repeating, Fresh
  <2>2. u \in Required
    BY <1>1 DEF Required
  <2>3. u \in Existing
    BY <2>1, <2>2 DEF SeedInv, Founded
  <2> QED
    BY <1>1, <2>1, <2>3 DEF Live
<1>6. Granting(t)'
  BY <1>1, <1>2 DEF SeedInv, Seeding, Granting, Drafted
<1>7. Seeding(t)'
  BY <1>1, <1>3, <1>4, <1>5, <1>6 DEF Seeding, Handling, Fresh
<1> QED
  BY <1>1, <1>7, NoLockYet, QuietSeed

\* A seed that is through goes to its commit.
LEMMA SeedStops ==
  ASSUME IInv, SeedInv, NEW t \in Sessions, SeedEnds(t)
  PROVE  SeedInv'
<1> USE DEF At, Goto, NothingCommitted
<1>1. /\ pc[t] = "seed" /\ actor[t] = System /\ step[t] = SeedLength
      /\ pc'[t] = "commit"
      /\ UNCHANGED <<members, lock, claim, actor, target, seen, draft, step>>
      /\ Alone(t) /\ Drafted(t)' = Drafted(t)
  BY DEF SeedEnds, Alone, Drafted, SeedInv, Seeding, IInv, TypeOK
<1>2. Seeding(t)'
  BY <1>1 DEF SeedInv, Seeding, Granting, Handling, Opening, Repeating, Fresh, Existing
<1> QED
  BY <1>1, <1>2, NoLockYet, QuietSeed

\* The first commit is the one of a seed that has drafted every account; no
\* later one turns an account a seed is about to insert into a live member.
LEMMA CommitSeed ==
  ASSUME IInv, SeedInv, NEW t \in Sessions, Commit(t)
  PROVE  SeedInv'
<1> USE DEF At, Goto
<1>1. /\ pc[t] = "commit" /\ actor[t] # Nobody
      /\ pc'[t] = "idle" /\ actor'[t] = Nobody /\ step'[t] = 0 /\ Drafted(t)' = {}
      /\ \A u \in Users : claim'[u] = IF claim[u] = t THEN Nobody ELSE claim[u]
      /\ \A u \in Users : lock'[u] = IF lock[u] = t THEN Nobody ELSE lock[u]
      /\ Alone(t)
      /\ \A s \in Sessions \ {t} : Drafted(s)' = Drafted(s)
  BY DEF Commit, Close, Released, Alone, Drafted, NoDraft, IInv, TypeOK, WorkSoFar, Work
<1>2. Founded'
  <2>1. CASE Existing # {}
    BY <2>1, CommitRows DEF SeedInv, Founded
  <2>2. CASE Existing = {}
    <3>1. actor[t] = System /\ claim[Founder] = t
      BY <1>1, <2>2 DEF SeedInv, Seeding, Handling, Repeating, Fresh
    <3>2. Founder \in Drafted(t)
      BY <3>1, SeededAccounts, MembershipsAssumption DEF IInv, Claims
    <3>3. \A k \in 1..SeedLength :
            SEED_USERS[k].role # Owner => SEED_USERS[k].user \in Drafted(t)
      BY <1>1, <3>1 DEF SeedInv, Seeding, Opening
    <3>4. Required \subseteq Drafted(t)
      BY <3>2, <3>3 DEF Required
    <3> QED
      BY <3>4, CommitRows DEF Founded
  <2> QED
    BY <2>1, <2>2
<1>3. LocksAreUsed'
  BY <1>1 DEF LocksAreUsed, SeedInv, Alone, IInv, TypeOK
<1>4. ASSUME NEW s \in Sessions, s # t PROVE Seeding(s)'
  <2>1. /\ Seeding(s) /\ target[s] \in Users /\ Founder \in Users
        /\ pc'[s] = pc[s] /\ actor'[s] = actor[s] /\ target'[s] = target[s]
        /\ step'[s] = step[s] /\ Drafted(s)' = Drafted(s)
        /\ seen'[s] = seen[s] /\ draft'[s] = draft[s]
    BY <1>1, <1>4, SeededAccounts DEF SeedInv, Alone, IInv, TypeOK
  <2>2. \A u \in Users : claim'[u] = s <=> claim[u] = s
    BY <1>1, <1>4, MembershipsAssumption
  <2>3. /\ Existing # {} => Existing' # {}
        /\ \A u \in Existing : u \in Existing' /\ (members[u].revoked => members'[u].revoked)
    BY CommitRows, CommitKeepsRevoked
  <2>4. Granting(s)' /\ Handling(s)' /\ Opening(s)' /\ Repeating(s)'
    BY <2>1, <2>2, <2>3 DEF Seeding, Granting, Handling, Opening, Repeating, Fresh
  <2> QED
    BY <2>1, <2>2, <2>4 DEF Seeding, Fresh
<1>5. Seeding(t)'
  BY <1>1, MembershipsAssumption DEF Seeding, Granting, Handling, Opening, Repeating, Fresh
<1> QED
  BY <1>2, <1>3, <1>4, <1>5 DEF SeedInv

\* Every step keeps the seed's invariant.
LEMMA NextPreservesSeed == IInv /\ SeedInv /\ [Next]_vars => SeedInv'
<1> SUFFICES ASSUME IInv, SeedInv, [Next]_vars PROVE SeedInv'
  OBVIOUS
<1>1. CASE UNCHANGED vars
  BY <1>1 DEF vars, SeedInv, Founded, LocksAreUsed, Seeding, Granting, Handling, Opening, Repeating,
              Fresh, Existing, Drafted
<1>2. ASSUME NEW t \in Sessions, Handler(t) PROVE SeedInv'
  BY <1>2, CloseSeed, InsertSeed, FlushSeed, SeedBegins, SeedPasses, SeedDrafts, SeedStops
     DEF Handler, RefusePermission, InsertRejected, NothingCommitted
<1>3. ASSUME NEW t \in Sessions, Commit(t) \/ Rollback(t) PROVE SeedInv'
  BY <1>3, CommitSeed, CloseSeed DEF Rollback, NothingCommitted
<1>4. ASSUME NEW t \in Sessions, NEW u \in Users, Request(t, u) PROVE SeedInv'
  BY <1>4, RequestSeed, CloseSeed
     DEF Request, RefuseActor, RefuseMember, KeepRole, RefuseChange, NothingCommitted
<1>5. ASSUME NEW t \in Sessions, NEW u \in Users, NEW r \in Roles,
             AddMember(t, u, r) \/ ChangeRole(t, u, r)
      PROVE  SeedInv'
  BY <1>5, RequestSeed
<1> QED
  BY <1>1, <1>2, <1>3, <1>4, <1>5 DEF Next

\* What a seed finds is explained by the seeds and revocations before it.
LEMMA SeedInvariant == Spec => [](IInv /\ SeedInv)
<1>1. Init => SeedInv
  <2> SUFFICES ASSUME Init PROVE SeedInv
    OBVIOUS
  <2>1. Existing = {} /\ \A u \in Users : claim[u] = Nobody /\ lock[u] = Nobody
    BY DEF Init, Existing
  <2>2. ASSUME NEW t \in Sessions PROVE Seeding(t)
    <3>1. Drafted(t) = {}
      BY NoDraftIsEmpty DEF Init
    <3> QED
      BY <3>1, MembershipsAssumption
         DEF Init, Seeding, Granting, Handling, Opening, Repeating, Fresh
  <2> QED
    BY <2>1, <2>2 DEF SeedInv, Founded, LocksAreUsed
<1> QED
  BY <1>1, InitEstablishes, NextPreserves, NextPreservesSeed, PTL DEF Spec
-----------------------------------------------------------------------------
(* Who waits for whom *)

\* The sessions a session waits for: the holder of the key it inserts, or of
\* the row it flushes.
WaitsFor(t) ==
  {s \in Sessions \ {t} : \/ At(t, "insert") /\ claim[target[t]] = s
                          \/ At(t, "flush") /\ lock[target[t]] = s}

\* No set of sessions waits for one another only.
NoCircularWait ==
  \A S \in SUBSET Sessions : S # {} => \E t \in S : WaitsFor(t) \cap S = {}

\* Whoever is waited for while it waits itself is the seed that founds the
\* organization: requests are at their commit by then, and a seed of an
\* organization that is there holds nothing.
LEMMA WaitersHoldNothing ==
  ASSUME IInv, SeedInv, NEW t \in Sessions, NEW s \in WaitsFor(t),
         pc[s] \in {"insert", "flush"}
  PROVE  claim[Founder] = s
<1>1. s \in Sessions /\ target[t] \in Users /\ target[s] \in Users /\ Seeding(s)
  BY DEF WaitsFor, SeedInv, IInv, TypeOK
<1>2. claim[target[t]] = s /\ target[t] \in Drafted(s)
  BY <1>1, MembershipsAssumption DEF WaitsFor, SeedInv, LocksAreUsed, IInv, Claims
<1>3. actor[s] = System
  BY <1>1, <1>2 DEF Seeding, Handling
<1>4. ~Fresh(s)
  BY <1>1, <1>2, <1>3 DEF Seeding, Fresh
<1> QED
  BY <1>1, <1>2, <1>3, <1>4 DEF Seeding, Repeating

\* Requests and seeds never wait for one another in a circle, although a seed
\* keeps the keys of the accounts it has inserted while it inserts the next.
THEOREM NoDeadlock == Spec => []NoCircularWait
<1>1. ASSUME IInv, SeedInv PROVE NoCircularWait
  <2> SUFFICES ASSUME NEW S \in SUBSET Sessions, S # {},
                      \A t \in S : WaitsFor(t) \cap S # {}
               PROVE  FALSE
    BY DEF NoCircularWait
  <2>1. \A t \in S : pc[t] \in {"insert", "flush"}
    BY DEF WaitsFor, At
  <2>2. PICK t \in S : TRUE
    OBVIOUS
  <2>3. PICK s \in S : s \in WaitsFor(t)
    BY <2>2
  <2>4. PICK r \in S : r \in WaitsFor(s)
    BY <2>3
  <2>5. claim[Founder] = s /\ claim[Founder] = r
    BY <1>1, <2>1, <2>3, <2>4, WaitersHoldNothing
  <2> QED
    BY <2>4, <2>5 DEF WaitsFor
<1> QED
  BY <1>1, SeedInvariant, PTL

-----------------------------------------------------------------------------
(* When the seed is idempotent *)

\* A seed meets an existing row in two ways only: the account was a member and
\* was revoked, or another seed founded the organization in the meantime.
SeedConflictsAreKnown ==
  \A t \in Sessions :
    At(t, "insert") /\ actor[t] = System /\ target[t] \in Existing =>
      \/ members[target[t]].revoked
      \/ target[t] = Founder /\ step[t] = 0

\* There is no third reason for the seed's INSERT to be rejected.
THEOREM SeedConflictsExplained == Spec => []SeedConflictsAreKnown
<1>1. ASSUME IInv, SeedInv PROVE SeedConflictsAreKnown
  <2> SUFFICES ASSUME NEW t \in Sessions, pc[t] = "insert", actor[t] = System,
                      target[t] \in Existing
               PROVE  \/ members[target[t]].revoked
                      \/ target[t] = Founder /\ step[t] = 0
    BY DEF SeedConflictsAreKnown, At
  <2>1. Seeding(t)
    BY <1>1 DEF SeedInv
  <2>2. CASE Fresh(t)
    BY <2>1, <2>2 DEF Seeding, Fresh
  <2>3. CASE ~Fresh(t)
    <3>1. claim[Founder] # t
      BY <1>1, OpeningIsFirst
    <3> QED
      BY <2>1, <2>3, <3>1 DEF Seeding, Repeating
  <2> QED
    BY <2>2, <2>3
<1> QED
  BY <1>1, SeedInvariant, PTL

\* One operator runs the seed at a time, and nobody has been revoked.
OneSeed == \A s, t \in Sessions : actor[s] = System /\ actor[t] = System => s = t

NobodyRevoked == Existing \subseteq Live

\* A seed that founds the organization is the first to commit.
FreshIsFirst ==
  \A t \in Sessions : actor[t] = System /\ Fresh(t) => Existing = {}

\* With one seed at a time, no other session can have committed before it.
LEMMA FreshStaysFirst ==
  IInv /\ SeedInv /\ OneSeed /\ FreshIsFirst /\ [Next]_vars => FreshIsFirst'
<1> SUFFICES ASSUME IInv, SeedInv, OneSeed, FreshIsFirst, [Next]_vars,
                    NEW t \in Sessions, actor'[t] = System, Fresh(t)'
             PROVE  Existing' = {}
  BY DEF FreshIsFirst
<1> USE DEF At, Goto
<1>1. Existing = {}
  <2>1. CASE UNCHANGED vars
    BY <2>1 DEF vars, FreshIsFirst, Fresh
  <2>2. ASSUME NEW s \in Sessions, s # t,
               Handler(s) \/ Commit(s) \/ Rollback(s) \/
               \E u \in Users : Request(s, u) \/
                  \E r \in Roles : AddMember(s, u, r) \/ ChangeRole(s, u, r)
        PROVE  actor[t] = System /\ Fresh(t)
    BY <2>2 DEF Handler, Request, Rollback, Close, Commit, Admit, RefuseActor,
         RefusePermission, AddMember, RefuseMember, InsertMember, InsertRejected, Assign,
         ChangeRole, KeepRole, RevokeMember, RefuseChange, Flush, SeedOrganization,
         SeedAgain, SeedSkip, SeedMember, SeedEnds, Fresh, IInv, TypeOK
  <2>3. ASSUME Handler(t) \/ Commit(t) \/ Rollback(t) \/
               \E u \in Users : Request(t, u) \/
                  \E r \in Roles : AddMember(t, u, r) \/ ChangeRole(t, u, r)
        PROVE  SeedOrganization(t)
    BY <2>3, MembershipsAssumption
       DEF Handler, Request, Rollback, Close, Commit, Admit, RefuseActor,
         RefusePermission, AddMember, RefuseMember, InsertMember, InsertRejected, Assign,
         ChangeRole, KeepRole, RevokeMember, RefuseChange, Flush,
         SeedAgain, SeedSkip, SeedMember, SeedEnds, Fresh, IInv, TypeOK, SeedInv, Seeding
  <2> QED
    BY <2>1, <2>2, <2>3 DEF Next, FreshIsFirst, Fresh, SeedOrganization
<1>2. ASSUME NEW s \in Sessions, Commit(s) PROVE FALSE
  <2>1. actor[s] = System
    BY <1>1, <1>2 DEF Commit, SeedInv, Seeding, Handling
  <2>2. s # t
    BY <1>2, MembershipsAssumption DEF Commit, Close, IInv, TypeOK
  <2>3. actor[t] = System
    BY <1>2, <2>2 DEF Commit, Close, IInv, TypeOK
  <2> QED
    BY <2>1, <2>2, <2>3 DEF OneSeed
<1> QED
  BY <1>1, <1>2, OnlyCommitsShow DEF tables, Existing

\* The seed is idempotent as its comment says as long as nobody runs two at once
\* and no account it looks for has been revoked; seed_rerun shows the second
\* missing.
THEOREM SeedIsIdempotentWithoutRevocations ==
  Spec /\ []OneSeed /\ []NobodyRevoked => []SeedIsIdempotent
<1>1. Init => FreshIsFirst
  BY DEF Init, FreshIsFirst, Existing
<1>2. IInv /\ SeedInv /\ FreshIsFirst /\ NobodyRevoked => SeedIsIdempotent
  <2> SUFFICES ASSUME IInv, SeedInv, FreshIsFirst, NobodyRevoked,
                      NEW t \in Sessions, pc[t] = "insert", actor[t] = System,
                      target[t] \in Existing
               PROVE  FALSE
    BY DEF SeedIsIdempotent, At
  <2>1. ~Fresh(t)
    BY DEF FreshIsFirst
  <2>2. claim[Founder] # t
    BY OpeningIsFirst
  <2>3. members[target[t]].revoked
    BY <2>1, <2>2 DEF SeedInv, Seeding, Repeating
  <2> QED
    BY <2>3 DEF NobodyRevoked, Live
<1> QED
  BY <1>1, <1>2, SeedInvariant, FreshStaysFirst, PTL DEF Spec
-----------------------------------------------------------------------------
(* The memberships are an access list *)

\* What an account on the list stands as.
Standing == [u \in Existing |-> IF members[u].revoked THEN NoRow ELSE members[u].role]

\* The first commit founds the list: its rows are live, the founder's among
\* them.
LEMMA FirstCommitFounds ==
  ASSUME IInv, SeedInv, NEW t \in Sessions, Commit(t), Existing = {}
  PROVE  List!Found
<1>1. actor[t] = System /\ claim[Founder] = t
  BY DEF Commit, At, SeedInv, Seeding, Handling, Repeating, Fresh, IInv, WorkSoFar, Work
<1>2. Founder \in Drafted(t) /\ draft[t][Founder].role = Owner
  BY <1>1, SeededAccounts, MembershipsAssumption DEF IInv, Claims, SeedInv, Seeding, Opening
<1>3. Existing' = Drafted(t)
  BY CommitRows
<1>4. \A u \in Drafted(t) :
        members'[u] = draft[t][u] /\ draft[t][u] \in Row /\ ~draft[t][u].revoked
  BY CommitRows DEF SeedInv, Seeding, Granting
<1>5. /\ Standing' \in [Drafted(t) -> Roles]
      /\ Standing'[Founder] = Owner
  BY <1>2, <1>3, <1>4 DEF Standing, Row
<1>6. Drafted(t) \in SUBSET Users /\ DOMAIN Standing' = Drafted(t)
  BY <1>3 DEF Drafted, Standing
<1>7. DOMAIN Standing = {}
  BY DEF Standing
<1> QED
  BY <1>2, <1>5, <1>6, <1>7 DEF List!Found, List!Listed, Standing

\* Every later commit is the one of a request, about one account, or changes
\* nothing: a seed has nothing left to insert.
LEMMA LaterCommitsChangeOne ==
  ASSUME IInv, SeedInv, NEW t \in Sessions, Commit(t), Existing # {}
  PROVE  List!Next \/ Standing' = Standing
<1>1. CASE Drafted(t) = {}
  BY <1>1, CommitRows DEF Standing
<1>2. ASSUME NEW u \in Drafted(t), u \notin Existing PROVE List!Next
  <2>1. u \in Users /\ claim[u] = t
    BY <1>2, CommitRows DEF Drafted
  <2>2. actor[t] # System
    BY <1>2, <2>1, OpeningIsFirst DEF Commit, At, SeedInv, Seeding, Repeating, Fresh
  <2>3. Drafted(t) = {u}
    BY <1>2, <2>2 DEF Commit, At, SeedInv, Seeding, Handling
  <2>4. /\ Existing' = Existing \cup {u}
        /\ members'[u] = draft[t][u] /\ draft[t][u] \in Row /\ ~draft[t][u].revoked
        /\ \A v \in Existing : members'[v] = members[v]
    BY <1>2, <2>3, CommitRows DEF SeedInv, Seeding, Granting
  <2>5. PICK r \in Roles : r = draft[t][u].role
    BY <2>4 DEF Row
  <2>6. List!Grant(u, r)
    <3>1. Standing' = [v \in DOMAIN Standing \cup {u} |->
                         IF v = u THEN r ELSE Standing[v]]
      BY <1>2, <2>4, <2>5 DEF Standing
    <3>2. DOMAIN Standing = Existing
      BY DEF Standing
    <3> QED
      BY <1>2, <3>1, <3>2 DEF List!Grant, List!Listed, Standing
  <2> QED
    BY <2>1, <2>5, <2>6 DEF List!Next
<1>3. ASSUME NEW u \in Drafted(t), u \in Existing
      PROVE  List!Next \/ Standing' = Standing
  <2>1. /\ Drafted(t) = {u} /\ u \in Users
        /\ members'[u] = Flushed(members[u], seen[t], draft[t][u])
        /\ seen[t] \in Row /\ draft[t][u] \in Row /\ members[u] \in Row
    BY <1>3, CommitRows DEF Drafted, IInv, TypeOK
  <2>2. members'[u] \in Row
    BY <2>1, FlushedKeeps
  <2>3. Existing' = Existing /\ \A v \in Existing \ {u} : members'[v] = members[v]
    <3>1. Existing \cup Drafted(t) = Existing /\ Existing \ Drafted(t) = Existing \ {u}
      BY <1>3, <2>1
    <3> QED
      BY <3>1, CommitRows
  <2>4. members[u].revoked => members'[u].revoked
    BY <1>3, CommitKeepsRevoked
  <2>5. CASE members[u].revoked
    BY <2>3, <2>4, <2>5 DEF Standing
  <2>6. CASE ~members[u].revoked /\ members'[u].revoked
    <3>1. DOMAIN Standing = Existing /\ DOMAIN Standing' = Existing
      BY <2>3 DEF Standing
    <3>2. \A v \in Existing : Standing'[v] = IF v = u THEN NoRow ELSE Standing[v]
      BY <2>3, <2>6 DEF Standing
    <3>3. Standing' = [Standing EXCEPT ![u] = NoRow]
      BY <1>3, <3>1, <3>2 DEF Standing
    <3>4. List!Revoke(u)
      BY <1>3, <3>1, <3>3 DEF List!Revoke, List!Listed, Standing
    <3> QED
      BY <2>1, <3>4 DEF List!Next
  <2>7. CASE ~members[u].revoked /\ ~members'[u].revoked
    <3>1. PICK r \in Roles : r = members'[u].role
      BY <2>2 DEF Row
    <3>2. DOMAIN Standing = Existing /\ DOMAIN Standing' = Existing
      BY <2>3 DEF Standing
    <3>3. \A v \in Existing : Standing'[v] = IF v = u THEN r ELSE Standing[v]
      BY <2>3, <2>7, <3>1 DEF Standing
    <3>4. Standing' = [Standing EXCEPT ![u] = r]
      BY <1>3, <3>2, <3>3 DEF Standing
    <3>5. Standing[u] # NoRow
      BY <1>3, <2>1, <2>7, MembershipsAssumption DEF Standing, Row
    <3>6. List!ChangeRole(u, r)
      BY <1>3, <3>2, <3>4, <3>5 DEF List!ChangeRole, List!Listed, Standing
    <3> QED
      BY <2>1, <3>1, <3>6 DEF List!Next
  <2> QED
    BY <2>5, <2>6, <2>7
<1> QED
  BY <1>1, <1>2, <1>3

\* Requests and seeds, however stale what they read, found the organization
\* once, with an owner, and then change one account per commit; no account
\* comes back after its revocation.
THEOREM MembershipsImplementAccessList == Spec => ImplementsAccessList
<1>1. Init => List!Init
  <2> SUFFICES ASSUME Init PROVE List!Init
    OBVIOUS
  <2>1. Existing = {}
    BY DEF Init, Existing
  <2> QED
    BY <2>1 DEF List!Init
<1>2. IInv /\ SeedInv /\ [Next]_vars => List!Next \/ Standing' = Standing
  <2> SUFFICES ASSUME IInv, SeedInv, [Next]_vars PROVE List!Next \/ Standing' = Standing
    OBVIOUS
  <2>1. CASE members' = members
    BY <2>1 DEF Standing, Existing
  <2>2. ASSUME NEW t \in Sessions, Commit(t) PROVE List!Next \/ Standing' = Standing
    BY <2>2, FirstCommitFounds, LaterCommitsChangeOne DEF List!Next
  <2> QED
    BY <2>1, <2>2, OnlyCommitsShow DEF tables
<1>3. IInv /\ SeedInv /\ [Next]_vars =>
        [List!Next]_[u \in Existing |-> IF members[u].revoked THEN NoRow ELSE members[u].role]
  BY <1>2 DEF Standing
<1> QED
  BY <1>1, <1>3, SeedInvariant, PTL DEF Spec, ImplementsAccessList, List!Spec
=============================================================================
