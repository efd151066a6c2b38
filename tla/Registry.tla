------------------------------ MODULE Registry -------------------------------
(***************************************************************************)
(* The influencer registry: the requests that create Character Bible       *)
(* versions, move an influencer through its lifecycle and edit it, each    *)
(* running as one database transaction (Database.session: commit on a      *)
(* clean exit, roll back on an exception), concurrently, at PostgreSQL's   *)
(* default READ COMMITTED isolation.                                       *)
(*                                                                         *)
(* Every SQL statement is an `await`, so every statement is a step:        *)
(*   - a plain SELECT reads what is committed when it runs, takes no lock; *)
(*   - SELECT ... FOR UPDATE waits for the row lock, then reads the        *)
(*     committed row;                                                      *)
(*   - the flush of a changed entity is an UPDATE by primary key of only   *)
(*     the columns the session changed; it waits for the row lock, and     *)
(*     checks neither a version number nor the old values;                 *)
(*   - locks are held until the transaction ends.                          *)
(*                                                                         *)
(* The three services involved are InfluencerService (change_status,       *)
(* update), CharacterVersionService (create_version) and AuditService      *)
(* (record). Permission checks come before any statement and depend only   *)
(* on the actor: the requests here are the authorised ones.                *)
(***************************************************************************)
EXTENDS Lifecycle, Integers, FiniteSets

CONSTANTS
  Influencers,   \* influencers of one organization
  Sessions,      \* database sessions, one open request each
  Policies,      \* existing disclosure policies (never deleted)
  NoPolicy,      \* disclosure_policy_id IS NULL
  Nobody,        \* the holder of a free row lock
  Kinds,         \* the kinds of request the clients send
  MaxVersions    \* bound on the versions of one influencer

RequestKinds == {"create_version", "change_status", "update"}

ASSUME RegistryAssumption ==
  /\ NoPolicy \notin Policies
  /\ Nobody \notin Sessions
  /\ Kinds \subseteq RequestKinds
  /\ MaxVersions \in Nat

VARIABLES
  row,        \* influencers: the committed row of each influencer
  versions,   \* influencer_versions: the committed rows of each influencer
  emitted,    \* the rows the last step appended to audit_logs
  lock,       \* who holds the row lock of each influencer
  pc,         \* the statement each session runs next
  target,     \* the influencer each session works on
  seen,       \* the influencer as the session's SELECT returned it
  want,       \* the influencer as the session's code has changed it
  number,     \* next_number of create_version
  demoted,    \* version numbers whose is_current the session has cleared
  inserted,   \* version rows the session has inserted
  entries     \* audit rows the session has inserted

tables  == <<row, versions, emitted>>
session == <<target, seen, want, number, demoted, inserted, entries>>
vars    == <<row, versions, emitted, lock, pc, target, seen, want, number,
             demoted, inserted, entries>>

-----------------------------------------------------------------------------
(* Rows *)

\* The columns the rules read; archived_at only as set or not.
Row == [status: Status,
        adult_confirmed: BOOLEAN,
        policy: Policies \cup {NoPolicy},
        archived_at: BOOLEAN]

\* created_by names the session: its user and the content it wrote.
Version == [number: Nat, created_by: Sessions, is_current: BOOLEAN]

Entry == [action: {"version_created", "version_promoted"},
          influencer: Influencers, number: Nat]
         \cup
         [action: {"influencer_changed"},
          influencer: Influencers, before: Row, after: Row]

\* InfluencerService.create: a draft, compliance fields as given.
Draft(adult, policy) ==
  [status |-> "draft", adult_confirmed |-> adult, policy |-> policy,
   archived_at |-> FALSE]

Unread == Draft(FALSE, NoPolicy)

Numbers(rows) == {v.number : v \in rows}

Current(rows) == {v \in rows : v.is_current}

Highest(S) == IF S = {} THEN 0 ELSE CHOOSE n \in S : \A m \in S : m <= n

\* Fault: the increment is forgotten.
NextNumber_NoIncrement(rows) == Highest(Numbers(rows))

\* InfluencerVersionRepository.next_version_number
NextNumber(rows) == Highest(Numbers(rows)) + 1

\* Fault: the superseded row is deleted.
Demote_Deletes(rows, nums) == {v \in rows : v.number \notin nums}

\* The effect of demote_current on a version table.
Demote(rows, nums) ==
  {[v EXCEPT !.is_current = v.is_current /\ v.number \notin nums] : v \in rows}

\* Fault: the column default, FALSE, is left in place.
NewVersion_NotCurrent(t, n) ==
  [number |-> n, created_by |-> t, is_current |-> FALSE]

\* The row InfluencerVersionRepository.create inserts.
NewVersion(t, n) == [number |-> n, created_by |-> t, is_current |-> TRUE]

\* Faults: one of the two rows is missing; the rows do not name the version.
VersionEntries_CreatedOnly(i, n) ==
  {[action |-> "version_created", influencer |-> i, number |-> n]}

VersionEntries_Unnumbered(i, n) ==
  {[action |-> a, influencer |-> i] : a \in {"version_created", "version_promoted"}}

\* create_version audits the version and its influencer, one row each.
VersionEntries(i, n) ==
  {[action |-> a, influencer |-> i, number |-> n] :
     a \in {"version_created", "version_promoted"}}

\* Fault: both snapshots are taken after the assignments.
ChangeEntry_OneSnapshot(i, before, after) ==
  [action |-> "influencer_changed", influencer |-> i,
   before |-> after, after |-> after]

\* change_status and update audit one change, with a snapshot taken before the
\* assignments and one taken after them.
ChangeEntry(i, before, after) ==
  [action |-> "influencer_changed", influencer |-> i,
   before |-> before, after |-> after]

\* Fault: the check is dropped.
Editable_Always(r) == TRUE

\* The read-only check that create_version and update make.
Editable(r) == r.status # "archived"

\* The effect of a flush on a row: only the changed columns are written.
Flushed(current, old, new) ==
  LET Column(c) == IF new[c] # old[c] THEN new[c] ELSE current[c]
  IN [status          |-> Column("status"),
      adult_confirmed |-> Column("adult_confirmed"),
      policy          |-> Column("policy"),
      archived_at     |-> Column("archived_at")]

-----------------------------------------------------------------------------
Init ==
  /\ row \in [Influencers -> {Draft(a, p) : a \in BOOLEAN,
                                            p \in Policies \cup {NoPolicy}}]
  /\ versions = [i \in Influencers |-> {}]
  /\ emitted = {}
  /\ lock = [i \in Influencers |-> Nobody]
  /\ pc = [t \in Sessions |-> "idle"]
  /\ target \in [Sessions -> Influencers]
  /\ seen = [t \in Sessions |-> Unread]
  /\ want = [t \in Sessions |-> Unread]
  /\ number = [t \in Sessions |-> 0]
  /\ demoted = [t \in Sessions |-> {}]
  /\ inserted = [t \in Sessions |-> {}]
  /\ entries = [t \in Sessions |-> {}]

At(t, label) == pc[t] = label

Goto(t, label) == pc' = [pc EXCEPT ![t] = label]

\* No table changes and no audit row becomes visible.
NothingCommitted == UNCHANGED <<row, versions>> /\ emitted' = {}

\* The row lock of PostgreSQL: waited for while another session holds it,
\* released by the end of the transaction.
Acquire(t, i) == lock[i] = Nobody /\ lock' = [lock EXCEPT ![i] = t]

\* Fault: with_for_update is forgotten, a plain SELECT neither waits nor locks.
SelectForUpdate_Plain(t, i) == UNCHANGED lock

\* The row lock that get_for_update takes.
SelectForUpdate(t, i) == Acquire(t, i)

\* Fault: the connection returns to the pool with its transaction open.
Release_Never(t) == UNCHANGED lock

\* Leaving Database.session ends the transaction, and with it the row locks.
Release(t) ==
  lock' = [i \in Influencers |-> IF lock[i] = t THEN Nobody ELSE lock[i]]

\* The session ends: its identity map is gone, its locks are released.
Close(t) ==
  /\ Goto(t, "idle")
  /\ Release(t)
  /\ seen' = [seen EXCEPT ![t] = Unread]
  /\ want' = [want EXCEPT ![t] = Unread]
  /\ number' = [number EXCEPT ![t] = 0]
  /\ demoted' = [demoted EXCEPT ![t] = {}]
  /\ inserted' = [inserted EXCEPT ![t] = {}]
  /\ entries' = [entries EXCEPT ![t] = {}]
  /\ UNCHANGED target

-----------------------------------------------------------------------------
(* CharacterVersionService.create_version *)

Creating(i) ==
  {t \in Sessions : target[t] = i /\
     pc[t] \in {"lock", "number", "demote", "insert", "record"}}

\* The request arrives; MaxVersions bounds the versions of an influencer.
CreateVersion(t, i) ==
  /\ "create_version" \in Kinds
  /\ At(t, "idle")
  /\ Cardinality(versions[i]) + Cardinality(Creating(i)) < MaxVersions
  /\ target' = [target EXCEPT ![t] = i]
  /\ Goto(t, "lock")
  /\ NothingCommitted
  /\ UNCHANGED <<lock, seen, want, number, demoted, inserted, entries>>

\* get_for_update: waits for the row lock, reads the committed row.
GetForUpdate(t) ==
  LET i == target[t] IN
  /\ At(t, "lock")
  /\ Editable(row[i])
  /\ SelectForUpdate(t, i)
  /\ seen' = [seen EXCEPT ![t] = row[i]]
  /\ want' = [want EXCEPT ![t] = row[i]]
  /\ Goto(t, "number")
  /\ NothingCommitted
  /\ UNCHANGED <<target, number, demoted, inserted, entries>>

\* get_for_update returned an archived influencer: ConflictError, rollback.
RefuseArchivedVersion(t) ==
  /\ At(t, "lock")
  /\ lock[target[t]] = Nobody
  /\ ~Editable(row[target[t]])
  /\ Close(t)
  /\ NothingCommitted

NextVersionNumber(t) ==
  /\ At(t, "number")
  /\ number' = [number EXCEPT ![t] = NextNumber(versions[target[t]])]
  /\ Goto(t, "demote")
  /\ NothingCommitted
  /\ UNCHANGED <<lock, target, seen, want, demoted, inserted, entries>>

DemoteCurrent(t) ==
  /\ At(t, "demote")
  /\ demoted' = [demoted EXCEPT ![t] = Numbers(Current(versions[target[t]]))]
  /\ Goto(t, "insert")
  /\ NothingCommitted
  /\ UNCHANGED <<lock, target, seen, want, number, inserted, entries>>

\* InfluencerVersionRepository.create; InsertNeverConflicts says that the
\* unique indexes accept the row.
InsertVersion(t) ==
  /\ At(t, "insert")
  /\ inserted' = [inserted EXCEPT ![t] = {NewVersion(t, number[t])}]
  /\ Goto(t, "record")
  /\ NothingCommitted
  /\ UNCHANGED <<lock, target, seen, want, number, demoted, entries>>

\* The two audit rows: one about the version, one about the influencer.
RecordVersion(t) ==
  /\ At(t, "record")
  /\ entries' = [entries EXCEPT ![t] = VersionEntries(target[t], number[t])]
  /\ Goto(t, "commit")
  /\ NothingCommitted
  /\ UNCHANGED <<lock, target, seen, want, number, demoted, inserted>>

-----------------------------------------------------------------------------
(* InfluencerService.change_status *)

\* Fault: the date of the archival is not set.
Restated_Unmarked(r, status) == [r EXCEPT !.status = status]

\* The assignments of change_status.
Restated(r, status) ==
  [r EXCEPT !.status = status,
            !.archived_at = r.archived_at \/ status = "archived"]

\* get, without a lock, then assert_transition on what it returned.
ChangeStatus(t, i, status) ==
  /\ "change_status" \in Kinds
  /\ At(t, "idle")
  /\ CanTransition(row[i].status, status)
  /\ target' = [target EXCEPT ![t] = i]
  /\ seen' = [seen EXCEPT ![t] = row[i]]
  /\ want' = [want EXCEPT ![t] = Restated(row[i], status)]
  /\ Goto(t, IF status = "active" THEN "blockers" ELSE "flush")
  /\ NothingCommitted
  /\ UNCHANGED <<lock, number, demoted, inserted, entries>>

\* assert_transition raises: the session ends as it began.
RefuseTransition(t, i, status) ==
  /\ "change_status" \in Kinds
  /\ At(t, "idle")
  /\ ~CanTransition(row[i].status, status)
  /\ Close(t)
  /\ NothingCommitted

\* Fault: the versions are not looked at.
Blockers_NoBible(t) ==
  (IF seen[t].adult_confirmed THEN {} ELSE {"adult_representation_confirmed"})
  \cup (IF seen[t].policy = NoPolicy THEN {"disclosure_policy"} ELSE {})

\* activation_blockers: the flags of the row read before, the versions now.
Blockers(t) ==
  (IF seen[t].adult_confirmed THEN {} ELSE {"adult_representation_confirmed"})
  \cup (IF seen[t].policy = NoPolicy THEN {"disclosure_policy"} ELSE {})
  \cup (IF Current(versions[target[t]]) = {} THEN {"character_bible"} ELSE {})

PassActivation(t) ==
  /\ At(t, "blockers")
  /\ Blockers(t) = {}
  /\ Goto(t, "flush")
  /\ NothingCommitted
  /\ UNCHANGED <<lock, session>>

RefuseActivation(t) ==
  /\ At(t, "blockers")
  /\ Blockers(t) # {}
  /\ Close(t)
  /\ NothingCommitted

-----------------------------------------------------------------------------
(* InfluencerService.update *)

\* Fault: the confirmation of an active influencer can be withdrawn.
Patched_Withdrawable(r) ==
  {x \in Row : x.status = r.status /\ x.archived_at = r.archived_at}

\* The rows a PATCH of r can ask for: it may set or clear the confirmation
\* and the policy. Only withdrawing the confirmation of an active influencer
\* is refused; an explicit null policy is not.
Patched(r) ==
  {x \in Row :
     /\ x.status = r.status /\ x.archived_at = r.archived_at
     /\ r.status = "active" /\ r.adult_confirmed => x.adult_confirmed}

\* get, without a lock, then the read-only check on what it returned. A
\* patch that repeats the stored values still goes through.
Update(t, i) ==
  /\ "update" \in Kinds
  /\ At(t, "idle")
  /\ Editable(row[i])
  /\ target' = [target EXCEPT ![t] = i]
  /\ seen' = [seen EXCEPT ![t] = row[i]]
  /\ \E r \in Patched(row[i]) : want' = [want EXCEPT ![t] = r]
  /\ Goto(t, "flush")
  /\ NothingCommitted
  /\ UNCHANGED <<lock, number, demoted, inserted, entries>>

\* ConflictError, the influencer read is archived; or PolicyViolationError, it
\* is active and the patch withdraws the confirmation.
RefuseUpdate(t, i) ==
  /\ "update" \in Kinds
  /\ At(t, "idle")
  /\ ~Editable(row[i]) \/ row[i].status = "active"
  /\ Close(t)
  /\ NothingCommitted

-----------------------------------------------------------------------------
(* AuditService.record, and the unit of work *)

\* The flush of change_status and update: an audit row, and an UPDATE when a
\* column changed, which waits for the row lock.
Flush(t) ==
  LET i == target[t] IN
  /\ At(t, "flush")
  /\ IF seen[t] = want[t]
       THEN UNCHANGED lock
       ELSE Acquire(t, i)
  /\ entries' = [entries EXCEPT ![t] = {ChangeEntry(i, seen[t], want[t])}]
  /\ Goto(t, "commit")
  /\ NothingCommitted
  /\ UNCHANGED <<target, seen, want, number, demoted, inserted>>

\* Database.session, clean exit: everything the session flushed lands at once.
Commit(t) ==
  LET i == target[t] IN
  /\ At(t, "commit")
  /\ row' = [row EXCEPT ![i] = Flushed(row[i], seen[t], want[t])]
  /\ versions' = [versions EXCEPT ![i] =
                    Demote(versions[i], demoted[t]) \cup inserted[t]]
  /\ emitted' = entries[t]
  /\ Close(t)

\* Database.session, any exception: a failed statement, a lost connection, a
\* crash of the process. Nothing the session flushed survives.
Rollback(t) ==
  /\ ~At(t, "idle")
  /\ Close(t)
  /\ NothingCommitted

-----------------------------------------------------------------------------
Statement(t) ==
  \/ GetForUpdate(t)
  \/ RefuseArchivedVersion(t)
  \/ NextVersionNumber(t)
  \/ DemoteCurrent(t)
  \/ InsertVersion(t)
  \/ RecordVersion(t)
  \/ PassActivation(t)
  \/ RefuseActivation(t)
  \/ Flush(t)
  \/ Commit(t)

Next ==
  \E t \in Sessions :
    \/ Statement(t)
    \/ Rollback(t)
    \/ \E i \in Influencers :
         \/ CreateVersion(t, i)
         \/ Update(t, i)
         \/ RefuseUpdate(t, i)
         \/ \E status \in Status : ChangeStatus(t, i, status)
         \/ \E status \in Status : RefuseTransition(t, i, status)

Spec == Init /\ [][Next]_vars

-----------------------------------------------------------------------------
(* Properties *)

\* Every variable stays in its set.
TypeOK ==
  /\ row \in [Influencers -> Row]
  /\ versions \in [Influencers -> SUBSET Version]
  /\ emitted \subseteq Entry
  /\ lock \in [Influencers -> Sessions \cup {Nobody}]
  /\ pc \in [Sessions -> {"idle", "lock", "number", "demote", "insert",
                          "record", "blockers", "flush", "commit"}]
  /\ target \in [Sessions -> Influencers]
  /\ seen \in [Sessions -> Row]
  /\ want \in [Sessions -> Row]
  /\ number \in [Sessions -> Nat]
  /\ demoted \in [Sessions -> SUBSET Nat]
  /\ inserted \in [Sessions -> SUBSET Version]
  /\ entries \in [Sessions -> SUBSET Entry]

\* The version numbers of an influencer are gapless from 1, whatever the
\* interleaving and the rollbacks (next_version_number under the row lock).
GaplessNumbers ==
  \A i \in Influencers : Numbers(versions[i]) = 1..Cardinality(versions[i])

\* No reader ever finds two current versions, none, or an old one: a committed
\* bible has exactly one current version and it is the newest (demote_current
\* and create land together).
CurrentIsNewest ==
  \A i \in Influencers :
    Numbers(Current(versions[i])) = {Highest(Numbers(versions[i]))} \ {0}

\* When create_version inserts, both unique indexes accept the row: its number
\* is not taken and no other current version is left, so a request that got
\* the row lock never fails on a constraint.
InsertNeverConflicts ==
  \A t \in Sessions : At(t, "insert") =>
    LET rows == Demote(versions[target[t]], demoted[t])
    IN number[t] \notin Numbers(rows) /\ Current(rows) = {}

\* An influencer that is or has been live has a Character Bible, although
\* activation_blockers reads the versions without a lock.
LiveHasBible ==
  \A i \in Influencers :
    row[i].status \in {"active", "paused"} => Current(versions[i]) # {}

\* An archived influencer carries the date of its archival, whichever requests
\* raced: a racing request can take the status back, but none takes the date.
ArchivalIsMarked ==
  \A i \in Influencers : row[i].status = "archived" => row[i].archived_at

\* A committed version is never rewritten or removed; at most its current flag
\* is cleared, and only in the commit that adds its successor.
VersionsAreImmutable ==
  [][\A i \in Influencers :
       \A v \in versions[i] :
         \/ v \in versions[i]'
         \/ /\ [v EXCEPT !.is_current = FALSE] \in versions[i]'
            /\ v.number + 1 \in Numbers(versions[i]')]_versions

\* No version lands on an archived influencer: create_version holds the row
\* lock from its status check to its commit, so an archival waits for it or
\* is seen by it.
NoVersionOnceArchived ==
  [][\A i \in Influencers :
       row[i].status = "archived" => versions'[i] = versions[i]]_versions

\* A version and its two audit rows become visible in the same step, in
\* both directions, whatever fails on the way.
VersionsAreAudited ==
  [][\A i \in Influencers, a \in {"version_created", "version_promoted"} :
       Numbers(versions[i]') \ Numbers(versions[i])
         = {e.number : e \in {x \in emitted' : x.action = a /\ x.influencer = i}}]_tables

\* A column of an influencer changes only together with an audit row whose
\* before/after difference is exactly the columns that changed, and whose
\* `after` shows the new values, even when `before` is stale.
ChangesAreAudited ==
  [][\A i \in Influencers : row'[i] # row[i] =>
       \E e \in emitted' :
         /\ e.action = "influencer_changed"
         /\ e.influencer = i
         /\ \A c \in DOMAIN row[i] : row'[i][c] # row[i][c] =>
              e.after[c] = row'[i][c] /\ e.before[c] # e.after[c]]_tables

\* What the session read before it decided is still so.
ReadIsCurrent(t) == seen[t] = row[target[t]]

CommitsNow(t) == At(t, "commit") /\ pc'[t] = "idle"

\* What the rules of the lifecycle allow of a change from r to s: archived is
\* terminal and read-only, the other statuses follow the transitions, nothing
\* becomes active without the confirmation and a policy, and the confirmation
\* of an active influencer stays.
LegalChange(r, s) ==
  /\ IsTerminal(r.status) => s = r
  /\ s.status # r.status => CanTransition(r.status, s.status)
  /\ s.status = "active" /\ r.status # "active" =>
       s.adult_confirmed /\ s.policy # NoPolicy
  /\ s.status = "active" /\ r.adult_confirmed => s.adult_confirmed

\* change_status and update decide on a row they read without a lock: a commit
\* is a legal change of the row it replaces whenever that row is still the one
\* read. (When it is not, see ArchivedIsTerminal.)
UndisturbedCommitsAreLegal ==
  [][\A t \in Sessions : CommitsNow(t) /\ ReadIsCurrent(t) =>
       LegalChange(row[target[t]], row'[target[t]])]_row

\* Then, too, the `before` image of its audit row is the row it replaced, and
\* the `after` image the row it left (snapshots before and after the
\* assignments).
UndisturbedImagesAreTrue ==
  [][\A t \in Sessions : CommitsNow(t) /\ ReadIsCurrent(t) =>
       \A e \in {x \in emitted' : x.action = "influencer_changed"} :
         e.before = row[e.influencer] /\ e.after = row'[e.influencer]]_emitted

\* Nothing leaves a terminal status, and the archival mark stays with it
\* (assert_transition).
ArchivedIsTerminal ==
  [][\A i \in Influencers : IsTerminal(row[i].status) =>
       row'[i].status = row[i].status /\ row'[i].archived_at]_row

\* Every request the clients send is answered: no session waits for a row
\* lock for ever, and none keeps one.
RequestsFinish ==
  \A t \in Sessions : ~At(t, "idle") ~> At(t, "idle")

-----------------------------------------------------------------------------
\* The event loop runs every started handler to its end, and PostgreSQL hands
\* a row lock to those waiting for it, so a statement that is possible again
\* and again is executed. Nothing is assumed of clients or of failures.
FairSpec == Spec /\ \A t \in Sessions : SF_vars(Statement(t))

\* What the Character Bible promises (see VersionLog): an append-only log of
\* authors per influencer, closed to appends while the influencer is archived.
Author(i, n) == (CHOOSE v \in versions[i] : v.number = n).created_by

Bible == INSTANCE VersionLog WITH
  Books   <- Influencers,
  Authors <- Sessions,
  log     <- [i \in Influencers |->
                [n \in 1..Cardinality(versions[i]) |-> Author(i, n)]],
  current <- [i \in Influencers |-> Highest(Numbers(Current(versions[i])))],
  closed  <- [i \in Influencers |-> row[i].status = "archived"]

\* The registry implements the log.
ImplementsVersionLog == Bible!Spec
=============================================================================
