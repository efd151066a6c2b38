------------------------ MODULE RegistryAudit_proofs -------------------------
(***************************************************************************)
(* Proofs about what a commit of Registry makes visible: the rules of the  *)
(* lifecycle, the audit rows and the immutability of the versions. The     *)
(* invariant added here is about one session's own work: what it decided   *)
(* and what it is about to record.                                         *)
(***************************************************************************)
EXTENDS Registry_proofs, Sequences

\* The change a session is about to make is one the rules allow, once the
\* activation check is passed; the audit rows are those of its work.
Decision(t) ==
  /\ pc[t] = "blockers" =>
       want[t] = Restated(seen[t], "active") /\ CanTransition(seen[t].status, "active")
  /\ pc[t] \in {"flush", "commit"} /\ inserted[t] = {} => LegalChange(seen[t], want[t])
  /\ pc[t] = "commit" =>
       entries[t] = IF inserted[t] = {}
                      THEN {ChangeEntry(target[t], seen[t], want[t])}
                      ELSE VersionEntries(target[t], number[t])

Decisions == \A t \in Sessions : Decision(t)

\* A session's decision depends on nothing but its own variables.
LEMMA OwnDecision ==
  ASSUME Decisions, NEW t \in Sessions, Decision(t)',
         \A u \in Sessions \ {t} :
            /\ pc'[u] = pc[u] /\ target'[u] = target[u]
            /\ seen'[u] = seen[u] /\ want'[u] = want[u]
            /\ number'[u] = number[u] /\ inserted'[u] = inserted[u]
            /\ entries'[u] = entries[u]
  PROVE  Decisions'
BY DEF Decisions, Decision

\* A session that ends has no decision left.
LEMMA CloseDecision ==
  ASSUME IInv, Decisions, NEW t \in Sessions, Close(t)
  PROVE  Decisions'
<1>1. Decision(t)'
  BY DEF Close, Goto, Decision, IInv, TypeOK
<1> QED
  BY <1>1, OwnDecision DEF Close, Goto, IInv, TypeOK

\* create_version decides nothing about the row, and records its version.
LEMMA CreatingDecision ==
  ASSUME IInv, Decisions, NEW t \in Sessions,
         \/ GetForUpdate(t) \/ NextVersionNumber(t) \/ DemoteCurrent(t)
         \/ InsertVersion(t) \/ RecordVersion(t)
         \/ \E i \in Influencers : CreateVersion(t, i)
  PROVE  Decisions'
<1> USE DEF Goto, IInv, TypeOK
<1>1. CASE GetForUpdate(t)
  BY <1>1, OwnDecision DEF GetForUpdate, Decision
<1>2. CASE NextVersionNumber(t)
  BY <1>2, OwnDecision DEF NextVersionNumber, Decision
<1>3. CASE DemoteCurrent(t)
  BY <1>3, OwnDecision DEF DemoteCurrent, Decision
<1>4. CASE InsertVersion(t)
  BY <1>4, OwnDecision DEF InsertVersion, Decision
<1>5. CASE RecordVersion(t)
  <2>1. inserted[t] # {}
    BY <1>5 DEF RecordVersion, At, WorkSoFar, Work, Writing
  <2>2. Decision(t)'
    BY <1>5, <2>1 DEF RecordVersion, Decision
  <2> QED
    BY <1>5, <2>2, OwnDecision DEF RecordVersion
<1>6. ASSUME NEW i \in Influencers, CreateVersion(t, i)
      PROVE  Decisions'
  BY <1>6, OwnDecision DEF CreateVersion, Decision
<1> QED
  BY <1>1, <1>2, <1>3, <1>4, <1>5, <1>6

\* change_status: the transition is checked at once; an activation is left to
\* the check that follows.
LEMMA RestatingDecision ==
  ASSUME IInv, Decisions, NEW t \in Sessions, NEW i \in Influencers,
         NEW status \in Status, ChangeStatus(t, i, status)
  PROVE  Decisions'
<1>1. /\ seen'[t] = row[i] /\ want'[t] = Restated(row[i], status)
      /\ pc'[t] = IF status = "active" THEN "blockers" ELSE "flush"
      /\ row[i] \in Row /\ CanTransition(row[i].status, status)
  BY DEF ChangeStatus, Goto, IInv, TypeOK
<1>2. /\ want'[t].status = status /\ want'[t].policy = row[i].policy
      /\ want'[t].adult_confirmed = row[i].adult_confirmed
  BY <1>1 DEF Restated, Row
<1>3. ~IsTerminal(row[i].status)
  BY <1>1 DEF CanTransition, IsTerminal
<1>4. status # "active" => LegalChange(seen'[t], want'[t])
  BY <1>1, <1>2, <1>3 DEF LegalChange
<1>5. Decision(t)'
  <2>1. status # "active" => LegalChange(seen[t], want[t])'
    BY <1>4 DEF LegalChange, CanTransition, IsTerminal
  <2> QED
    BY <1>1, <2>1 DEF Decision
<1> QED
  BY <1>5, OwnDecision DEF ChangeStatus, Goto, IInv, TypeOK

\* The activation check passes only for a confirmed influencer with a policy.
LEMMA ActivatingDecision ==
  ASSUME IInv, Decisions, NEW t \in Sessions, PassActivation(t)
  PROVE  Decisions'
<1>1. /\ pc[t] = "blockers" /\ pc' = [pc EXCEPT ![t] = "flush"]
      /\ UNCHANGED <<target, seen, want, number, inserted, entries>>
  BY DEF PassActivation, At, Goto, session
<1>2. seen[t].adult_confirmed /\ seen[t].policy # NoPolicy
  BY DEF PassActivation, Blockers
<1>3. /\ want[t] = Restated(seen[t], "active") /\ CanTransition(seen[t].status, "active")
      /\ seen[t] \in Row
  BY <1>1 DEF Decisions, Decision, IInv, TypeOK
<1>4. /\ want[t].status = "active" /\ want[t].policy = seen[t].policy
      /\ want[t].adult_confirmed = seen[t].adult_confirmed
  BY <1>3 DEF Restated, Row
<1>5. ~IsTerminal(seen[t].status)
  BY <1>3 DEF CanTransition, IsTerminal
<1>6. LegalChange(seen[t], want[t])
  BY <1>2, <1>3, <1>4, <1>5 DEF LegalChange
<1>7. Decision(t)'
  BY <1>1, <1>6 DEF Decision, LegalChange, IInv, TypeOK
<1> QED
  BY <1>1, <1>7, OwnDecision DEF IInv, TypeOK

\* update refuses an archived influencer and keeps the confirmation of an
\* active one.
LEMMA EditingDecision ==
  ASSUME IInv, Decisions, NEW t \in Sessions, NEW i \in Influencers, Update(t, i)
  PROVE  Decisions'
<1>1. PICK r \in Patched(row[i]) : want' = [want EXCEPT ![t] = r]
  BY DEF Update
<1>2. seen'[t] = row[i] /\ want'[t] = r /\ pc'[t] = "flush" /\ row[i] \in Row
  BY <1>1 DEF Update, Goto, IInv, TypeOK
<1>3. ~IsTerminal(row[i].status)
  BY <1>2 DEF Update, Editable, IsTerminal, Transitions, Row, Status
<1>4. LegalChange(row[i], r)
  BY <1>1, <1>2, <1>3 DEF Patched, LegalChange
<1>5. Decision(t)'
  BY <1>2, <1>4 DEF Decision, LegalChange
<1> QED
  BY <1>1, <1>5, OwnDecision DEF Update, Goto, IInv, TypeOK

\* The flush records the change it writes.
LEMMA FlushDecision ==
  ASSUME IInv, Decisions, NEW t \in Sessions, Flush(t)
  PROVE  Decisions'
<1>1. /\ pc[t] = "flush" /\ pc' = [pc EXCEPT ![t] = "commit"]
      /\ entries' = [entries EXCEPT ![t] = {ChangeEntry(target[t], seen[t], want[t])}]
      /\ UNCHANGED <<target, seen, want, number, inserted>>
  BY DEF Flush, At, Goto
<1>2. inserted[t] = {}
  BY <1>1 DEF IInv, WorkSoFar, Work, Writing
<1>3. Decision(t)'
  BY <1>1, <1>2 DEF Decisions, Decision, LegalChange, ChangeEntry, IInv, TypeOK
<1> QED
  BY <1>1, <1>3, OwnDecision DEF IInv, TypeOK

\* Every step keeps the decisions of all sessions.
LEMMA NextPreservesDecisions == IInv /\ Decisions /\ [Next]_vars => Decisions'
<1> SUFFICES ASSUME IInv, Decisions, [Next]_vars PROVE Decisions'
  OBVIOUS
<1>1. CASE UNCHANGED vars
  BY <1>1 DEF Decisions, Decision, vars
<1>2. ASSUME NEW t \in Sessions, Statement(t)
      PROVE  Decisions'
  BY <1>2, CreatingDecision, ActivatingDecision, FlushDecision, CloseDecision
     DEF Statement, RefuseArchivedVersion, RefuseActivation, Commit
<1>3. ASSUME NEW t \in Sessions, Rollback(t)
      PROVE  Decisions'
  BY <1>3, CloseDecision DEF Rollback
<1>4. ASSUME NEW t \in Sessions, NEW i \in Influencers,
             \/ CreateVersion(t, i)
             \/ Update(t, i)
             \/ RefuseUpdate(t, i)
             \/ \E status \in Status : ChangeStatus(t, i, status)
             \/ \E status \in Status : RefuseTransition(t, i, status)
      PROVE  Decisions'
  BY <1>4, CreatingDecision, EditingDecision, RestatingDecision, CloseDecision
     DEF RefuseUpdate, RefuseTransition
<1> QED
  BY <1>1, <1>2, <1>3, <1>4 DEF Next

\* What each session decided and records is true to its work, in every state.
THEOREM DecisionsHold == Spec => [](IInv /\ Decisions)
<1>1. Init => Decisions
  BY DEF Init, Decisions, Decision
<1> QED
  BY <1>1, InductiveInvariant, NextPreservesDecisions, PTL DEF Spec

-----------------------------------------------------------------------------
(* Commits *)

\* Only a commit touches a table, and only the one it belongs to moves from
\* "commit" to "idle" when rows become visible.
LEMMA OnlyCommitWrites ==
  ASSUME IInv, [Next]_vars
  PROVE  \/ \E t \in Sessions : Commit(t)
         \/ row' = row /\ versions' = versions /\ (emitted' = {} \/ emitted' = emitted)
BY DEF Next, Statement, NothingCommitted, vars, CreateVersion, GetForUpdate,
       RefuseArchivedVersion, NextVersionNumber, DemoteCurrent, InsertVersion,
       RecordVersion, ChangeStatus, RefuseTransition, PassActivation,
       RefuseActivation, Update, RefuseUpdate, Flush, Rollback

\* Two sessions never end in one step.
LEMMA OneSessionEnds ==
  ASSUME IInv, NEW t \in Sessions, Commit(t), NEW u \in Sessions, CommitsNow(u)
  PROVE  u = t
BY DEF Commit, Close, Goto, CommitsNow, At, IInv, TypeOK

\* A flush onto the row that was read leaves the row that was wanted.
LEMMA FlushedOntoRead ==
  ASSUME NEW old \in Row, NEW new \in Row
  PROVE  Flushed(old, old, new) = new
BY DEF Flushed, Row

\* The commit of change_status or update.
LEMMA ChangeCommit ==
  ASSUME IInv, Decisions, NEW t \in Sessions, Commit(t), inserted[t] = {}
  PROVE  /\ row'[target[t]] = Flushed(row[target[t]], seen[t], want[t])
         /\ versions' = versions
         /\ emitted' = {ChangeEntry(target[t], seen[t], want[t])}
         /\ LegalChange(seen[t], want[t])
<1>1. pc[t] = "commit" /\ emitted' = entries[t]
  BY DEF Commit, At
<1>2. versions' = versions
  <2>1. \A i \in Influencers : versions'[i] = versions[i]
    BY CommitVersions, CommitOwnsRows
  <2>2. /\ versions = [i \in Influencers |-> versions[i]]
        /\ versions' = [i \in Influencers |-> versions'[i]]
    BY DEF Commit, IInv, TypeOK
  <2> QED
    BY <2>1, <2>2
<1> QED
  BY <1>1, <1>2, CommitVersions DEF Decisions, Decision

\* The commit of create_version leaves the row as it was.
LEMMA VersionCommit ==
  ASSUME IInv, Decisions, NEW t \in Sessions, Commit(t), inserted[t] # {}
  PROVE  /\ row' = row
         /\ emitted' = VersionEntries(target[t], number[t])
<1>1. pc[t] = "commit" /\ emitted' = entries[t]
  BY DEF Commit, At
<1>2. row' = row
  <2> DEFINE i == target[t]
  <2>1. row \in [Influencers -> Row] /\ i \in Influencers
    BY DEF IInv, TypeOK
  <2>2. row'[i] = row[i]
    BY CommitVersions
  <2>3. \E r : row' = [row EXCEPT ![i] = r]
    BY DEF Commit
  <2> QED
    BY <2>1, <2>2, <2>3
<1> QED
  BY <1>1, <1>2 DEF Decisions, Decision
-----------------------------------------------------------------------------
(* What every commit shows *)

\* A commit on the row its session read is a change that the lifecycle allows.
LEMMA LegalCommit ==
  ASSUME IInv, Decisions, NEW t \in Sessions, Commit(t), ReadIsCurrent(t)
  PROVE  LegalChange(row[target[t]], row'[target[t]])
<1>1. target[t] \in Influencers /\ seen[t] \in Row /\ want[t] \in Row
  BY DEF IInv, TypeOK
<1>2. CASE inserted[t] = {}
  <2>1. /\ row'[target[t]] = Flushed(seen[t], seen[t], want[t])
        /\ LegalChange(seen[t], want[t])
    BY <1>2, ChangeCommit DEF ReadIsCurrent
  <2>2. row'[target[t]] = want[t]
    BY <1>1, <2>1, FlushedOntoRead
  <2> QED
    BY <2>1, <2>2 DEF ReadIsCurrent
<1>3. CASE inserted[t] # {}
  BY <1>3, VersionCommit DEF LegalChange
<1> QED
  BY <1>2, <1>3

\* So every commit of change_status and update that nobody disturbed is legal.
THEOREM CommitsAreLegal == Spec => UndisturbedCommitsAreLegal
<1>1. ASSUME IInv, Decisions, [Next]_vars, NEW t \in Sessions,
             CommitsNow(t), ReadIsCurrent(t)
      PROVE  LegalChange(row[target[t]], row'[target[t]])
  <2>1. ASSUME row' = row PROVE LegalChange(row[target[t]], row'[target[t]])
    BY <2>1 DEF LegalChange
  <2>2. ASSUME NEW u \in Sessions, Commit(u)
        PROVE  LegalChange(row[target[t]], row'[target[t]])
    BY <1>1, <2>2, OneSessionEnds, LegalCommit
  <2> QED
    BY <1>1, <2>1, <2>2, OnlyCommitWrites
<1>2. IInv /\ Decisions /\ [Next]_vars =>
        [\A t \in Sessions : CommitsNow(t) /\ ReadIsCurrent(t) =>
            LegalChange(row[target[t]], row'[target[t]])]_row
  BY <1>1
<1> QED
  BY <1>2, DecisionsHold, PTL DEF Spec, UndisturbedCommitsAreLegal

\* The images of the audit row of such a commit are the row it replaced and
\* the row it left.
THEOREM ImagesAreTrue == Spec => UndisturbedImagesAreTrue
<1> DEFINE Images(t) ==
      \A e \in {x \in emitted' : x.action = "influencer_changed"} :
        e.before = row[e.influencer] /\ e.after = row'[e.influencer]
<1>1. ASSUME IInv, Decisions, [Next]_vars, emitted' # emitted,
             NEW t \in Sessions, CommitsNow(t), ReadIsCurrent(t)
      PROVE  Images(t)
  <2>0. target[t] \in Influencers /\ seen[t] \in Row /\ want[t] \in Row
    BY <1>1 DEF IInv, TypeOK
  <2>1. CASE emitted' = {}
    BY <2>1
  <2>2. ASSUME NEW u \in Sessions, Commit(u)
        PROVE  Images(t)
    <3>1. u = t
      BY <1>1, <2>2, OneSessionEnds
    <3>2. CASE inserted[t] = {}
      <4>1. /\ row'[target[t]] = Flushed(seen[t], seen[t], want[t])
            /\ emitted' = {ChangeEntry(target[t], seen[t], want[t])}
        BY <1>1, <2>2, <3>1, <3>2, ChangeCommit DEF ReadIsCurrent
      <4>2. row'[target[t]] = want[t] /\ row[target[t]] = seen[t]
        BY <1>1, <2>0, <4>1, FlushedOntoRead DEF ReadIsCurrent
      <4> QED
        BY <4>1, <4>2 DEF ChangeEntry
    <3>3. CASE inserted[t] # {}
      BY <1>1, <2>2, <3>1, <3>3, VersionCommit DEF VersionEntries
    <3> QED
      BY <3>2, <3>3
  <2> QED
    BY <1>1, <2>1, <2>2, OnlyCommitWrites
<1>2. IInv /\ Decisions /\ [Next]_vars =>
        [\A t \in Sessions : CommitsNow(t) /\ ReadIsCurrent(t) => Images(t)]_emitted
  BY <1>1
<1> QED
  BY <1>2, DecisionsHold, PTL DEF Spec, UndisturbedImagesAreTrue

\* Every column that changes is in an audit row that lands with it, stale
\* `before` image or not.
THEOREM ChangesLandWithTheirAudit == Spec => ChangesAreAudited
<1> DEFINE Audited(i) ==
      \E e \in emitted' :
        /\ e.action = "influencer_changed"
        /\ e.influencer = i
        /\ \A c \in DOMAIN row[i] : row'[i][c] # row[i][c] =>
             e.after[c] = row'[i][c] /\ e.before[c] # e.after[c]
<1>1. ASSUME IInv, Decisions, [Next]_vars, NEW i \in Influencers, row'[i] # row[i]
      PROVE  Audited(i)
  <2>1. PICK t \in Sessions : Commit(t)
    BY <1>1, OnlyCommitWrites
  <2>2. i = target[t]
    BY <1>1, <2>1, CommitOwnsRows
  <2>3. inserted[t] = {}
    BY <1>1, <2>1, VersionCommit
  <2>4. /\ row'[i] = Flushed(row[i], seen[t], want[t])
        /\ emitted' = {ChangeEntry(i, seen[t], want[t])}
        /\ row[i] \in Row /\ seen[t] \in Row /\ want[t] \in Row
    BY <1>1, <2>1, <2>2, <2>3, ChangeCommit DEF IInv, TypeOK
  <2>5. \A c \in DOMAIN row[i] : row'[i][c] # row[i][c] =>
           want[t][c] = row'[i][c] /\ seen[t][c] # want[t][c]
    BY <2>4 DEF Flushed, Row
  <2> QED
    BY <2>4, <2>5 DEF ChangeEntry
<1>2. IInv /\ Decisions /\ [Next]_vars =>
        [\A i \in Influencers : row'[i] # row[i] => Audited(i)]_tables
  BY <1>1
<1> QED
  BY <1>2, DecisionsHold, PTL DEF Spec, ChangesAreAudited

\* What a commit of create_version does to the numbers and to the rows there
\* were before it.
LEMMA VersionsGrow ==
  ASSUME IInv, NEW t \in Sessions, Commit(t), inserted[t] # {}
  PROVE  LET i == target[t] IN
         /\ Numbers(versions'[i]) \ Numbers(versions[i]) = {number[t]}
         /\ \A v \in versions[i] :
              \/ v \in versions'[i]
              \/ /\ [v EXCEPT !.is_current = FALSE] \in versions'[i]
                 /\ v.number + 1 \in Numbers(versions'[i])
<1> DEFINE i == target[t]
<1>0. i \in Influencers /\ versions[i] \in SUBSET Version
  BY DEF IInv, TypeOK
<1>1. PICK n \in Nat : BibleOfSize(versions[i], n)
  BY <1>0 DEF IInv, WellFormedBibles
<1>2. BibleOfSize(versions'[i], n + 1) /\ number[t] = n + 1
  BY <1>1, CommitVersions
<1>3. /\ versions'[i] = Demote(versions[i], demoted[t]) \cup inserted[t]
      /\ demoted[t] = Numbers(Current(versions[i]))
  BY <1>0 DEF Commit, At, IInv, TypeOK, WorkSoFar, Work, Writing
<1>4. Numbers(versions'[i]) \ Numbers(versions[i]) = {number[t]}
  <2>1. Numbers(versions'[i]) = 1..(n + 1) /\ Numbers(versions[i]) = 1..n
    BY <1>1, <1>2 DEF BibleOfSize
  <2>2. (1..(n + 1)) \ (1..n) = {n + 1}
    OBVIOUS
  <2> QED
    BY <1>2, <2>1, <2>2
<1>5. ASSUME NEW v \in versions[i]
      PROVE  \/ v \in versions'[i]
             \/ /\ [v EXCEPT !.is_current = FALSE] \in versions'[i]
                /\ v.number + 1 \in Numbers(versions'[i])
  <2> DEFINE after == [v EXCEPT !.is_current = v.is_current /\ v.number \notin demoted[t]]
  <2>1. after \in versions'[i] /\ v \in Version
    BY <1>0, <1>3, <1>5 DEF Demote
  <2>2. CASE v.is_current
    <3>1. v.number \in demoted[t]
      BY <1>3, <1>5, <2>2 DEF Numbers, Current
    <3>2. after = [v EXCEPT !.is_current = FALSE]
      BY <3>1
    <3>3. v.number = n
      BY <1>1, <1>5, <2>2 DEF BibleOfSize
    <3> QED
      BY <1>2, <2>1, <3>2, <3>3 DEF BibleOfSize
  <2>3. CASE ~v.is_current
    <3>1. after = v
      BY <2>1, <2>3 DEF Version
    <3> QED
      BY <2>1, <3>1
  <2> QED
    BY <2>2, <2>3
<1> QED
  BY <1>4, <1>5

\* A committed version is never rewritten or removed, except that its current
\* flag goes to its successor.
THEOREM VersionsAreKept == Spec => VersionsAreImmutable
<1> DEFINE Kept(i) ==
      \A v \in versions[i] :
        \/ v \in versions[i]'
        \/ /\ [v EXCEPT !.is_current = FALSE] \in versions[i]'
           /\ v.number + 1 \in Numbers(versions[i]')
<1>1. ASSUME IInv, [Next]_vars, NEW i \in Influencers
      PROVE  Kept(i)
  <2>1. CASE versions' = versions
    BY <2>1
  <2>2. ASSUME NEW t \in Sessions, Commit(t)
        PROVE  Kept(i)
    <3>1. CASE i # target[t]
      BY <1>1, <2>2, <3>1, CommitOwnsRows
    <3>2. CASE i = target[t] /\ inserted[t] = {}
      BY <1>1, <2>2, <3>2, CommitVersions
    <3>3. CASE i = target[t] /\ inserted[t] # {}
      BY <1>1, <2>2, <3>3, VersionsGrow
    <3> QED
      BY <3>1, <3>2, <3>3
  <2> QED
    BY <1>1, <2>1, <2>2, OnlyCommitWrites
<1>2. IInv /\ [Next]_vars => [\A i \in Influencers : Kept(i)]_versions
  BY <1>1
<1> QED
  BY <1>2, InductiveInvariant, PTL DEF Spec, VersionsAreImmutable

\* The numbers that the audit rows of a step give to the versions of i.
Recorded(es, i, a) ==
  {e.number : e \in {x \in es : x.action = a /\ x.influencer = i}}

\* A version and its two audit rows appear in the same step, whatever fails.
THEOREM VersionsLandWithTheirAudit == Spec => VersionsAreAudited
<1> DEFINE A == {"version_created", "version_promoted"}
<1>1. ASSUME IInv, Decisions, [Next]_vars, tables' # tables,
             NEW i \in Influencers, NEW a \in A
      PROVE  Numbers(versions[i]') \ Numbers(versions[i]) = Recorded(emitted', i, a)
  <2>1. CASE versions' = versions /\ emitted' = {}
    BY <2>1 DEF Recorded
  <2>2. ASSUME NEW t \in Sessions, Commit(t)
        PROVE  Numbers(versions[i]') \ Numbers(versions[i]) = Recorded(emitted', i, a)
    <3>1. CASE inserted[t] = {}
      <4>1. versions' = versions /\ emitted' = {ChangeEntry(target[t], seen[t], want[t])}
        BY <1>1, <2>2, <3>1, ChangeCommit
      <4>2. \A x \in emitted' : x.action # a
        BY <4>1 DEF ChangeEntry
      <4> QED
        BY <4>1, <4>2 DEF Recorded
    <3>2. CASE inserted[t] # {}
      <4>1. emitted' = VersionEntries(target[t], number[t])
        BY <1>1, <2>2, <3>2, VersionCommit
      <4>2. CASE i = target[t]
        <5>1. Recorded(emitted', i, a) = {number[t]}
          <6> DEFINE mine == [action |-> a, influencer |-> i, number |-> number[t]]
          <6>1. mine \in emitted'
            BY <4>1, <4>2 DEF VersionEntries
          <6>2. mine.action = a /\ mine.influencer = i /\ mine.number = number[t]
            OBVIOUS
          <6>3. \A x \in emitted' : x.number = number[t]
            BY <4>1 DEF VersionEntries
          <6> HIDE DEF mine
          <6> QED
            BY <6>1, <6>2, <6>3 DEF Recorded
        <5> QED
          BY <1>1, <2>2, <3>2, <4>2, <5>1, VersionsGrow
      <4>3. CASE i # target[t]
        <5>1. Recorded(emitted', i, a) = {}
          BY <4>1, <4>3 DEF Recorded, VersionEntries
        <5>2. versions'[i] = versions[i]
          BY <1>1, <2>2, <4>3, CommitOwnsRows
        <5> QED
          BY <5>1, <5>2
      <4> QED
        BY <4>2, <4>3
    <3> QED
      BY <3>1, <3>2
  <2> QED
    BY <1>1, <2>1, <2>2, OnlyCommitWrites DEF tables
<1>2. IInv /\ Decisions /\ [Next]_vars =>
        [\A i \in Influencers, a \in A :
           Numbers(versions[i]') \ Numbers(versions[i]) = Recorded(emitted', i, a)]_tables
  BY <1>1
<1> QED
  BY <1>2, DecisionsHold, PTL DEF Spec, VersionsAreAudited, Recorded

-----------------------------------------------------------------------------
(* The date of the archival *)

\* A session that read the date will not find it gone, keeps it, and sets it
\* when it is about to archive.
MarkedWork(t) ==
  pc[t] \notin {"idle", "lock"} =>
    /\ seen[t].archived_at => row[target[t]].archived_at
    /\ seen[t].archived_at => want[t].archived_at
    /\ want[t].status = "archived" /\ want[t].status # seen[t].status =>
         want[t].archived_at

MarkInv == ArchivalIsMarked /\ \A t \in Sessions : MarkedWork(t)

\* A step that commits nothing keeps MarkInv if it keeps it for its session.
LEMMA QuietMarkStep ==
  ASSUME IInv, MarkInv, NEW t \in Sessions, row' = row, MarkedWork(t)',
         \A u \in Sessions \ {t} :
            /\ pc'[u] = pc[u] /\ target'[u] = target[u]
            /\ seen'[u] = seen[u] /\ want'[u] = want[u]
  PROVE  MarkInv'
BY DEF MarkInv, MarkedWork, ArchivalIsMarked

\* The end of a session has nothing to keep.
LEMMA CloseMarkStep ==
  ASSUME IInv, MarkInv, NEW t \in Sessions, Close(t), row' = row
  PROVE  MarkInv'
<1>1. MarkedWork(t)'
  BY DEF Close, Goto, MarkedWork, IInv, TypeOK
<1> QED
  BY <1>1, QuietMarkStep DEF Close, Goto, IInv, TypeOK

\* create_version reads the row it will leave as it is.
LEMMA CreatingMarkStep ==
  ASSUME IInv, MarkInv, NEW t \in Sessions,
         \/ GetForUpdate(t) \/ NextVersionNumber(t) \/ DemoteCurrent(t)
         \/ InsertVersion(t) \/ RecordVersion(t) \/ PassActivation(t) \/ Flush(t)
         \/ \E i \in Influencers : CreateVersion(t, i)
  PROVE  MarkInv'
<1> USE DEF Goto, At, NothingCommitted, IInv, TypeOK
<1>1. CASE GetForUpdate(t)
  <2>1. MarkedWork(t)'
    BY <1>1 DEF GetForUpdate, MarkedWork
  <2> QED
    BY <1>1, <2>1, QuietMarkStep DEF GetForUpdate
<1>2. ASSUME \/ NextVersionNumber(t) \/ DemoteCurrent(t) \/ InsertVersion(t)
             \/ RecordVersion(t) \/ PassActivation(t) \/ Flush(t)
      PROVE  MarkInv'
  <2>1. /\ pc[t] \notin {"idle", "lock"}
        /\ row' = row /\ target' = target /\ seen' = seen /\ want' = want
        /\ \A u \in Sessions \ {t} : pc'[u] = pc[u]
    BY <1>2 DEF NextVersionNumber, DemoteCurrent, InsertVersion, RecordVersion,
                PassActivation, Flush, session
  <2>2. MarkedWork(t)'
    BY <2>1 DEF MarkInv, MarkedWork
  <2> QED
    BY <2>1, <2>2, QuietMarkStep
<1>3. ASSUME NEW i \in Influencers, CreateVersion(t, i)
      PROVE  MarkInv'
  <2>1. MarkedWork(t)'
    BY <1>3 DEF CreateVersion, MarkedWork
  <2> QED
    BY <1>3, <2>1, QuietMarkStep DEF CreateVersion
<1> QED
  BY <1>1, <1>2, <1>3

\* change_status sets the date with the status, and keeps the date it read.
LEMMA RestatingMarkStep ==
  ASSUME IInv, MarkInv, NEW t \in Sessions, NEW i \in Influencers,
         NEW status \in Status, ChangeStatus(t, i, status)
  PROVE  MarkInv'
<1>1. /\ seen'[t] = row[i] /\ want'[t] = Restated(row[i], status)
      /\ target'[t] = i /\ row' = row /\ row[i] \in Row
  BY DEF ChangeStatus, NothingCommitted, IInv, TypeOK
<1>2. /\ want'[t].status = status
      /\ want'[t].archived_at = (row[i].archived_at \/ status = "archived")
  BY <1>1 DEF Restated, Row
<1>3. MarkedWork(t)'
  BY <1>1, <1>2 DEF MarkedWork
<1> QED
  BY <1>1, <1>3, QuietMarkStep DEF ChangeStatus, Goto, IInv, TypeOK

\* update touches neither.
LEMMA EditingMarkStep ==
  ASSUME IInv, MarkInv, NEW t \in Sessions, NEW i \in Influencers, Update(t, i)
  PROVE  MarkInv'
<1>1. PICK r \in Patched(row[i]) : want' = [want EXCEPT ![t] = r]
  BY DEF Update
<1>2. /\ seen'[t] = row[i] /\ want'[t] = r /\ target'[t] = i /\ row' = row
      /\ r.status = row[i].status /\ r.archived_at = row[i].archived_at
  BY <1>1 DEF Update, Patched, NothingCommitted, IInv, TypeOK
<1>3. MarkedWork(t)'
  BY <1>2 DEF MarkedWork
<1> QED
  BY <1>1, <1>2, <1>3, QuietMarkStep DEF Update, Goto, IInv, TypeOK

\* No commit takes the date back, and one that archives leaves it set.
LEMMA CommitMarkStep ==
  ASSUME IInv, MarkInv, NEW t \in Sessions, Commit(t)
  PROVE  MarkInv'
<1> DEFINE i == target[t]
           current == row[i]
           old == seen[t]
           new == want[t]
<1>1. /\ i \in Influencers /\ pc[t] = "commit"
      /\ current \in Row /\ old \in Row /\ new \in Row
      /\ row'[i] = Flushed(current, old, new)
  BY CommitVersions DEF Commit, At, IInv, TypeOK
<1>a. /\ row'[i].status = IF new.status # old.status THEN new.status ELSE current.status
      /\ row'[i].archived_at = IF new.archived_at # old.archived_at
                                 THEN new.archived_at ELSE current.archived_at
      /\ old.archived_at \in BOOLEAN /\ new.archived_at \in BOOLEAN
  BY <1>1 DEF Flushed, Row
<1>b. /\ old.archived_at => current.archived_at
      /\ old.archived_at => new.archived_at
      /\ new.status = "archived" /\ new.status # old.status => new.archived_at
      /\ current.status = "archived" => current.archived_at
  BY <1>1 DEF MarkInv, MarkedWork, ArchivalIsMarked
<1> HIDE DEF current, old, new
<1>2. current.archived_at => row'[i].archived_at
  BY <1>a, <1>b, Zenon
<1>3. row'[i].status = "archived" => row'[i].archived_at
  BY <1>a, <1>b, Zenon
<1> USE DEF current
<1>4. \A j \in Influencers :
        /\ row[j].archived_at => row'[j].archived_at
        /\ row'[j].status = "archived" => row'[j].archived_at
  BY <1>1, <1>2, <1>3, CommitOwnsRows DEF MarkInv, ArchivalIsMarked
<1>5. ASSUME NEW u \in Sessions PROVE MarkedWork(u)'
  BY <1>1, <1>4 DEF Commit, Close, Goto, MarkInv, MarkedWork, IInv, TypeOK
<1> QED
  BY <1>4, <1>5 DEF MarkInv, ArchivalIsMarked

\* Every step keeps the dates.
LEMMA NextPreservesMarks == IInv /\ MarkInv /\ [Next]_vars => MarkInv'
<1> SUFFICES ASSUME IInv, MarkInv, [Next]_vars PROVE MarkInv'
  OBVIOUS
<1>1. CASE UNCHANGED vars
  BY <1>1 DEF MarkInv, MarkedWork, ArchivalIsMarked, vars
<1>2. ASSUME NEW t \in Sessions, Statement(t)
      PROVE  MarkInv'
  BY <1>2, CreatingMarkStep, CommitMarkStep, CloseMarkStep
     DEF Statement, RefuseArchivedVersion, RefuseActivation, NothingCommitted
<1>3. ASSUME NEW t \in Sessions, Rollback(t)
      PROVE  MarkInv'
  BY <1>3, CloseMarkStep DEF Rollback, NothingCommitted
<1>4. ASSUME NEW t \in Sessions, NEW i \in Influencers,
             \/ CreateVersion(t, i)
             \/ Update(t, i)
             \/ RefuseUpdate(t, i)
             \/ \E status \in Status : ChangeStatus(t, i, status)
             \/ \E status \in Status : RefuseTransition(t, i, status)
      PROVE  MarkInv'
  BY <1>4, CreatingMarkStep, EditingMarkStep, RestatingMarkStep, CloseMarkStep
     DEF RefuseUpdate, RefuseTransition, NothingCommitted
<1> QED
  BY <1>1, <1>2, <1>3, <1>4 DEF Next

LEMMA MarksHold == Spec => []MarkInv
<1>1. Init => MarkInv
  BY DEF Init, Draft, MarkInv, MarkedWork, ArchivalIsMarked
<1> QED
  BY <1>1, InductiveInvariant, NextPreservesMarks, PTL DEF Spec

\* An archived influencer carries the date of its archival, in every
\* interleaving, also where the status itself is not safe.
THEOREM ArchivalsAreMarked == Spec => []ArchivalIsMarked
<1>1. MarkInv => ArchivalIsMarked
  BY DEF MarkInv
<1> QED
  BY <1>1, MarksHold, PTL

-----------------------------------------------------------------------------
(* When archived is terminal *)

\* What a lock, a version column or serializable isolation would give: no
\* commit lands on a row that is not the one its session decided on.
NothingIsStale ==
  [][\A t \in Sessions : CommitsNow(t) => ReadIsCurrent(t)]_vars

\* A step of such a history leaves an archived influencer as it is.
LEMMA ArchivedStays ==
  ASSUME IInv, Decisions, MarkInv, [Next]_vars,
         [\A t \in Sessions : CommitsNow(t) => ReadIsCurrent(t)]_vars,
         NEW i \in Influencers, IsTerminal(row[i].status)
  PROVE  row'[i].status = row[i].status /\ row'[i].archived_at
<1>1. row[i] \in Row /\ row[i].status = "archived"
  <2>1. row[i] \in Row /\ row[i].status \in Status
    BY DEF IInv, TypeOK, Row
  <2>2. \A status \in Status : IsTerminal(status) => status = "archived"
    BY DEF IsTerminal, Transitions, Status
  <2> QED
    BY <2>1, <2>2
<1>2. row[i].archived_at
  BY <1>1 DEF MarkInv, ArchivalIsMarked
<1>3. row'[i] = row[i]
  <2>1. CASE row' = row
    BY <2>1
  <2>2. ASSUME NEW t \in Sessions, Commit(t), i # target[t]
        PROVE  row'[i] = row[i]
    BY <2>2, CommitOwnsRows
  <2>3. ASSUME NEW t \in Sessions, Commit(t), i = target[t]
        PROVE  row'[i] = row[i]
    <3>1. CommitsNow(t) /\ ~UNCHANGED vars
      BY <2>3 DEF CommitsNow, Commit, Close, Goto, At, IInv, TypeOK, vars
    <3>2. LegalChange(row[i], row'[i])
      BY <2>3, <3>1, LegalCommit
    <3> QED
      BY <3>2 DEF LegalChange
  <2> QED
    BY <2>1, <2>2, <2>3, OnlyCommitWrites
<1> QED
  BY <1>1, <1>2, <1>3

\* ArchivedIsTerminal fails by stale reads alone: where no commit lands on one,
\* archived is final, for any number of concurrent requests.
THEOREM FreshReadsKeepArchived == Spec /\ NothingIsStale => ArchivedIsTerminal
<1>1. IInv /\ Decisions /\ MarkInv /\ [Next]_vars
        /\ [\A t \in Sessions : CommitsNow(t) => ReadIsCurrent(t)]_vars
        => [\A i \in Influencers : IsTerminal(row[i].status) =>
              row'[i].status = row[i].status /\ row'[i].archived_at]_row
  BY ArchivedStays
<1> QED
  BY <1>1, DecisionsHold, MarksHold, PTL DEF Spec, NothingIsStale, ArchivedIsTerminal

\* One request at a time, as a single worker without concurrency would run
\* them, or the tests do.
OneAtATime ==
  \A t, u \in Sessions : ~At(t, "idle") /\ ~At(u, "idle") => t = u

\* What a session read stays the committed row while nobody else runs.
CurrentReads ==
  \A t \in Sessions : pc[t] \notin {"idle", "lock"} => ReadIsCurrent(t)

LEMMA NextPreservesReads ==
  IInv /\ CurrentReads /\ OneAtATime /\ OneAtATime' /\ [Next]_vars => CurrentReads'
<1> SUFFICES ASSUME IInv, CurrentReads, OneAtATime, OneAtATime', [Next]_vars,
                    NEW u \in Sessions, pc'[u] \notin {"idle", "lock"}
             PROVE  ReadIsCurrent(u)'
  BY DEF CurrentReads
<1> USE DEF Goto, At, NothingCommitted, IInv, TypeOK
<1>1. CASE UNCHANGED vars
  BY <1>1 DEF CurrentReads, ReadIsCurrent, vars
<1>2. ASSUME NEW t \in Sessions, t # u, row' = row, pc'[u] = pc[u],
             target'[u] = target[u], seen'[u] = seen[u]
      PROVE  ReadIsCurrent(u)'
  BY <1>2 DEF CurrentReads, ReadIsCurrent
<1>3. ASSUME NEW t \in Sessions,
             \/ NextVersionNumber(t) \/ DemoteCurrent(t) \/ InsertVersion(t)
             \/ RecordVersion(t) \/ PassActivation(t) \/ Flush(t)
      PROVE  ReadIsCurrent(u)'
  <2>1. /\ pc[t] \notin {"idle", "lock"} /\ row' = row /\ target' = target
        /\ seen' = seen /\ \A v \in Sessions \ {t} : pc'[v] = pc[v]
    BY <1>3 DEF NextVersionNumber, DemoteCurrent, InsertVersion, RecordVersion,
                PassActivation, Flush, session
  <2> QED
    BY <2>1 DEF CurrentReads, ReadIsCurrent
<1>4. ASSUME NEW t \in Sessions, GetForUpdate(t)
      PROVE  ReadIsCurrent(u)'
  BY <1>2, <1>4 DEF GetForUpdate, ReadIsCurrent
<1>5. ASSUME NEW t \in Sessions, NEW i \in Influencers,
             \/ CreateVersion(t, i) \/ Update(t, i)
             \/ \E status \in Status : ChangeStatus(t, i, status)
      PROVE  ReadIsCurrent(u)'
  <2>1. CASE CreateVersion(t, i)
    BY <1>2, <2>1 DEF CreateVersion
  <2>2. CASE Update(t, i)
    BY <1>2, <2>2 DEF Update, ReadIsCurrent
  <2>3. ASSUME NEW status \in Status, ChangeStatus(t, i, status)
        PROVE  ReadIsCurrent(u)'
    BY <1>2, <2>3 DEF ChangeStatus, ReadIsCurrent
  <2> QED
    BY <1>5, <2>1, <2>2, <2>3
<1>6. ASSUME NEW t \in Sessions, Close(t), t = u \/ row' = row
      PROVE  ReadIsCurrent(u)'
  BY <1>2, <1>6 DEF Close
<1>7. ASSUME NEW t \in Sessions, Commit(t)
      PROVE  ReadIsCurrent(u)'
  <2>1. t = u
    BY <1>7 DEF Commit, Close, OneAtATime
  <2> QED
    BY <1>6, <1>7, <2>1 DEF Commit
<1> QED
  BY <1>1, <1>3, <1>4, <1>5, <1>6, <1>7
     DEF Next, Statement, RefuseArchivedVersion, RefuseActivation, Rollback,
         RefuseUpdate, RefuseTransition

\* Served one at a time, requests keep archived final.
THEOREM SerialRequestsKeepArchived == Spec /\ []OneAtATime => ArchivedIsTerminal
<1>1. Init => CurrentReads
  BY DEF Init, CurrentReads
<1>2. CurrentReads => [\A t \in Sessions : CommitsNow(t) => ReadIsCurrent(t)]_vars
  BY DEF CurrentReads, CommitsNow, At
<1>3. Spec /\ []OneAtATime => NothingIsStale
  BY <1>1, <1>2, InductiveInvariant, NextPreservesReads, PTL DEF Spec, NothingIsStale
<1> QED
  BY <1>3, FreshReadsKeepArchived, PTL

-----------------------------------------------------------------------------
(* The bibles implement the append-only log *)

\* The refinement mapping, one influencer at a time.
LogOf(i)     == [n \in 1..Cardinality(versions[i]) |-> Author(i, n)]
CurrentOf(i) == Highest(Numbers(Current(versions[i])))
ClosedOf(i)  == row[i].status = "archived"

\* A bible of n rows is a log of n entries whose last is current.
LEMMA LogOfBible ==
  ASSUME IInv, NEW i \in Influencers, NEW n \in Nat, BibleOfSize(versions[i], n)
  PROVE  LogOf(i) = [k \in 1..n |-> Author(i, k)] /\ CurrentOf(i) = n
<1>1. Cardinality(versions[i]) = n
  BY BibleCardinality DEF IInv, TypeOK
<1>2. \A k : k \in Numbers(Current(versions[i])) <=> k = n /\ k \in 1..n
  BY DEF BibleOfSize, Numbers, Current
<1>3. CurrentOf(i) = n
  <2>1. CASE n = 0
    <3>1. Numbers(Current(versions[i])) = {}
      BY <1>2, <2>1
    <3> QED
      BY <2>1, <3>1 DEF CurrentOf, Highest
  <2>2. CASE n # 0
    <3>1. Numbers(Current(versions[i])) = {n}
      BY <1>2, <2>2
    <3> QED
      BY <2>2, <3>1 DEF CurrentOf, Highest
  <2> QED
    BY <2>1, <2>2
<1> QED
  BY <1>1, <1>3 DEF LogOf

\* In a bible the author of a number is the author of the row that has it.
LEMMA AuthorOf ==
  ASSUME NEW i \in Influencers, NEW n \in Nat, BibleOfSize(versions[i], n),
         NEW v \in versions[i]
  PROVE  Author(i, v.number) = v.created_by
BY DEF Author, BibleOfSize

\* The same, of the state after the step.
LEMMA AuthorOfNext ==
  ASSUME NEW i \in Influencers, NEW n \in Nat, BibleOfSize(versions'[i], n),
         NEW v \in versions'[i]
  PROVE  Author(i, v.number)' = v.created_by
BY DEF Author, BibleOfSize

\* A commit of create_version appends its author and leaves the entries before
\* it as they were.
LEMMA CommitAppends ==
  ASSUME IInv, IInv', NEW t \in Sessions, Commit(t), inserted[t] # {},
         NEW i \in Influencers, i = target[t]
  PROVE  /\ LogOf(i)' = Append(LogOf(i), t)
         /\ CurrentOf(i)' = Len(LogOf(i)) + 1
<1>0. versions[i] \in SUBSET Version
  BY DEF IInv, TypeOK
<1>1. PICK n \in Nat : BibleOfSize(versions[i], n)
  BY DEF IInv, WellFormedBibles
<1>2. BibleOfSize(versions'[i], n + 1) /\ number[t] = n + 1
  BY <1>1, CommitVersions
<1>3. /\ versions'[i] = Demote(versions[i], demoted[t]) \cup inserted[t]
      /\ inserted[t] = {[number |-> number[t], created_by |-> t, is_current |-> TRUE]}
  BY <1>0 DEF Commit, At, IInv, TypeOK, WorkSoFar, Work, Writing
<1>4. Author(i, n + 1)' = t
  <2>1. PICK new \in versions'[i] : new.number = n + 1 /\ new.created_by = t
    <3>1. [number |-> number[t], created_by |-> t, is_current |-> TRUE] \in versions'[i]
      BY <1>3
    <3> QED
      BY <1>2, <3>1
  <2> QED
    BY <1>2, <2>1, AuthorOfNext
<1>5. ASSUME NEW k \in 1..n
      PROVE  Author(i, k)' = Author(i, k)
  <2>1. PICK v \in versions[i] : v.number = k
    BY <1>1, <1>5 DEF BibleOfSize, Numbers
  <2> DEFINE after == [v EXCEPT !.is_current = v.is_current /\ v.number \notin demoted[t]]
  <2>2. after \in versions'[i]
    BY <1>3, <2>1 DEF Demote
  <2>3. after.number = k /\ after.created_by = v.created_by
    BY <1>0, <2>1 DEF Version
  <2> HIDE DEF after
  <2>4. Author(i, k)' = v.created_by
    BY <1>0, <1>2, <2>2, <2>3, AuthorOfNext
  <2> QED
    BY <1>0, <1>1, <2>1, <2>4, AuthorOf
<1>6. LogOf(i) = [k \in 1..n |-> Author(i, k)]
  BY <1>0, <1>1, LogOfBible
<1>7. LogOf(i)' = [k \in 1..(n + 1) |-> Author(i, k)'] /\ CurrentOf(i)' = n + 1
  <2>1. Cardinality(versions'[i]) = n + 1
    BY <1>0, <1>2, BibleCardinality DEF IInv, TypeOK
  <2>2. \A k : k \in Numbers(Current(versions'[i])) <=> k = n + 1
    <3>1. n + 1 \in 1..(n + 1)
      OBVIOUS
    <3> QED
      BY <1>2, <3>1 DEF BibleOfSize, Numbers, Current
  <2>3. Numbers(Current(versions'[i])) = {n + 1}
    BY <2>2
  <2> QED
    BY <2>1, <2>3 DEF LogOf, CurrentOf, Highest
<1>8. LogOf(i)' = Append(LogOf(i), t) /\ Len(LogOf(i)) = n
  <2> DEFINE old == [k \in 1..n |-> Author(i, k)]
             new == [k \in 1..(n + 1) |-> Author(i, k)']
  <2>1. Len(old) = n
    OBVIOUS
  <2>2. Append(old, t) = [k \in 1..(n + 1) |-> IF k = n + 1 THEN t ELSE old[k]]
    BY <2>1
  <2>3. \A k \in 1..(n + 1) : Author(i, k)' = IF k = n + 1 THEN t ELSE old[k]
    BY <1>4, <1>5
  <2>4. new = Append(old, t)
    BY <2>2, <2>3
  <2> QED
    BY <1>6, <1>7, <2>1, <2>4
<1> QED
  BY <1>7, <1>8

\* Where no row changes, the log does not either.
LEMMA LogUnchanged ==
  ASSUME NEW i \in Influencers, versions'[i] = versions[i]
  PROVE  LogOf(i)' = LogOf(i) /\ CurrentOf(i)' = CurrentOf(i)
BY DEF LogOf, CurrentOf, Author

\* The registry implements the append-only log: every step appends one version
\* to one open bible, opens or closes one, or is invisible.
THEOREM RegistryImplementsLog == Spec => ImplementsVersionLog
<1>1. Init => Bible!Init
  <2> SUFFICES ASSUME Init PROVE Bible!Init
    OBVIOUS
  <2>1. \A i \in Influencers : LogOf(i) = <<>> /\ CurrentOf(i) = 0 /\ ClosedOf(i) = FALSE
    <3>1. Cardinality({}) = 0
      BY FS_EmptySet
    <3>2. \A i \in Influencers : versions[i] = {} /\ row[i].status = "draft"
      BY DEF Init, Draft
    <3>3. \A i \in Influencers : LogOf(i) = [n \in 1..0 |-> Author(i, n)]
      BY <3>1, <3>2 DEF LogOf
    <3>4. Numbers(Current({})) = {}
      BY DEF Numbers, Current
    <3>5. \A i \in Influencers : LogOf(i) = <<>>
      BY <3>3
    <3> QED
      BY <3>2, <3>4, <3>5 DEF CurrentOf, ClosedOf, Highest
  <2> QED
    BY <2>1 DEF Bible!Init, LogOf, CurrentOf, ClosedOf
<1>2. IInv /\ IInv' /\ [Next]_vars => [Bible!Next]_Bible!logVars
  <2> SUFFICES ASSUME IInv, IInv', [Next]_vars PROVE [Bible!Next]_Bible!logVars
    OBVIOUS
  <2> DEFINE Same(i) == /\ LogOf(i)' = LogOf(i) /\ CurrentOf(i)' = CurrentOf(i)
                        /\ ClosedOf(i)' = ClosedOf(i)
  <2>1. CASE row' = row /\ versions' = versions
    <3>1. \A i \in Influencers : Same(i)
      BY <2>1, LogUnchanged DEF ClosedOf
    <3> QED
      BY <3>1 DEF Bible!logVars, LogOf, CurrentOf, ClosedOf
  <2>2. ASSUME NEW t \in Sessions, Commit(t)
        PROVE  [Bible!Next]_Bible!logVars
    <3>0. PICK i \in Influencers : i = target[t]
      BY DEF IInv, TypeOK
    <3>1. \A j \in Influencers \ {i} : Same(j)
      BY <2>2, <3>0, CommitOwnsRows, LogUnchanged DEF ClosedOf
    <3>2. CASE inserted[t] = {}
      <4>1. LogOf(i)' = LogOf(i) /\ CurrentOf(i)' = CurrentOf(i)
        BY <2>2, <3>0, <3>2, CommitVersions, LogUnchanged
      <4>2. ClosedOf(i)' = ClosedOf(i) \/ ClosedOf(i)' = ~ClosedOf(i)
        BY DEF ClosedOf
      <4>3. CASE ClosedOf(i)' = ClosedOf(i)
        <5>1. \A j \in Influencers : Same(j)
          BY <3>1, <4>1, <4>3
        <5> QED
          BY <5>1 DEF Bible!logVars, LogOf, CurrentOf, ClosedOf
      <4>4. CASE ClosedOf(i)' = ~ClosedOf(i)
        <5>1. Bible!SetClosed(i)
          BY <3>0, <3>1, <4>1, <4>4 DEF Bible!SetClosed, LogOf, CurrentOf, ClosedOf
        <5> QED
          BY <3>0, <5>1 DEF Bible!Next
      <4> QED
        BY <4>2, <4>3, <4>4
    <3>3. CASE inserted[t] # {}
      <4>1. LogOf(i)' = Append(LogOf(i), t) /\ CurrentOf(i)' = Len(LogOf(i)) + 1
        BY <2>2, <3>0, <3>3, CommitAppends
      <4>2. ClosedOf(i)' = ClosedOf(i) /\ ~ClosedOf(i)
        BY <2>2, <3>0, <3>3, CommitVersions DEF ClosedOf
      <4> DEFINE log     == [j \in Influencers |-> LogOf(j)]
                 current == [j \in Influencers |-> CurrentOf(j)]
                 closed  == [j \in Influencers |-> ClosedOf(j)]
      <4>3. Bible!Publish(i, t)
        <5>1. ~closed[i]
          BY <4>2
        <5>2. log' = [log EXCEPT ![i] = Append(log[i], t)]
          BY <3>1, <4>1
        <5>3. current' = [current EXCEPT ![i] = Len(log[i]) + 1]
          BY <3>1, <4>1
        <5>4. closed' = closed
          BY <3>1, <4>2
        <5> QED
          BY <5>1, <5>2, <5>3, <5>4 DEF Bible!Publish, LogOf, CurrentOf, ClosedOf
      <4> QED
        BY <3>0, <4>3 DEF Bible!Next
    <3> QED
      BY <3>2, <3>3
  <2> QED
    BY <2>1, <2>2, OnlyCommitWrites
<1> QED
  BY <1>1, <1>2, InductiveInvariant, PTL DEF Spec, ImplementsVersionLog, Bible!Spec
=============================================================================
