--------------------------- MODULE Registry_proofs ---------------------------
(***************************************************************************)
(* Proofs about Registry, for any sets of influencers, sessions, policies  *)
(* and any mix of request kinds.                                           *)
(***************************************************************************)
EXTENDS Registry, FunctionTheorems, FiniteSetTheorems, TLAPS

-----------------------------------------------------------------------------
(* The inductive invariant *)

\* The session is between get_for_update and the end of create_version.
Writing(t) ==
  \/ pc[t] \in {"number", "demote", "insert", "record"}
  \/ pc[t] = "commit" /\ inserted[t] # {}

\* The session must hold the row lock: it writes versions, or has flushed an
\* UPDATE.
MustHold(t) == Writing(t) \/ (pc[t] = "commit" /\ seen[t] # want[t])

LockHeld == \A t \in Sessions : MustHold(t) => lock[target[t]] = t

\* What a session has done to the versions so far; a session that creates no
\* version has done nothing.
Work(t) ==
  LET rows == versions[target[t]] IN
  /\ Writing(t) => row[target[t]].status # "archived" /\ seen[t] = want[t]
  /\ Writing(t) /\ pc[t] # "number" => number[t] = Highest(Numbers(rows)) + 1
  /\ IF Writing(t) /\ pc[t] \notin {"number", "demote"}
       THEN demoted[t] = Numbers(Current(rows))
       ELSE demoted[t] = {}
  /\ IF Writing(t) /\ pc[t] \in {"record", "commit"}
       THEN inserted[t] = {[number |-> number[t], created_by |-> t,
                            is_current |-> TRUE]}
       ELSE inserted[t] = {}

WorkSoFar == \A t \in Sessions : Work(t)

\* A version table as create_version leaves it: n rows, numbered from 1, the
\* newest current.
BibleOfSize(rows, n) ==
  /\ Numbers(rows) = 1..n
  /\ \A v, w \in rows : v.number = w.number => v = w
  /\ \A v \in rows : v.is_current <=> v.number = n

WellFormedBibles ==
  \A i \in Influencers : \E n \in Nat : BibleOfSize(versions[i], n)

IInv == TypeOK /\ LockHeld /\ WorkSoFar /\ WellFormedBibles

-----------------------------------------------------------------------------
(* Lemmas about the operators *)

\* next_version_number over a gapless table of n rows is n + 1.
LEMMA HighestOfInterval ==
  ASSUME NEW n \in Nat
  PROVE  Highest(1..n) = n
<1>1. CASE n = 0
  BY <1>1 DEF Highest
<1>2. CASE n # 0
  <2>1. n \in 1..n /\ \A m \in 1..n : m <= n
    BY <1>2
  <2>2. \A k \in 1..n : (\A m \in 1..n : m <= k) => k = n
    BY <2>1
  <2> QED
    BY <2>1, <2>2 DEF Highest
<1> QED
  BY <1>1, <1>2

\* A flush writes a row, and only the columns the session changed.
LEMMA FlushedIsRow ==
  ASSUME NEW r \in Row, NEW old \in Row, NEW new \in Row
  PROVE  Flushed(r, old, new) \in Row
BY DEF Flushed, Row

\* A session that changed no column writes none.
LEMMA FlushedUnchanged ==
  ASSUME NEW r \in Row, NEW old \in Row
  PROVE  Flushed(r, old, old) = r
BY DEF Flushed, Row

\* A row keeps its columns through change_status and update.
LEMMA RestatedIsRow ==
  ASSUME NEW r \in Row, NEW status \in Status
  PROVE  Restated(r, status) \in Row
<1>1. (r.archived_at \/ status = "archived") \in BOOLEAN
  OBVIOUS
<1> QED
  BY <1>1 DEF Restated, Row

\* A session that has demoted and inserted nothing commits no version change.
LEMMA DemoteNothing ==
  ASSUME NEW rows \in SUBSET Version
  PROVE  Demote(rows, {}) \cup {} = rows
<1>1. \A v \in rows : [v EXCEPT !.is_current = v.is_current /\ v.number \notin {}] = v
  BY DEF Version
<1> QED
  BY <1>1 DEF Demote

\* Demoting rows gives version rows.
LEMMA DemoteType ==
  ASSUME NEW rows \in SUBSET Version, NEW nums
  PROVE  Demote(rows, nums) \in SUBSET Version
BY DEF Demote, Version

\* Demoting the current row of a bible of n rows and inserting row n + 1 as
\* current gives a bible of n + 1 rows.
LEMMA PublishKeepsShape ==
  ASSUME NEW rows \in SUBSET Version, NEW n \in Nat, BibleOfSize(rows, n),
         NEW new \in Version, new.number = n + 1, new.is_current
  PROVE  BibleOfSize(Demote(rows, Numbers(Current(rows))) \cup {new}, n + 1)
<1> DEFINE old == Demote(rows, Numbers(Current(rows)))
<1>1. \A v \in rows : v.number \in 1..n
  BY DEF BibleOfSize, Numbers
<1>2. \A v \in rows : v.is_current => v.number \in Numbers(Current(rows))
  BY DEF Numbers, Current
<1>3. \A v \in old : \E w \in rows : v.number = w.number /\ v.created_by = w.created_by /\ ~v.is_current
  BY <1>2 DEF old, Demote, Version
<1>4. \A w \in rows : \E v \in old : v.number = w.number
  <2> DEFINE after(w) == [w EXCEPT !.is_current =
                            w.is_current /\ w.number \notin Numbers(Current(rows))]
  <2>1. \A w \in rows : after(w) \in old /\ after(w).number = w.number
    BY DEF old, Demote, Version
  <2> QED
    BY <2>1
<1>5. old \in SUBSET Version
  BY DemoteType DEF old
<1> HIDE DEF old
<1>6. Numbers(old \cup {new}) = 1..(n + 1)
  <2>1. Numbers(old) = 1..n
    BY <1>3, <1>4 DEF BibleOfSize, Numbers
  <2>2. Numbers(old \cup {new}) = Numbers(old) \cup {n + 1}
    BY DEF Numbers
  <2>3. 1..(n + 1) = (1..n) \cup {n + 1}
    OBVIOUS
  <2> QED
    BY <2>1, <2>2, <2>3
<1>7. \A v, w \in old \cup {new} : v.number = w.number => v = w
  <2> SUFFICES ASSUME NEW v \in old \cup {new}, NEW w \in old \cup {new},
                      v.number = w.number
               PROVE  v = w
    OBVIOUS
  <2>1. CASE v \in old /\ w \in old
    <3>1. PICK x \in rows, y \in rows :
            /\ v.number = x.number /\ v.created_by = x.created_by /\ ~v.is_current
            /\ w.number = y.number /\ w.created_by = y.created_by /\ ~w.is_current
      BY <1>3, <2>1
    <3>2. x = y
      BY <3>1 DEF BibleOfSize
    <3> QED
      BY <3>1, <3>2, <2>1, <1>5 DEF Version
  <2>2. CASE v = new \/ w = new
    <3>1. \A x \in old : x.number # n + 1
      BY <1>1, <1>3
    <3> QED
      BY <2>2, <3>1
  <2> QED
    BY <2>1, <2>2
<1>8. \A v \in old \cup {new} : v.is_current <=> v.number = n + 1
  BY <1>1, <1>3
<1> QED
  BY <1>6, <1>7, <1>8 DEF BibleOfSize, old

-----------------------------------------------------------------------------
(* The invariant is inductive *)

\* The identity map of an idle session holds a row.
LEMMA UnreadIsRow == Unread \in Row
BY DEF Unread, Draft, Row, Status

\* Drafts without versions and idle sessions satisfy the invariant.
LEMMA InitEstablishes == Init => IInv
<1> SUFFICES ASSUME Init PROVE IInv
  OBVIOUS
<1>1. TypeOK
  <2>1. \A a \in BOOLEAN, p \in Policies \cup {NoPolicy} : Draft(a, p) \in Row
    BY DEF Draft, Row, Status
  <2> QED
    BY <2>1, UnreadIsRow DEF Init, TypeOK
<1>2. LockHeld
  BY DEF Init, LockHeld, MustHold, Writing
<1>3. WorkSoFar
  BY DEF Init, WorkSoFar, Work, Writing
<1>4. WellFormedBibles
  <2>1. BibleOfSize({}, 0)
    BY DEF BibleOfSize, Numbers
  <2> QED
    BY <2>1 DEF Init, WellFormedBibles
<1> QED
  BY <1>1, <1>2, <1>3, <1>4 DEF IInv

\* What the step of a session that commits nothing owes the invariant: the
\* other sessions are as they were, and no lock of theirs is touched.
LEMMA QuietStep ==
  ASSUME IInv, NEW t \in Sessions, NothingCommitted, TypeOK',
         \A u \in Sessions \ {t} :
            /\ pc'[u] = pc[u] /\ target'[u] = target[u]
            /\ seen'[u] = seen[u] /\ want'[u] = want[u]
            /\ number'[u] = number[u] /\ demoted'[u] = demoted[u]
            /\ inserted'[u] = inserted[u],
         \A i \in Influencers : lock[i] \notin {Nobody, t} => lock'[i] = lock[i],
         MustHold(t)' => lock'[target'[t]] = t,
         Work(t)'
  PROVE  IInv'
<1>1. LockHeld'
  <2> SUFFICES ASSUME NEW u \in Sessions, MustHold(u)'
               PROVE  lock'[target'[u]] = u
    BY DEF LockHeld
  <2>1. CASE u = t
    BY <2>1
  <2>2. CASE u # t
    <3>1. MustHold(u)
      BY <2>2 DEF MustHold, Writing
    <3>2. lock[target[u]] = u /\ target[u] \in Influencers
      BY <3>1 DEF IInv, LockHeld, TypeOK
    <3> QED
      BY <2>2, <3>2, RegistryAssumption
  <2> QED
    BY <2>1, <2>2
<1>2. WorkSoFar'
  <2> SUFFICES ASSUME NEW u \in Sessions, u # t
               PROVE  Work(u)'
    BY DEF WorkSoFar
  <2>1. Writing(u)' <=> Writing(u)
    BY DEF Writing
  <2>2. Work(u)
    BY DEF IInv, WorkSoFar
  <2> QED
    BY <2>1, <2>2 DEF Work, NothingCommitted
<1>3. WellFormedBibles'
  BY DEF IInv, WellFormedBibles, NothingCommitted
<1> QED
  BY <1>1, <1>2, <1>3 DEF IInv

-----------------------------------------------------------------------------
(* create_version *)

\* Under a well-formed bible, next_version_number is a natural number.
LEMMA NextNumberIsNat ==
  ASSUME WellFormedBibles, NEW i \in Influencers
  PROVE  Highest(Numbers(versions[i])) \in Nat
BY HighestOfInterval DEF WellFormedBibles, BibleOfSize

\* The arrival of create_version keeps the invariant.
LEMMA CreateVersionStep ==
  ASSUME IInv, NEW t \in Sessions, NEW i \in Influencers, CreateVersion(t, i)
  PROVE  IInv'
<1> USE DEF At, Goto, NothingCommitted
<1>1. TypeOK'
  BY RegistryAssumption DEF IInv, TypeOK, CreateVersion
<1>2. MustHold(t)' => lock'[target'[t]] = t
  BY DEF IInv, TypeOK, LockHeld, MustHold, Writing, WorkSoFar, Work, CreateVersion
<1>3. Work(t)'
  BY DEF IInv, TypeOK, WorkSoFar, Work, Writing, CreateVersion
<1> QED
  BY <1>1, <1>2, <1>3, QuietStep DEF IInv, TypeOK, CreateVersion

\* get_for_update takes the lock the later statements need.
LEMMA GetForUpdateStep ==
  ASSUME IInv, NEW t \in Sessions, GetForUpdate(t)
  PROVE  IInv'
<1> USE DEF At, Goto, NothingCommitted
<1>1. TypeOK'
  BY RegistryAssumption DEF IInv, TypeOK, GetForUpdate, SelectForUpdate, Acquire, Editable
<1>2. MustHold(t)' => lock'[target'[t]] = t
  BY DEF IInv, TypeOK, LockHeld, MustHold, Writing, WorkSoFar, Work, GetForUpdate, SelectForUpdate, Acquire, Editable
<1>3. Work(t)'
  BY DEF IInv, TypeOK, WorkSoFar, Work, Writing, GetForUpdate, SelectForUpdate, Acquire, Editable
<1> QED
  BY <1>1, <1>2, <1>3, QuietStep DEF IInv, TypeOK, GetForUpdate, SelectForUpdate, Acquire, Editable

\* next_version_number, under the lock, reads the highest number there is.
LEMMA NextVersionNumberStep ==
  ASSUME IInv, NEW t \in Sessions, NextVersionNumber(t)
  PROVE  IInv'
<1> USE DEF At, Goto, NothingCommitted
<1>1. TypeOK'
  BY NextNumberIsNat, RegistryAssumption DEF IInv, TypeOK, NextVersionNumber, NextNumber
<1>2. MustHold(t)' => lock'[target'[t]] = t
  BY DEF IInv, TypeOK, LockHeld, MustHold, Writing, WorkSoFar, Work, NextVersionNumber, NextNumber
<1>3. Work(t)'
  BY DEF IInv, TypeOK, WorkSoFar, Work, Writing, NextVersionNumber, NextNumber
<1> QED
  BY <1>1, <1>2, <1>3, QuietStep DEF IInv, TypeOK, NextVersionNumber, NextNumber

\* demote_current clears the versions that are current when it runs.
LEMMA DemoteCurrentStep ==
  ASSUME IInv, NEW t \in Sessions, DemoteCurrent(t)
  PROVE  IInv'
<1> USE DEF At, Goto, NothingCommitted
<1>1. TypeOK'
  BY RegistryAssumption DEF IInv, TypeOK, DemoteCurrent, Numbers, Current, Version
<1>2. MustHold(t)' => lock'[target'[t]] = t
  BY DEF IInv, TypeOK, LockHeld, MustHold, Writing, WorkSoFar, Work, DemoteCurrent, Numbers, Current, Version
<1>3. Work(t)'
  BY DEF IInv, TypeOK, WorkSoFar, Work, Writing, DemoteCurrent, Numbers, Current, Version
<1> QED
  BY <1>1, <1>2, <1>3, QuietStep DEF IInv, TypeOK, DemoteCurrent, Numbers, Current, Version

\* The insert adds the row the session announced, and only that.
LEMMA InsertVersionStep ==
  ASSUME IInv, NEW t \in Sessions, InsertVersion(t)
  PROVE  IInv'
<1> USE DEF At, Goto, NothingCommitted
<1>1. TypeOK'
  BY RegistryAssumption DEF IInv, TypeOK, InsertVersion, NewVersion, Version
<1>2. MustHold(t)' => lock'[target'[t]] = t
  BY DEF IInv, TypeOK, LockHeld, MustHold, Writing, WorkSoFar, Work, InsertVersion, NewVersion, Version
<1>3. Work(t)'
  BY DEF IInv, TypeOK, WorkSoFar, Work, Writing, InsertVersion, NewVersion, Version
<1> QED
  BY <1>1, <1>2, <1>3, QuietStep DEF IInv, TypeOK, InsertVersion, NewVersion, Version

\* The two audit rows name the inserted version.
LEMMA RecordVersionStep ==
  ASSUME IInv, NEW t \in Sessions, RecordVersion(t)
  PROVE  IInv'
<1> USE DEF At, Goto, NothingCommitted
<1>1. TypeOK'
  BY RegistryAssumption DEF IInv, TypeOK, RecordVersion, VersionEntries, Entry
<1>2. MustHold(t)' => lock'[target'[t]] = t
  BY DEF IInv, TypeOK, LockHeld, MustHold, Writing, WorkSoFar, Work, RecordVersion, VersionEntries, Entry
<1>3. Work(t)'
  BY DEF IInv, TypeOK, WorkSoFar, Work, Writing, RecordVersion, VersionEntries, Entry
<1> QED
  BY <1>1, <1>2, <1>3, QuietStep DEF IInv, TypeOK, RecordVersion, VersionEntries, Entry

-----------------------------------------------------------------------------
(* change_status and update *)

\* change_status changes its own copy of the row, and no table.
LEMMA ChangeStatusStep ==
  ASSUME IInv, NEW t \in Sessions, NEW i \in Influencers, NEW status \in Status, ChangeStatus(t, i, status)
  PROVE  IInv'
<1> USE DEF At, Goto, NothingCommitted
<1>1. TypeOK'
  <2>1. row[i] \in Row /\ Restated(row[i], status) \in Row
    BY RestatedIsRow DEF IInv, TypeOK
  <2> QED
    BY <2>1 DEF IInv, TypeOK, ChangeStatus
<1>2. MustHold(t)' => lock'[target'[t]] = t
  BY DEF IInv, TypeOK, LockHeld, MustHold, Writing, WorkSoFar, Work, ChangeStatus, Restated, Row, Status, CanTransition
<1>3. Work(t)'
  BY DEF IInv, TypeOK, WorkSoFar, Work, Writing, ChangeStatus, Restated, Row, Status, CanTransition
<1> QED
  BY <1>1, <1>2, <1>3, QuietStep DEF IInv, TypeOK, ChangeStatus, Restated, Row, Status, CanTransition

\* The activation check passes without touching a table.
LEMMA PassActivationStep ==
  ASSUME IInv, NEW t \in Sessions, PassActivation(t)
  PROVE  IInv'
<1> USE DEF At, Goto, NothingCommitted
<1>1. TypeOK'
  BY RegistryAssumption DEF IInv, TypeOK, PassActivation, session
<1>2. MustHold(t)' => lock'[target'[t]] = t
  BY DEF IInv, TypeOK, LockHeld, MustHold, Writing, WorkSoFar, Work, PassActivation, session
<1>3. Work(t)'
  BY DEF IInv, TypeOK, WorkSoFar, Work, Writing, PassActivation, session
<1> QED
  BY <1>1, <1>2, <1>3, QuietStep DEF IInv, TypeOK, PassActivation, session

\* update changes its own copy of the row, and no table.
LEMMA UpdateStep ==
  ASSUME IInv, NEW t \in Sessions, NEW i \in Influencers, Update(t, i)
  PROVE  IInv'
<1> USE DEF At, Goto, NothingCommitted
<1>1. PICK r \in Patched(row[i]) : want' = [want EXCEPT ![t] = r]
  BY DEF Update, Editable
<1>2. TypeOK'
  <2>1. row[i] \in Row /\ r \in Row
    BY DEF IInv, TypeOK, Patched
  <2> QED
    BY <1>1, <2>1 DEF IInv, TypeOK, Update, Editable
<1>3. ~Writing(t)' /\ ~MustHold(t)'
  BY DEF IInv, TypeOK, MustHold, Writing, Update, Editable
<1>4. Work(t)'
  BY <1>3 DEF IInv, TypeOK, WorkSoFar, Work, Writing, Update, Editable
<1> QED
  BY <1>1, <1>2, <1>3, <1>4, QuietStep DEF IInv, TypeOK, Update, Editable

\* The flush takes the row lock when it has a column to write.
LEMMA FlushStep ==
  ASSUME IInv, NEW t \in Sessions, Flush(t)
  PROVE  IInv'
<1> USE DEF At, Goto, NothingCommitted
<1>1. TypeOK'
  BY RegistryAssumption DEF IInv, TypeOK, Flush, Acquire, ChangeEntry, Entry
<1>2. MustHold(t)' => lock'[target'[t]] = t
  BY DEF IInv, TypeOK, LockHeld, MustHold, Writing, WorkSoFar, Work, Flush, Acquire, ChangeEntry, Entry
<1>3. Work(t)'
  BY DEF IInv, TypeOK, WorkSoFar, Work, Writing, Flush, Acquire, ChangeEntry, Entry
<1> QED
  BY <1>1, <1>2, <1>3, QuietStep DEF IInv, TypeOK, Flush, Acquire, ChangeEntry, Entry

-----------------------------------------------------------------------------
(* The end of a session *)

\* A session that closes without a commit: rollback, or a refusal.
LEMMA CloseStep ==
  ASSUME IInv, NEW t \in Sessions, Close(t), NothingCommitted
  PROVE  IInv'
<1>1. TypeOK'
  BY UnreadIsRow, RegistryAssumption DEF IInv, TypeOK, Close, Release, Goto, NothingCommitted
<1>2. ~Writing(t)' /\ ~MustHold(t)'
  BY DEF IInv, TypeOK, MustHold, Writing, Close, Release, Goto
<1>3. Work(t)'
  BY <1>2 DEF IInv, TypeOK, Work, Writing, Close, Release
<1> QED
  BY <1>1, <1>2, <1>3, QuietStep DEF IInv, TypeOK, Close, Release, Goto

\* A commit changes one influencer's rows, and only under its lock.
LEMMA CommitOwnsRows ==
  ASSUME IInv, NEW t \in Sessions, Commit(t)
  PROVE  /\ \A i \in Influencers \ {target[t]} :
              row'[i] = row[i] /\ versions'[i] = versions[i]
         /\ ~MustHold(t) => row' = row /\ versions' = versions
<1> DEFINE i == target[t]
<1>0. i \in Influencers /\ row[i] \in Row /\ versions[i] \in SUBSET Version
  BY DEF IInv, TypeOK
<1>1. ASSUME ~MustHold(t) PROVE row' = row /\ versions' = versions
  <2>1. ~Writing(t) /\ seen[t] = want[t] /\ seen[t] \in Row
    BY <1>1 DEF MustHold, Commit, At, IInv, TypeOK
  <2>2. demoted[t] = {} /\ inserted[t] = {}
    BY <2>1 DEF IInv, WorkSoFar, Work
  <2>3. Flushed(row[i], seen[t], want[t]) = row[i]
    BY <1>0, <2>1, FlushedUnchanged
  <2>4. Demote(versions[i], demoted[t]) \cup inserted[t] = versions[i]
    BY <1>0, <2>2, DemoteNothing
  <2> QED
    BY <2>3, <2>4 DEF Commit, IInv, TypeOK
<1> QED
  BY <1>1 DEF Commit, IInv, TypeOK

\* What a commit of create_version leaves behind, and what any other commit
\* leaves alone.
LEMMA CommitVersions ==
  ASSUME IInv, NEW t \in Sessions, Commit(t)
  PROVE  LET i == target[t] IN
         /\ row'[i] = Flushed(row[i], seen[t], want[t])
         /\ inserted[t] = {} => versions'[i] = versions[i]
         /\ inserted[t] # {} =>
              /\ row'[i] = row[i] /\ row[i].status # "archived"
              /\ \A n \in Nat : BibleOfSize(versions[i], n) =>
                    /\ BibleOfSize(versions'[i], n + 1)
                    /\ number[t] = n + 1
<1> DEFINE i == target[t]
<1>0. i \in Influencers /\ row[i] \in Row /\ versions[i] \in SUBSET Version
  BY DEF IInv, TypeOK
<1>1. row'[i] = Flushed(row[i], seen[t], want[t])
  BY <1>0 DEF Commit, IInv, TypeOK
<1>2. versions'[i] = Demote(versions[i], demoted[t]) \cup inserted[t]
  BY <1>0 DEF Commit, IInv, TypeOK
<1>3. ASSUME inserted[t] = {} PROVE versions'[i] = versions[i]
  <2>1. demoted[t] = {}
    BY <1>3 DEF IInv, WorkSoFar, Work, Writing, Commit, At
  <2> QED
    BY <1>0, <1>2, <1>3, <2>1, DemoteNothing
<1>4. ASSUME inserted[t] # {}
      PROVE  /\ row'[i] = row[i] /\ row[i].status # "archived"
             /\ \A n \in Nat : BibleOfSize(versions[i], n) =>
                   BibleOfSize(versions'[i], n + 1) /\ number[t] = n + 1
  <2>1. Writing(t) /\ pc[t] = "commit"
    BY <1>4 DEF Writing, Commit, At
  <2>2. /\ row[i].status # "archived" /\ seen[t] = want[t]
        /\ number[t] = Highest(Numbers(versions[i])) + 1
        /\ demoted[t] = Numbers(Current(versions[i]))
        /\ inserted[t] = {[number |-> number[t], created_by |-> t, is_current |-> TRUE]}
    BY <2>1 DEF IInv, WorkSoFar, Work
  <2>3. row'[i] = row[i]
    BY <1>0, <1>1, <2>2, FlushedUnchanged DEF IInv, TypeOK
  <2>4. ASSUME NEW n \in Nat, BibleOfSize(versions[i], n)
        PROVE  BibleOfSize(versions'[i], n + 1) /\ number[t] = n + 1
    <3>1. number[t] = n + 1
      BY <2>2, <2>4, HighestOfInterval DEF BibleOfSize
    <3>2. [number |-> number[t], created_by |-> t, is_current |-> TRUE] \in Version
      BY <3>1 DEF Version
    <3> QED
      BY <1>0, <1>2, <2>2, <2>4, <3>1, <3>2, PublishKeepsShape
  <2> QED
    BY <2>2, <2>3, <2>4
<1> QED
  BY <1>1, <1>3, <1>4

\* A commit keeps the invariant: it extends one bible, under its lock, and leaves
\* the work of the other sessions true.
LEMMA CommitStep ==
  ASSUME IInv, NEW t \in Sessions, Commit(t)
  PROVE  IInv'
<1> DEFINE i == target[t]
<1>0. i \in Influencers /\ row[i] \in Row /\ versions[i] \in SUBSET Version
  BY DEF IInv, TypeOK
<1>1. TypeOK'
  <2>1. Flushed(row[i], seen[t], want[t]) \in Row
    BY <1>0, FlushedIsRow DEF IInv, TypeOK
  <2>2. Demote(versions[i], demoted[t]) \cup inserted[t] \in SUBSET Version
    BY <1>0, DemoteType DEF IInv, TypeOK
  <2>3. row' \in [Influencers -> Row] /\ versions' \in [Influencers -> SUBSET Version]
    BY <2>1, <2>2 DEF Commit, IInv, TypeOK
  <2> QED
    BY <2>3, UnreadIsRow, RegistryAssumption DEF IInv, TypeOK, Commit, Close, Release, Goto
<1>2. \A u \in Sessions \ {t} : MustHold(u)' = MustHold(u) /\ Writing(u)' = Writing(u)
  BY DEF IInv, TypeOK, MustHold, Writing, Commit, Close, Release, Goto
<1>3. ~Writing(t)' /\ ~MustHold(t)'
  BY DEF IInv, TypeOK, MustHold, Writing, Commit, Close, Release, Goto
<1>4. LockHeld'
  <2> SUFFICES ASSUME NEW u \in Sessions, u # t, MustHold(u)'
               PROVE  lock'[target'[u]] = u
    BY <1>3 DEF LockHeld
  <2>1. lock[target[u]] = u /\ target[u] \in Influencers
    BY <1>2 DEF IInv, LockHeld, TypeOK
  <2> QED
    BY <2>1 DEF Commit, Close, Release
<1>5. WorkSoFar'
  <2> SUFFICES ASSUME NEW u \in Sessions
               PROVE  Work(u)'
    BY DEF WorkSoFar
  <2>1. CASE u = t
    BY <2>1, <1>3 DEF IInv, TypeOK, Work, Writing, Commit, Close, Release
  <2>2. CASE u # t
    <3>1. Work(u)
      BY DEF IInv, WorkSoFar
    <3>2. /\ Writing(u)' <=> Writing(u)
          /\ target'[u] = target[u] /\ pc'[u] = pc[u] /\ seen'[u] = seen[u]
          /\ want'[u] = want[u] /\ number'[u] = number[u]
          /\ demoted'[u] = demoted[u] /\ inserted'[u] = inserted[u]
      BY <1>2, <2>2 DEF IInv, TypeOK, Commit, Close, Release, Goto
    <3>3. ASSUME Writing(u)
          PROVE  row'[target[u]] = row[target[u]] /\ versions'[target[u]] = versions[target[u]]
      <4>1. target[u] # target[t] \/ ~MustHold(t)
        BY <2>2, <3>3 DEF IInv, LockHeld, MustHold
      <4>2. target[u] \in Influencers
        BY DEF IInv, TypeOK
      <4> QED
        BY <4>1, <4>2, CommitOwnsRows
    <3> QED
      BY <3>1, <3>2, <3>3 DEF Work
  <2> QED
    BY <2>1, <2>2
<1>6. WellFormedBibles'
  <2> SUFFICES ASSUME NEW j \in Influencers
               PROVE  \E n \in Nat : BibleOfSize(versions'[j], n)
    BY DEF WellFormedBibles, BibleOfSize, Numbers
  <2>1. PICK n \in Nat : BibleOfSize(versions[j], n)
    BY DEF IInv, WellFormedBibles
  <2>2. CASE j = i
    BY <2>1, <2>2, CommitVersions
  <2>3. CASE j # i
    BY <2>1, <2>3, CommitOwnsRows
  <2> QED
    BY <2>2, <2>3
<1> QED
  BY <1>1, <1>4, <1>5, <1>6 DEF IInv

\* Every step of the registry keeps the invariant.
LEMMA NextPreserves == IInv /\ [Next]_vars => IInv'
<1> SUFFICES ASSUME IInv, [Next]_vars PROVE IInv'
  OBVIOUS
<1>1. CASE UNCHANGED vars
  <2>1. TypeOK'
    BY <1>1 DEF IInv, TypeOK, vars
  <2>2. LockHeld'
    BY <1>1 DEF IInv, LockHeld, MustHold, Writing, vars
  <2>3. WorkSoFar'
    BY <1>1 DEF IInv, WorkSoFar, Work, Writing, vars
  <2>4. WellFormedBibles'
    BY <1>1 DEF IInv, WellFormedBibles, vars
  <2> QED
    BY <2>1, <2>2, <2>3, <2>4 DEF IInv
<1>2. ASSUME NEW t \in Sessions, Statement(t)
      PROVE  IInv'
  BY <1>2, GetForUpdateStep, CloseStep, NextVersionNumberStep, DemoteCurrentStep,
     InsertVersionStep, RecordVersionStep, PassActivationStep, FlushStep, CommitStep
     DEF Statement, RefuseArchivedVersion, RefuseActivation
<1>3. ASSUME NEW t \in Sessions, Rollback(t)
      PROVE  IInv'
  BY <1>3, CloseStep DEF Rollback
<1>4. ASSUME NEW t \in Sessions, NEW i \in Influencers,
             \/ CreateVersion(t, i)
             \/ Update(t, i)
             \/ RefuseUpdate(t, i)
             \/ \E status \in Status : ChangeStatus(t, i, status)
             \/ \E status \in Status : RefuseTransition(t, i, status)
      PROVE  IInv'
  BY <1>4, CreateVersionStep, UpdateStep, ChangeStatusStep, CloseStep
     DEF RefuseUpdate, RefuseTransition
<1> QED
  BY <1>1, <1>2, <1>3, <1>4 DEF Next

\* The inductive invariant holds in every state of the registry.
THEOREM InductiveInvariant == Spec => []IInv
BY InitEstablishes, NextPreserves, PTL DEF Spec

\* Every variable of the registry stays in its set, for any constants.
THEOREM TypeCorrect == Spec => []TypeOK
<1>1. IInv => TypeOK
  BY DEF IInv
<1> QED
  BY <1>1, InductiveInvariant, PTL

-----------------------------------------------------------------------------
(* What the invariant gives *)

\* A bible of n rows has n rows.
LEMMA BibleCardinality ==
  ASSUME NEW rows \in SUBSET Version, NEW n \in Nat, BibleOfSize(rows, n)
  PROVE  IsFiniteSet(rows) /\ Cardinality(rows) = n
<1> DEFINE f == [v \in rows |-> v.number]
<1>1. f \in Bijection(rows, 1..n)
  <2>1. f \in [rows -> 1..n]
    BY DEF BibleOfSize, Numbers
  <2>2. \A v, w \in rows : f[v] = f[w] => v = w
    BY DEF BibleOfSize
  <2>3. \A k \in 1..n : \E v \in rows : f[v] = k
    BY DEF BibleOfSize, Numbers
  <2> QED
    BY <2>1, <2>2, <2>3 DEF Bijection, Injection, Surjection, IsInjective
<1>2. IsFiniteSet(1..n) /\ Cardinality(1..n) = n
  BY FS_Interval
<1>3. ExistsBijection(1..n, rows)
  BY <1>1, Fun_ExistsBijSymmetric DEF ExistsBijection
<1> QED
  BY <1>2, <1>3, FS_Bijection

\* Version numbers are gapless from 1, with any number of concurrent
\* create_version requests.
THEOREM GaplessNumbering == Spec => []GaplessNumbers
<1>1. IInv => GaplessNumbers
  <2> SUFFICES ASSUME IInv, NEW i \in Influencers
               PROVE  Numbers(versions[i]) = 1..Cardinality(versions[i])
    BY DEF GaplessNumbers
  <2>1. PICK n \in Nat : BibleOfSize(versions[i], n)
    BY DEF IInv, WellFormedBibles
  <2>2. Cardinality(versions[i]) = n
    BY <2>1, BibleCardinality DEF IInv, TypeOK
  <2> QED
    BY <2>1, <2>2 DEF BibleOfSize
<1> QED
  BY <1>1, InductiveInvariant, PTL

\* A bible has one current version, its newest, at every commit.
THEOREM NewestIsCurrent == Spec => []CurrentIsNewest
<1>1. IInv => CurrentIsNewest
  <2> SUFFICES ASSUME IInv, NEW i \in Influencers
               PROVE  Numbers(Current(versions[i])) = {Highest(Numbers(versions[i]))} \ {0}
    BY DEF CurrentIsNewest
  <2>1. PICK n \in Nat : BibleOfSize(versions[i], n)
    BY DEF IInv, WellFormedBibles
  <2>2. Highest(Numbers(versions[i])) = n
    BY <2>1, HighestOfInterval DEF BibleOfSize
  <2>3. \A k : k \in Numbers(Current(versions[i])) <=> k = n /\ k \in 1..n
    BY <2>1 DEF BibleOfSize, Numbers, Current
  <2> QED
    BY <2>2, <2>3
<1> QED
  BY <1>1, InductiveInvariant, PTL

\* The INSERT of create_version is never refused by a unique index.
THEOREM InsertIsAccepted == Spec => []InsertNeverConflicts
<1>1. IInv => InsertNeverConflicts
  <2> SUFFICES ASSUME IInv, NEW t \in Sessions, pc[t] = "insert"
               PROVE  LET rows == Demote(versions[target[t]], demoted[t])
                      IN number[t] \notin Numbers(rows) /\ Current(rows) = {}
    BY DEF InsertNeverConflicts, At
  <2> DEFINE rows == versions[target[t]]
  <2>0. rows \in SUBSET Version /\ target[t] \in Influencers
    BY DEF IInv, TypeOK
  <2>1. PICK n \in Nat : BibleOfSize(rows, n)
    BY <2>0 DEF IInv, WellFormedBibles
  <2>2. number[t] = n + 1 /\ demoted[t] = Numbers(Current(rows))
    BY <2>1, HighestOfInterval DEF IInv, WorkSoFar, Work, Writing, BibleOfSize
  <2>3. \A v \in Demote(rows, demoted[t]) :
          \E w \in rows : v.number = w.number /\ ~v.is_current
    BY <2>0, <2>2 DEF Demote, Version, Numbers, Current
  <2>4. \A w \in rows : w.number \in 1..n
    BY <2>1 DEF BibleOfSize, Numbers
  <2>5. number[t] \notin Numbers(Demote(rows, demoted[t]))
    <3>1. \A v \in Demote(rows, demoted[t]) : v.number # n + 1
      BY <2>3, <2>4
    <3> QED
      BY <2>2, <3>1 DEF Numbers
  <2>6. Current(Demote(rows, demoted[t])) = {}
    BY <2>3 DEF Current
  <2> QED
    BY <2>5, <2>6
<1> QED
  BY <1>1, InductiveInvariant, PTL

\* Versions change only by a commit.
LEMMA OnlyCommitChangesVersions ==
  ASSUME IInv, [Next]_vars, versions' # versions
  PROVE  \E t \in Sessions : Commit(t)
BY DEF Next, Statement, NothingCommitted, vars, CreateVersion, GetForUpdate,
       RefuseArchivedVersion, NextVersionNumber, DemoteCurrent, InsertVersion,
       RecordVersion, ChangeStatus, RefuseTransition, PassActivation,
       RefuseActivation, Update, RefuseUpdate, Flush, Rollback

\* No version lands on an influencer that is archived.
THEOREM ArchivedTakesNoVersion == Spec => NoVersionOnceArchived
<1>1. ASSUME IInv, [Next]_vars, NEW i \in Influencers,
             row[i].status = "archived"
      PROVE  versions'[i] = versions[i]
  <2>1. CASE versions' = versions
    BY <2>1
  <2>2. CASE versions' # versions
    <3>1. PICK t \in Sessions : Commit(t)
      BY <1>1, <2>2, OnlyCommitChangesVersions
    <3>2. CASE i # target[t]
      BY <1>1, <3>1, <3>2, CommitOwnsRows
    <3>3. CASE i = target[t]
      BY <1>1, <3>1, <3>3, CommitVersions
    <3> QED
      BY <3>2, <3>3
  <2> QED
    BY <2>1, <2>2
<1>2. IInv /\ [Next]_vars =>
        [\A i \in Influencers : row[i].status = "archived" => versions'[i] = versions[i]]_versions
  BY <1>1
<1> QED
  BY <1>2, InductiveInvariant, PTL DEF Spec, NoVersionOnceArchived

-----------------------------------------------------------------------------
(* A live influencer has a bible *)

Live(r) == r.status \in {"active", "paused"}

\* activation_blockers looks for versions without a lock, and the status is
\* written later: what keeps the answer true is that bibles only grow. A
\* session that read a live influencer, or is past the check and will make
\* one live, works on an influencer with versions.
LiveWork(t) ==
  /\ pc[t] \notin {"idle", "lock"} /\ Live(seen[t]) => versions[target[t]] # {}
  /\ pc[t] \in {"flush", "commit"} /\ Live(want[t]) => versions[target[t]] # {}

LiveInv ==
  /\ \A i \in Influencers : Live(row[i]) => versions[i] # {}
  /\ \A t \in Sessions : LiveWork(t)

\* No step empties a bible.
LEMMA BiblesStay ==
  ASSUME IInv, [Next]_vars, NEW i \in Influencers, versions[i] # {}
  PROVE  versions'[i] # {}
<1>1. CASE versions' = versions
  BY <1>1
<1>2. CASE versions' # versions
  <2>1. PICK t \in Sessions : Commit(t)
    BY <1>2, OnlyCommitChangesVersions
  <2>2. PICK n \in Nat : BibleOfSize(versions[i], n)
    BY DEF IInv, WellFormedBibles
  <2>3. CASE i # target[t]
    BY <2>1, <2>3, CommitOwnsRows
  <2>4. CASE i = target[t] /\ inserted[t] = {}
    BY <2>1, <2>4, CommitVersions
  <2>5. CASE i = target[t] /\ inserted[t] # {}
    <3>1. BibleOfSize(versions'[i], n + 1)
      BY <2>1, <2>2, <2>5, CommitVersions
    <3>2. n + 1 \in Numbers(versions'[i])
      BY <3>1 DEF BibleOfSize
    <3> QED
      BY <3>2 DEF Numbers
  <2> QED
    BY <2>3, <2>4, <2>5
<1> QED
  BY <1>1, <1>2

\* A step that commits nothing keeps LiveInv if it keeps it for its session.
LEMMA QuietLiveStep ==
  ASSUME IInv, LiveInv, NEW t \in Sessions, NothingCommitted, LiveWork(t)',
         \A u \in Sessions \ {t} :
            /\ pc'[u] = pc[u] /\ target'[u] = target[u]
            /\ seen'[u] = seen[u] /\ want'[u] = want[u]
  PROVE  LiveInv'
BY DEF LiveInv, LiveWork, NothingCommitted

\* The end of a session forgets what it read.
LEMMA CloseLiveStep ==
  ASSUME IInv, LiveInv, NEW t \in Sessions, Close(t), NothingCommitted
  PROVE  LiveInv'
<1>1. LiveWork(t)'
  BY DEF LiveWork, Close, Goto, IInv, TypeOK
<1> QED
  BY <1>1, QuietLiveStep DEF Close, Goto, IInv, TypeOK

\* The statements of create_version; the row read under the lock tells the
\* truth about the bible.
LEMMA CreatingLiveStep ==
  ASSUME IInv, LiveInv, NEW t \in Sessions,
         \/ GetForUpdate(t) \/ NextVersionNumber(t) \/ DemoteCurrent(t)
         \/ InsertVersion(t) \/ RecordVersion(t)
         \/ \E i \in Influencers : CreateVersion(t, i)
  PROVE  LiveInv'
<1>1. CASE GetForUpdate(t)
  <2>1. LiveWork(t)'
    BY <1>1 DEF GetForUpdate, LiveInv, LiveWork, Goto, NothingCommitted, IInv, TypeOK
  <2> QED
    BY <1>1, <2>1, QuietLiveStep DEF GetForUpdate, Goto, IInv, TypeOK
<1>2. CASE NextVersionNumber(t) \/ DemoteCurrent(t) \/ InsertVersion(t)
  <2>1. LiveWork(t)'
    BY <1>2 DEF NextVersionNumber, DemoteCurrent, InsertVersion, LiveInv, LiveWork,
                At, Goto, NothingCommitted, IInv, TypeOK
  <2> QED
    BY <1>2, <2>1, QuietLiveStep
       DEF NextVersionNumber, DemoteCurrent, InsertVersion, Goto, IInv, TypeOK
<1>3. CASE RecordVersion(t)
  <2>1. seen[t] = want[t]
    BY <1>3 DEF RecordVersion, At, IInv, WorkSoFar, Work, Writing
  <2>2. LiveWork(t)'
    BY <1>3, <2>1 DEF RecordVersion, LiveInv, LiveWork, At, Goto, NothingCommitted, IInv, TypeOK
  <2> QED
    BY <1>3, <2>2, QuietLiveStep DEF RecordVersion, Goto, IInv, TypeOK
<1>4. ASSUME NEW i \in Influencers, CreateVersion(t, i)
      PROVE  LiveInv'
  <2>1. LiveWork(t)'
    BY <1>4 DEF CreateVersion, LiveWork, Goto, IInv, TypeOK
  <2> QED
    BY <1>4, <2>1, QuietLiveStep DEF CreateVersion, Goto, IInv, TypeOK
<1> QED
  BY <1>1, <1>2, <1>3, <1>4

\* change_status: pausing needs a status that is live already, activating a
\* bible.
LEMMA RestatingLiveStep ==
  ASSUME IInv, LiveInv, NEW t \in Sessions,
         \/ \E i \in Influencers, status \in Status : ChangeStatus(t, i, status)
         \/ PassActivation(t)
  PROVE  LiveInv'
<1>1. ASSUME NEW i \in Influencers, NEW status \in Status, ChangeStatus(t, i, status)
      PROVE  LiveInv'
  <2>1. /\ target'[t] = i /\ seen'[t] = row[i] /\ want'[t] = Restated(row[i], status)
        /\ pc'[t] = IF status = "active" THEN "blockers" ELSE "flush"
        /\ versions' = versions /\ row[i] \in Row
    BY <1>1 DEF ChangeStatus, Goto, NothingCommitted, IInv, TypeOK
  <2>2. want'[t].status = status
    BY <2>1 DEF Restated, Row
  <2>3. CanTransition(row[i].status, status)
    BY <1>1 DEF ChangeStatus
  <2>4. status = "paused" => row[i].status = "active"
    BY <2>1, <2>3 DEF CanTransition, Transitions, Row, Status
  <2>5. LiveWork(t)'
    BY <2>1, <2>2, <2>4 DEF LiveWork, Live, LiveInv
  <2> QED
    BY <1>1, <2>5, QuietLiveStep DEF ChangeStatus, Goto, IInv, TypeOK
<1>2. CASE PassActivation(t)
  <2>1. Current(versions[target[t]]) # {}
    BY <1>2 DEF PassActivation, Blockers
  <2>2. versions[target[t]] # {}
    BY <2>1 DEF Current
  <2>3. LiveWork(t)'
    BY <1>2, <2>2 DEF PassActivation, LiveWork, session, NothingCommitted
  <2> QED
    BY <1>2, <2>3, QuietLiveStep DEF PassActivation, session, Goto, IInv, TypeOK
<1> QED
  BY <1>1, <1>2

\* update keeps the status it read.
LEMMA EditingLiveStep ==
  ASSUME IInv, LiveInv, NEW t \in Sessions,
         (\E i \in Influencers : Update(t, i)) \/ Flush(t)
  PROVE  LiveInv'
<1>1. ASSUME NEW i \in Influencers, Update(t, i)
      PROVE  LiveInv'
  <2>1. /\ target'[t] = i /\ seen'[t] = row[i] /\ want'[t].status = row[i].status
        /\ versions' = versions
    BY <1>1 DEF Update, Patched, NothingCommitted, IInv, TypeOK
  <2>2. LiveWork(t)'
    BY <2>1 DEF LiveWork, Live, LiveInv
  <2> QED
    BY <1>1, <2>2, QuietLiveStep DEF Update, Goto, IInv, TypeOK
<1>2. CASE Flush(t)
  <2>1. LiveWork(t)'
    BY <1>2 DEF Flush, LiveInv, LiveWork, At, Goto, NothingCommitted, IInv, TypeOK
  <2> QED
    BY <1>2, <2>1, QuietLiveStep DEF Flush, Goto, IInv, TypeOK
<1> QED
  BY <1>1, <1>2

\* The commit of a live status lands on an influencer with versions.
LEMMA CommitLiveStep ==
  ASSUME IInv, LiveInv, NEW t \in Sessions, Commit(t), [Next]_vars
  PROVE  LiveInv'
<1> DEFINE i == target[t]
<1>1. i \in Influencers /\ row[i] \in Row /\ pc[t] = "commit"
  BY DEF IInv, TypeOK, Commit, At
<1>2. \A j \in Influencers : Live(row'[j]) => versions'[j] # {}
  <2> SUFFICES ASSUME NEW j \in Influencers, Live(row'[j])
               PROVE  versions[j] # {}
    BY BiblesStay
  <2>1. CASE j # i
    BY <2>1, CommitOwnsRows DEF LiveInv
  <2>2. CASE j = i
    <3>1. row'[i].status \in {row[i].status, want[t].status}
      <4>1. row'[i] = Flushed(row[i], seen[t], want[t])
        BY CommitVersions
      <4> QED
        BY <4>1 DEF Flushed
    <3> QED
      BY <1>1, <2>2, <3>1 DEF LiveInv, LiveWork, Live
  <2> QED
    BY <2>1, <2>2
<1>3. ASSUME NEW u \in Sessions
      PROVE  LiveWork(u)'
  <2>1. CASE u = t
    BY <2>1 DEF LiveWork, Commit, Close, Goto, IInv, TypeOK
  <2>2. CASE u # t
    <3>1. /\ pc'[u] = pc[u] /\ target'[u] = target[u]
          /\ seen'[u] = seen[u] /\ want'[u] = want[u]
      BY <2>2 DEF Commit, Close, Goto, IInv, TypeOK
    <3>2. LiveWork(u) /\ target[u] \in Influencers
      BY DEF LiveInv, IInv, TypeOK
    <3> QED
      BY <3>1, <3>2, BiblesStay DEF LiveWork
  <2> QED
    BY <2>1, <2>2
<1> QED
  BY <1>2, <1>3 DEF LiveInv

\* Every step keeps live influencers on non-empty bibles.
LEMMA NextPreservesLive == IInv /\ LiveInv /\ [Next]_vars => LiveInv'
<1> SUFFICES ASSUME IInv, LiveInv, [Next]_vars PROVE LiveInv'
  OBVIOUS
<1>1. CASE UNCHANGED vars
  BY <1>1 DEF LiveInv, LiveWork, vars
<1>2. ASSUME NEW t \in Sessions, Statement(t)
      PROVE  LiveInv'
  BY <1>2, CreatingLiveStep, RestatingLiveStep, EditingLiveStep, CommitLiveStep,
     CloseLiveStep DEF Statement, RefuseArchivedVersion, RefuseActivation
<1>3. ASSUME NEW t \in Sessions, Rollback(t)
      PROVE  LiveInv'
  BY <1>3, CloseLiveStep DEF Rollback
<1>4. ASSUME NEW t \in Sessions, NEW i \in Influencers,
             \/ CreateVersion(t, i)
             \/ Update(t, i)
             \/ RefuseUpdate(t, i)
             \/ \E status \in Status : ChangeStatus(t, i, status)
             \/ \E status \in Status : RefuseTransition(t, i, status)
      PROVE  LiveInv'
  BY <1>4, CreatingLiveStep, EditingLiveStep, RestatingLiveStep, CloseLiveStep
     DEF RefuseUpdate, RefuseTransition
<1> QED
  BY <1>1, <1>2, <1>3, <1>4 DEF Next

\* An influencer that is or has been live has a current version, although the
\* activation check takes no lock.
THEOREM LiveInfluencersHaveBibles == Spec => []LiveHasBible
<1>1. Init => LiveInv
  BY DEF Init, LiveInv, LiveWork, Live, Draft
<1>2. IInv /\ LiveInv => LiveHasBible
  <2> SUFFICES ASSUME IInv, NEW i \in Influencers, versions[i] # {}
               PROVE  Current(versions[i]) # {}
    BY DEF LiveInv, LiveHasBible, Live
  <2>1. PICK n \in Nat : BibleOfSize(versions[i], n)
    BY DEF IInv, WellFormedBibles
  <2>2. n \in 1..n
    BY <2>1 DEF BibleOfSize, Numbers, IInv, TypeOK, Version
  <2>3. PICK v \in versions[i] : v.number = n
    BY <2>1, <2>2 DEF BibleOfSize, Numbers
  <2> QED
    BY <2>1, <2>3 DEF BibleOfSize, Current
<1>3. Spec => []LiveInv
  BY <1>1, InductiveInvariant, NextPreservesLive, PTL DEF Spec
<1> QED
  BY <1>2, <1>3, InductiveInvariant, PTL

-----------------------------------------------------------------------------
(* Who waits for whom *)

\* A row lock is held only by a session that works on that row and has got past
\* the statement that waits for it.
LocksAreUsed ==
  \A i \in Influencers : lock[i] # Nobody =>
    MustHold(lock[i]) /\ target[lock[i]] = i

\* The sessions that session t waits for.
WaitsFor(t) ==
  {u \in Sessions \ {t} :
     /\ At(t, "lock") \/ (At(t, "flush") /\ seen[t] # want[t])
     /\ lock[target[t]] = u}

\* No two requests wait for each other, directly or through others.
NoCircularWait ==
  \A S \in SUBSET Sessions :
    S # {} => \E t \in S : WaitsFor(t) \cap S = {}

\* A step that leaves the other sessions and their locks alone.
LEMMA OthersUse ==
  ASSUME IInv, LocksAreUsed, NEW t \in Sessions,
         \A u \in Sessions \ {t} :
            /\ pc'[u] = pc[u] /\ target'[u] = target[u] /\ seen'[u] = seen[u]
            /\ want'[u] = want[u] /\ inserted'[u] = inserted[u],
         \A i \in Influencers :
            \/ lock'[i] = Nobody
            \/ lock'[i] = lock[i] /\ lock[i] # t
            \/ lock'[i] = t /\ MustHold(t)' /\ target'[t] = i
  PROVE  LocksAreUsed'
BY RegistryAssumption DEF LocksAreUsed, MustHold, Writing, IInv, TypeOK

\* A session that ends holds nothing any more.
LEMMA CloseUse ==
  ASSUME IInv, LocksAreUsed, NEW t \in Sessions, Close(t)
  PROVE  LocksAreUsed'
<1>1. \A i \in Influencers : lock'[i] = Nobody \/ (lock'[i] = lock[i] /\ lock[i] # t)
  BY DEF Close, Release
<1>2. \A u \in Sessions \ {t} :
        /\ pc'[u] = pc[u] /\ target'[u] = target[u] /\ seen'[u] = seen[u]
        /\ want'[u] = want[u] /\ inserted'[u] = inserted[u]
  BY DEF Close, Goto, IInv, TypeOK
<1> QED
  BY <1>1, <1>2, OthersUse

\* Every step keeps the locks in use.
LEMMA NextPreservesUse == IInv /\ IInv' /\ LocksAreUsed /\ [Next]_vars => LocksAreUsed'
<1> SUFFICES ASSUME IInv, IInv', LocksAreUsed, [Next]_vars PROVE LocksAreUsed'
  OBVIOUS
<1> USE DEF Goto, At
<1>1. CASE UNCHANGED vars
  BY <1>1 DEF LocksAreUsed, MustHold, Writing, vars
\* create_version keeps its lock from get_for_update on.
<1>2. ASSUME NEW t \in Sessions,
             NextVersionNumber(t) \/ DemoteCurrent(t) \/ InsertVersion(t) \/ RecordVersion(t)
      PROVE  LocksAreUsed'
  <2>1. /\ Writing(t) /\ lock' = lock /\ target' = target /\ seen' = seen /\ want' = want
        /\ \A u \in Sessions \ {t} : pc'[u] = pc[u] /\ inserted'[u] = inserted[u]
    BY <1>2 DEF NextVersionNumber, DemoteCurrent, InsertVersion, RecordVersion,
                Writing, IInv, TypeOK
  <2>2. MustHold(t)'
    <3>1. pc'[t] \in {"demote", "insert", "record", "commit"}
      BY <1>2 DEF NextVersionNumber, DemoteCurrent, InsertVersion, RecordVersion,
                  IInv, TypeOK
    <3>2. pc'[t] = "commit" => RecordVersion(t)
      BY <1>2 DEF NextVersionNumber, DemoteCurrent, InsertVersion, IInv, TypeOK
    <3>3. RecordVersion(t) => inserted[t] # {} /\ inserted' = inserted
      BY DEF RecordVersion, IInv, WorkSoFar, Work, Writing
    <3> QED
      BY <3>1, <3>2, <3>3 DEF MustHold, Writing
  <2>3. \A i \in Influencers : lock[i] = t => target[t] = i
    BY RegistryAssumption DEF LocksAreUsed
  <2> QED
    BY <2>1, <2>2, <2>3, OthersUse
<1>3. ASSUME NEW t \in Sessions, GetForUpdate(t)
      PROVE  LocksAreUsed'
  <2>1. /\ pc[t] = "lock" /\ pc'[t] = "number" /\ target' = target
        /\ lock' = [lock EXCEPT ![target[t]] = t]
    BY <1>3 DEF GetForUpdate, SelectForUpdate, Acquire, IInv, TypeOK
  <2>2. MustHold(t)' /\ ~MustHold(t)
    BY <2>1 DEF MustHold, Writing
  <2>3. \A i \in Influencers : lock[i] # t
    BY <2>2, RegistryAssumption DEF LocksAreUsed
  <2>4. \A u \in Sessions \ {t} :
          /\ pc'[u] = pc[u] /\ target'[u] = target[u] /\ seen'[u] = seen[u]
          /\ want'[u] = want[u] /\ inserted'[u] = inserted[u]
    BY <1>3 DEF GetForUpdate, IInv, TypeOK
  <2>5. \A i \in Influencers : lock'[i] = IF i = target[t] THEN t ELSE lock[i]
    BY <2>1 DEF IInv, TypeOK
  <2> QED
    BY <2>1, <2>2, <2>3, <2>4, <2>5, OthersUse
<1>4. ASSUME NEW t \in Sessions, Flush(t)
      PROVE  LocksAreUsed'
  <2>1. /\ pc[t] = "flush" /\ pc'[t] = "commit"
        /\ UNCHANGED <<target, seen, want, inserted>>
    BY <1>4 DEF Flush, IInv, TypeOK
  <2>2. \A i \in Influencers : lock[i] # t
    BY <2>1, RegistryAssumption DEF LocksAreUsed, MustHold, Writing
  <2>3. \A i \in Influencers :
          lock'[i] = IF seen[t] # want[t] /\ i = target[t] THEN t ELSE lock[i]
    BY <1>4 DEF Flush, Acquire, IInv, TypeOK
  <2>4. seen[t] # want[t] => MustHold(t)'
    BY <2>1 DEF MustHold
  <2>5. \A u \in Sessions \ {t} : pc'[u] = pc[u]
    BY <1>4 DEF Flush, IInv, TypeOK
  <2> QED
    BY <2>1, <2>2, <2>3, <2>4, <2>5, OthersUse
\* A session that has not got to its lock holds none.
<1>5. ASSUME NEW t \in Sessions, NEW i \in Influencers,
             \/ CreateVersion(t, i) \/ Update(t, i) \/ PassActivation(t)
             \/ \E status \in Status : ChangeStatus(t, i, status)
      PROVE  LocksAreUsed'
  <2>1. pc[t] \in {"idle", "blockers"} /\ lock' = lock /\ inserted' = inserted
    BY <1>5 DEF CreateVersion, Update, PassActivation, ChangeStatus, session
  <2>2. \A j \in Influencers : lock[j] # t
    BY <2>1, RegistryAssumption DEF LocksAreUsed, MustHold, Writing
  <2>3. \A u \in Sessions \ {t} :
          /\ pc'[u] = pc[u] /\ target'[u] = target[u] /\ seen'[u] = seen[u]
          /\ want'[u] = want[u]
    BY <1>5 DEF CreateVersion, Update, PassActivation, ChangeStatus, session, IInv, TypeOK
  <2> QED
    BY <2>1, <2>2, <2>3, OthersUse
<1>6. ASSUME NEW t \in Sessions, Close(t)
      PROVE  LocksAreUsed'
  BY <1>6, CloseUse
<1>7. ASSUME NEW t \in Sessions, PassActivation(t)
      PROVE  LocksAreUsed'
  BY <1>7, <1>5 DEF IInv, TypeOK
<1>8. ASSUME NEW t \in Sessions, Statement(t)
      PROVE  LocksAreUsed'
  BY <1>8, <1>2, <1>3, <1>4, <1>6, <1>7
     DEF Statement, Commit, RefuseArchivedVersion, RefuseActivation
<1>9. ASSUME NEW t \in Sessions, NEW i \in Influencers,
             \/ CreateVersion(t, i) \/ Update(t, i) \/ RefuseUpdate(t, i)
             \/ \E status \in Status : ChangeStatus(t, i, status)
             \/ \E status \in Status : RefuseTransition(t, i, status)
      PROVE  LocksAreUsed'
  BY <1>9, <1>5, <1>6 DEF RefuseUpdate, RefuseTransition
<1>10. ASSUME NEW t \in Sessions, Rollback(t)
       PROVE  LocksAreUsed'
  BY <1>10, <1>6 DEF Rollback
<1> QED
  BY <1>1, <1>8, <1>9, <1>10 DEF Next

\* Every lock is in use by the request that took it, in every state: none is
\* left behind by a request that ended, and nobody waits while holding one. So
\* requests never wait in a circle, for any number of them.
THEOREM NoDeadlock == Spec => [](LocksAreUsed /\ NoCircularWait)
<1>1. Init => LocksAreUsed
  BY DEF Init, LocksAreUsed
<1>2. IInv /\ LocksAreUsed => NoCircularWait
  <2> SUFFICES ASSUME IInv, LocksAreUsed, NEW S \in SUBSET Sessions, S # {},
                      \A t \in S : WaitsFor(t) \cap S # {}
               PROVE  FALSE
    BY DEF NoCircularWait
  <2>1. PICK t \in S : TRUE
    OBVIOUS
  <2>2. PICK u \in S : u \in WaitsFor(t)
    BY <2>1
  <2>3. MustHold(u)
    BY <2>2, RegistryAssumption DEF WaitsFor, LocksAreUsed, IInv, TypeOK
  <2>4. WaitsFor(u) = {}
    BY <2>3 DEF WaitsFor, MustHold, Writing, At
  <2> QED
    BY <2>2, <2>4
<1> QED
  BY <1>1, <1>2, InductiveInvariant, NextPreservesUse, PTL DEF Spec
=============================================================================
