------------------------ MODULE PoliciesAudit_proofs -------------------------
(***************************************************************************)
(* Proofs of what a commit of DisclosurePolicies does: the action          *)
(* properties, on top of the invariant of DisclosurePolicies_proofs.       *)
(***************************************************************************)
EXTENDS DisclosurePolicies_proofs

-----------------------------------------------------------------------------
(* What a session is about to commit *)

\* Only a request for a default demotes others, and what is recorded is what
\* the session read and what it made of it.
Prepared(t) ==
  /\ pc[t] \in {"idle", "insert"} => clear[t] = {}
  /\ pc[t] = "list" => want[t].is_default
  /\ clear[t] # {} => want[t].is_default
  /\ pc[t] = "commit" => entries[t] = {EntryOf(t)}

AllPrepared == \A t \in Sessions : Prepared(t)

\* A session that does nothing stays prepared.
LEMMA OthersPrepared ==
  ASSUME AllPrepared, NEW t \in Sessions, Prepared(t)',
         \A u \in Sessions \ {t} :
           /\ pc'[u] = pc[u] /\ target'[u] = target[u] /\ seen'[u] = seen[u]
           /\ want'[u] = want[u] /\ clear'[u] = clear[u] /\ entries'[u] = entries[u]
  PROVE  AllPrepared'
BY DEF AllPrepared, Prepared, EntryOf

\* The end of a transaction prepares nothing.
LEMMA ClosePrepares ==
  ASSUME IInv, AllPrepared, NEW t \in Sessions, Close(t)
  PROVE  AllPrepared'
<1>1. Prepared(t)'
  BY DEF IInv, TypeOK, Prepared, Close, Goto
<1>2. \A u \in Sessions \ {t} :
        /\ pc'[u] = pc[u] /\ target'[u] = target[u] /\ seen'[u] = seen[u]
        /\ want'[u] = want[u] /\ clear'[u] = clear[u] /\ entries'[u] = entries[u]
  BY DEF IInv, TypeOK, Close, Goto
<1> QED
  BY <1>1, <1>2, OthersPrepared

\* Every step keeps the sessions prepared.
LEMMA NextPrepares == IInv /\ AllPrepared /\ [Next]_vars => AllPrepared'
<1> SUFFICES ASSUME IInv, AllPrepared, [Next]_vars PROVE AllPrepared'
  OBVIOUS
<1> USE DEF At, Goto
<1>1. ASSUME NEW t \in Sessions, NEW p \in Ids, UpdatePolicy(t, p) PROVE AllPrepared'
  <2>1. PICK r \in Row : /\ want' = [want EXCEPT ![t] = r]
                         /\ pc' = [pc EXCEPT ![t] = AfterAssignments(r)]
    BY <1>1 DEF UpdatePolicy, Patched
  <2>2. clear[t] = {} /\ clear' = clear
    BY <1>1 DEF AllPrepared, Prepared, UpdatePolicy
  <2>3. Prepared(t)'
    BY <2>1, <2>2 DEF IInv, TypeOK, Prepared, AfterAssignments
  <2>4. \A u \in Sessions \ {t} :
          /\ pc'[u] = pc[u] /\ target'[u] = target[u] /\ seen'[u] = seen[u]
          /\ want'[u] = want[u] /\ clear'[u] = clear[u] /\ entries'[u] = entries[u]
    BY <1>1, <2>1 DEF IInv, TypeOK, UpdatePolicy
  <2> QED
    BY <2>3, <2>4, OthersPrepared
<1>2. ASSUME NEW t \in Sessions, NEW p \in Ids, NEW r \in Row, CreatePolicy(t, p, r)
      PROVE  AllPrepared'
  <2>1. Prepared(t)'
    BY <1>2 DEF IInv, TypeOK, AllPrepared, Prepared, CreatePolicy
  <2>2. \A u \in Sessions \ {t} :
          /\ pc'[u] = pc[u] /\ target'[u] = target[u] /\ seen'[u] = seen[u]
          /\ want'[u] = want[u] /\ clear'[u] = clear[u] /\ entries'[u] = entries[u]
    BY <1>2 DEF IInv, TypeOK, CreatePolicy
  <2> QED
    BY <2>1, <2>2, OthersPrepared
<1>3. ASSUME NEW t \in Sessions, InsertPolicy(t) PROVE AllPrepared'
  <2>1. Prepared(t)'
    BY <1>3 DEF IInv, TypeOK, AllPrepared, Prepared, InsertPolicy, AfterAssignments
  <2>2. \A u \in Sessions \ {t} :
          /\ pc'[u] = pc[u] /\ target'[u] = target[u] /\ seen'[u] = seen[u]
          /\ want'[u] = want[u] /\ clear'[u] = clear[u] /\ entries'[u] = entries[u]
    BY <1>3 DEF IInv, TypeOK, InsertPolicy
  <2> QED
    BY <2>1, <2>2, OthersPrepared
<1>4. ASSUME NEW t \in Sessions, ClearDefault(t) PROVE AllPrepared'
  <2>1. Prepared(t)'
    BY <1>4 DEF IInv, TypeOK, AllPrepared, Prepared, ClearDefault
  <2>2. \A u \in Sessions \ {t} :
          /\ pc'[u] = pc[u] /\ target'[u] = target[u] /\ seen'[u] = seen[u]
          /\ want'[u] = want[u] /\ clear'[u] = clear[u] /\ entries'[u] = entries[u]
    BY <1>4 DEF IInv, TypeOK, ClearDefault
  <2> QED
    BY <2>1, <2>2, OthersPrepared
<1>5. ASSUME NEW t \in Sessions, WriteRow(t) PROVE AllPrepared'
  BY <1>5 DEF AllPrepared, Prepared, EntryOf, WriteRow
<1>6. ASSUME NEW t \in Sessions, Record(t) PROVE AllPrepared'
  <2>1. entries'[t] = {EntryOf(t)}
    BY <1>6 DEF IInv, TypeOK, Record
  <2>2. Prepared(t)'
    BY <1>6, <2>1 DEF IInv, TypeOK, AllPrepared, Prepared, Record, EntryOf
  <2>3. \A u \in Sessions \ {t} :
          /\ pc'[u] = pc[u] /\ target'[u] = target[u] /\ seen'[u] = seen[u]
          /\ want'[u] = want[u] /\ clear'[u] = clear[u] /\ entries'[u] = entries[u]
    BY <1>6 DEF IInv, TypeOK, Record
  <2> QED
    BY <2>2, <2>3, OthersPrepared
<1>7. ASSUME NEW t \in Sessions,
             \/ InsertRejected(t) \/ Commit(t) \/ Rollback(t)
             \/ \E code \in Codes : RefusePolicy(t, code)
      PROVE  AllPrepared'
  BY <1>7, ClosePrepares DEF InsertRejected, Commit, Rollback, RefusePolicy
<1>8. CASE UNCHANGED vars
  BY <1>8 DEF vars, AllPrepared, Prepared, EntryOf
<1> QED
  BY <1>1, <1>2, <1>3, <1>4, <1>5, <1>6, <1>7, <1>8 DEF Next, Statement

\* Sessions are prepared in every reachable state.
THEOREM SessionsArePrepared == Spec => [](IInv /\ AllPrepared)
<1>1. Init => AllPrepared
  BY DEF Init, AllPrepared, Prepared
<1> QED
  BY <1>1, InitEstablishes, NextPreserves, NextPrepares, PTL DEF Spec

-----------------------------------------------------------------------------
(* The action properties *)

\* Only a commit changes a row.
LEMMA OnlyCommitsChange ==
  ASSUME Next, ~UNCHANGED tables, emitted' # {} \/ ~UNCHANGED policies
  PROVE  \E t \in Sessions : Commit(t)
BY DEF Next, Statement, InsertPolicy, InsertRejected, ClearDefault, WriteRow, Record,
       Rollback, UpdatePolicy, CreatePolicy, RefusePolicy, NothingCommitted

\* A column the flush writes is one the session's code changed, and gets the
\* value the code gave it.
LEMMA FlushedColumn ==
  ASSUME NEW current \in Row, NEW old \in Row, NEW new \in Row,
         NEW c \in {"code", "is_default", "text"}
  PROVE  Flushed(current, old, new)[c] = IF new[c] # old[c] THEN new[c] ELSE current[c]
BY DEF Flushed, Row

\* The audit row of a commit names each change the request made to its policy.
THEOREM ChangesAreNamed == Spec => NamedChangesAreAudited
<1>1. IInv /\ AllPrepared /\ [Next]_vars =>
        [\A p \in Existing :
           /\ p \in DOMAIN policies'
           /\ \A c \in {"code", "is_default", "text"} :
                policies'[p][c] # policies[p][c] =>
                  \/ c = "is_default" /\ policies[p].is_default
                  \/ \E e \in emitted' : e.policy = p /\ e.before[c] # e.after[c]
                                         /\ e.after[c] = policies'[p][c]]_tables
  <2> SUFFICES ASSUME IInv, AllPrepared, Next, NEW p \in Existing
               PROVE  /\ p \in DOMAIN policies'
                      /\ \A c \in {"code", "is_default", "text"} :
                           policies'[p][c] # policies[p][c] =>
                             \/ c = "is_default" /\ policies[p].is_default
                             \/ \E e \in emitted' :
                                  e.policy = p /\ e.before[c] # e.after[c]
                                  /\ e.after[c] = policies'[p][c]
    BY DEF vars, tables
  <2>1. CASE UNCHANGED policies
    BY <2>1 DEF Existing
  <2>2. CASE ~UNCHANGED policies
    <3>1. PICK t \in Sessions : Commit(t)
      BY <2>2, OnlyCommitsChange DEF tables
    <3>2. p \in DOMAIN policies' /\ policies'[p] = Written(t, p)
      BY <3>1 DEF Commit
    <3>3. emitted' = {EntryOf(t)}
      BY <3>1 DEF AllPrepared, Prepared, Commit, At
    <3>4. policies[p] \in Row
      BY DEF IInv, TypeOK
    <3> SUFFICES ASSUME NEW c \in {"code", "is_default", "text"},
                        policies'[p][c] # policies[p][c]
                 PROVE  \/ c = "is_default" /\ policies[p].is_default
                        \/ \E e \in emitted' :
                             e.policy = p /\ e.before[c] # e.after[c]
                             /\ e.after[c] = policies'[p][c]
      BY <3>2
    <3>5. CASE p = target[t]
      <4>1. seen[t] \in Row /\ want[t] \in Row
        BY <3>1, <3>5 DEF Commit, At, IInv, TypeOK, Shapes, Shape, Creating
      <4>2. policies'[p] = Flushed(policies[p], seen[t], want[t])
        BY <3>2, <3>5 DEF Written
      <4>3. want[t][c] # seen[t][c] /\ policies'[p][c] = want[t][c]
        BY <3>4, <4>1, <4>2, FlushedColumn
      <4>4. /\ EntryOf(t).policy = p
            /\ EntryOf(t).before = seen[t] /\ EntryOf(t).after = want[t]
        BY <3>5 DEF EntryOf
      <4> QED
        BY <3>3, <4>3, <4>4
    <3>6. CASE p # target[t]
      <4>1. policies'[p] = [policies[p] EXCEPT !.is_default = FALSE]
        BY <3>2, <3>6 DEF Written
      <4>2. c = "is_default"
        BY <3>4, <4>1 DEF Row
      <4>3. policies'[p].is_default = FALSE /\ policies[p].is_default \in BOOLEAN
        BY <3>4, <4>1 DEF Row
      <4> QED
        BY <4>2, <4>3
    <3> QED
      BY <3>5, <3>6
  <2> QED
    BY <2>1, <2>2
<1> QED
  BY <1>1, SessionsArePrepared, PTL DEF Spec, NamedChangesAreAudited

\* What the commit of an undisturbed request makes of a row.
LEMMA UndisturbedRow ==
  ASSUME IInv, AllPrepared, NEW t \in Sessions, Commit(t), ReadsAreCurrent(t),
         NEW p \in Existing \cup {target[t]}
  PROVE  policies'[p].is_default <=>
           IF p = target[t] THEN want[t].is_default
           ELSE policies[p].is_default /\ ~want[t].is_default
<1>1. policies'[p] = Written(t, p)
  BY DEF Commit
<1>2. want[t] \in Row
  BY DEF Commit, At, IInv, Shapes, Shape
<1>3. CASE p = target[t] /\ p \in Existing
  <2>1. seen[t] = policies[p] /\ policies[p] \in Row
    BY <1>3 DEF ReadsAreCurrent, IInv, TypeOK
  <2>2. policies'[p] = Flushed(policies[p], policies[p], want[t])
    BY <1>1, <1>3, <2>1 DEF Written
  <2>3. policies'[p].is_default = want[t].is_default
    BY <1>2, <2>1, <2>2 DEF Flushed, Row
  <2> QED
    BY <1>3, <2>3
<1>4. CASE p = target[t] /\ p \notin Existing
  BY <1>1, <1>4 DEF Written
<1>5. CASE p # target[t]
  <2>1. p \in Existing /\ policies[p] \in Row
    BY <1>5 DEF IInv, TypeOK
  <2>2. CASE want[t].is_default
    <3>1. clear[t] = Defaults \ {target[t]}
      BY <2>2 DEF ReadsAreCurrent, Others
    <3>2. CASE policies[p].is_default
      <4>1. p \in clear[t]
        BY <1>5, <2>1, <3>1, <3>2 DEF Defaults
      <4>2. policies'[p].is_default = FALSE
        BY <1>1, <1>5, <2>1, <4>1 DEF Written, Row
      <4> QED
        BY <1>5, <2>2, <4>2
    <3>3. CASE ~policies[p].is_default
      <4>1. policies'[p] = policies[p]
        BY <1>1, <1>5, <3>1, <3>3 DEF Written, Defaults
      <4> QED
        BY <1>5, <3>3, <4>1
    <3> QED
      BY <3>2, <3>3
  <2>3. CASE ~want[t].is_default
    <3>1. clear[t] = {}
      BY <2>3 DEF AllPrepared, Prepared
    <3>2. policies'[p] = policies[p]
      BY <1>1, <1>5, <3>1 DEF Written
    <3> QED
      BY <1>5, <2>3, <3>2
  <2> QED
    BY <2>2, <2>3
<1> QED
  BY <1>3, <1>4, <1>5

\* A request that nobody disturbed hands the default over, or leaves it.
THEOREM DefaultIsHandedOver == Spec => UndisturbedDefaultIsHandedOver
<1>1. IInv /\ AllPrepared /\ [Next]_vars =>
        [\A t \in Sessions :
           At(t, "commit") /\ pc'[t] = "idle" /\ ReadsAreCurrent(t) =>
             {p \in DOMAIN policies' : policies'[p].is_default}
               = IF want[t].is_default THEN {target[t]}
                                       ELSE Defaults \ {target[t]}]_policies
  <2> SUFFICES ASSUME IInv, AllPrepared, Next, ~UNCHANGED policies, NEW t \in Sessions,
                      At(t, "commit"), pc'[t] = "idle", ReadsAreCurrent(t)
               PROVE  {p \in DOMAIN policies' : policies'[p].is_default}
                        = IF want[t].is_default THEN {target[t]}
                                                ELSE Defaults \ {target[t]}
    BY DEF vars
  <2>1. PICK u \in Sessions : Commit(u)
    BY OnlyCommitsChange DEF tables
  <2>2. u = t
    BY <2>1 DEF Commit, Close, Goto, At, IInv, TypeOK
  <2>3. DOMAIN policies' = Existing \cup {target[t]}
    BY <2>1, <2>2 DEF Commit
  <2>4. \A p \in Existing \cup {target[t]} :
          policies'[p].is_default <=>
            IF p = target[t] THEN want[t].is_default
            ELSE policies[p].is_default /\ ~want[t].is_default
    BY <2>1, <2>2, UndisturbedRow
  <2>5. CASE want[t].is_default
    BY <2>3, <2>4, <2>5
  <2>6. CASE ~want[t].is_default
    BY <2>3, <2>4, <2>6 DEF Defaults
  <2> QED
    BY <2>5, <2>6
<1> QED
  BY <1>1, SessionsArePrepared, PTL DEF Spec, UndisturbedDefaultIsHandedOver
-----------------------------------------------------------------------------
(* When there is one default *)

\* What a lock on the organization's policies, a partial unique index or
\* serializable isolation would give: no commit lands on policies that are not
\* the ones its session decided on.
NothingIsStale ==
  [][\A t \in Sessions : Commit(t) => ReadsAreCurrent(t)]_vars

\* A step of such a history makes no second default.
LEMMA OneDefaultStays ==
  ASSUME IInv, AllPrepared, AtMostOneDefault, [Next]_vars,
         [\A t \in Sessions : Commit(t) => ReadsAreCurrent(t)]_vars
  PROVE  AtMostOneDefault'
<1>1. CASE policies' = policies
  BY <1>1 DEF AtMostOneDefault, Defaults, Existing
<1>2. CASE policies' # policies
  <2>1. Next /\ \A t \in Sessions : Commit(t) => ReadsAreCurrent(t)
    BY <1>2 DEF vars
  <2>2. PICK t \in Sessions : Commit(t)
    BY <1>2, <2>1, OnlyCommitsChange DEF tables
  <2>3. Existing' = Existing \cup {target[t]}
    BY <2>2, CommitRows
  <2>4. \A p \in Existing' :
          policies'[p].is_default <=>
            IF p = target[t] THEN want[t].is_default
            ELSE policies[p].is_default /\ ~want[t].is_default
    BY <2>1, <2>2, <2>3, UndisturbedRow
  <2>5. CASE want[t].is_default
    BY <2>4, <2>5 DEF AtMostOneDefault, Defaults
  <2>6. CASE ~want[t].is_default
    <3>1. Defaults' \subseteq Defaults
      BY <2>3, <2>4, <2>6 DEF Defaults
    <3> QED
      BY <3>1 DEF AtMostOneDefault
  <2> QED
    BY <2>5, <2>6
<1> QED
  BY <1>1, <1>2

\* AtMostOneDefault fails by stale reads alone: where no commit lands on one,
\* clear_default keeps the default unique, for any number of concurrent
\* requests and whatever their flushes write first.
THEOREM FreshReadsKeepOneDefault == Spec /\ NothingIsStale => []AtMostOneDefault
<1>1. Init => AtMostOneDefault
  BY DEF Init, AtMostOneDefault
<1>2. IInv /\ AllPrepared /\ AtMostOneDefault /\ [Next]_vars
        /\ [\A t \in Sessions : Commit(t) => ReadsAreCurrent(t)]_vars
        => AtMostOneDefault'
  BY OneDefaultStays
<1> QED
  BY <1>1, <1>2, SessionsArePrepared, PTL DEF Spec, NothingIsStale

\* One request at a time, as a single worker without concurrency would run
\* them, or the tests do.
OneAtATime ==
  \A t, u \in Sessions : ~At(t, "idle") /\ ~At(u, "idle") => t = u

\* What a session has read so far stays so while nobody else runs.
CurrentSoFar(t) ==
  /\ pc[t] # "idle" /\ target[t] \in Existing => seen[t] = policies[target[t]]
  /\ pc[t] \in {"write", "commit"} /\ want[t].is_default => clear[t] = Others(t)

CurrentReads == \A t \in Sessions : CurrentSoFar(t)

\* A step that commits nothing and leaves a session alone leaves its reads current.
LEMMA OthersCurrent ==
  ASSUME CurrentReads, NEW t \in Sessions, UNCHANGED policies, CurrentSoFar(t)',
         \A u \in Sessions \ {t} :
           /\ pc'[u] = pc[u] /\ target'[u] = target[u] /\ seen'[u] = seen[u]
           /\ want'[u] = want[u] /\ clear'[u] = clear[u]
  PROVE  CurrentReads'
BY DEF CurrentReads, CurrentSoFar, Others, Defaults, Existing

LEMMA NextPreservesReads ==
  IInv /\ CurrentReads /\ OneAtATime /\ [Next]_vars => CurrentReads'
<1> SUFFICES ASSUME IInv, CurrentReads, OneAtATime, [Next]_vars PROVE CurrentReads'
  OBVIOUS
<1> USE DEF At, Goto, NothingCommitted
<1>1. CASE UNCHANGED vars
  BY <1>1 DEF CurrentReads, CurrentSoFar, Others, Defaults, Existing, vars
<1>2. ASSUME NEW t \in Sessions, NEW p \in Ids, UpdatePolicy(t, p) PROVE CurrentReads'
  <2>1. PICK r \in Row : /\ want' = [want EXCEPT ![t] = r]
                         /\ pc' = [pc EXCEPT ![t] = AfterAssignments(r)]
    BY <1>2 DEF UpdatePolicy, Patched
  <2>2. target'[t] = p /\ seen'[t] = policies[p] /\ policies' = policies
    BY <1>2 DEF UpdatePolicy, IInv, TypeOK
  <2>3. pc'[t] = "write" => ~want'[t].is_default
    BY <2>1 DEF AfterAssignments, IInv, TypeOK
  <2>4. pc'[t] # "commit"
    BY <2>1 DEF AfterAssignments, IInv, TypeOK
  <2>5. CurrentSoFar(t)'
    BY <2>2, <2>3, <2>4 DEF CurrentSoFar
  <2> QED
    BY <1>2, <2>1, <2>5, OthersCurrent DEF UpdatePolicy, IInv, TypeOK
<1>3. ASSUME NEW t \in Sessions, NEW p \in Ids, NEW r \in Row, CreatePolicy(t, p, r)
      PROVE  CurrentReads'
  <2>1. CurrentSoFar(t)'
    BY <1>3 DEF CurrentSoFar, CreatePolicy, Fresh, Existing, IInv, TypeOK
  <2> QED
    BY <1>3, <2>1, OthersCurrent DEF CreatePolicy, IInv, TypeOK
<1>4. ASSUME NEW t \in Sessions, InsertPolicy(t) PROVE CurrentReads'
  <2>1. pc[t] # "idle" /\ policies' = policies /\ target' = target /\ seen' = seen
    BY <1>4 DEF InsertPolicy
  <2>2. pc'[t] \in {"list", "write"} /\ (pc'[t] = "write" => ~want'[t].is_default)
    BY <1>4 DEF InsertPolicy, AfterAssignments, IInv, TypeOK
  <2>3. CurrentSoFar(t)'
    BY <2>1, <2>2 DEF CurrentReads, CurrentSoFar, Existing
  <2> QED
    BY <1>4, <2>3, OthersCurrent DEF InsertPolicy, IInv, TypeOK
<1>5. ASSUME NEW t \in Sessions, ClearDefault(t) PROVE CurrentReads'
  <2>1. CurrentSoFar(t)'
    BY <1>5 DEF CurrentReads, CurrentSoFar, ClearDefault, Others, Defaults, Existing,
                IInv, TypeOK
  <2> QED
    BY <1>5, <2>1, OthersCurrent DEF ClearDefault, IInv, TypeOK
<1>6. ASSUME NEW t \in Sessions, WriteRow(t) \/ Record(t) PROVE CurrentReads'
  <2>1. CurrentSoFar(t)'
    BY <1>6 DEF CurrentReads, CurrentSoFar, WriteRow, Record, Others, Defaults, Existing,
                IInv, TypeOK
  <2> QED
    BY <1>6, <2>1, OthersCurrent DEF WriteRow, Record, IInv, TypeOK
<1>7. ASSUME NEW t \in Sessions, Close(t), UNCHANGED policies PROVE CurrentReads'
  <2>1. CurrentSoFar(t)'
    BY <1>7 DEF CurrentSoFar, Close, IInv, TypeOK
  <2> QED
    BY <1>7, <2>1, OthersCurrent DEF Close, IInv, TypeOK
<1>8. ASSUME NEW t \in Sessions, Commit(t) PROVE CurrentReads'
  <2>1. \A u \in Sessions : pc'[u] = "idle"
    BY <1>8 DEF Commit, Close, OneAtATime, IInv, TypeOK
  <2> QED
    BY <2>1 DEF CurrentReads, CurrentSoFar
<1> QED
  BY <1>1, <1>2, <1>3, <1>4, <1>5, <1>6, <1>7, <1>8
     DEF Next, Statement, InsertRejected, Rollback, RefusePolicy

\* Served one at a time, requests keep the default unique.
THEOREM SerialRequestsKeepOneDefault == Spec /\ []OneAtATime => []AtMostOneDefault
<1>1. Init => CurrentReads
  BY DEF Init, CurrentReads, CurrentSoFar
<1>2. CurrentReads => [\A t \in Sessions : Commit(t) => ReadsAreCurrent(t)]_vars
  BY DEF CurrentReads, CurrentSoFar, ReadsAreCurrent, Commit, At
<1>3. Spec /\ []OneAtATime => NothingIsStale
  BY <1>1, <1>2, InductiveInvariant, NextPreservesReads, PTL DEF Spec, NothingIsStale
<1> QED
  BY <1>3, FreshReadsKeepOneDefault, PTL

-----------------------------------------------------------------------------
(* The codes are a book *)

\* A step that leaves the table alone leaves the book alone.
LEMMA PoliciesStay ==
  ASSUME UNCHANGED policies
  PROVE  UNCHANGED Book!bookVars
BY DEF Book!bookVars, Existing

\* A commit enters the policy its session created, under the code it claimed,
\* or changes no code.
LEMMA CommitEnters ==
  ASSUME IInv, NEW t \in Sessions, Commit(t)
  PROVE  [Book!Next]_(Book!bookVars)
<1> DEFINE book == [p \in Existing |-> policies[p].code]
<1>1. target[t] \in Ids /\ Existing' = Existing \cup {target[t]}
  BY CommitRows DEF IInv, TypeOK
<1>2. \A p \in Existing : policies'[p].code = policies[p].code
  BY CommitRows
<1>3. book' = [p \in Existing' |-> policies'[p].code]
  OBVIOUS
<1>4. CASE target[t] \in Existing
  <2>1. Existing' = Existing
    BY <1>1, <1>4
  <2>2. book' = book
    BY <1>2, <1>3, <2>1
  <2> QED
    BY <2>2 DEF Book!bookVars
<1>5. CASE target[t] \notin Existing
  <2>1. PICK n \in Ids, c \in Codes \ TakenCodes :
          n = target[t] /\ c = want[t].code /\ policies'[n].code = c
    BY <1>1, <1>5, CommitRows
  <2>2. book' = [m \in Existing \cup {n} |-> IF m = n THEN c ELSE book[m]]
    BY <1>1, <1>2, <1>3, <2>1
  <2>3. Book!Entered = Existing /\ Book!Used = TakenCodes
    BY DEF Book!Entered, Book!Used, TakenCodes
  <2>4. Book!Enter(n, c)
    BY <1>5, <2>1, <2>2, <2>3 DEF Book!Enter
  <2> QED
    BY <2>4 DEF Book!Next
<1> QED
  BY <1>4, <1>5

\* The codes of the policies are a book, for any number of racing requests: no
\* update, demotion or lost race changes a code or frees one for another use.
THEOREM PoliciesImplementCodebook == Spec => ImplementsCodebook
<1>1. Init => Book!Init
  BY DEF Init, Book!Init, Book!Entered, Existing, Row
<1>2. IInv /\ [Next]_vars => [Book!Next]_(Book!bookVars)
  <2> SUFFICES ASSUME IInv, [Next]_vars PROVE [Book!Next]_(Book!bookVars)
    OBVIOUS
  <2>1. CASE UNCHANGED policies
    BY <2>1, PoliciesStay
  <2>2. CASE policies' # policies
    BY <2>2, OnlyCommitsChange, CommitEnters DEF vars, tables
  <2> QED
    BY <2>1, <2>2
<1> QED
  BY <1>1, <1>2, InductiveInvariant, PTL DEF Spec, ImplementsCodebook, Book!Spec
=============================================================================
