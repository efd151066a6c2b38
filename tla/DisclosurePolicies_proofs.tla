---------------------- MODULE DisclosurePolicies_proofs ----------------------
(***************************************************************************)
(* Proofs about DisclosurePolicies, for any sets of policies, codes and    *)
(* sessions.                                                               *)
(***************************************************************************)
EXTENDS DisclosurePolicies, WellFoundedInduction, TLAPS

-----------------------------------------------------------------------------
(* The inductive invariant *)

\* The session is inside create_policy.
Creating(t) == pc[t] # "idle" /\ seen[t] = NoRow

\* What a session knows: a creation works on a primary key that no row has, an
\* update on a row that exists and whose code it keeps.
Shape(t) ==
  /\ pc[t] = "idle" => seen[t] = NoRow
  /\ pc[t] # "idle" => want[t] \in Row
  /\ pc[t] = "insert" => seen[t] = NoRow
  /\ Creating(t) => target[t] \notin Existing
  /\ pc[t] # "idle" /\ seen[t] # NoRow =>
       target[t] \in Existing /\ want[t].code = seen[t].code

Shapes == \A t \in Sessions : Shape(t)

\* A claimed key of the unique index belongs to the creation that inserted it,
\* and to no committed row.
Claims ==
  /\ \A c \in Codes : claim[c] # Nobody =>
       /\ Creating(claim[c]) /\ pc[claim[c]] # "insert"
       /\ want[claim[c]].code = c
       /\ c \notin TakenCodes
  /\ \A t \in Sessions : Creating(t) /\ pc[t] # "insert" =>
       claim[want[t].code] = t

\* Two creations have different primary keys.
FreshTargets ==
  \A t, u \in Sessions : t # u /\ Creating(t) /\ Creating(u) =>
    target[t] # target[u]

\* Only a flush takes row locks, and it takes them in ascending order.
LockOrder ==
  \A p \in Ids : lock[p] # Nobody =>
    /\ pc[lock[p]] \in {"write", "commit"}
    /\ \A q \in todo[lock[p]] : p < q

IInv == TypeOK /\ UniqueCodes /\ Shapes /\ Claims /\ FreshTargets /\ LockOrder

-----------------------------------------------------------------------------
(* Lemmas about the operators *)

\* A bounded set of numbers has a greatest element.
LEMMA GreatestOfBounded ==
  ASSUME NEW m \in Nat, NEW S \in SUBSET (0..m), S # {}
  PROVE  \E p \in S : \A q \in S : q <= p
<1> DEFINE T == {k \in Nat : m - k \in S}
<1>1. T \subseteq Nat /\ T # {}
  <2>1. PICK p \in S : TRUE
    OBVIOUS
  <2>2. m - p \in Nat /\ m - (m - p) = p
    BY <2>1
  <2> QED
    BY <2>1, <2>2
<1>2. PICK k \in T : \A j \in T : ~(<<j, k>> \in OpToRel(<, Nat))
  <2> HIDE DEF T
  <2> QED
    BY <1>1, NatLessThanWellFounded, WFMin
<1>3. \A j \in T : ~(j < k)
  BY <1>1, <1>2 DEF OpToRel
<1>4. m - k \in S
  OBVIOUS
<1>5. ASSUME NEW q \in S PROVE q <= m - k
  <2>1. m - q \in Nat /\ m - (m - q) = q
    OBVIOUS
  <2>2. m - q \in T
    BY <2>1
  <2> QED
    BY <1>3, <2>1, <2>2
<1> QED
  BY <1>4, <1>5

\* A flush keeps a row a row.
LEMMA FlushedIsRow ==
  ASSUME NEW r \in Row, NEW old \in Row, NEW new \in Row
  PROVE  /\ Flushed(r, old, new) \in Row
         /\ new.code = old.code => Flushed(r, old, new).code = r.code
BY DEF Flushed, Row

\* Demoting a row keeps its code.
LEMMA DemotedIsRow ==
  ASSUME NEW r \in Row
  PROVE  /\ [r EXCEPT !.is_default = FALSE] \in Row
         /\ [r EXCEPT !.is_default = FALSE].code = r.code
BY DEF Row

-----------------------------------------------------------------------------
(* The invariant is inductive *)

\* Consistent tables and idle sessions satisfy the invariant.
LEMMA InitEstablishes == Init => IInv
<1> SUFFICES ASSUME Init PROVE IInv
  OBVIOUS
<1>1. TypeOK
  BY DEF Init, TypeOK, Existing
<1>2. UniqueCodes
  BY DEF Init, UniqueCodes
<1>3. Shapes /\ Claims /\ FreshTargets /\ LockOrder
  BY DEF Init, Shapes, Shape, Claims, FreshTargets, LockOrder, Creating
<1> QED
  BY <1>1, <1>2, <1>3 DEF IInv

\* What the step of a session that commits nothing owes the invariant: the
\* other sessions, and their claims and locks, are as they were.
LEMMA QuietStep ==
  ASSUME IInv, NEW t \in Sessions, NothingCommitted, TypeOK', Shape(t)',
         \A u \in Sessions \ {t} :
            /\ pc'[u] = pc[u] /\ target'[u] = target[u] /\ seen'[u] = seen[u]
            /\ want'[u] = want[u] /\ todo'[u] = todo[u],
         \A c \in Codes : claim'[c] = claim[c] \/ claim'[c] = Nobody \/ claim'[c] = t,
         \A c \in Codes : claim[c] \notin {Nobody, t} => claim'[c] = claim[c],
         \A c \in Codes : claim'[c] = t =>
            /\ Creating(t)' /\ pc'[t] # "insert" /\ want'[t].code = c
            /\ c \notin TakenCodes,
         Creating(t)' /\ pc'[t] # "insert" => claim'[want'[t].code] = t,
         Creating(t)' => \A u \in Sessions \ {t} : Creating(u) => target[u] # target'[t],
         \A p \in Ids : lock'[p] = lock[p] \/ lock'[p] = Nobody \/ lock'[p] = t,
         \A p \in Ids : lock'[p] = t =>
            pc'[t] \in {"write", "commit"} /\ \A q \in todo'[t] : p < q
  PROVE  IInv'
<1>1. UniqueCodes'
  BY DEF IInv, UniqueCodes, NothingCommitted, Existing
<1>2. Existing' = Existing /\ TakenCodes' = TakenCodes
  BY DEF NothingCommitted, Existing, TakenCodes
<1>3. Shapes'
  <2> SUFFICES ASSUME NEW u \in Sessions, u # t
               PROVE  Shape(u)'
    BY DEF Shapes
  <2>1. Shape(u)
    BY DEF IInv, Shapes
  <2> QED
    BY <1>2, <2>1 DEF Shape, Creating
<1>4. Claims'
  <2>1. ASSUME NEW c \in Codes, claim'[c] # Nobody
        PROVE  /\ Creating(claim[c])' /\ pc'[claim'[c]] # "insert"
               /\ want'[claim'[c]].code = c
               /\ c \notin TakenCodes'
    <3>1. CASE claim'[c] = t
      BY <1>2, <2>1, <3>1 DEF Creating
    <3>2. CASE claim'[c] # t
      BY <1>2, <2>1, <3>2 DEF IInv, Claims, Creating, TypeOK
    <3> QED
      BY <3>1, <3>2
  <2>2. ASSUME NEW u \in Sessions, Creating(u)', pc'[u] # "insert"
        PROVE  claim'[want'[u].code] = u
    <3>1. CASE u = t
      BY <2>2, <3>1 DEF Creating
    <3>2. CASE u # t
      <4>1. claim[want[u].code] = u /\ want[u].code \in Codes
        BY <2>2, <3>2 DEF IInv, Claims, Creating, Shapes, Shape, Row
      <4> QED
        BY <3>2, <4>1, PoliciesAssumption
    <3> QED
      BY <3>1, <3>2
  <2> QED
    BY <2>1, <2>2 DEF Claims
<1>5. FreshTargets'
  BY DEF IInv, FreshTargets, Creating
<1>6. LockOrder'
  <2> SUFFICES ASSUME NEW p \in Ids, lock'[p] # Nobody
               PROVE  /\ pc'[lock'[p]] \in {"write", "commit"}
                      /\ \A q \in todo'[lock'[p]] : p < q
    BY DEF LockOrder
  <2>1. CASE lock'[p] = t
    BY <2>1
  <2>2. CASE lock'[p] # t
    <3>1. lock'[p] = lock[p] /\ lock[p] \in Sessions \ {t}
      BY <2>2 DEF IInv, TypeOK
    <3> QED
      BY <3>1 DEF IInv, LockOrder
  <2> QED
    BY <2>1, <2>2
<1> QED
  BY <1>1, <1>3, <1>4, <1>5, <1>6 DEF IInv

-----------------------------------------------------------------------------
(* create_policy *)

\* The INSERT claims its code.
LEMMA InsertPolicyStep ==
  ASSUME IInv, NEW t \in Sessions, InsertPolicy(t)
  PROVE  IInv'
<1> USE DEF At, Goto, NothingCommitted
<1>1. TypeOK'
  BY PoliciesAssumption DEF IInv, TypeOK, InsertPolicy, IndexAdmits, AfterAssignments, Existing
<1>2. Shape(t)'
  BY PoliciesAssumption DEF IInv, TypeOK, Shapes, Shape, Creating, InsertPolicy, IndexAdmits, AfterAssignments, Existing, Row
<1>3. \A c \in Codes : claim'[c] = t =>
        /\ Creating(t)' /\ pc'[t] # "insert" /\ want'[t].code = c
        /\ c \notin TakenCodes
  BY PoliciesAssumption DEF IInv, TypeOK, Shapes, Shape, Claims, Creating, InsertPolicy, IndexAdmits, AfterAssignments
<1>4. Creating(t)' /\ pc'[t] # "insert" => claim'[want'[t].code] = t
  BY PoliciesAssumption DEF IInv, TypeOK, Shapes, Shape, Claims, Creating, InsertPolicy, IndexAdmits, AfterAssignments, Row
<1>5. Creating(t)' => \A u \in Sessions \ {t} : Creating(u) => target[u] # target'[t]
  BY PoliciesAssumption DEF IInv, TypeOK, Shapes, Shape, FreshTargets, Creating, InsertPolicy, IndexAdmits, AfterAssignments
<1>6. \A p \in Ids : lock'[p] = t =>
        pc'[t] \in {"write", "commit"} /\ \A q \in todo'[t] : p < q
  BY PoliciesAssumption DEF IInv, TypeOK, LockOrder, InsertPolicy, IndexAdmits, AfterAssignments
<1> QED
  BY <1>1, <1>2, <1>3, <1>4, <1>5, <1>6, QuietStep DEF IInv, TypeOK, InsertPolicy, IndexAdmits, AfterAssignments

-----------------------------------------------------------------------------
(* clear_default, the flush, the audit row *)

\* clear_default adds rows to write, and holds no lock yet.
LEMMA ClearDefaultStep ==
  ASSUME IInv, NEW t \in Sessions, ClearDefault(t)
  PROVE  IInv'
<1> USE DEF At, Goto, NothingCommitted
<1>1. TypeOK'
  BY PoliciesAssumption DEF IInv, TypeOK, ClearDefault, Others, Defaults, Existing
<1>2. Shape(t)'
  BY PoliciesAssumption DEF IInv, TypeOK, Shapes, Shape, Creating, ClearDefault, Others, Defaults, Existing, Row
<1>3. \A c \in Codes : claim'[c] = t =>
        /\ Creating(t)' /\ pc'[t] # "insert" /\ want'[t].code = c
        /\ c \notin TakenCodes
  BY PoliciesAssumption DEF IInv, TypeOK, Shapes, Shape, Claims, Creating, ClearDefault, Others, Defaults
<1>4. Creating(t)' /\ pc'[t] # "insert" => claim'[want'[t].code] = t
  BY PoliciesAssumption DEF IInv, TypeOK, Shapes, Shape, Claims, Creating, ClearDefault, Others, Defaults, Row
<1>5. Creating(t)' => \A u \in Sessions \ {t} : Creating(u) => target[u] # target'[t]
  BY PoliciesAssumption DEF IInv, TypeOK, Shapes, Shape, FreshTargets, Creating, ClearDefault, Others, Defaults
<1>6. \A p \in Ids : lock'[p] = t =>
        pc'[t] \in {"write", "commit"} /\ \A q \in todo'[t] : p < q
  BY PoliciesAssumption DEF IInv, TypeOK, LockOrder, ClearDefault, Others, Defaults
<1> QED
  BY <1>1, <1>2, <1>3, <1>4, <1>5, <1>6, QuietStep DEF IInv, TypeOK, ClearDefault, Others, Defaults

\* The flush takes the lowest of the rows it still has to write.
LEMMA WriteRowStep ==
  ASSUME IInv, NEW t \in Sessions, WriteRow(t)
  PROVE  IInv'
<1> USE DEF At, Goto, NothingCommitted
<1>1. PICK p \in NextRow(Pending(t)) :
        /\ pc[t] = "write" /\ lock[p] = Nobody
        /\ lock' = [lock EXCEPT ![p] = t]
        /\ todo' = [todo EXCEPT ![t] = todo[t] \ {p}]
        /\ UNCHANGED <<policies, claim, pc, target, seen, want, clear, entries>>
        /\ emitted' = {}
  BY DEF WriteRow
<1>2. /\ p \in todo[t] /\ \A q \in todo[t] : p <= q
      /\ p \in Ids /\ todo[t] \subseteq Ids /\ Ids \subseteq Nat
  BY PoliciesAssumption DEF NextRow, Pending, IInv, TypeOK
<1>3. TypeOK'
  BY <1>1, <1>2 DEF IInv, TypeOK, Existing
<1>4. Shape(t)'
  BY <1>1 DEF IInv, Shapes, Shape, Creating, Existing
<1>5. \A c \in Codes : claim'[c] = t =>
        /\ Creating(t)' /\ pc'[t] # "insert" /\ want'[t].code = c
        /\ c \notin TakenCodes
  BY <1>1, PoliciesAssumption DEF IInv, Claims, Creating
<1>6. Creating(t)' /\ pc'[t] # "insert" => claim'[want'[t].code] = t
  BY <1>1 DEF IInv, Claims, Creating
<1>7. Creating(t)' => \A u \in Sessions \ {t} : Creating(u) => target[u] # target'[t]
  BY <1>1 DEF IInv, FreshTargets, Creating
<1>8. \A o \in Ids : lock'[o] = t =>
        pc'[t] \in {"write", "commit"} /\ \A q \in todo'[t] : o < q
  BY <1>1, <1>2, PoliciesAssumption DEF IInv, TypeOK, LockOrder
<1>9. /\ \A o \in Ids : lock'[o] = lock[o] \/ lock'[o] = Nobody \/ lock'[o] = t
      /\ \A u \in Sessions \ {t} : todo'[u] = todo[u]
  BY <1>1, <1>2 DEF IInv, TypeOK
<1> QED
  BY <1>1, <1>3, <1>4, <1>5, <1>6, <1>7, <1>8, <1>9, QuietStep DEF IInv, TypeOK

\* The audit row is about the session's own policy.
LEMMA RecordStep ==
  ASSUME IInv, NEW t \in Sessions, Record(t)
  PROVE  IInv'
<1> USE DEF At, Goto, NothingCommitted
<1>1. TypeOK'
  <2>1. EntryOf(t) \in Entry
    BY DEF IInv, TypeOK, Shapes, Shape, Record, EntryOf, Entry
  <2> QED
    BY <2>1 DEF IInv, TypeOK, Record, Existing
<1>2. Shape(t)'
  BY PoliciesAssumption DEF IInv, TypeOK, Shapes, Shape, Creating, Record, EntryOf, Entry, Existing, Row
<1>3. \A c \in Codes : claim'[c] = t =>
        /\ Creating(t)' /\ pc'[t] # "insert" /\ want'[t].code = c
        /\ c \notin TakenCodes
  BY PoliciesAssumption DEF IInv, TypeOK, Shapes, Shape, Claims, Creating, Record, EntryOf, Entry
<1>4. Creating(t)' /\ pc'[t] # "insert" => claim'[want'[t].code] = t
  BY PoliciesAssumption DEF IInv, TypeOK, Shapes, Shape, Claims, Creating, Record, EntryOf, Entry, Row
<1>5. Creating(t)' => \A u \in Sessions \ {t} : Creating(u) => target[u] # target'[t]
  BY PoliciesAssumption DEF IInv, TypeOK, Shapes, Shape, FreshTargets, Creating, Record, EntryOf, Entry
<1>6. \A p \in Ids : lock'[p] = t =>
        pc'[t] \in {"write", "commit"} /\ \A q \in todo'[t] : p < q
  BY PoliciesAssumption DEF IInv, TypeOK, LockOrder, Record, EntryOf, Entry
<1> QED
  BY <1>1, <1>2, <1>3, <1>4, <1>5, <1>6, QuietStep DEF IInv, TypeOK, Record, EntryOf, Entry

\* A session that closes without a commit gives up its locks and its claim.
LEMMA CloseStep ==
  ASSUME IInv, NEW t \in Sessions, Close(t), NothingCommitted
  PROVE  IInv'
<1> USE DEF At, Goto, NothingCommitted
<1>1. TypeOK'
  BY PoliciesAssumption DEF IInv, TypeOK, Close, Released, Existing
<1>2. Shape(t)'
  BY PoliciesAssumption DEF IInv, TypeOK, Shapes, Shape, Creating, Close, Released, Existing, Row
<1>3. \A c \in Codes : claim'[c] = t =>
        /\ Creating(t)' /\ pc'[t] # "insert" /\ want'[t].code = c
        /\ c \notin TakenCodes
  BY PoliciesAssumption DEF IInv, TypeOK, Shapes, Shape, Claims, Creating, Close, Released
<1>4. Creating(t)' /\ pc'[t] # "insert" => claim'[want'[t].code] = t
  BY PoliciesAssumption DEF IInv, TypeOK, Shapes, Shape, Claims, Creating, Close, Released, Row
<1>5. Creating(t)' => \A u \in Sessions \ {t} : Creating(u) => target[u] # target'[t]
  BY PoliciesAssumption DEF IInv, TypeOK, Shapes, Shape, FreshTargets, Creating, Close, Released
<1>6. \A p \in Ids : lock'[p] = t =>
        pc'[t] \in {"write", "commit"} /\ \A q \in todo'[t] : p < q
  BY PoliciesAssumption DEF IInv, TypeOK, LockOrder, Close, Released
<1> QED
  BY <1>1, <1>2, <1>3, <1>4, <1>5, <1>6, QuietStep DEF IInv, TypeOK, Close, Released

\* update_policy works on an existing row and keeps its code.
LEMMA UpdatePolicyStep ==
  ASSUME IInv, NEW t \in Sessions, NEW i \in Ids, UpdatePolicy(t, i)
  PROVE  IInv'
<1> USE DEF At, Goto, NothingCommitted
<1>1. TypeOK'
  BY PoliciesAssumption DEF IInv, TypeOK, UpdatePolicy, Patched, OwnUpdate, AfterAssignments, Existing
<1>2. Shape(t)'
  BY PoliciesAssumption DEF IInv, TypeOK, Shapes, Shape, Creating, UpdatePolicy, Patched, OwnUpdate, AfterAssignments, Existing, Row
<1>3. \A c \in Codes : claim'[c] = t =>
        /\ Creating(t)' /\ pc'[t] # "insert" /\ want'[t].code = c
        /\ c \notin TakenCodes
  BY PoliciesAssumption DEF IInv, TypeOK, Shapes, Shape, Claims, Creating, UpdatePolicy, Patched, OwnUpdate, AfterAssignments
<1>4. Creating(t)' /\ pc'[t] # "insert" => claim'[want'[t].code] = t
  BY PoliciesAssumption DEF IInv, TypeOK, Shapes, Shape, Claims, Creating, UpdatePolicy, Patched, OwnUpdate, AfterAssignments, Row
<1>5. Creating(t)' => \A u \in Sessions \ {t} : Creating(u) => target[u] # target'[t]
  BY PoliciesAssumption DEF IInv, TypeOK, Shapes, Shape, FreshTargets, Creating, UpdatePolicy, Patched, OwnUpdate, AfterAssignments
<1>6. \A p \in Ids : lock'[p] = t =>
        pc'[t] \in {"write", "commit"} /\ \A q \in todo'[t] : p < q
  BY PoliciesAssumption DEF IInv, TypeOK, LockOrder, UpdatePolicy, Patched, OwnUpdate, AfterAssignments
<1> QED
  BY <1>1, <1>2, <1>3, <1>4, <1>5, <1>6, QuietStep DEF IInv, TypeOK, UpdatePolicy, Patched, OwnUpdate, AfterAssignments

\* A creation takes a primary key nobody uses.
LEMMA CreatePolicyStep ==
  ASSUME IInv, NEW t \in Sessions, NEW i \in Ids, NEW r \in Row, CreatePolicy(t, i, r)
  PROVE  IInv'
<1> USE DEF At, Goto, NothingCommitted
<1>1. TypeOK'
  BY PoliciesAssumption DEF IInv, TypeOK, CreatePolicy, Fresh, Inserted, Existing
<1>2. Shape(t)'
  BY PoliciesAssumption DEF IInv, TypeOK, Shapes, Shape, Creating, CreatePolicy, Fresh, Inserted, Existing, Row
<1>3. \A c \in Codes : claim'[c] = t =>
        /\ Creating(t)' /\ pc'[t] # "insert" /\ want'[t].code = c
        /\ c \notin TakenCodes
  BY PoliciesAssumption DEF IInv, TypeOK, Shapes, Shape, Claims, Creating, CreatePolicy, Fresh, Inserted
<1>4. Creating(t)' /\ pc'[t] # "insert" => claim'[want'[t].code] = t
  BY PoliciesAssumption DEF IInv, TypeOK, Shapes, Shape, Claims, Creating, CreatePolicy, Fresh, Inserted, Row
<1>5. Creating(t)' => \A u \in Sessions \ {t} : Creating(u) => target[u] # target'[t]
  <2> SUFFICES ASSUME NEW u \in Sessions, u # t, Creating(u)
               PROVE  target[u] # i
    BY DEF IInv, TypeOK, CreatePolicy
  <2>1. CASE pc[u] = "insert"
    BY <2>1 DEF CreatePolicy, Fresh
  <2>2. CASE pc[u] # "insert"
    <3>1. claim[want[u].code] = u /\ want[u].code \in Codes
      BY <2>2 DEF IInv, Claims, Shapes, Shape, Creating, Row
    <3> QED
      BY <3>1 DEF CreatePolicy, Fresh, Inserted
  <2> QED
    BY <2>1, <2>2
<1>6. \A p \in Ids : lock'[p] = t =>
        pc'[t] \in {"write", "commit"} /\ \A q \in todo'[t] : p < q
  BY PoliciesAssumption DEF IInv, TypeOK, LockOrder, CreatePolicy, Fresh, Inserted
<1> QED
  BY <1>1, <1>2, <1>3, <1>4, <1>5, <1>6, QuietStep DEF IInv, TypeOK, CreatePolicy, Fresh, Inserted

-----------------------------------------------------------------------------
(* The commit *)

\* A commit keeps the codes of the stored policies, and adds at most the policy
\* its session created, under the code the session claimed.
LEMMA CommitRows ==
  ASSUME IInv, NEW t \in Sessions, Commit(t)
  PROVE  /\ Existing' = Existing \cup {target[t]}
         /\ \A p \in Existing' : policies'[p] \in Row
         /\ \A p \in Existing : policies'[p].code = policies[p].code
         /\ target[t] \notin Existing =>
              /\ Creating(t) /\ claim[want[t].code] = t
              /\ policies'[target[t]].code = want[t].code
              /\ want[t].code \in Codes \ TakenCodes
<1>1. pc[t] = "commit" /\ want[t] \in Row /\ policies \in [Existing -> Row]
  BY DEF Commit, At, IInv, TypeOK, Shapes, Shape
<1>2. policies' = [p \in Existing \cup {target[t]} |-> Written(t, p)]
  BY DEF Commit
<1>3. Existing' = Existing \cup {target[t]}
  BY <1>2 DEF Existing
<1>4. \A p \in Existing' : policies'[p] = Written(t, p)
  BY <1>2, <1>3
<1>5. ASSUME NEW p \in Existing
      PROVE  policies'[p] \in Row /\ policies'[p].code = policies[p].code
  <2>1. policies[p] \in Row /\ policies'[p] = Written(t, p)
    BY <1>1, <1>3, <1>4
  <2>2. CASE p = target[t]
    <3>1. seen[t] \in Row /\ want[t].code = seen[t].code
      BY <1>1, <2>2 DEF IInv, TypeOK, Shapes, Shape, Creating
    <3>2. policies'[p] = Flushed(policies[p], seen[t], want[t])
      BY <2>1, <2>2 DEF Written
    <3> QED
      BY <1>1, <2>1, <3>1, <3>2, FlushedIsRow
  <2>3. CASE p # target[t]
    BY <2>1, <2>3, DemotedIsRow DEF Written
  <2> QED
    BY <2>2, <2>3
<1>6. ASSUME target[t] \notin Existing
      PROVE  /\ Creating(t) /\ claim[want[t].code] = t
             /\ policies'[target[t]] = want[t]
             /\ want[t].code \in Codes \ TakenCodes
  <2>1. Creating(t)
    BY <1>1, <1>6 DEF IInv, Shapes, Shape, Creating
  <2>2. claim[want[t].code] = t /\ want[t].code \in Codes
    BY <1>1, <2>1 DEF IInv, Claims, Row
  <2>3. want[t].code \notin TakenCodes
    BY <2>2, PoliciesAssumption DEF IInv, Claims
  <2>4. policies'[target[t]] = want[t]
    BY <1>3, <1>4, <1>6 DEF Written
  <2> QED
    BY <2>1, <2>2, <2>3, <2>4
<1> QED
  BY <1>1, <1>3, <1>5, <1>6

\* A commit keeps the invariant.
LEMMA CommitStep ==
  ASSUME IInv, NEW t \in Sessions, Commit(t)
  PROVE  IInv'
<1> USE DEF At, Goto
<1>1. TypeOK'
  <2>1. Existing' \subseteq Ids /\ policies' \in [Existing' -> Row]
    <3>1. policies' = [p \in Existing' |-> policies'[p]]
      BY CommitRows DEF Commit
    <3> QED
      BY <3>1, CommitRows DEF IInv, TypeOK
  <2> QED
    BY <2>1 DEF IInv, TypeOK, Commit, Close, Released
<1>2. UniqueCodes'
  <2> SUFFICES ASSUME NEW p \in Existing', NEW q \in Existing',
                      policies'[p].code = policies'[q].code, p # q
               PROVE  FALSE
    BY DEF UniqueCodes
  <2>1. CASE p \in Existing /\ q \in Existing
    BY <2>1, CommitRows DEF IInv, UniqueCodes
  <2>2. CASE p \notin Existing
    <3>1. p = target[t] /\ q \in Existing /\ want[t].code \notin TakenCodes
      BY <2>2, CommitRows
    <3> QED
      BY <2>2, <3>1, CommitRows DEF TakenCodes
  <2>3. CASE q \notin Existing
    <3>1. q = target[t] /\ p \in Existing /\ want[t].code \notin TakenCodes
      BY <2>3, CommitRows
    <3> QED
      BY <2>3, <3>1, CommitRows DEF TakenCodes
  <2> QED
    BY <2>1, <2>2, <2>3
<1>3. \A u \in Sessions \ {t} :
        /\ pc'[u] = pc[u] /\ target'[u] = target[u] /\ seen'[u] = seen[u]
        /\ want'[u] = want[u] /\ todo'[u] = todo[u]
  BY DEF IInv, TypeOK, Commit, Close
<1>4. pc'[t] = "idle" /\ seen'[t] = NoRow
  BY DEF IInv, TypeOK, Commit, Close
<1>5. Shapes'
  <2> SUFFICES ASSUME NEW u \in Sessions
               PROVE  Shape(u)'
    BY DEF Shapes
  <2>1. CASE u = t
    BY <1>4, <2>1 DEF Shape, Creating
  <2>2. CASE u # t
    <3>1. Shape(u)
      BY DEF IInv, Shapes
    <3>2. Creating(u) => target[u] \notin Existing'
      BY <2>2, <3>1, CommitRows DEF IInv, FreshTargets, Shape
    <3> QED
      BY <1>3, <2>2, <3>1, <3>2, CommitRows DEF Shape, Creating
  <2> QED
    BY <2>1, <2>2
<1>6. Claims'
  <2>1. \A c \in Codes : claim'[c] = IF claim[c] = t THEN Nobody ELSE claim[c]
    BY DEF IInv, TypeOK, Commit, Close, Released
  <2>2. ASSUME NEW c \in Codes, claim'[c] # Nobody
        PROVE  c \notin TakenCodes'
    <3>1. c \notin TakenCodes /\ claim[c] # t
      BY <2>1, <2>2 DEF IInv, Claims
    <3>2. \A p \in Existing' : policies'[p].code # c
      BY <3>1, CommitRows DEF TakenCodes
    <3> QED
      BY <3>2 DEF TakenCodes
  <2>3. ASSUME NEW c \in Codes, claim'[c] # Nobody
        PROVE  /\ Creating(claim[c])' /\ pc'[claim'[c]] # "insert"
               /\ want'[claim'[c]].code = c
    BY <1>3, <2>1, <2>3 DEF IInv, TypeOK, Claims, Creating
  <2>4. ASSUME NEW u \in Sessions, Creating(u)', pc'[u] # "insert"
        PROVE  claim'[want'[u].code] = u
    <3>1. u # t
      BY <1>4, <2>4 DEF Creating
    <3>2. claim[want[u].code] = u /\ want[u].code \in Codes
      BY <1>3, <2>4, <3>1 DEF IInv, Claims, Creating, Shapes, Shape, Row
    <3> QED
      BY <1>3, <2>1, <3>1, <3>2
  <2> QED
    BY <2>2, <2>3, <2>4 DEF Claims
<1>7. FreshTargets'
  BY <1>3, <1>4 DEF IInv, FreshTargets, Creating
<1>8. LockOrder'
  <2>1. \A p \in Ids : lock'[p] = IF lock[p] = t THEN Nobody ELSE lock[p]
    BY DEF IInv, TypeOK, Commit, Close, Released
  <2> QED
    BY <1>3, <2>1 DEF IInv, TypeOK, LockOrder
<1> QED
  BY <1>1, <1>2, <1>5, <1>6, <1>7, <1>8 DEF IInv

-----------------------------------------------------------------------------
(* The theorems *)

\* Every step of the policies keeps the invariant.
LEMMA NextPreserves == IInv /\ [Next]_vars => IInv'
<1> SUFFICES ASSUME IInv, [Next]_vars PROVE IInv'
  OBVIOUS
<1>1. CASE UNCHANGED vars
  <2>1. TypeOK' /\ UniqueCodes' /\ FreshTargets' /\ LockOrder'
    BY <1>1 DEF IInv, TypeOK, UniqueCodes, FreshTargets, LockOrder, Creating,
                Existing, vars
  <2>2. Shapes'
    BY <1>1 DEF IInv, Shapes, Shape, Creating, Existing, vars
  <2>3. Claims'
    BY <1>1 DEF IInv, Claims, Creating, Existing, TakenCodes, vars
  <2> QED
    BY <2>1, <2>2, <2>3 DEF IInv
<1>2. ASSUME NEW t \in Sessions, Statement(t)
      PROVE  IInv'
  BY <1>2, InsertPolicyStep, CloseStep, ClearDefaultStep, WriteRowStep,
     RecordStep, CommitStep DEF Statement, InsertRejected
<1>3. ASSUME NEW t \in Sessions,
             \/ Rollback(t)
             \/ \E p \in Ids : UpdatePolicy(t, p) \/ \E r \in Row : CreatePolicy(t, p, r)
             \/ \E code \in Codes : RefusePolicy(t, code)
      PROVE  IInv'
  BY <1>3, CloseStep, UpdatePolicyStep, CreatePolicyStep DEF Rollback, RefusePolicy
<1> QED
  BY <1>1, <1>2, <1>3 DEF Next

\* The inductive invariant holds in every state.
THEOREM InductiveInvariant == Spec => []IInv
BY InitEstablishes, NextPreserves, PTL DEF Spec

\* Every variable stays in its set, for any constants.
THEOREM TypeCorrect == Spec => []TypeOK
<1>1. IInv => TypeOK
  BY DEF IInv
<1> QED
  BY <1>1, InductiveInvariant, PTL

\* No two policies of an organization share a code, however many requests
\* create policies at once (create_policy and its unique index).
THEOREM CodesAreUnique == Spec => []UniqueCodes
<1>1. IInv => UniqueCodes
  BY DEF IInv
<1> QED
  BY <1>1, InductiveInvariant, PTL

\* A session that waits and is waited for holds a row lock, and waits for a
\* row with a greater key than the one it is waited for.
LEMMA WaitsAscend ==
  ASSUME IInv, NEW S \in SUBSET Sessions, S # {},
         \A t \in S : WaitsFor(t) \cap S # {}
  PROVE  LET W == {p \in Ids : lock[p] \in S /\
                     \E t \in S : At(t, "write") /\ p \in NextRow(Pending(t))}
         IN W # {} /\ \A p \in W : \E q \in W : p < q
<1> DEFINE Wanted(t, p) == At(t, "write") /\ p \in NextRow(Pending(t))
           W == {p \in Ids : lock[p] \in S /\ \E t \in S : Wanted(t, p)}
<1>1. ASSUME NEW t \in S
      PROVE  \/ \E p \in W : Wanted(t, p)
             \/ \E u \in S : ~At(u, "insert") /\ At(t, "insert")
  <2>1. PICK u \in WaitsFor(t) \cap S : TRUE
    OBVIOUS
  <2>2. CASE At(t, "insert") /\ claim[want[t].code] = u
    <3>1. want[t].code \in Codes
      BY <2>2 DEF At, IInv, Shapes, Shape, Row
    <3>2. ~At(u, "insert")
      BY <2>2, <3>1, PoliciesAssumption DEF At, IInv, Claims
    <3> QED
      BY <2>2, <3>2
  <2>3. CASE At(t, "write") /\ \E p \in NextRow(Pending(t)) : lock[p] = u
    <3>1. PICK p \in NextRow(Pending(t)) : lock[p] = u
      BY <2>3
    <3>2. p \in Ids
      BY <3>1 DEF NextRow, Pending, IInv, TypeOK
    <3> QED
      BY <2>3, <3>1, <3>2
  <2> QED
    BY <2>1, <2>2, <2>3 DEF WaitsFor
<1>2. \A t \in S : ~At(t, "insert") => \E p \in W : Wanted(t, p)
  BY <1>1
<1>3. W # {}
  BY <1>1, <1>2
<1>4. ASSUME NEW p \in W PROVE \E q \in W : p < q
  <2>1. /\ lock[p] \in S /\ pc[lock[p]] \in {"write", "commit"}
        /\ \A q \in todo[lock[p]] : p < q
    BY PoliciesAssumption DEF IInv, LockOrder
  <2>2. PICK q \in W : Wanted(lock[p], q)
    BY <1>2, <2>1 DEF At
  <2>3. q \in todo[lock[p]]
    BY <2>2 DEF NextRow, Pending
  <2> QED
    BY <2>1, <2>3
<1> QED
  BY <1>3, <1>4

\* Requests never wait for each other in a circle, for any number of sessions
\* and policies: each flush takes its row locks in ascending order, and an
\* INSERT waits holding nothing.
THEOREM NoDeadlock == Spec => []NoCircularWait
<1>1. IInv => NoCircularWait
  <2> SUFFICES ASSUME IInv, NEW S \in SUBSET Sessions, S # {},
                      \A t \in S : WaitsFor(t) \cap S # {}
               PROVE  FALSE
    BY DEF NoCircularWait
  <2> DEFINE W == {p \in Ids : lock[p] \in S /\
                     \E t \in S : At(t, "write") /\ p \in NextRow(Pending(t))}
  <2>1. W # {} /\ \A p \in W : \E q \in W : p < q
    BY WaitsAscend
  <2>2. MaxId \in Nat /\ W \in SUBSET (0..MaxId)
    BY PoliciesAssumption
  <2> HIDE DEF W
  <2>3. PICK p \in W : \A q \in W : q <= p
    BY <2>1, <2>2, GreatestOfBounded
  <2> QED
    BY <2>1, <2>2, <2>3
<1> QED
  BY <1>1, InductiveInvariant, PTL
=============================================================================
