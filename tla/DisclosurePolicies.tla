------------------------- MODULE DisclosurePolicies -------------------------
(***************************************************************************)
(* The disclosure policies of one organization: InfluencerService's        *)
(* create_policy and update_policy over DisclosurePolicyRepository, each   *)
(* request one transaction at READ COMMITTED, any number of them at once.  *)
(* The influencers refer to these rows and are modelled in Registry.       *)
(*                                                                         *)
(* The session is built with autoflush off: assignments reach the database *)
(* at an explicit flush(), so clear_default lists the committed rows, and  *)
(* its flush then writes the session's own row and the demoted ones in one *)
(* go. The ORM sorts the UPDATEs of a flush by primary key. An UPDATE      *)
(* waits for the row lock of another transaction, an INSERT for another    *)
(* uncommitted row with the same key of the unique index.                  *)
(***************************************************************************)
EXTENDS Integers, FiniteSets

CONSTANTS
  Ids,        \* primary keys: ordered, never reused
  MaxId,      \* the greatest UUID
  Codes,      \* policy codes, unique in the organization
  Texts,      \* values of the columns no rule reads
  Sessions,   \* database sessions, one open request each
  Nobody,     \* the holder of a free lock
  NoRow       \* no row loaded, no before image

Row == [code: Codes, is_default: BOOLEAN, text: Texts]

ASSUME PoliciesAssumption ==
  /\ MaxId \in Nat
  /\ Ids \subseteq 0..MaxId
  /\ Nobody \notin Sessions
  /\ NoRow \notin Row

VARIABLES
  policies,   \* disclosure_policies: the committed rows, by primary key
  emitted,    \* the rows the last step appended to audit_logs
  lock,       \* who holds each row lock
  claim,      \* whose uncommitted INSERT holds each key of the unique index
  pc,         \* the statement each session runs next
  target,     \* the policy each session works on
  seen,       \* that policy as the session read it
  want,       \* that policy as the session's code has changed it
  clear,      \* the other policies clear_default has demoted
  todo,       \* the rows the running flush has still to UPDATE
  entries     \* audit rows the session has inserted

tables == <<policies, emitted>>
vars   == <<policies, emitted, lock, claim, pc, target, seen, want, clear,
            todo, entries>>

-----------------------------------------------------------------------------
(* Rows *)

\* A created row has no before image.
Entry == [policy: Ids, before: Row \cup {NoRow}, after: Row]

Existing == DOMAIN policies

Defaults == {p \in Existing : policies[p].is_default}

TakenCodes == {policies[p].code : p \in Existing}

\* Only the changed columns of a flushed row are written.
Flushed(current, old, new) ==
  LET Column(c) == IF new[c] # old[c] THEN new[c] ELSE current[c]
  IN [code       |-> Column("code"),
      is_default |-> Column("is_default"),
      text       |-> Column("text")]

\* The tables a serial history can leave behind.
Init ==
  /\ \E S \in SUBSET Ids : policies \in [S -> Row]
  /\ \A p, q \in Existing : policies[p].code = policies[q].code => p = q
  /\ \A p, q \in Defaults : p = q
  /\ emitted = {}
  /\ lock = [p \in Ids |-> Nobody]
  /\ claim = [c \in Codes |-> Nobody]
  /\ pc = [t \in Sessions |-> "idle"]
  /\ target \in [Sessions -> Ids]
  /\ seen = [t \in Sessions |-> NoRow]
  /\ want = [t \in Sessions |-> NoRow]
  /\ clear = [t \in Sessions |-> {}]
  /\ todo = [t \in Sessions |-> {}]
  /\ entries = [t \in Sessions |-> {}]

At(t, label) == pc[t] = label

Goto(t, label) == pc' = [pc EXCEPT ![t] = label]

NothingCommitted == UNCHANGED policies /\ emitted' = {}

\* Who holds a row lock or a key of the unique index stops holding it.
Released(holders, t) ==
  [k \in DOMAIN holders |-> IF holders[k] = t THEN Nobody ELSE holders[k]]

\* The end of the transaction.
Close(t) ==
  /\ Goto(t, "idle")
  /\ lock' = Released(lock, t)
  /\ claim' = Released(claim, t)
  /\ seen' = [seen EXCEPT ![t] = NoRow]
  /\ want' = [want EXCEPT ![t] = NoRow]
  /\ clear' = [clear EXCEPT ![t] = {}]
  /\ todo' = [todo EXCEPT ![t] = {}]
  /\ entries' = [entries EXCEPT ![t] = {}]
  /\ UNCHANGED target

-----------------------------------------------------------------------------
(* create_policy *)

\* Flushed, the row is visible to its own session only.
Inserted(t) == \E c \in Codes : claim[c] = t

\* A fresh UUID: no stored row and no open creation has it.
Fresh(p) ==
  /\ p \notin Existing
  /\ \A t \in Sessions : At(t, "insert") \/ Inserted(t) => target[t] # p

\* get_by_code finds nothing.
CreatePolicy(t, p, r) ==
  /\ At(t, "idle")
  /\ Fresh(p)
  /\ r.code \notin TakenCodes
  /\ target' = [target EXCEPT ![t] = p]
  /\ seen' = [seen EXCEPT ![t] = NoRow]
  /\ want' = [want EXCEPT ![t] = r]
  /\ Goto(t, "insert")
  /\ NothingCommitted
  /\ UNCHANGED <<lock, claim, clear, todo, entries>>

\* get_by_code finds the code: ConflictError.
RefusePolicy(t, code) ==
  /\ At(t, "idle")
  /\ code \in TakenCodes
  /\ Close(t)
  /\ NothingCommitted

\* Fault: the table has no unique index on the code.
IndexAdmits_Any(code) == TRUE

\* The unique index on (organization_id, code).
IndexAdmits(code) == code \notin TakenCodes

\* Fault: clear_default runs whether or not the policy is a default.
AfterAssignments_Always(r) == "list"

\* clear_default runs only for a policy that is, or becomes, a default.
AfterAssignments(r) == IF r.is_default THEN "list" ELSE "write"

\* The INSERT: waits for an open one of the same code, then the index decides.
InsertPolicy(t) ==
  LET code == want[t].code IN
  /\ At(t, "insert")
  /\ claim[code] = Nobody
  /\ IndexAdmits(code)
  /\ claim' = [claim EXCEPT ![code] = t]
  /\ Goto(t, AfterAssignments(want[t]))
  /\ NothingCommitted
  /\ UNCHANGED <<lock, target, seen, want, clear, todo, entries>>

\* IntegrityError, which create_policy does not catch.
InsertRejected(t) ==
  /\ At(t, "insert")
  /\ claim[want[t].code] = Nobody
  /\ ~IndexAdmits(want[t].code)
  /\ Close(t)
  /\ NothingCommitted

-----------------------------------------------------------------------------
(* update_policy *)

\* DisclosurePolicyUpdate has no code. A patch may repeat the stored values.
Patched(r) == {x \in Row : x.code = r.code}

\* The UPDATE of the session's own row, when a column changed.
OwnUpdate(p, old, new) == IF new # old THEN {p} ELSE {}

\* _require_policy, without a lock, then the assignments.
UpdatePolicy(t, p) ==
  /\ At(t, "idle")
  /\ p \in Existing
  /\ target' = [target EXCEPT ![t] = p]
  /\ seen' = [seen EXCEPT ![t] = policies[p]]
  /\ \E r \in Patched(policies[p]) :
       /\ want' = [want EXCEPT ![t] = r]
       /\ todo' = [todo EXCEPT ![t] = OwnUpdate(p, policies[p], r)]
       /\ Goto(t, AfterAssignments(r))
  /\ NothingCommitted
  /\ UNCHANGED <<lock, claim, clear, entries>>

-----------------------------------------------------------------------------
(* clear_default, the flush, the audit row, the unit of work *)

\* Fault: no other policy is demoted.
Others_None(t) == {}

\* list_all, and the assignments to every other default it returned.
Others(t) == Defaults \ {target[t]}

ClearDefault(t) ==
  /\ At(t, "list")
  /\ clear' = [clear EXCEPT ![t] = Others(t)]
  /\ todo' = [todo EXCEPT ![t] = todo[t] \cup Others(t)]
  /\ Goto(t, "write")
  /\ NothingCommitted
  /\ UNCHANGED <<lock, claim, target, seen, want, entries>>

\* Fault: the own row is flushed first, before clear_default.
Pending_OwnFirst(t) == IF target[t] \in todo[t] THEN {target[t]} ELSE todo[t]

\* One flush, after clear_default, writes the own row and the demoted ones.
Pending(t) == todo[t]

\* The flush writes rows in the order of their primary keys.
NextRow(rows) == {p \in rows : \A q \in rows : p <= q}

WriteRow(t) ==
  \E p \in NextRow(Pending(t)) :
    /\ At(t, "write")
    /\ lock[p] = Nobody
    /\ lock' = [lock EXCEPT ![p] = t]
    /\ todo' = [todo EXCEPT ![t] = todo[t] \ {p}]
    /\ NothingCommitted
    /\ UNCHANGED <<claim, pc, target, seen, want, clear, entries>>

\* Faults: both snapshots are taken after the assignments; none is.
EntryOf_OneSnapshot(t) ==
  [policy |-> target[t], before |-> want[t], after |-> want[t]]

EntryOf_NoAfter(t) ==
  [policy |-> target[t], before |-> seen[t], after |-> NoRow]

\* One audit row, about the policy the request names.
EntryOf(t) ==
  [policy |-> target[t], before |-> seen[t], after |-> want[t]]

Record(t) ==
  /\ At(t, "write")
  /\ todo[t] = {}
  /\ entries' = [entries EXCEPT ![t] = {EntryOf(t)}]
  /\ Goto(t, "commit")
  /\ NothingCommitted
  /\ UNCHANGED <<lock, claim, target, seen, want, clear, todo>>

\* What the session's statements have made of a row.
Written(t, p) ==
  IF p = target[t]
    THEN IF p \in Existing THEN Flushed(policies[p], seen[t], want[t]) ELSE want[t]
    ELSE IF p \in clear[t] THEN [policies[p] EXCEPT !.is_default = FALSE]
         ELSE policies[p]

Commit(t) ==
  /\ At(t, "commit")
  /\ policies' = [p \in Existing \cup {target[t]} |-> Written(t, p)]
  /\ emitted' = entries[t]
  /\ Close(t)

\* Any exception, a lost connection, a crash of the process.
Rollback(t) ==
  /\ ~At(t, "idle")
  /\ Close(t)
  /\ NothingCommitted

-----------------------------------------------------------------------------
Statement(t) ==
  \/ InsertPolicy(t)
  \/ InsertRejected(t)
  \/ ClearDefault(t)
  \/ WriteRow(t)
  \/ Record(t)
  \/ Commit(t)

Next ==
  \E t \in Sessions :
    \/ Statement(t)
    \/ Rollback(t)
    \/ \E p \in Ids : UpdatePolicy(t, p) \/ \E r \in Row : CreatePolicy(t, p, r)
    \/ \E code \in Codes : RefusePolicy(t, code)

Spec == Init /\ [][Next]_vars

-----------------------------------------------------------------------------
(* Properties *)

\* Every variable stays in its set.
TypeOK ==
  /\ Existing \subseteq Ids /\ policies \in [Existing -> Row]
  /\ emitted \subseteq Entry
  /\ lock \in [Ids -> Sessions \cup {Nobody}]
  /\ claim \in [Codes -> Sessions \cup {Nobody}]
  /\ pc \in [Sessions -> {"idle", "insert", "list", "write", "commit"}]
  /\ target \in [Sessions -> Ids]
  /\ seen \in [Sessions -> Row \cup {NoRow}]
  /\ want \in [Sessions -> Row \cup {NoRow}]
  /\ clear \in [Sessions -> SUBSET Ids]
  /\ todo \in [Sessions -> SUBSET Ids]
  /\ entries \in [Sessions -> SUBSET Entry]

\* Two policies never share a code.
UniqueCodes ==
  \A p, q \in Existing : policies[p].code = policies[q].code => p = q

\* The codes of the policies are a book (see Codebook): a policy is entered
\* once, under a code of its own that no update, no demotion and no lost race
\* changes, although create_policy looks for the code in one statement and
\* inserts in another. What create_policy answers is not looked at here.
Book == INSTANCE Codebook WITH
  Names   <- Ids,
  book    <- [p \in Existing |-> policies[p].code],
  refused <- {}

ImplementsCodebook == Book!Spec

\* The sessions that session t waits for.
WaitsFor(t) ==
  {u \in Sessions \ {t} :
     \/ At(t, "insert") /\ claim[want[t].code] = u
     \/ At(t, "write") /\ \E p \in NextRow(Pending(t)) : lock[p] = u}

\* No two requests wait for each other, directly or through others, although
\* each UPDATEs several rows: PostgreSQL never has to abort one.
NoCircularWait ==
  \A S \in SUBSET Sessions :
    S # {} => \E t \in S : WaitsFor(t) \cap S = {}

\* Whatever column of a policy changes is named by an audit row of the same
\* commit, except for the demotion of the previous default, and nothing
\* disappears.
NamedChangesAreAudited ==
  [][\A p \in Existing :
       /\ p \in DOMAIN policies'
       /\ \A c \in {"code", "is_default", "text"} :
            policies'[p][c] # policies[p][c] =>
              \/ c = "is_default" /\ policies[p].is_default
              \/ \E e \in emitted' : e.policy = p /\ e.before[c] # e.after[c]
                                     /\ e.after[c] = policies'[p][c]]_tables

\* At most one policy of the organization is the default (clear_default).
AtMostOneDefault == \A p, q \in Defaults : p = q

\* What the session read before it decided is still so: its policy, and the
\* other defaults when it asked for them.
ReadsAreCurrent(t) ==
  /\ target[t] \in Existing => seen[t] = policies[target[t]]
  /\ want[t].is_default => clear[t] = Others(t)

\* A commit that nobody disturbed makes its policy the only default, or leaves
\* the default to the others, whatever the flush wrote first: the organization
\* loses its default only to a request that says so. (When somebody did, see
\* AtMostOneDefault.)
UndisturbedDefaultIsHandedOver ==
  [][\A t \in Sessions :
       At(t, "commit") /\ pc'[t] = "idle" /\ ReadsAreCurrent(t) =>
         {p \in DOMAIN policies' : policies'[p].is_default}
           = IF want[t].is_default THEN {target[t]} ELSE Defaults \ {target[t]}]_policies
=============================================================================
