------------------------------ MODULE Catalogue ------------------------------
(***************************************************************************)
(* The influencers and the audit trail of one organization as their        *)
(* readers see them: InfluencerService.create and the audited changes that *)
(* follow, against GET /influencers, GET /audit-logs and the history of an *)
(* influencer, which return a page and a total in two statements and are   *)
(* called again for the next page. READ COMMITTED: every statement sees    *)
(* what is committed when it runs.                                         *)
(*                                                                         *)
(* Both lists have a fixed total order, newest first: sequence_number for  *)
(* the trail, (created_at, id) for the influencers. An influencer is named *)
(* here by its place in that order. A sequence number is allocated by the  *)
(* INSERT, created_at is when the transaction began, and rows appear when  *)
(* it commits: an older row can appear after a newer one. What the changes *)
(* write, and the row locks they wait for, is in Registry.                 *)
(***************************************************************************)
EXTENDS Integers, FiniteSets

CONSTANTS
  Influencers,   \* primary keys, in the order of (created_at, id)
  Codes,         \* influencer codes, unique in the organization
  Writers,       \* database sessions of creations and changes
  Readers,       \* clients paging through a list
  Nobody,        \* the holder of a free key of the unique index
  PageSize,      \* the limit the readers ask for
  MaxEntries     \* bound on the rows of audit_logs

ASSUME CatalogueAssumption ==
  /\ Influencers \subseteq Nat \ {0}
  /\ Nobody \notin Writers
  /\ PageSize \in Nat \ {0}
  /\ MaxEntries \in Nat

VARIABLES
  code,        \* influencers: the code of each committed row
  archived,    \* the committed rows with status archived
  trail,       \* audit_logs: the committed rows
  sequence,    \* the last sequence_number allocated
  claim,       \* whose uncommitted INSERT holds each code
  answers,     \* the conflict the last step reported, if any
  pc,          \* the statement each writer runs next
  target,      \* the influencer each writer works on
  chosen,      \* the code of a creation
  archiving,   \* whether the writer archives its influencer
  todo,        \* audit rows the writer has still to insert
  entries,     \* audit rows the writer has inserted
  at,          \* the statement each reader runs next
  source,      \* what the reader pages through
  offset,      \* where its next page starts
  page,        \* the page it has read
  seen,        \* history: everything its pages have shown
  first,       \* history: everything there was when it read its first page
  calm         \* history: no influencer was archived since then

tables == <<code, archived, trail>>
writer == <<pc, target, chosen, archiving, todo, entries, claim, sequence>>
reader == <<at, source, offset, page, seen, first, calm>>
vars   == <<code, archived, trail, sequence, claim, answers, pc, target, chosen,
            archiving, todo, entries, at, source, offset, page, seen, first, calm>>

\* An audit row about another entity than an influencer.
Elsewhere == 0

NoCode == "no code"

Entry == [number: 1..MaxEntries, about: Influencers \cup {Elsewhere}]

\* A list is named by what it contains: "trail", "list", or one influencer,
\* whose history it is.
Sources == {"trail", "list"} \X {Elsewhere}
             \cup {"history"} \X Influencers

NoSource == <<"none", Elsewhere>>

-----------------------------------------------------------------------------
Existing == DOMAIN code

TakenCodes == {code[i] : i \in Existing}

Init ==
  /\ code = [i \in {} |-> CHOOSE c \in Codes : TRUE]
  /\ archived = {}
  /\ trail = {}
  /\ sequence = 0
  /\ claim = [c \in Codes |-> Nobody]
  /\ answers = {}
  /\ pc = [t \in Writers |-> "idle"]
  /\ target = [t \in Writers |-> Elsewhere]
  /\ chosen = [t \in Writers |-> NoCode]
  /\ archiving = [t \in Writers |-> FALSE]
  /\ todo = [t \in Writers |-> 0]
  /\ entries = [t \in Writers |-> {}]
  /\ at = [r \in Readers |-> "idle"]
  /\ source = [r \in Readers |-> NoSource]
  /\ offset = [r \in Readers |-> 0]
  /\ page = [r \in Readers |-> {}]
  /\ seen = [r \in Readers |-> {}]
  /\ first = [r \in Readers |-> {}]
  /\ calm = [r \in Readers |-> TRUE]

At(t, label) == pc[t] = label

Goto(t, label) == pc' = [pc EXCEPT ![t] = label]

NothingCommitted == UNCHANGED tables

\* The end of the transaction: the claim on the index goes with it.
Close(t) ==
  /\ Goto(t, "idle")
  /\ claim' = [c \in Codes |-> IF claim[c] = t THEN Nobody ELSE claim[c]]
  /\ target' = [target EXCEPT ![t] = Elsewhere]
  /\ chosen' = [chosen EXCEPT ![t] = NoCode]
  /\ archiving' = [archiving EXCEPT ![t] = FALSE]
  /\ todo' = [todo EXCEPT ![t] = 0]
  /\ entries' = [entries EXCEPT ![t] = {}]
  /\ UNCHANGED <<sequence, at, source, offset, page, seen, first>>

\* ConflictError: the code is in use; the transaction rolls back.
Conflict(t, c) ==
  /\ answers' = {c}
  /\ Close(t)
  /\ NothingCommitted
  /\ UNCHANGED calm

-----------------------------------------------------------------------------
(* InfluencerService.create *)

\* A primary key no row and no open creation has.
Fresh(i) == i \notin Existing /\ \A t \in Writers : target[t] # i

\* Fault: the query sees uncommitted rows.
Found_Dirty(c) == c \in TakenCodes \/ claim[c] # Nobody

\* get_by_code
Found(c) == c \in TakenCodes

Create(t, i, c) ==
  /\ At(t, "idle")
  /\ Fresh(i)
  /\ ~Found(c)
  /\ target' = [target EXCEPT ![t] = i]
  /\ chosen' = [chosen EXCEPT ![t] = c]
  /\ todo' = [todo EXCEPT ![t] = 1]
  /\ Goto(t, "insert")
  /\ answers' = {}
  /\ NothingCommitted
  /\ UNCHANGED <<archiving, entries, claim, sequence, reader>>

RefuseCreation(t, c) ==
  /\ At(t, "idle")
  /\ Found(c)
  /\ Conflict(t, c)

\* Fault: the table has no unique index on the code.
IndexAdmits_Any(c) == TRUE

\* The unique index on (organization_id, code).
IndexAdmits(c) == c \notin TakenCodes

\* The INSERT waits for an open one of the same code.
InsertInfluencer(t) ==
  /\ At(t, "insert")
  /\ claim[chosen[t]] = Nobody
  /\ IndexAdmits(chosen[t])
  /\ claim' = [claim EXCEPT ![chosen[t]] = t]
  /\ Goto(t, "record")
  /\ answers' = {}
  /\ NothingCommitted
  /\ UNCHANGED <<target, chosen, archiving, todo, entries, sequence, reader>>

\* IntegrityError, which create turns into the same ConflictError.
InsertConflict(t) ==
  /\ At(t, "insert")
  /\ claim[chosen[t]] = Nobody
  /\ ~IndexAdmits(chosen[t])
  /\ Conflict(t, chosen[t])

-----------------------------------------------------------------------------
(* The audited changes of an influencer *)

\* A PATCH, a transition or a new version, on an influencer that is not
\* archived. A version is a second entity with an audit row of its own.
Change(t, i, rows, archive) ==
  /\ At(t, "idle")
  /\ i \in Existing \ archived
  /\ archive => rows = 1
  /\ target' = [target EXCEPT ![t] = i]
  /\ archiving' = [archiving EXCEPT ![t] = archive]
  /\ todo' = [todo EXCEPT ![t] = rows]
  /\ Goto(t, "record")
  /\ answers' = {}
  /\ NothingCommitted
  /\ UNCHANGED <<chosen, entries, claim, sequence, reader>>

\* Fault: the numbers start at zero.
NextNumber_FromZero == sequence

\* What the identity column gives the next INSERT.
NextNumber == sequence + 1

\* AuditService.record: the INSERT allocates the next number, which no
\* rollback gives back.
Record(t) ==
  /\ At(t, "record")
  /\ sequence < MaxEntries
  /\ sequence' = sequence + 1
  /\ entries' = [entries EXCEPT ![t] = entries[t] \cup
       {[number |-> NextNumber,
         about  |-> IF todo[t] = 1 THEN target[t] ELSE Elsewhere]}]
  /\ todo' = [todo EXCEPT ![t] = todo[t] - 1]
  /\ Goto(t, IF todo[t] = 1 THEN "commit" ELSE "record")
  /\ answers' = {}
  /\ NothingCommitted
  /\ UNCHANGED <<target, chosen, archiving, claim, reader>>

\* Fault: the audit rows are left behind.
Landed_RowOnly(t) == {}

\* The audit rows that land with the commit.
Landed(t) == entries[t]

Commit(t) ==
  /\ At(t, "commit")
  /\ code' = [i \in Existing \cup {target[t]} |->
                IF i \in Existing THEN code[i] ELSE chosen[t]]
  /\ archived' = IF archiving[t] THEN archived \cup {target[t]} ELSE archived
  /\ trail' = trail \cup Landed(t)
  /\ calm' = [r \in Readers |-> calm[r] /\ ~archiving[t]]
  /\ answers' = {}
  /\ Close(t)

\* Any exception, a lost connection, a crash of the process.
Rollback(t) ==
  /\ ~At(t, "idle")
  /\ answers' = {}
  /\ Close(t)
  /\ NothingCommitted
  /\ UNCHANGED calm

-----------------------------------------------------------------------------
(* The readers *)

\* The rows a list contains, by their place in its order. The list of
\* influencers hides the archived ones.
Rows(s) ==
  CASE s[1] = "list"    -> Existing \ archived
    [] s[1] = "trail"   -> {e.number : e \in trail}
    [] s[1] = "history" -> {e.number : e \in {x \in trail : x.about = s[2]}}

\* Fault: the offset is one too far.
Page_OffByOne(rows, from) ==
  {k \in rows : Cardinality({j \in rows : j > k}) \in (from + 1)..(from + PageSize)}

\* ORDER BY ... DESC LIMIT PageSize OFFSET from
Page(rows, from) ==
  {k \in rows : Cardinality({j \in rows : j > k}) \in from..(from + PageSize - 1)}

\* Faults: the count keeps a filter the page does not have, or loses one.
Total_Drifted(s) ==
  Cardinality(IF s[1] = "list" THEN Rows(s)
              ELSE {e.number : e \in {x \in trail : x.about = s[2]}})

\* The count query, on the predicates it shares with the page.
Total(s) == Cardinality(Rows(s))

\* A client opens a list at its first page. The history looks its influencer
\* up first, for every page; there is none to page through before it exists.
Open(r, s) ==
  /\ at[r] = "idle"
  /\ s[1] = "history" => s[2] \in Existing
  /\ at' = [at EXCEPT ![r] = "page"]
  /\ source' = [source EXCEPT ![r] = s]
  /\ answers' = {}
  /\ NothingCommitted
  /\ UNCHANGED <<writer, offset, page, seen, first, calm>>

ReadPage(r) ==
  LET rows == Rows(source[r])
      new  == Page(rows, offset[r])
  IN
  /\ at[r] = "page"
  /\ page' = [page EXCEPT ![r] = new]
  /\ seen' = [seen EXCEPT ![r] = seen[r] \cup new]
  /\ first' = IF offset[r] = 0 THEN [first EXCEPT ![r] = rows] ELSE first
  /\ calm' = IF offset[r] = 0 THEN [calm EXCEPT ![r] = TRUE] ELSE calm
  /\ at' = [at EXCEPT ![r] = "count"]
  /\ answers' = {}
  /\ NothingCommitted
  /\ UNCHANGED <<writer, source, offset>>

\* The total, and the response; a client that has more to read goes on to
\* the next page.
Count(r) ==
  LET more == offset[r] + PageSize < Total(source[r]) IN
  /\ at[r] = "count"
  /\ at' = [at EXCEPT ![r] = IF more THEN "page" ELSE "done"]
  /\ offset' = [offset EXCEPT ![r] = IF more THEN offset[r] + PageSize ELSE offset[r]]
  /\ page' = [page EXCEPT ![r] = {}]
  /\ answers' = {}
  /\ NothingCommitted
  /\ UNCHANGED <<writer, source, seen, first, calm>>

\* The client leaves the list, at any page.
Leave(r) ==
  /\ at[r] # "idle"
  /\ at' = [at EXCEPT ![r] = "idle"]
  /\ source' = [source EXCEPT ![r] = NoSource]
  /\ offset' = [offset EXCEPT ![r] = 0]
  /\ page' = [page EXCEPT ![r] = {}]
  /\ seen' = [seen EXCEPT ![r] = {}]
  /\ first' = [first EXCEPT ![r] = {}]
  /\ calm' = [calm EXCEPT ![r] = TRUE]
  /\ answers' = {}
  /\ NothingCommitted
  /\ UNCHANGED writer

-----------------------------------------------------------------------------
Write(t) ==
  \/ InsertInfluencer(t)
  \/ InsertConflict(t)
  \/ Record(t)
  \/ Commit(t)
  \/ Rollback(t)
  \/ \E c \in Codes : RefuseCreation(t, c) \/ \E i \in Influencers : Create(t, i, c)
  \/ \E i \in Influencers, rows \in {1, 2}, archive \in BOOLEAN :
       Change(t, i, rows, archive)

Read(r) ==
  \/ \E s \in Sources : Open(r, s)
  \/ ReadPage(r)
  \/ Count(r)
  \/ Leave(r)

Next == (\E t \in Writers : Write(t)) \/ (\E r \in Readers : Read(r))

Spec == Init /\ [][Next]_vars

-----------------------------------------------------------------------------
(* Properties *)

\* Every variable stays in its set.
TypeOK ==
  /\ Existing \subseteq Influencers /\ code \in [Existing -> Codes]
  /\ archived \subseteq Existing
  /\ trail \subseteq Entry
  /\ sequence \in 0..MaxEntries
  /\ claim \in [Codes -> Writers \cup {Nobody}]
  /\ answers \subseteq Codes
  /\ pc \in [Writers -> {"idle", "insert", "record", "commit"}]
  /\ target \in [Writers -> Influencers \cup {Elsewhere}]
  /\ chosen \in [Writers -> Codes \cup {NoCode}]
  /\ archiving \in [Writers -> BOOLEAN]
  /\ todo \in [Writers -> 0..2]
  /\ entries \in [Writers -> SUBSET Entry]
  /\ at \in [Readers -> {"idle", "page", "count", "done"}]
  /\ source \in [Readers -> Sources \cup {NoSource}]
  /\ offset \in [Readers -> Nat]
  /\ page \in [Readers -> SUBSET Nat]
  /\ seen \in [Readers -> SUBSET Nat]
  /\ first \in [Readers -> SUBSET Nat]
  /\ calm \in [Readers -> BOOLEAN]

\* Two influencers never share a code.
UniqueCodes == \A i, j \in Existing : code[i] = code[j] => i = j

\* The codes of the influencers are a book (see Codebook): an influencer is
\* entered once, under a code of its own, for good, although create looks for
\* the code in one statement and inserts in another; and a code is never
\* refused when its only claimant might still roll back, the loser of a race
\* waits for the winner.
Book == INSTANCE Codebook WITH
  Names   <- Influencers,
  book    <- code,
  refused <- answers

ImplementsCodebook == Book!Spec

\* Two entries of the trail never share a number, and an influencer that can
\* be found has a history that begins with its creation.
TrailIsComplete ==
  /\ \A d, e \in trail : d.number = e.number => d = e
  /\ \A i \in Existing : \E e \in trail : e.about = i

\* A page of the trail or of a history is never longer than its total says,
\* whatever commits between the two statements.
TotalCoversPage ==
  [][\A r \in Readers :
       at[r] = "count" /\ at'[r] # "idle" /\ source[r][1] # "list"
       /\ page[r] # {} => offset[r] + Cardinality(page[r]) <= Total(source[r])]_at

\* A client that pages to the end has been shown everything that was there
\* when it started, although entries with lower numbers appear late. Of the
\* influencers that holds unless one was archived meanwhile, which shifts the
\* rows behind it past the reader.
NothingSkipped ==
  \A r \in Readers : at[r] = "done" =>
    \/ first[r] \subseteq seen[r]
    \/ source[r][1] = "list" /\ ~calm[r]
=============================================================================
