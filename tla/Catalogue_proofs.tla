-------------------------- MODULE Catalogue_proofs ---------------------------
(***************************************************************************)
(* Proofs about Catalogue, for any sets of influencers, codes, writers and *)
(* readers, any page size and any bound on the trail.                      *)
(***************************************************************************)
EXTENDS Catalogue, FiniteSetTheorems, TLAPS

-----------------------------------------------------------------------------
(* The inductive invariant *)

\* Where a writer is says what it has pending.
Writing(t) ==
  /\ pc[t] = "idle" => entries[t] = {} /\ target[t] = Elsewhere /\ ~archiving[t]
  /\ pc[t] # "idle" => target[t] \in Influencers
  /\ pc[t] = "insert" =>
       /\ target[t] \notin Existing
       /\ chosen[t] \in Codes
       /\ entries[t] = {}
       /\ todo[t] = 1
       /\ ~archiving[t]
  /\ pc[t] \in {"record", "commit"} =>
       \/ target[t] \in Existing
       \/ chosen[t] \in Codes /\ claim[chosen[t]] = t
  /\ pc[t] = "record" => todo[t] \in {1, 2}
  /\ pc[t] = "commit" => \E e \in entries[t] : e.about = target[t]

\* The holder of a key of the index is a creation whose row is not committed.
Claimed(c) ==
  claim[c] # Nobody =>
    /\ c \notin TakenCodes
    /\ chosen[claim[c]] = c
    /\ pc[claim[c]] \in {"record", "commit"}
    /\ target[claim[c]] \notin Existing

\* Two creations never share a primary key.
Apart(t, u) ==
  t # u /\ pc[t] # "idle" /\ target[t] \notin Existing => target[u] # target[t]

\* The audit rows inserted, committed or not.
Inserted == trail \cup UNION {entries[t] : t \in Writers}

\* Each number was allocated once.
Numbered ==
  /\ \A e \in Inserted : e.number <= sequence
  /\ \A d, e \in Inserted : d.number = e.number => d = e

\* The second half of TrailIsComplete.
Documented == \A i \in Existing : \E e \in trail : e.about = i

\* Nothing has left the list of a reader since its first page.
Steady(r) == source[r][1] # "list" \/ calm[r]

\* How many rows of a list come before one of its rows.
Rank(rows, k) == Cardinality({j \in rows : j > k})

\* What a reader has not been shown yet is still in front of it.
Ahead(r, n) ==
  Steady(r) =>
    \A k \in first[r] \ seen[r] :
      k \in Rows(source[r]) /\ Rank(Rows(source[r]), k) >= n

\* The total will cover the page that the reader holds.
Covered(r) ==
  source[r][1] # "list" /\ page[r] # {} =>
    offset[r] + Cardinality(page[r]) <= Total(source[r])

Paging(r) ==
  /\ at[r] # "idle" => source[r] \in Sources
  /\ at[r] = "idle" => offset[r] = 0
  /\ at[r] = "page" /\ offset[r] # 0 => Ahead(r, offset[r])
  /\ at[r] = "count" =>
       /\ Ahead(r, offset[r] + PageSize)
       /\ IsFiniteSet(page[r]) /\ Covered(r)
  /\ at[r] = "done" /\ Steady(r) => first[r] \subseteq seen[r]

WritersInv ==
  /\ \A t \in Writers : Writing(t)
  /\ \A c \in Codes : Claimed(c)
  /\ \A t, u \in Writers : Apart(t, u)

RowsInv ==
  /\ IsFiniteSet(Existing)
  /\ UniqueCodes
  /\ Numbered
  /\ Documented

IInv ==
  /\ TypeOK
  /\ WritersInv
  /\ RowsInv
  /\ \A r \in Readers : Paging(r)

-----------------------------------------------------------------------------
(* Lemmas about pages *)

\* The rows of a list are finitely many numbers.
LEMMA RowsFinite ==
  ASSUME TypeOK, IsFiniteSet(Existing), NEW s \in Sources
  PROVE  Rows(s) \in SUBSET Nat /\ IsFiniteSet(Rows(s))
<1>1. MaxEntries \in Nat /\ Influencers \subseteq Nat
  BY CatalogueAssumption
<1>2. IsFiniteSet(1..MaxEntries)
  BY <1>1, FS_Interval
<1>3. \A e \in trail : e.number \in 1..MaxEntries
  BY DEF TypeOK, Entry
<1>4. CASE s[1] = "list"
  <2>1. Rows(s) \in SUBSET Existing
    BY <1>4 DEF Rows
  <2> QED
    BY <1>1, <2>1, FS_Subset DEF TypeOK
<1>5. CASE s[1] # "list"
  <2>1. s[1] = "trail" \/ s[1] = "history"
    BY <1>5 DEF Sources
  <2>2. Rows(s) \in SUBSET (1..MaxEntries)
    BY <1>3, <2>1 DEF Rows
  <2>3. \A n \in 1..MaxEntries : n \in Nat
    BY <1>1
  <2> QED
    BY <1>2, <2>2, <2>3, FS_Subset
<1> QED
  BY <1>4, <1>5

\* Rows that appear only push a row back.
LEMMA RankGrows ==
  ASSUME NEW rows, NEW more, IsFiniteSet(more), rows \subseteq more, NEW k
  PROVE  /\ Rank(rows, k) \in Nat /\ Rank(more, k) \in Nat
         /\ Rank(rows, k) <= Rank(more, k)
<1>1. {j \in more : j > k} \in SUBSET more
  OBVIOUS
<1>2. IsFiniteSet({j \in more : j > k})
  BY <1>1, FS_Subset
<1>3. {j \in rows : j > k} \in SUBSET {j \in more : j > k}
  OBVIOUS
<1>4. IsFiniteSet({j \in rows : j > k})
  BY <1>2, <1>3, FS_Subset
<1> QED
  BY <1>2, <1>3, <1>4, FS_Subset, FS_CardinalityType DEF Rank

\* A row of a list is not behind all of its rows.
LEMMA RankInside ==
  ASSUME NEW rows \in SUBSET Nat, IsFiniteSet(rows), NEW k \in rows
  PROVE  Rank(rows, k) < Cardinality(rows)
<1>1. {j \in rows : j > k} \in SUBSET rows
  OBVIOUS
<1>2. k \notin {j \in rows : j > k}
  OBVIOUS
<1>3. {j \in rows : j > k} # rows
  BY <1>2
<1> QED
  BY <1>1, <1>3, FS_Subset, FS_CardinalityType DEF Rank

\* The rows at or after an offset that its page does not show come after it.
LEMMA PageTakes ==
  ASSUME NEW rows \in SUBSET Nat, IsFiniteSet(rows), NEW from \in Nat,
         NEW k \in rows, Rank(rows, k) >= from, k \notin Page(rows, from)
  PROVE  Rank(rows, k) >= from + PageSize
<1>1. Rank(rows, k) \in Nat
  BY RankGrows
<1>2. Rank(rows, k) \notin from..(from + PageSize - 1)
  BY DEF Page, Rank
<1> QED
  BY <1>1, <1>2, CatalogueAssumption

\* A page with something on it ends within the rows of its list.
LEMMA PageCovered ==
  ASSUME NEW rows \in SUBSET Nat, IsFiniteSet(rows), NEW from \in Nat,
         Page(rows, from) # {}
  PROVE  from + Cardinality(Page(rows, from)) <= Cardinality(rows)
<1>1. PICK shown \in SUBSET rows : shown = Page(rows, from)
  BY DEF Page
<1>2. \A k \in shown : k \in rows /\ k \in Nat /\ Rank(rows, k) \in Nat /\ Rank(rows, k) >= from
  <2> SUFFICES ASSUME NEW k \in shown
               PROVE  k \in rows /\ k \in Nat /\ Rank(rows, k) \in Nat /\ Rank(rows, k) >= from
    OBVIOUS
  <2>1. Rank(rows, k) \in from..(from + PageSize - 1)
    BY <1>1 DEF Page, Rank
  <2>2. k \in rows /\ k \in Nat
    OBVIOUS
  <2> QED
    BY <2>1, <2>2, RankGrows, CatalogueAssumption
<1>3. {Rank(rows, k) : k \in shown} \in SUBSET Nat /\ {Rank(rows, k) : k \in shown} # {}
  BY <1>1, <1>2
<1>4. PICK n \in {Rank(rows, k) : k \in shown} :
        \A m \in {Rank(rows, k) : k \in shown} : ~(<<m, n>> \in OpToRel(<, Nat))
  BY <1>3, NatLessThanWellFounded, WFMin
<1>5. PICK top \in shown : n = Rank(rows, top)
  BY <1>4
<1>6. \A k \in shown : Rank(rows, top) <= Rank(rows, k)
  <2> SUFFICES ASSUME NEW k \in shown PROVE Rank(rows, top) <= Rank(rows, k)
    OBVIOUS
  <2>1. Rank(rows, k) \in Nat /\ Rank(rows, top) \in Nat
    BY <1>2
  <2>2. ~(<<Rank(rows, k), Rank(rows, top)>> \in OpToRel(<, Nat))
    BY <1>4, <1>5
  <2>3. ~(Rank(rows, k) < Rank(rows, top))
    BY <2>1, <2>2 DEF OpToRel
  <2> QED
    BY <2>1, <2>3
<1>7. \A k \in shown : ~(k > top)
  <2> SUFFICES ASSUME NEW k \in shown, k > top PROVE FALSE
    OBVIOUS
  <2>0. k \in Nat /\ top \in Nat /\ k \in rows
    BY <1>2
  <2>1. {j \in rows : j > k} \in SUBSET {j \in rows : j > top}
    <3>1. \A j \in rows : j > k => j > top
      <4> SUFFICES ASSUME NEW j \in rows, j > k PROVE j > top
        OBVIOUS
      <4>1. j \in Nat
        OBVIOUS
      <4> QED
        BY <2>0, <4>1
    <3> QED
      BY <3>1
  <2>2. k \in {j \in rows : j > top} /\ k \notin {j \in rows : j > k}
    BY <2>0
  <2>3. {j \in rows : j > top} \in SUBSET rows
    OBVIOUS
  <2>4. IsFiniteSet({j \in rows : j > top})
    BY <2>3, FS_Subset
  <2>5. /\ IsFiniteSet({j \in rows : j > k})
        /\ Cardinality({j \in rows : j > k}) <= Cardinality({j \in rows : j > top})
        /\ Cardinality({j \in rows : j > k}) # Cardinality({j \in rows : j > top})
    <3>1. {j \in rows : j > k} # {j \in rows : j > top}
      BY <2>2
    <3> QED
      BY <2>1, <2>4, <3>1, FS_Subset
  <2>6. Rank(rows, k) <= Rank(rows, top) /\ Rank(rows, k) # Rank(rows, top)
    BY <2>5 DEF Rank
  <2> QED
    BY <1>2, <1>6, <2>6
<1>8. shown \cap {j \in rows : j > top} = {}
  BY <1>7
<1>9. shown \cup {j \in rows : j > top} \in SUBSET rows
  BY <1>1
<1>10. IsFiniteSet(shown) /\ IsFiniteSet({j \in rows : j > top})
  <2>1. {j \in rows : j > top} \in SUBSET rows
    OBVIOUS
  <2> QED
    BY <1>1, <2>1, FS_Subset
<1>11. Cardinality(shown \cup {j \in rows : j > top})
         = Cardinality(shown) + Rank(rows, top)
  <2>1. Cardinality(shown \cup {j \in rows : j > top})
          = Cardinality(shown) + Rank(rows, top) - Cardinality({})
    BY <1>8, <1>10, FS_Union DEF Rank
  <2> QED
    BY <2>1, <1>2, <1>5, <1>10, FS_EmptySet, FS_CardinalityType
<1>12. Cardinality(shown \cup {j \in rows : j > top}) <= Cardinality(rows)
  BY <1>9, FS_Subset
<1>13. Cardinality(shown) \in Nat /\ Cardinality(rows) \in Nat
  BY <1>10, FS_CardinalityType
<1> QED
  BY <1>1, <1>2, <1>5, <1>11, <1>12, <1>13

-----------------------------------------------------------------------------
(* The invariant is inductive *)

\* Empty tables and nobody at work satisfy it.
LEMMA InitEstablishes == Init => IInv
<1> SUFFICES ASSUME Init PROVE IInv
  OBVIOUS
<1>1. Existing = {} /\ TakenCodes = {}
  BY DEF Init, Existing, TakenCodes
<1>2. TypeOK
  BY <1>1, CatalogueAssumption DEF Init, TypeOK, Existing
<1>3. WritersInv
  BY CatalogueAssumption DEF Init, WritersInv, Writing, Claimed, Apart
<1>4. RowsInv
  <2>1. Inserted = {}
    BY DEF Init, Inserted
  <2> QED
    BY <1>1, <2>1, FS_EmptySet DEF RowsInv, UniqueCodes, Numbered, Documented
<1>5. \A r \in Readers : Paging(r)
  BY DEF Init, Paging
<1> QED
  BY <1>2, <1>3, <1>4, <1>5 DEF IInv

\* A reader that stays where it is keeps its part when rows only appear, save
\* that the archival of an influencer ends the calm.
LEMMA RowsAppear ==
  ASSUME IInv, TypeOK', IsFiniteSet(Existing'), NEW r \in Readers,
         UNCHANGED <<at, source, offset, page, seen, first>>,
         Existing \subseteq Existing', trail \subseteq trail',
         calm'[r] => calm[r] /\ archived' = archived
  PROVE  Paging(r)'
<1>1. CASE at[r] = "idle"
  BY <1>1 DEF Paging, IInv
<1>2. CASE at[r] # "idle"
  <2>1. source[r] \in Sources /\ source'[r] = source[r]
    BY <1>2 DEF Paging, IInv
  <2>2. PICK s \in Sources : s = source[r]
    BY <2>1
  <2>3. IsFiniteSet(Rows(s)) /\ Rows(s) \in SUBSET Nat
    BY <2>2, RowsFinite DEF IInv, RowsInv
  <2>4. IsFiniteSet(Rows(s)') /\ Rows(s)' \in SUBSET Nat
    <3>1. CASE s[1] = "list"
      <4>1. Rows(s)' \in SUBSET Existing'
        BY <3>1 DEF Rows
      <4>2. Existing' \subseteq Nat
        BY CatalogueAssumption DEF TypeOK
      <4> QED
        BY <4>1, <4>2, FS_Subset
    <3>2. CASE s[1] # "list"
      <4>1. s[1] = "trail" \/ s[1] = "history"
        BY <3>2 DEF Sources
      <4>2. \A e \in trail' : e.number \in 1..MaxEntries
        BY DEF TypeOK, Entry
      <4>3. Rows(s)' \in SUBSET (1..MaxEntries)
        BY <4>1, <4>2 DEF Rows
      <4>4. MaxEntries \in Nat /\ IsFiniteSet(1..MaxEntries)
        BY FS_Interval, CatalogueAssumption
      <4>5. \A n \in 1..MaxEntries : n \in Nat
        BY <4>4
      <4> QED
        BY <4>3, <4>4, <4>5, FS_Subset
    <3> QED
      BY <3>1, <3>2
  <2>5. Steady(r)' => Steady(r) /\ (s[1] # "list" \/ archived' = archived)
    BY <2>1, <2>2 DEF Steady
  <2>6. s[1] # "list" \/ archived' = archived => Rows(s) \subseteq Rows(s)'
    BY DEF Rows, Sources
  <2>7. ASSUME NEW n \in Nat, Ahead(r, n) PROVE Ahead(r, n)'
    <3> SUFFICES ASSUME Steady(r)', NEW k \in first[r] \ seen[r]
                 PROVE  k \in Rows(s)' /\ Rank(Rows(s)', k) >= n
      BY <2>1, <2>2 DEF Ahead, Rank
    <3>1. k \in Rows(s) /\ Rank(Rows(s), k) >= n
      BY <2>2, <2>5, <2>7 DEF Ahead
    <3>2. Rows(s) \subseteq Rows(s)'
      BY <2>5, <2>6
    <3>3. PICK rows, more : rows = Rows(s) /\ more = Rows(s)'
      OBVIOUS
    <3>4. Rank(rows, k) \in Nat /\ Rank(more, k) \in Nat /\ Rank(rows, k) <= Rank(more, k)
      BY <2>4, <3>2, <3>3, RankGrows
    <3>5. k \in more /\ Rank(more, k) >= n
      BY <3>1, <3>2, <3>3, <3>4
    <3> QED
      BY <3>3, <3>5
  <2>8. IsFiniteSet(page[r]) /\ Covered(r) => Covered(r)'
    <3> SUFFICES ASSUME IsFiniteSet(page[r]), Covered(r), s[1] # "list", page[r] # {}
                 PROVE  offset[r] + Cardinality(page[r]) <= Cardinality(Rows(s)')
      BY <2>1, <2>2 DEF Covered, Total
    <3>1. offset[r] + Cardinality(page[r]) <= Cardinality(Rows(s))
      BY <2>2 DEF Covered, Total
    <3>2. PICK rows, more : rows = Rows(s) /\ more = Rows(s)'
      OBVIOUS
    <3>3. rows \in SUBSET more
      BY <2>6, <3>2
    <3>4. Cardinality(rows) <= Cardinality(more)
      BY <2>4, <3>2, <3>3, FS_Subset
    <3>5. Cardinality(rows) \in Nat /\ Cardinality(more) \in Nat
      BY <2>3, <2>4, <3>2, FS_CardinalityType
    <3>6. Cardinality(page[r]) \in Nat
      BY FS_CardinalityType
    <3>7. offset[r] \in Nat
      BY DEF IInv, TypeOK
    <3> QED
      BY <3>1, <3>2, <3>4, <3>5, <3>6, <3>7
  <2>9. offset[r] \in Nat /\ offset[r] + PageSize \in Nat
    BY CatalogueAssumption DEF IInv, TypeOK
  <2>10. Paging(r)
    BY DEF IInv
  <2>11. at[r] = "page" /\ offset[r] # 0 => Ahead(r, offset[r])'
    <3>1. PICK n \in Nat : n = offset[r] /\ n = offset'[r]
      BY <2>9
    <3>2. at[r] = "page" /\ offset[r] # 0 => Ahead(r, n)'
      BY <2>7, <2>10, <3>1 DEF Paging
    <3> QED
      BY <3>1, <3>2
  <2>12. at[r] = "count" =>
           Ahead(r, offset[r] + PageSize)' /\ IsFiniteSet(page'[r]) /\ Covered(r)'
    <3>1. PICK n \in Nat : n = offset[r] + PageSize /\ n = offset'[r] + PageSize
      BY <2>9
    <3>2. at[r] = "count" => Ahead(r, n)' /\ IsFiniteSet(page'[r]) /\ Covered(r)'
      BY <2>7, <2>8, <2>10, <3>1 DEF Paging
    <3> QED
      BY <3>1, <3>2
  <2>13. at[r] = "done" /\ Steady(r)' => first[r] \subseteq seen[r]
    BY <2>5, <2>10 DEF Paging
  <2> QED
    BY <1>2, <2>1, <2>11, <2>12, <2>13 DEF Paging
<1> QED
  BY <1>1, <1>2

\* Steps that commit nothing and allocate no number leave the tables in order.
LEMMA RowsStay ==
  ASSUME IInv, UNCHANGED tables, UNCHANGED sequence,
         \A t \in Writers : entries'[t] \subseteq entries[t]
  PROVE  RowsInv'
<1>1. Existing' = Existing /\ TakenCodes' = TakenCodes
  BY DEF tables, Existing, TakenCodes
<1>2. Inserted' \subseteq Inserted
  BY DEF tables, Inserted
<1>3. Numbered'
  BY <1>2 DEF IInv, RowsInv, Numbered
<1> QED
  BY <1>1, <1>3 DEF IInv, RowsInv, UniqueCodes, Documented, tables

\* A step of one writer leaves what the others have pending, as long as it
\* commits nothing and takes no key of theirs.
LEMMA OthersStay ==
  ASSUME IInv, NEW t \in Writers, UNCHANGED tables,
         \A c \in Codes : claim[c] \in Writers \ {t} => claim'[c] = claim[c],
         NEW u \in Writers \ {t},
         /\ pc'[u] = pc[u] /\ target'[u] = target[u] /\ chosen'[u] = chosen[u]
         /\ archiving'[u] = archiving[u] /\ todo'[u] = todo[u] /\ entries'[u] = entries[u]
  PROVE  Writing(u)'
<1>1. Existing' = Existing
  BY DEF tables, Existing
<1>2. Writing(u)
  BY DEF IInv, WritersInv
<1>3. chosen[u] \in Codes /\ claim[chosen[u]] = u => claim'[chosen[u]] = u
  OBVIOUS
<1> QED
  BY <1>1, <1>2, <1>3 DEF Writing

\* create, once the code was not found.
LEMMA CreateStep ==
  ASSUME IInv, NEW t \in Writers, NEW i \in Influencers, NEW c \in Codes,
         Create(t, i, c)
  PROVE  IInv'
<1>1. TypeOK'
  BY DEF IInv, TypeOK, Create, At, Goto, NothingCommitted, tables, reader, Existing
<1>2. WritersInv'
  <2>1. Existing' = Existing /\ TakenCodes' = TakenCodes
    BY DEF Create, NothingCommitted, tables, Existing, TakenCodes
  <2>2. ASSUME NEW u \in Writers \ {t} PROVE Writing(u)'
    BY <2>2, OthersStay DEF Create, Goto, NothingCommitted, IInv, TypeOK
  <2>3. Writing(t)
    BY DEF IInv, WritersInv
  <2>4. Writing(t)'
    BY <2>1, <2>3 DEF Writing, Create, At, Goto, Fresh, IInv, TypeOK
  <2>5. ASSUME NEW d \in Codes PROVE Claimed(d)'
    <3>1. Claimed(d)
      BY DEF IInv, WritersInv
    <3>2. claim[d] # t
      BY <3>1, CatalogueAssumption DEF Claimed, Create, At
    <3>3. claim[d] \in Writers \cup {Nobody}
      BY DEF IInv, TypeOK
    <3> QED
      BY <2>1, <3>1, <3>2, <3>3 DEF Claimed, Create, Goto, IInv, TypeOK
  <2>6. ASSUME NEW u \in Writers, NEW w \in Writers PROVE Apart(u, w)'
    <3>1. Apart(u, w)
      BY DEF IInv, WritersInv
    <3>2. target[u] # i /\ target[w] # i
      BY DEF Create, Fresh
    <3> QED
      BY <2>1, <3>1, <3>2 DEF Apart, Create, Goto, IInv, TypeOK
  <2> QED
    BY <2>2, <2>4, <2>5, <2>6 DEF WritersInv
<1>3. RowsInv'
  BY RowsStay DEF Create, NothingCommitted
<1>4. ASSUME NEW r \in Readers PROVE Paging(r)'
  BY <1>1, <1>3, RowsAppear DEF RowsInv, Create, NothingCommitted, tables, reader, Existing
<1> QED
  BY <1>1, <1>2, <1>3, <1>4 DEF IInv

\* A PATCH, a transition or a new version begins.
LEMMA ChangeStep ==
  ASSUME IInv, NEW t \in Writers, NEW i \in Influencers, NEW rows \in {1, 2},
         NEW archive \in BOOLEAN, Change(t, i, rows, archive)
  PROVE  IInv'
<1>1. TypeOK'
  BY DEF IInv, TypeOK, Change, At, Goto, NothingCommitted, tables, reader, Existing
<1>2. WritersInv'
  <2>1. Existing' = Existing /\ TakenCodes' = TakenCodes /\ i \in Existing
    BY DEF Change, NothingCommitted, tables, Existing, TakenCodes
  <2>2. ASSUME NEW u \in Writers \ {t} PROVE Writing(u)'
    BY <2>2, OthersStay DEF Change, Goto, NothingCommitted, IInv, TypeOK
  <2>3. Writing(t)
    BY DEF IInv, WritersInv
  <2>4. Writing(t)'
    BY <2>1, <2>3 DEF Writing, Change, At, Goto, IInv, TypeOK
  <2>5. ASSUME NEW d \in Codes PROVE Claimed(d)'
    <3>1. Claimed(d)
      BY DEF IInv, WritersInv
    <3>2. claim[d] # t
      BY <3>1, CatalogueAssumption DEF Claimed, Change, At
    <3>3. claim[d] \in Writers \cup {Nobody}
      BY DEF IInv, TypeOK
    <3> QED
      BY <2>1, <3>1, <3>2, <3>3 DEF Claimed, Change, Goto, IInv, TypeOK
  <2>6. ASSUME NEW u \in Writers, NEW w \in Writers PROVE Apart(u, w)'
    <3>1. Apart(u, w)
      BY DEF IInv, WritersInv
    <3> QED
      BY <2>1, <3>1 DEF Apart, Change, Goto, IInv, TypeOK
  <2> QED
    BY <2>2, <2>4, <2>5, <2>6 DEF WritersInv
<1>3. RowsInv'
  BY RowsStay DEF Change, NothingCommitted
<1>4. ASSUME NEW r \in Readers PROVE Paging(r)'
  BY <1>1, <1>3, RowsAppear DEF RowsInv, Change, NothingCommitted, tables, reader, Existing
<1> QED
  BY <1>1, <1>2, <1>3, <1>4 DEF IInv

\* The INSERT of a creation takes the key of its code.
LEMMA InsertStep ==
  ASSUME IInv, NEW t \in Writers, InsertInfluencer(t)
  PROVE  IInv'
<1>0. Writing(t)
  BY DEF IInv, WritersInv
<1>1. TypeOK'
  BY <1>0 DEF IInv, TypeOK, InsertInfluencer, At, Goto, NothingCommitted, tables,
              reader, Existing, Writing
<1>2. WritersInv'
  <2>1. Existing' = Existing /\ TakenCodes' = TakenCodes
    BY DEF InsertInfluencer, NothingCommitted, tables, Existing, TakenCodes
  <2>2. ASSUME NEW u \in Writers \ {t} PROVE Writing(u)'
    BY <2>2, OthersStay, CatalogueAssumption
       DEF InsertInfluencer, Goto, NothingCommitted, IInv, TypeOK
  <2>4. Writing(t)'
    BY <2>1, <1>0 DEF Writing, InsertInfluencer, At, Goto, IInv, TypeOK
  <2>5. ASSUME NEW d \in Codes PROVE Claimed(d)'
    <3>1. Claimed(d)
      BY DEF IInv, WritersInv
    <3>2. CASE d = chosen[t]
      BY <2>1, <3>2, <1>0 DEF Claimed, Writing, InsertInfluencer, At, Goto,
                              IndexAdmits, IInv, TypeOK
    <3>3. CASE d # chosen[t]
      <4>1. claim[d] \in Writers \cup {Nobody}
        BY DEF IInv, TypeOK
      <4> QED
        BY <2>1, <3>1, <3>3, <4>1 DEF Claimed, InsertInfluencer, At, Goto, IInv, TypeOK
    <3> QED
      BY <3>2, <3>3
  <2>6. ASSUME NEW u \in Writers, NEW w \in Writers PROVE Apart(u, w)'
    <3>1. Apart(u, w)
      BY DEF IInv, WritersInv
    <3> QED
      BY <2>1, <3>1 DEF Apart, InsertInfluencer, At, Goto, IInv, TypeOK
  <2> QED
    BY <2>2, <2>4, <2>5, <2>6 DEF WritersInv
<1>3. RowsInv'
  BY RowsStay DEF InsertInfluencer, NothingCommitted
<1>4. ASSUME NEW r \in Readers PROVE Paging(r)'
  BY <1>1, <1>3, RowsAppear DEF RowsInv, InsertInfluencer, NothingCommitted, tables,
                                reader, Existing
<1> QED
  BY <1>1, <1>2, <1>3, <1>4 DEF IInv

\* A transaction that ends without a commit: a refusal, an error, a crash.
LEMMA CloseStep ==
  ASSUME IInv, NEW t \in Writers, Close(t), NothingCommitted, UNCHANGED calm,
         answers' \subseteq Codes
  PROVE  IInv'
<1>1. TypeOK'
  BY DEF IInv, TypeOK, Close, Goto, NothingCommitted, tables, Existing
<1>2. WritersInv'
  <2>1. Existing' = Existing /\ TakenCodes' = TakenCodes
    BY DEF NothingCommitted, tables, Existing, TakenCodes
  <2>2. ASSUME NEW u \in Writers \ {t} PROVE Writing(u)'
    BY <2>2, OthersStay DEF Close, Goto, NothingCommitted, IInv, TypeOK
  <2>4. Writing(t)'
    BY DEF Writing, Close, Goto, IInv, TypeOK
  <2>5. ASSUME NEW d \in Codes PROVE Claimed(d)'
    <3>1. Claimed(d)
      BY DEF IInv, WritersInv
    <3>2. claim[d] \in Writers \cup {Nobody}
      BY DEF IInv, TypeOK
    <3> QED
      BY <2>1, <3>1, <3>2 DEF Claimed, Close, Goto, IInv, TypeOK
  <2>6. ASSUME NEW u \in Writers, NEW w \in Writers PROVE Apart(u, w)'
    <3>1. Apart(u, w) /\ Writing(u)
      BY DEF IInv, WritersInv
    <3>2. Elsewhere \notin Influencers
      BY CatalogueAssumption DEF Elsewhere
    <3> QED
      BY <2>1, <3>1, <3>2 DEF Apart, Close, Goto, Writing, IInv, TypeOK
  <2> QED
    BY <2>2, <2>4, <2>5, <2>6 DEF WritersInv
<1>3. RowsInv'
  BY RowsStay DEF Close, NothingCommitted, IInv, TypeOK
<1>4. ASSUME NEW r \in Readers PROVE Paging(r)'
  BY <1>1, <1>3, RowsAppear DEF RowsInv, Close, NothingCommitted, tables, Existing
<1> QED
  BY <1>1, <1>2, <1>3, <1>4 DEF IInv

\* AuditService.record allocates a number nobody has.
LEMMA RecordStep ==
  ASSUME IInv, NEW t \in Writers, Record(t)
  PROVE  IInv'
<1>0. Writing(t) /\ todo[t] \in {1, 2}
  BY DEF IInv, WritersInv, Writing, Record, At
<1>1. PICK e : e = [number |-> sequence + 1,
                    about  |-> IF todo[t] = 1 THEN target[t] ELSE Elsewhere]
  OBVIOUS
<1>2. entries' = [entries EXCEPT ![t] = entries[t] \cup {e}]
  BY <1>1 DEF Record, NextNumber
<1>3. e \in Entry /\ e.number = sequence + 1
  <2>1. target[t] \in Influencers \cup {Elsewhere}
    BY DEF IInv, TypeOK
  <2>2. sequence + 1 \in 1..MaxEntries
    BY CatalogueAssumption DEF IInv, TypeOK, Record
  <2> QED
    BY <1>1, <2>1, <2>2 DEF Entry
<1>4. TypeOK'
  <2>1. entries' \in [Writers -> SUBSET Entry]
    BY <1>2, <1>3 DEF IInv, TypeOK
  <2>2. sequence' \in 0..MaxEntries
    BY CatalogueAssumption DEF IInv, TypeOK, Record
  <2>3. todo' \in [Writers -> 0..2] /\ pc' \in [Writers -> {"idle", "insert", "record", "commit"}]
    BY <1>0 DEF IInv, TypeOK, Record, Goto
  <2> QED
    BY <2>1, <2>2, <2>3 DEF IInv, TypeOK, Record, NothingCommitted, tables, reader, Existing
<1>5. WritersInv'
  <2>1. Existing' = Existing /\ TakenCodes' = TakenCodes
    BY DEF Record, NothingCommitted, tables, Existing, TakenCodes
  <2>2. ASSUME NEW u \in Writers \ {t} PROVE Writing(u)'
    BY <2>2, OthersStay DEF Record, Goto, NothingCommitted, IInv, TypeOK
  <2>3. Writing(t)'
    <3>1. e \in entries'[t]
      BY <1>2 DEF IInv, TypeOK
    <3>2. CASE todo[t] = 1
      <4>1. pc'[t] = "commit" /\ e.about = target'[t]
        BY <1>1, <3>2 DEF Record, Goto, IInv, TypeOK
      <4> QED
        BY <1>0, <2>1, <3>1, <4>1 DEF Writing, Record, At
    <3>3. CASE todo[t] = 2
      <4>1. pc'[t] = "record" /\ todo'[t] = 1
        BY <3>3 DEF Record, Goto, IInv, TypeOK
      <4> QED
        BY <1>0, <2>1, <4>1 DEF Writing, Record, At
    <3> QED
      BY <1>0, <3>2, <3>3
  <2>4. ASSUME NEW d \in Codes PROVE Claimed(d)'
    BY <1>0, <2>1 DEF Claimed, Record, At, Goto, IInv, WritersInv, TypeOK
  <2>5. ASSUME NEW u \in Writers, NEW w \in Writers PROVE Apart(u, w)'
    BY <2>1 DEF Apart, Record, At, Goto, IInv, WritersInv, TypeOK
  <2> QED
    BY <2>2, <2>3, <2>4, <2>5 DEF WritersInv
<1>6. RowsInv'
  <2>1. Inserted' = Inserted \cup {e}
    BY <1>2 DEF Inserted, IInv, TypeOK, Record, NothingCommitted, tables
  <2>2. \A d \in Inserted : d.number \in Nat /\ d.number <= sequence
    BY CatalogueAssumption DEF IInv, RowsInv, Numbered, Inserted, TypeOK, Entry
  <2>3. sequence \in Nat /\ sequence' = sequence + 1
    BY CatalogueAssumption DEF IInv, TypeOK, Record
  <2>4. Numbered'
    <3>1. ASSUME NEW d \in Inserted' PROVE d.number <= sequence'
      BY <1>3, <2>1, <2>2, <2>3
    <3>2. ASSUME NEW d \in Inserted', NEW f \in Inserted', d.number = f.number
          PROVE  d = f
      <4>1. ASSUME NEW x \in Inserted PROVE x.number # e.number
        BY <1>3, <2>2, <2>3
      <4>2. CASE d = e
        BY <2>1, <3>2, <4>1, <4>2
      <4>3. CASE f = e
        BY <2>1, <3>2, <4>1, <4>3
      <4>4. CASE d \in Inserted /\ f \in Inserted
        BY <3>2, <4>4 DEF IInv, RowsInv, Numbered
      <4> QED
        BY <2>1, <4>2, <4>3, <4>4
    <3> QED
      BY <3>1, <3>2 DEF Numbered
  <2> QED
    BY <2>4 DEF RowsInv, UniqueCodes, Documented, IInv, Record, NothingCommitted,
                tables, Existing
<1>7. ASSUME NEW r \in Readers PROVE Paging(r)'
  BY <1>4, <1>6, RowsAppear DEF RowsInv, Record, NothingCommitted, tables, reader, Existing
<1> QED
  BY <1>4, <1>5, <1>6, <1>7 DEF IInv

\* The commit makes the row, its code and its audit rows visible together.
LEMMA CommitStep ==
  ASSUME IInv, NEW t \in Writers, Commit(t)
  PROVE  IInv'
<1>0. Writing(t) /\ pc[t] = "commit" /\ target[t] \in Influencers
  BY DEF IInv, WritersInv, Writing, Commit, At
<1>1. Existing' = Existing \cup {target[t]}
  BY DEF Commit, Existing
<1>2. \A i \in Existing : code'[i] = code[i]
  BY DEF Commit
<1>3. \/ target[t] \in Existing /\ TakenCodes' = TakenCodes
      \/ /\ target[t] \notin Existing
         /\ chosen[t] \in Codes /\ claim[chosen[t]] = t /\ chosen[t] \notin TakenCodes
         /\ code'[target[t]] = chosen[t]
         /\ TakenCodes' = TakenCodes \cup {chosen[t]}
  <2>1. CASE target[t] \in Existing
    <3>1. Existing' = Existing
      BY <1>1, <2>1
    <3> QED
      BY <1>2, <2>1, <3>1 DEF TakenCodes
  <2>2. CASE target[t] \notin Existing
    <3>1. chosen[t] \in Codes /\ claim[chosen[t]] = t
      BY <1>0, <2>2 DEF Writing
    <3>2. chosen[t] \notin TakenCodes
      BY <3>1, CatalogueAssumption DEF IInv, WritersInv, Claimed
    <3>3. code'[target[t]] = chosen[t]
      BY <2>2 DEF Commit
    <3> QED
      BY <1>1, <1>2, <2>2, <3>1, <3>2, <3>3 DEF TakenCodes
  <2> QED
    BY <2>1, <2>2
<1>4. TypeOK'
  <2>1. code' \in [Existing' -> Codes] /\ Existing' \subseteq Influencers
    <3>1. \A i \in Existing' : code'[i] \in Codes
      BY <1>1, <1>2, <1>3 DEF IInv, TypeOK
    <3>2. code' = [i \in Existing' |-> code'[i]]
      BY <1>1 DEF Commit
    <3> QED
      BY <1>0, <1>1, <3>1, <3>2 DEF IInv, TypeOK
  <2>2. archived' \subseteq Existing'
    BY <1>1 DEF IInv, TypeOK, Commit
  <2>3. trail' \subseteq Entry
    BY DEF IInv, TypeOK, Commit, Landed
  <2> QED
    BY <2>1, <2>2, <2>3 DEF IInv, TypeOK, Commit, Close, Goto
<1>5. WritersInv'
  <2>1. ASSUME NEW u \in Writers \ {t} PROVE Writing(u)'
    <3>1. Writing(u) /\ Apart(t, u)
      BY DEF IInv, WritersInv
    <3>2. /\ pc'[u] = pc[u] /\ target'[u] = target[u] /\ chosen'[u] = chosen[u]
          /\ archiving'[u] = archiving[u] /\ todo'[u] = todo[u] /\ entries'[u] = entries[u]
      BY DEF Commit, Close, Goto, IInv, TypeOK
    <3>3. target[u] \in Existing' <=> target[u] \in Existing
      BY <1>0, <1>1, <3>1 DEF Apart
    <3>4. chosen[u] \in Codes /\ claim[chosen[u]] = u => claim'[chosen[u]] = u
      BY DEF Commit, Close
    <3> QED
      BY <3>1, <3>2, <3>3, <3>4 DEF Writing
  <2>2. Writing(t)'
    BY DEF Writing, Commit, Close, Goto, IInv, TypeOK
  <2>3. ASSUME NEW d \in Codes PROVE Claimed(d)'
    <3> SUFFICES ASSUME claim'[d] # Nobody PROVE Claimed(d)'
      BY DEF Claimed
    <3>1. claim'[d] = claim[d] /\ claim[d] # t /\ claim[d] \in Writers
      BY DEF Commit, Close, IInv, TypeOK
    <3>2. Claimed(d) /\ Apart(t, claim[d])
      BY <3>1 DEF IInv, WritersInv
    <3>3. d \notin TakenCodes'
      BY <1>3, <3>1, <3>2 DEF Claimed
    <3>4. target[claim[d]] \notin Existing'
      BY <1>0, <1>1, <3>1, <3>2 DEF Claimed, Apart
    <3> QED
      BY <3>1, <3>2, <3>3, <3>4 DEF Claimed, Commit, Close, Goto, IInv, TypeOK
  <2>4. ASSUME NEW u \in Writers, NEW w \in Writers PROVE Apart(u, w)'
    <3>1. Apart(u, w) /\ Writing(u)
      BY DEF IInv, WritersInv
    <3>2. Elsewhere \notin Influencers
      BY CatalogueAssumption DEF Elsewhere
    <3> QED
      BY <1>1, <3>1, <3>2 DEF Apart, Commit, Close, Goto, Writing, IInv, TypeOK
  <2> QED
    BY <2>1, <2>2, <2>3, <2>4 DEF WritersInv
<1>6. RowsInv'
  <2>1. IsFiniteSet(Existing')
    BY <1>1, FS_AddElement DEF IInv, RowsInv
  <2>2. UniqueCodes'
    <3> SUFFICES ASSUME NEW i \in Existing', NEW j \in Existing', code'[i] = code'[j]
                 PROVE  i = j
      BY DEF UniqueCodes
    <3>1. \A k \in Existing : code[k] \in TakenCodes
      BY DEF TakenCodes
    <3> QED
      BY <1>1, <1>2, <1>3, <3>1 DEF IInv, RowsInv, UniqueCodes
  <2>3. Numbered'
    <3>1. Inserted' \subseteq Inserted
      <4>1. trail' \subseteq Inserted
        BY DEF Commit, Landed, Inserted
      <4>2. \A u \in Writers : entries'[u] \subseteq entries[u]
        BY DEF Commit, Close, IInv, TypeOK
      <4> QED
        BY <4>1, <4>2 DEF Inserted
    <3> QED
      BY <3>1 DEF Commit, Close, IInv, RowsInv, Numbered
  <2>4. Documented'
    <3>1. PICK e \in entries[t] : e.about = target[t]
      BY <1>0 DEF Writing
    <3>2. e \in trail' /\ trail \subseteq trail'
      BY DEF Commit, Landed
    <3> QED
      BY <1>1, <3>1, <3>2 DEF IInv, RowsInv, Documented
  <2> QED
    BY <2>1, <2>2, <2>3, <2>4 DEF RowsInv
<1>7. ASSUME NEW r \in Readers PROVE Paging(r)'
  <2>1. Existing \subseteq Existing' /\ trail \subseteq trail'
    BY <1>1 DEF Commit
  <2>2. calm'[r] => calm[r] /\ archived' = archived
    BY DEF Commit
  <2>3. IsFiniteSet(Existing')
    BY <1>6 DEF RowsInv
  <2> QED
    BY <1>4, <2>1, <2>2, <2>3, RowsAppear DEF Commit, Close
<1> QED
  BY <1>4, <1>5, <1>6, <1>7 DEF IInv

\* A step of a reader is nothing to the tables, the writers and other readers.
LEMMA ReadStep ==
  ASSUME IInv, NEW r \in Readers, UNCHANGED <<tables, writer>>,
         at' \in [Readers -> {"idle", "page", "count", "done"}],
         source' \in [Readers -> Sources \cup {NoSource}],
         offset' \in [Readers -> Nat],
         page' \in [Readers -> SUBSET Nat],
         seen' \in [Readers -> SUBSET Nat],
         first' \in [Readers -> SUBSET Nat],
         calm' \in [Readers -> BOOLEAN],
         answers' = {},
         \A q \in Readers \ {r} :
           /\ at'[q] = at[q] /\ source'[q] = source[q] /\ offset'[q] = offset[q]
           /\ page'[q] = page[q] /\ seen'[q] = seen[q] /\ first'[q] = first[q]
           /\ calm'[q] = calm[q],
         Paging(r)'
  PROVE  IInv'
<1>1. TypeOK'
  BY DEF IInv, TypeOK, tables, writer, Existing
<1>2. WritersInv'
  BY DEF IInv, WritersInv, Writing, Claimed, Apart, tables, writer, Existing, TakenCodes
<1>3. RowsInv'
  BY RowsStay DEF tables, writer
<1>4. ASSUME NEW q \in Readers \ {r} PROVE Paging(q)'
  <2>1. Paging(q)
    BY DEF IInv
  <2>2. \A s \in Sources : Rows(s)' = Rows(s)
    BY DEF Rows, Existing, tables
  <2>3. CASE at[q] = "idle"
    BY <2>1, <2>3 DEF Paging
  <2>4. CASE at[q] # "idle"
    <3>1. source[q] \in Sources /\ source'[q] = source[q]
      BY <2>1, <2>4 DEF Paging
    <3>2. Rows(source[q])' = Rows(source[q])
      BY <3>1, <2>2 DEF Rows, Existing, tables
    <3> QED
      BY <2>1, <3>1, <3>2 DEF Paging, Ahead, Covered, Steady, Total
  <2> QED
    BY <2>3, <2>4
<1> QED
  BY <1>1, <1>2, <1>3, <1>4 DEF IInv

\* A page of the list, as ReadPage finds it.
LEMMA ReadPageStep ==
  ASSUME IInv, NEW r \in Readers, ReadPage(r)
  PROVE  IInv'
<1>1. source[r] \in Sources /\ Paging(r)
  BY DEF IInv, Paging, ReadPage
<1>2. PICK rows : rows = Rows(source[r])
  OBVIOUS
<1>3. rows \in SUBSET Nat /\ IsFiniteSet(rows)
  BY <1>1, <1>2, RowsFinite DEF IInv, RowsInv
<1>4. PICK from \in Nat : from = offset[r] /\ from = offset'[r]
  BY DEF IInv, TypeOK, ReadPage
<1>5. PICK new \in SUBSET rows : new = Page(rows, from)
  BY DEF Page
<1>6. /\ page' = [page EXCEPT ![r] = new]
      /\ seen' = [seen EXCEPT ![r] = seen[r] \cup new]
      /\ first' = IF from = 0 THEN [first EXCEPT ![r] = rows] ELSE first
      /\ calm' = IF from = 0 THEN [calm EXCEPT ![r] = TRUE] ELSE calm
      /\ at' = [at EXCEPT ![r] = "count"]
      /\ source'[r] = source[r]
  BY <1>2, <1>4, <1>5 DEF ReadPage
<1>7. /\ page'[r] = new /\ seen'[r] = seen[r] \cup new /\ at'[r] = "count"
      /\ from = 0 => first'[r] = rows
      /\ from # 0 => first'[r] = first[r] /\ calm'[r] = calm[r]
  BY <1>6 DEF IInv, TypeOK
<1>8. Rows(source[r])' = rows
  BY <1>1, <1>2, <1>6 DEF Rows, Existing, ReadPage, NothingCommitted, tables
<1>9. (from + PageSize) \in Nat
  BY CatalogueAssumption
<1>10. ASSUME Steady(r)', NEW k \in first'[r] \ seen'[r]
       PROVE  k \in rows /\ Rank(rows, k) >= from + PageSize
  <2>1. k \in rows /\ Rank(rows, k) >= from
    <3>1. CASE from = 0
      <4>1. k \in rows
        BY <1>7, <1>10, <3>1
      <4> QED
        BY <4>1, <3>1, <1>3, RankGrows
    <3>2. CASE from # 0
      <4>1. Ahead(r, offset[r]) /\ Steady(r)
        BY <1>1, <1>4, <1>6, <1>7, <1>10, <3>2 DEF Paging, ReadPage, Steady
      <4>2. k \in first[r] \ seen[r]
        BY <1>7, <1>10, <3>2
      <4> QED
        BY <1>2, <1>4, <4>1, <4>2 DEF Ahead
    <3> QED
      BY <3>1, <3>2
  <2>2. k \notin Page(rows, from)
    BY <1>5, <1>7, <1>10
  <2> QED
    BY <1>3, <2>1, <2>2, PageTakes
<1>11. Ahead(r, from + PageSize)'
  BY <1>6, <1>8, <1>10 DEF Ahead, Rank
<1>12. IsFiniteSet(new)
  BY <1>3, FS_Subset
<1>13. Covered(r)'
  <2>1. new # {} => from + Cardinality(new) <= Cardinality(rows)
    BY <1>3, <1>5, PageCovered
  <2> QED
    BY <1>4, <1>6, <1>7, <1>8, <2>1 DEF Covered, Total
<1>14. Paging(r)'
  <2>1. Ahead(r, offset[r] + PageSize)'
    BY <1>4, <1>11 DEF Ahead, Steady
  <2> QED
    BY <1>1, <1>6, <1>7, <1>12, <1>13, <2>1 DEF Paging
<1>15. /\ at' \in [Readers -> {"idle", "page", "count", "done"}]
       /\ source' \in [Readers -> Sources \cup {NoSource}]
       /\ offset' \in [Readers -> Nat]
  BY <1>6 DEF IInv, TypeOK, ReadPage
<1>16. /\ page' \in [Readers -> SUBSET Nat]
       /\ seen' \in [Readers -> SUBSET Nat]
       /\ first' \in [Readers -> SUBSET Nat]
       /\ calm' \in [Readers -> BOOLEAN]
  BY <1>3, <1>6 DEF IInv, TypeOK
<1>17. \A q \in Readers \ {r} :
         /\ at'[q] = at[q] /\ source'[q] = source[q] /\ offset'[q] = offset[q]
         /\ page'[q] = page[q] /\ seen'[q] = seen[q] /\ first'[q] = first[q]
         /\ calm'[q] = calm[q]
  BY <1>6 DEF IInv, TypeOK, ReadPage
<1>18. UNCHANGED <<tables, writer>> /\ answers' = {}
  BY DEF ReadPage, NothingCommitted
<1> QED
  BY <1>14, <1>15, <1>16, <1>17, <1>18, ReadStep

\* The count: when it says there is no more, nothing is left to be shown.
LEMMA CountStep ==
  ASSUME IInv, NEW r \in Readers, Count(r)
  PROVE  IInv'
<1>1. source[r] \in Sources /\ Paging(r) /\ at[r] = "count"
  BY DEF IInv, Paging, Count
<1>2. PICK rows : rows = Rows(source[r])
  OBVIOUS
<1>3. rows \in SUBSET Nat /\ IsFiniteSet(rows) /\ Cardinality(rows) \in Nat
  BY <1>1, <1>2, RowsFinite, FS_CardinalityType DEF IInv, RowsInv
<1>4. PICK next \in Nat : next = offset[r] + PageSize
  BY CatalogueAssumption DEF IInv, TypeOK
<1>5. Rows(source[r])' = rows
  BY <1>1, <1>2 DEF Rows, Existing, Count, NothingCommitted, tables
<1>6. Ahead(r, next)
  BY <1>1, <1>4 DEF Paging
<1>7. ASSUME next < Cardinality(rows) PROVE Paging(r)'
  <2>1. at'[r] = "page" /\ offset'[r] = next
    BY <1>2, <1>4, <1>7 DEF Count, Total, IInv, TypeOK
  <2>2. Ahead(r, offset[r])'
    BY <1>2, <1>5, <1>6, <2>1 DEF Ahead, Steady, Count
  <2> QED
    BY <1>1, <2>1, <2>2 DEF Paging, Count
<1>8. ASSUME ~(next < Cardinality(rows)) PROVE Paging(r)'
  <2>1. at'[r] = "done"
    BY <1>2, <1>4, <1>8 DEF Count, Total, IInv, TypeOK
  <2>2. Steady(r) => first[r] \subseteq seen[r]
    <3> SUFFICES ASSUME Steady(r), NEW k \in first[r] \ seen[r] PROVE FALSE
      OBVIOUS
    <3>1. k \in rows /\ Rank(rows, k) >= next
      BY <1>2, <1>6 DEF Ahead
    <3>2. Rank(rows, k) < Cardinality(rows) /\ Rank(rows, k) \in Nat
      BY <1>3, <3>1, RankInside, RankGrows
    <3> QED
      BY <1>3, <1>8, <3>1, <3>2
  <2> QED
    BY <1>1, <2>1, <2>2 DEF Paging, Steady, Count
<1>9. Paging(r)'
  BY <1>7, <1>8
<1>10. /\ at' \in [Readers -> {"idle", "page", "count", "done"}]
       /\ source' \in [Readers -> Sources \cup {NoSource}]
       /\ offset' \in [Readers -> Nat]
       /\ page' \in [Readers -> SUBSET Nat]
       /\ seen' \in [Readers -> SUBSET Nat]
       /\ first' \in [Readers -> SUBSET Nat]
       /\ calm' \in [Readers -> BOOLEAN]
  BY <1>4 DEF IInv, TypeOK, Count
<1>11. \A q \in Readers \ {r} :
         /\ at'[q] = at[q] /\ source'[q] = source[q] /\ offset'[q] = offset[q]
         /\ page'[q] = page[q] /\ seen'[q] = seen[q] /\ first'[q] = first[q]
         /\ calm'[q] = calm[q]
  BY DEF IInv, TypeOK, Count
<1>12. UNCHANGED <<tables, writer>> /\ answers' = {}
  BY DEF Count, NothingCommitted
<1> QED
  BY <1>9, <1>10, <1>11, <1>12, ReadStep

\* A list is opened at its first page.
LEMMA OpenStep ==
  ASSUME IInv, NEW r \in Readers, NEW s \in Sources, Open(r, s)
  PROVE  IInv'
<1>1. offset[r] = 0
  BY DEF IInv, Paging, Open
<1>2. Paging(r)'
  BY <1>1 DEF Paging, Open, IInv, TypeOK
<1>3. /\ at' \in [Readers -> {"idle", "page", "count", "done"}]
      /\ source' \in [Readers -> Sources \cup {NoSource}]
      /\ offset' \in [Readers -> Nat]
      /\ page' \in [Readers -> SUBSET Nat]
      /\ seen' \in [Readers -> SUBSET Nat]
      /\ first' \in [Readers -> SUBSET Nat]
      /\ calm' \in [Readers -> BOOLEAN]
  BY DEF IInv, TypeOK, Open
<1>4. \A q \in Readers \ {r} :
        /\ at'[q] = at[q] /\ source'[q] = source[q] /\ offset'[q] = offset[q]
        /\ page'[q] = page[q] /\ seen'[q] = seen[q] /\ first'[q] = first[q]
        /\ calm'[q] = calm[q]
  BY DEF IInv, TypeOK, Open
<1>5. UNCHANGED <<tables, writer>> /\ answers' = {}
  BY DEF Open, NothingCommitted
<1> QED
  BY <1>2, <1>3, <1>4, <1>5, ReadStep

\* Leaving a list forgets what it showed.
LEMMA LeaveStep ==
  ASSUME IInv, NEW r \in Readers, Leave(r)
  PROVE  IInv'
<1>1. Paging(r)'
  BY DEF Paging, Leave, IInv, TypeOK
<1>2. /\ at' \in [Readers -> {"idle", "page", "count", "done"}]
      /\ source' \in [Readers -> Sources \cup {NoSource}]
      /\ offset' \in [Readers -> Nat]
      /\ page' \in [Readers -> SUBSET Nat]
      /\ seen' \in [Readers -> SUBSET Nat]
      /\ first' \in [Readers -> SUBSET Nat]
      /\ calm' \in [Readers -> BOOLEAN]
  BY DEF IInv, TypeOK, Leave
<1>3. \A q \in Readers \ {r} :
        /\ at'[q] = at[q] /\ source'[q] = source[q] /\ offset'[q] = offset[q]
        /\ page'[q] = page[q] /\ seen'[q] = seen[q] /\ first'[q] = first[q]
        /\ calm'[q] = calm[q]
  BY DEF IInv, TypeOK, Leave
<1>4. UNCHANGED <<tables, writer>> /\ answers' = {}
  BY DEF Leave, NothingCommitted
<1> QED
  BY <1>1, <1>2, <1>3, <1>4, ReadStep

\* Every step preserves the invariant.
LEMMA NextPreserves == IInv /\ [Next]_vars => IInv'
<1> SUFFICES ASSUME IInv, [Next]_vars PROVE IInv'
  OBVIOUS
<1>1. ASSUME NEW t \in Writers, Write(t) PROVE IInv'
  <2>1. CASE InsertInfluencer(t)
    BY <2>1, InsertStep
  <2>2. CASE InsertConflict(t)
    <3>1. chosen[t] \in Codes
      BY <2>2 DEF InsertConflict, At, IInv, WritersInv, Writing
    <3> QED
      BY <2>2, <3>1, CloseStep DEF InsertConflict, Conflict
  <2>3. CASE Record(t)
    BY <2>3, RecordStep
  <2>4. CASE Commit(t)
    BY <2>4, CommitStep
  <2>5. CASE Rollback(t)
    BY <2>5, CloseStep DEF Rollback
  <2>6. ASSUME NEW c \in Codes, RefuseCreation(t, c) PROVE IInv'
    BY <2>6, CloseStep DEF RefuseCreation, Conflict
  <2>7. ASSUME NEW c \in Codes, NEW i \in Influencers, Create(t, i, c) PROVE IInv'
    BY <2>7, CreateStep
  <2>8. ASSUME NEW i \in Influencers, NEW rows \in {1, 2}, NEW archive \in BOOLEAN,
               Change(t, i, rows, archive)
        PROVE  IInv'
    BY <2>8, ChangeStep
  <2> QED
    BY <1>1, <2>1, <2>2, <2>3, <2>4, <2>5, <2>6, <2>7, <2>8 DEF Write
<1>2. ASSUME NEW r \in Readers, Read(r) PROVE IInv'
  BY <1>2, OpenStep, ReadPageStep, CountStep, LeaveStep DEF Read
<1>3. CASE UNCHANGED vars
  <2>1. TypeOK' /\ WritersInv'
    BY <1>3 DEF vars, IInv, TypeOK, WritersInv, Writing, Claimed, Apart, Existing,
                TakenCodes
  <2>2. RowsInv'
    BY <1>3, RowsStay DEF vars, tables
  <2>3. ASSUME NEW r \in Readers PROVE Paging(r)'
    BY <1>3, <2>1, <2>2, RowsAppear DEF vars, RowsInv, Existing
  <2> QED
    BY <2>1, <2>2, <2>3 DEF IInv
<1> QED
  BY <1>1, <1>2, <1>3 DEF Next

\* IInv holds in every reachable state.
THEOREM InductiveInvariant == Spec => []IInv
BY InitEstablishes, NextPreserves, PTL DEF Spec

-----------------------------------------------------------------------------
(* The properties *)

\* Every variable stays in its set.
THEOREM TypeCorrect == Spec => []TypeOK
<1>1. IInv => TypeOK
  BY DEF IInv
<1> QED
  BY <1>1, InductiveInvariant, PTL

\* Racing creations never end with two influencers of one code: the index
\* admits one claim at a time, and no code with a committed row.
THEOREM CodesAreUnique == Spec => []UniqueCodes
<1>1. IInv => UniqueCodes
  BY DEF IInv, RowsInv
<1> QED
  BY <1>1, InductiveInvariant, PTL

\* Numbers are allocated once, and a row lands with the audit row about it.
THEOREM TrailHolds == Spec => []TrailIsComplete
<1>1. IInv => TrailIsComplete
  BY DEF IInv, RowsInv, Numbered, Inserted, Documented, TrailIsComplete
<1> QED
  BY <1>1, InductiveInvariant, PTL

\* Paging by offset skips nothing of a list that only grows, whichever numbers
\* appear when: what was not shown stays in front of the reader.
THEOREM PagingHolds == Spec => []NothingSkipped
<1>1. IInv => NothingSkipped
  BY DEF IInv, Paging, Steady, NothingSkipped
<1> QED
  BY <1>1, InductiveInvariant, PTL

\* The total, counted after the page, covers it.
THEOREM TotalsHold == Spec => TotalCoversPage
<1>1. IInv /\ [Next]_vars =>
        [\A r \in Readers :
           at[r] = "count" /\ at'[r] # "idle" /\ source[r][1] # "list"
           /\ page[r] # {} => offset[r] + Cardinality(page[r]) <= Total(source[r])]_at
  BY DEF IInv, Paging, Covered
<1> QED
  BY <1>1, InductiveInvariant, PTL DEF Spec, TotalCoversPage

-----------------------------------------------------------------------------
(* The codes are a book *)

\* A step that commits no row, and refuses nothing or a code in use.
LEMMA PagesStay ==
  ASSUME NothingCommitted, answers' = {} \/ \E c \in TakenCodes \cap Codes : answers' = {c}
  PROVE  Book!Next
<1>1. code' = code
  BY DEF NothingCommitted, tables
<1>2. CASE answers' = {}
  BY <1>1, <1>2 DEF Book!Next, Book!Pass
<1>3. ASSUME NEW c \in TakenCodes \cap Codes, answers' = {c}
      PROVE  Book!Next
  <2>1. c \in Book!Used
    BY DEF Book!Used, Book!Entered, TakenCodes, Existing
  <2>2. Book!Refuse(c)
    BY <1>1, <1>3, <2>1 DEF Book!Refuse
  <2> QED
    BY <2>2 DEF Book!Next
<1> QED
  BY <1>2, <1>3

\* The commit of a creation enters its influencer, under the code its key of
\* the index kept free; any other commit leaves the codes as they are.
LEMMA CommitEnters ==
  ASSUME IInv, NEW t \in Writers, Commit(t)
  PROVE  Book!Next
<1>1. Writing(t) /\ pc[t] = "commit" /\ target[t] \in Influencers /\ answers' = {}
  BY DEF IInv, WritersInv, Writing, Commit, At
<1>2. code' = [i \in Existing \cup {target[t]} |->
                 IF i \in Existing THEN code[i] ELSE chosen[t]]
  BY DEF Commit
<1>3. CASE target[t] \in Existing
  <2>1. Existing \cup {target[t]} = Existing /\ code = [i \in Existing |-> code[i]]
    BY <1>3 DEF IInv, TypeOK
  <2>2. code' = code
    BY <1>2, <2>1
  <2> QED
    BY <1>1, <2>2 DEF Book!Next, Book!Pass
<1>4. CASE target[t] \notin Existing
  <2>1. chosen[t] \in Codes /\ claim[chosen[t]] = t
    BY <1>1, <1>4 DEF Writing
  <2>2. chosen[t] \notin TakenCodes
    BY <2>1, CatalogueAssumption DEF IInv, WritersInv, Claimed
  <2>3. Book!Enter(target[t], chosen[t])
    <3>1. Book!Entered = Existing /\ Book!Used = TakenCodes
      BY DEF Book!Entered, Book!Used, Existing, TakenCodes
    <3>2. code' = [m \in Existing \cup {target[t]} |->
                     IF m = target[t] THEN chosen[t] ELSE code[m]]
      BY <1>2, <1>4
    <3> QED
      BY <1>1, <1>4, <2>2, <3>1, <3>2 DEF Book!Enter
  <2> QED
    BY <1>1, <2>1, <2>3 DEF Book!Next
<1> QED
  BY <1>3, <1>4

\* The codes of the influencers are a book, for any number of racing
\* creations: every step enters one influencer under a fresh code, refuses a
\* code some committed influencer has, or leaves the book alone.
THEOREM CatalogueImplementsCodebook == Spec => ImplementsCodebook
<1>1. Init => Book!Init
  BY DEF Init, Book!Init, Book!Entered
<1>2. IInv /\ [Next]_vars => [Book!Next]_(Book!bookVars)
  <2> SUFFICES ASSUME IInv, Next PROVE Book!Next
    BY DEF vars, Book!bookVars
  <2>1. ASSUME NEW t \in Writers, Write(t) PROVE Book!Next
    <3>1. CASE InsertInfluencer(t) \/ Record(t) \/ Rollback(t)
      BY <3>1, PagesStay DEF InsertInfluencer, Record, Rollback
    <3>2. CASE InsertConflict(t)
      <4>1. chosen[t] \in TakenCodes \cap Codes
        BY <3>2 DEF InsertConflict, IndexAdmits, At, IInv, WritersInv, Writing
      <4> QED
        BY <3>2, <4>1, PagesStay DEF InsertConflict, Conflict
    <3>3. CASE Commit(t)
      BY <3>3, CommitEnters
    <3>4. ASSUME NEW c \in Codes, RefuseCreation(t, c) PROVE Book!Next
      BY <3>4, PagesStay DEF RefuseCreation, Found, Conflict
    <3>5. ASSUME NEW i \in Influencers, NEW c \in Codes, Create(t, i, c) PROVE Book!Next
      BY <3>5, PagesStay DEF Create
    <3>6. ASSUME NEW i \in Influencers, NEW rows \in {1, 2}, NEW archive \in BOOLEAN,
                 Change(t, i, rows, archive)
          PROVE  Book!Next
      BY <3>6, PagesStay DEF Change
    <3> QED
      BY <2>1, <3>1, <3>2, <3>3, <3>4, <3>5, <3>6 DEF Write
  <2>2. ASSUME NEW r \in Readers, Read(r) PROVE Book!Next
    BY <2>2, PagesStay DEF Read, Open, ReadPage, Count, Leave
  <2> QED
    BY <2>1, <2>2 DEF Next
<1> QED
  BY <1>1, <1>2, InductiveInvariant, PTL DEF Spec, ImplementsCodebook, Book!Spec
-----------------------------------------------------------------------------
(* The pages of a list *)

\* Of two rows, the newer comes first.
LEMMA RankFalls ==
  ASSUME NEW rows \in SUBSET Nat, IsFiniteSet(rows), NEW k \in rows, NEW l \in rows, k < l
  PROVE  Rank(rows, l) < Rank(rows, k)
<1>1. k \in Nat /\ l \in Nat
  OBVIOUS
<1>2. \A j \in rows : j > l => j > k
  <2> SUFFICES ASSUME NEW j \in rows, j > l PROVE j > k
    OBVIOUS
  <2>1. j \in Nat
    OBVIOUS
  <2> QED
    BY <1>1, <2>1
<1>3. l \in {j \in rows : j > k} /\ l \notin {j \in rows : j > l}
  BY <1>1
<1>4. /\ {j \in rows : j > l} \in SUBSET {j \in rows : j > k}
      /\ {j \in rows : j > l} # {j \in rows : j > k}
  BY <1>2, <1>3
<1>5. {j \in rows : j > k} \in SUBSET rows
  OBVIOUS
<1>6. IsFiniteSet({j \in rows : j > k})
  BY <1>5, FS_Subset
<1> QED
  BY <1>4, <1>6, FS_Subset, FS_CardinalityType DEF Rank

\* Every number belongs to one run of s numbers, counted from zero.
LEMMA OneRun ==
  ASSUME NEW k \in Nat, NEW s \in Nat \ {0}
  PROVE  \E n \in Nat : \A m \in Nat : k \in (m * s)..(m * s + s - 1) <=> m = n
<1> DEFINE n == k \div s
<1>1. n \in Nat /\ n * s <= k /\ k < n * s + s
  OBVIOUS
<1>2. ASSUME NEW a \in Nat, NEW b \in Nat, a < b
      PROVE  a * s + s <= b * s
  <2>1. b - a - 1 \in Nat /\ b = a + 1 + (b - a - 1)
    BY <1>2
  <2>2. PICK d \in Nat : b = a + 1 + d
    BY <2>1
  <2>3. b * s = a * s + s + d * s /\ d * s \in Nat /\ a * s \in Nat
    BY <2>2
  <2> QED
    BY <2>3
<1> HIDE DEF n
<1>3. ASSUME NEW m \in Nat, k \in (m * s)..(m * s + s - 1)
      PROVE  m = n
  <2>1. /\ m * s \in Nat /\ n * s \in Nat
        /\ m * s <= k /\ k < m * s + s
    BY <1>1, <1>3
  <2>2. ~(m < n) /\ ~(n < m)
    BY <1>1, <1>2, <2>1
  <2> QED
    BY <1>1, <2>2
<1>4. n * s \in Nat
  BY <1>1
<1>5. k \in (n * s)..(n * s + s - 1)
  BY <1>1, <1>4
<1> QED
  BY <1>1, <1>3, <1>5

\* A page has at most PageSize rows: no two rows have the same rank.
LEMMA PageFits ==
  ASSUME NEW rows \in SUBSET Nat, IsFiniteSet(rows), NEW from \in Nat
  PROVE  Cardinality(Page(rows, from)) <= PageSize
<1> DEFINE shown == Page(rows, from)
           ranks == from..(from + PageSize - 1)
           place == [k \in shown |-> Rank(rows, k)]
<1>1. shown \in SUBSET rows /\ \A k \in shown : Rank(rows, k) \in ranks
  BY DEF Page, Rank
<1>2. place \in Injection(shown, ranks)
  <2>1. ASSUME NEW k \in shown, NEW l \in shown, k # l
        PROVE  Rank(rows, k) # Rank(rows, l)
    <3>1. k \in rows /\ l \in rows
      BY <1>1
    <3>2. k < l \/ l < k
      BY <2>1, <3>1
    <3>3. Rank(rows, k) \in Nat /\ Rank(rows, l) \in Nat
      BY RankGrows
    <3>4. Rank(rows, k) < Rank(rows, l) \/ Rank(rows, l) < Rank(rows, k)
      BY <3>1, <3>2, RankFalls
    <3> QED
      BY <3>3, <3>4
  <2>2. place \in [shown -> ranks]
    BY <1>1
  <2>3. \A k, l \in shown : place[k] = place[l] => k = l
    BY <2>1
  <2> QED
    BY <2>2, <2>3 DEF Injection, IsInjective
<1>3. IsFiniteSet(ranks) /\ Cardinality(ranks) = PageSize
  <2>1. from + PageSize - 1 \in Int /\ from \in Int
    BY CatalogueAssumption
  <2>2. /\ IsFiniteSet(ranks)
        /\ Cardinality(ranks) = IF from > from + PageSize - 1 THEN 0
                                ELSE (from + PageSize - 1) - from + 1
    BY <2>1, FS_Interval
  <2> QED
    BY <2>2, CatalogueAssumption
<1> HIDE DEF shown, ranks, place
<1>4. Cardinality(shown) <= Cardinality(ranks)
  BY <1>2, <1>3, FS_Injection
<1> QED
  BY <1>3, <1>4 DEF shown

\* A client that pages through a list that stays as it is gets every row, on
\* one page, and no page is longer than it asked for (limit and offset of the
\* two repositories).
THEOREM PagesPartition ==
  ASSUME NEW rows \in SUBSET Nat, IsFiniteSet(rows)
  PROVE  /\ \A n \in Nat : Cardinality(Page(rows, n * PageSize)) <= PageSize
         /\ \A k \in rows : \E n \in Nat : \A m \in Nat :
              k \in Page(rows, m * PageSize) <=> m = n
<1>1. ASSUME NEW n \in Nat
      PROVE  Cardinality(Page(rows, n * PageSize)) <= PageSize
  <2>1. n * PageSize \in Nat
    BY CatalogueAssumption
  <2> QED
    BY <2>1, PageFits
<1>2. ASSUME NEW k \in rows
      PROVE  \E n \in Nat : \A m \in Nat : k \in Page(rows, m * PageSize) <=> m = n
  <2>1. PICK r \in Nat : r = Rank(rows, k)
    BY RankGrows
  <2>2. PICK n \in Nat : \A m \in Nat :
          r \in (m * PageSize)..(m * PageSize + PageSize - 1) <=> m = n
    BY OneRun, CatalogueAssumption
  <2>3. \A m \in Nat : k \in Page(rows, m * PageSize)
          <=> r \in (m * PageSize)..(m * PageSize + PageSize - 1)
    BY <2>1 DEF Page, Rank
  <2> QED
    BY <2>2, <2>3
<1> QED
  BY <1>1, <1>2
=============================================================================
