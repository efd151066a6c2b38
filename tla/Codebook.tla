------------------------------ MODULE Codebook -------------------------------
(***************************************************************************)
(* What the codes of an organization promise, with no tables, indexes or   *)
(* transactions: a book in which every name is entered once, under a code  *)
(* of its own, for good; and a code is only refused as used when an entry  *)
(* of the book uses it (uq_influencers_organization_id_code,               *)
(* uq_disclosure_policies_organization_id_code, ConflictError).            *)
(***************************************************************************)
CONSTANTS
  Names,     \* what is entered: influencers, or disclosure policies
  Codes      \* the codes it is entered under

VARIABLES
  book,      \* the code of each name entered
  refused    \* the codes the last step refused as used

bookVars == <<book, refused>>

Entered == DOMAIN book

Used == {book[n] : n \in Entered}

Init ==
  /\ \E S \in SUBSET Names : book \in [S -> Codes]
  /\ \A m, n \in Entered : book[m] = book[n] => m = n
  /\ refused = {}

Enter(n, c) ==
  /\ n \notin Entered
  /\ c \notin Used
  /\ book' = [m \in Entered \cup {n} |-> IF m = n THEN c ELSE book[m]]
  /\ refused' = {}

Refuse(c) ==
  /\ c \in Used
  /\ refused' = {c}
  /\ UNCHANGED book

\* Something else is answered.
Pass ==
  /\ refused' = {}
  /\ UNCHANGED book

Next ==
  \/ \E n \in Names, c \in Codes : Enter(n, c)
  \/ \E c \in Codes : Refuse(c)
  \/ Pass

Spec == Init /\ [][Next]_bookVars
=============================================================================
