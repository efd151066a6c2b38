----------------------------- MODULE VersionLog ------------------------------
(***************************************************************************)
(* What the Character Bible promises its readers, with no tables, locks or *)
(* transactions: one append-only log of versions per influencer. Version n *)
(* is the n-th entry, the current version is always the last entry, one    *)
(* author appends one entry at a time, and no entry is appended while the  *)
(* log is closed (docs/domain-model.md, "the Character Bible").            *)
(***************************************************************************)
EXTENDS Integers, Sequences

CONSTANTS
  Books,     \* one log per influencer
  Authors    \* who may append

VARIABLES
  log,       \* log[b][n] is the author of version n
  current,   \* the number GET .../versions/current returns, 0 for none
  closed     \* whether the influencer is archived

logVars == <<log, current, closed>>

Init ==
  /\ log = [b \in Books |-> <<>>]
  /\ current = [b \in Books |-> 0]
  /\ closed = [b \in Books |-> FALSE]

Publish(b, a) ==
  /\ ~closed[b]
  /\ log' = [log EXCEPT ![b] = Append(log[b], a)]
  /\ current' = [current EXCEPT ![b] = Len(log[b]) + 1]
  /\ UNCHANGED closed

\* The lifecycle closes a log. Registry shows that a racing request can also
\* open it again; the log itself does not depend on closing being final.
SetClosed(b) ==
  /\ closed' = [closed EXCEPT ![b] = ~closed[b]]
  /\ UNCHANGED <<log, current>>

Next == \E b \in Books : SetClosed(b) \/ \E a \in Authors : Publish(b, a)

Spec == Init /\ [][Next]_logVars
=============================================================================
