----------------------------- MODULE AccessList ------------------------------
(***************************************************************************)
(* What the memberships of an organization promise, with no tables,        *)
(* indexes or transactions: a list that is founded once, by a group with   *)
(* an owner in it, and that changes by one account at a time from then on. *)
(* An account enters the list once; a revocation is for good (create_with_ *)
(* owner, add_member, change_member_role, revoke_member).                  *)
(***************************************************************************)
CONSTANTS
  Users,     \* who can be on the list
  Roles,     \* as what
  Owner,     \* the role every list begins with
  Revoked    \* what a revoked account stands as

VARIABLE access   \* what each account on the list stands as

Listed == DOMAIN access

Init == access = [u \in {} |-> Owner]

Found ==
  /\ Listed = {}
  /\ \E S \in SUBSET Users : access' \in [S -> Roles]
  /\ \E u \in DOMAIN access' : access'[u] = Owner

Grant(u, r) ==
  /\ Listed # {}
  /\ u \notin Listed
  /\ access' = [v \in Listed \cup {u} |-> IF v = u THEN r ELSE access[v]]

ChangeRole(u, r) ==
  /\ u \in Listed
  /\ access[u] # Revoked
  /\ access' = [access EXCEPT ![u] = r]

Revoke(u) ==
  /\ u \in Listed
  /\ access' = [access EXCEPT ![u] = Revoked]

Next ==
  \/ Found
  \/ \E u \in Users :
       Revoke(u) \/ \E r \in Roles : Grant(u, r) \/ ChangeRole(u, r)

Spec == Init /\ [][Next]_access
=============================================================================
