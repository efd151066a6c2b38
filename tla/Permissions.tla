----------------------------- MODULE Permissions -----------------------------
(***************************************************************************)
(* Who may do what: the permission vocabulary, the role matrix with the    *)
(* fence around the agent role, and the actor a membership resolves to     *)
(* (shared/permissions, core/actor.py). Pure definitions, no state.        *)
(***************************************************************************)

Role == {"owner", "creative_lead", "operator", "reviewer", "compliance",
         "analyst", "agent"}

ActorType == {"user", "system", "agent"}

READ_PERMISSIONS ==
  {"org:read", "influencer:read", "policy:read", "asset:read", "voice:read",
   "recipe:read", "content:read", "job:read", "qa:read", "approval:read",
   "calendar:read", "experiment:read", "dashboard:read"}

Identity == {"influencer:create", "influencer:update", "influencer:archive",
             "influencer:version_create", "voice:manage", "experiment:manage"}

Production == {"content:create", "content:update", "content:script_create",
               "content:transition", "job:create", "job:cancel", "qa:create",
               "approval:request", "asset:upload", "asset:update"}

Decisions == {"approval:decide", "approval:decide_high_risk"}

Permission ==
  READ_PERMISSIONS \cup Identity \cup Production \cup Decisions
  \cup {"org:update", "org:member_manage", "policy:update", "asset:archive",
        "asset:mark_golden", "recipe:create", "recipe:update",
        "recipe:version_create", "calendar:schedule", "calendar:publish_mark",
        "social_account:connect", "audit:read"}

AGENT_FORBIDDEN_PERMISSIONS ==
  Identity \cup Decisions
  \cup {"calendar:schedule", "calendar:publish_mark", "policy:update",
        "social_account:connect", "org:update", "org:member_manage"}

\* What each role is granted beyond reading.
Grants ==
  [owner         |-> Permission,
   creative_lead |-> Identity \cup Production
                     \cup {"asset:archive", "asset:mark_golden", "recipe:create",
                           "recipe:update", "recipe:version_create",
                           "calendar:schedule", "audit:read"},
   operator      |-> Production,
   reviewer      |-> {"qa:create", "approval:request", "approval:decide",
                      "content:transition", "audit:read"},
   compliance    |-> {"policy:update", "qa:create", "approval:request",
                      "content:transition", "audit:read"} \cup Decisions,
   analyst       |-> {"audit:read"},
   agent         |-> {"content:create", "content:script_create", "job:create"}]

ROLE_PERMISSIONS == [role \in Role |-> READ_PERMISSIONS \cup Grants[role]]

\* Fault: the fence is left to the table.
permissions_for_role_Unfenced(matrix, role) == matrix[role]

\* The table, with the agent fence subtracted whatever the table says.
permissions_for_role(matrix, role) ==
  IF role = "agent" THEN matrix[role] \ AGENT_FORBIDDEN_PERMISSIONS
                    ELSE matrix[role]

\* The same decision, for one permission.
role_has_permission(matrix, role, permission) ==
  /\ role = "agent" => permission \notin AGENT_FORBIDDEN_PERMISSIONS
  /\ permission \in matrix[role]

\* CurrentActor.for_membership: an agent's activity stays distinguishable.
for_membership(role) ==
  [actor_type |-> IF role = "agent" THEN "agent" ELSE "user", role |-> role]

\* CurrentActor.permissions, for an actor that comes from a membership.
permissions(matrix, actor) == permissions_for_role(matrix, actor.role)

\* CurrentActor.has_permission, which require_permission and RequirePermission
\* raise on.
has_permission(matrix, actor, permission) ==
  permission \in permissions(matrix, actor)
=============================================================================
