------------------------------ MODULE Settings -------------------------------
(***************************************************************************)
(* The settings a process boots with, as far as they gate behaviour        *)
(* (core/config.py), and the routes an application built from them has     *)
(* (main.py, api/v1/router.py, auth/router.py). Pure definitions.          *)
(***************************************************************************)

Environment == {"development", "test", "staging", "production"}

\* The keys told apart: the published placeholder, one of fewer than
\* MIN_SECRET_KEY_LENGTH characters, and a proper one.
SecretKey == {"placeholder", "short", "proper"}

Settings ==
  [environment: Environment, secret_key: SecretKey, dev_auth_enabled: BOOLEAN]

\* validate_production_safety, which raises when it finds a problem.
Problems(s) ==
  (IF s.secret_key = "placeholder" THEN {"placeholder"} ELSE {})
  \cup (IF s.secret_key = "short" THEN {"short"} ELSE {})
  \cup (IF s.dev_auth_enabled THEN {"dev_auth"} ELSE {})

Boots(s) == s.environment \in {"development", "test"} \/ Problems(s) = {}

\* Fault: one of the two conditions is enough.
dev_auth_active_Either(s) ==
  s.dev_auth_enabled \/ s.environment = "development"

\* Both conditions must hold.
dev_auth_active(s) == s.dev_auth_enabled /\ s.environment = "development"

\* build_auth_router, as build_v1_router calls it: dev-login is not a route
\* outside development.
AuthRoutes(s) ==
  {"login", "refresh"} \cup (IF dev_auth_active(s) THEN {"dev-login"} ELSE {})
=============================================================================
