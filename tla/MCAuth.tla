------------------------------- MODULE MCAuth --------------------------------
EXTENDS Auth

\* An editing mistake: the agent is granted everything.
MCMatrix == [ROLE_PERMISSIONS EXCEPT !["agent"] = Permission]

\* The stub left on in development, in test and in staging, which refuses to
\* boot with it, as it does with the placeholder.
Deployment(environment, key, stub) ==
  [environment |-> environment, secret_key |-> key, dev_auth_enabled |-> stub]

MCDeployments ==
  {Deployment("development", "placeholder", TRUE),
   Deployment("test", "placeholder", TRUE),
   Deployment("staging", "proper", TRUE),
   Deployment("staging", "placeholder", FALSE),
   Deployment("staging", "proper", FALSE)}
=============================================================================
