SPECIFICATION Spec
CONSTANTS
  Users = {u}
  Organizations = {1, 2}
  Sessions = {s1}
  Roles = {"owner", "agent"}
  Statuses = {"active", "disabled"}
  Required = {"audit:read", "approval:decide"}
  Matrix <- MCMatrix
  Deployments <- MCDeployments
  ACCESS_TTL = 1
  REFRESH_TTL = 2
  MaxPairs = 2
INVARIANTS
  TypeOK
  RightsAreCurrent
  TokensAreEarned
  AgentIsFenced
PROPERTIES
  FailuresAreKept
  OnlyTheFailureIsKept
  AccessIsFresh
