SPECIFICATION FairSpec
CONSTANTS
  Influencers = {a}
  Sessions = {s1, s2}
  Policies = {p}
  NoPolicy = NoPolicy
  Nobody = Nobody
  Kinds = {"create_version", "change_status"}
  MaxVersions = 2
PROPERTIES
  RequestsFinish
