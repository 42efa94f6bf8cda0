\* One cluster with two claims, from its creation to its removal.
CONSTANTS
  c1 = c1
  here = here
  m1 = m1
  log = log
  data = data
  NoConfigMap = NoConfigMap
  Clusters <- OneCluster
  Namespaces <- OneNamespace
  NamespaceOf <- AllHere
  ConfigMaps = {m1}
  Claims = {log, data}
  ClaimsOf <- TwoClaims
  Words <- TheWords
  Submissions <- ThreeSubmissions
  Workers = 1
  Disturbances = {"restart", "lostCall", "collectClaim", "editCluster", "switchGCS", "growClaim"}
  MaxDisturbances = 2
SPECIFICATION FairSpec
INVARIANTS TypeOK AdmittedUnchanged
PROPERTIES ClaimsNeverShrink JobKeepsConfigMap ClaimsFollow
CHECK_DEADLOCK FALSE
