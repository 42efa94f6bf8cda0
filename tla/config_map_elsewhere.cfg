\* Two services of one template version, one of them in another namespace.
CONSTANTS
  s1 = s1
  s2 = s2
  here = here
  there = there
  Services <- TwoServices
  Namespaces <- TwoNamespaces
  NamespaceOf <- OneEach
  VersionNamespace = here
  Specs <- OneSpec
  Edits <- CreatedOnly
  HFSecrets = {}
  Text <- Strings
  RayLLMImage = "default"
  ParamNames = {"block", "num-gpus"}
  Products <- ProductNames
  Contains <- ContainedNames
  Workers = 1
  MaxStatus = 0
  MaxCollected = 3
  Reports <- BackToWaiting
  Running = {"running"}
  Disturbances = {}
  MaxDisturbances = 0
SPECIFICATION Spec
INVARIANTS MountsExist
CHECK_DEADLOCK FALSE
