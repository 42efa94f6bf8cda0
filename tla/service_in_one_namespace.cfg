\* One service in the namespace of its template version.
CONSTANTS
  s1 = s1
  s2 = s2
  here = here
  there = there
  Services <- OneService
  Namespaces <- OneNamespace
  NamespaceOf <- AllHere
  VersionNamespace = here
  Specs <- TwoSpecs
  Edits <- ForthOnly
  HFSecrets = {"h1"}
  Text <- Strings
  RayLLMImage = "default"
  ParamNames = {"block", "num-gpus"}
  Products <- ProductNames
  Contains <- ContainedNames
  Workers = 1
  MaxStatus = 3
  MaxCollected = 3
  Reports <- BackToWaiting
  Running = {"running"}
  Disturbances = {"restart", "lostCall", "claimsFail", "reportAgain", "rotateSecret", "editService", "deleteService"}
  MaxDisturbances = 2
SPECIFICATION FairSpec
INVARIANTS TypeOK MountsExist CreatedMeansRayService CreatedRunsLastSpec
PROPERTIES ReconcilesOnce StatusNeverRegresses StatusFollows
CHECK_DEADLOCK FALSE
