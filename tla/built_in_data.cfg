\* Three servers start together.
CONSTANTS
  s1 = s1
  s2 = s2
  s3 = s3
  Servers = {s1, s2, s3}
  Disturbances = {"crash", "lostCall", "editNamespace", "deleteCluster"}
  MaxDisturbances = 3
SPECIFICATION FairSpec
INVARIANTS TypeOK ServingMeansInitialized RecordedMeansMade
PROPERTIES EventuallyServing
CHECK_DEADLOCK FALSE
