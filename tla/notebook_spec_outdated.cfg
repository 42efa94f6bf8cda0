\* One notebook that is created, and its pod.
CONSTANTS
  n1 = n1
  home = home
  Notebooks <- OneNotebook
  Types = {"", "NodePort"}
  Claims = {home}
  VolumesOf <- OneVolume
  Workers = 1
  PodStates <- Running
  Ready = {"running"}
  NamedEdits = {}
  MaxCollected = 2
  Disturbances = {}
  MaxDisturbances = 0
SPECIFICATION Spec
INVARIANTS SpecsAgree
CHECK_DEADLOCK FALSE
