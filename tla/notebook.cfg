\* One notebook with a volume, from its creation to its removal.
CONSTANTS
  n1 = n1
  home = home
  Notebooks <- OneNotebook
  Types = {"", "NodePort"}
  Claims = {home}
  VolumesOf <- OneVolume
  Workers = 1
  PodStates <- Running
  Ready = {"running"}
  NamedEdits = {}
  MaxCollected = 2
  Disturbances = {"restart", "lostCall", "editSpec", "editType", "editVolumes", "deleteNotebook"}
  MaxDisturbances = 1
SPECIFICATION FairSpec
INVARIANTS TypeOK NotebookServed 
PROPERTIES EditsSurvive Settles
CHECK_DEADLOCK FALSE
