\* Both queues, two workers for versions; anything may disturb them once.
CONSTANTS
  t1 = t1
  Templates <- OneTemplate
  InService <- OneTemplate
  Versions = {1, 2}
  TemplateOf <- AllOfOne
  VersionWorkers = 2
  TemplateWorkers = 1
  SpecValidity = {TRUE}
  Ticks = {0}
  Disturbances = {"restart", "lostReply", "deleteTemplate", "deleteVersion", "editVersion",
                  "chooseDefault"}
  MaxDisturbances = 1
SPECIFICATION Spec
INVARIANTS NothingOwed
PROPERTIES NumberNeverChanges PickedDefaultIsNumbered
CHECK_DEADLOCK FALSE
