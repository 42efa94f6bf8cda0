\* Two workers, no disturbance: two versions get the same number.
CONSTANTS
  t1 = t1
  Templates <- OneTemplate
  InService <- OneTemplate
  Versions = {1, 2}
  TemplateOf <- AllOfOne
  VersionWorkers = 2
  TemplateWorkers = 0
  SpecValidity = {TRUE}
  Ticks = {0}
  Disturbances = {}
  MaxDisturbances = 0
SPECIFICATION Spec
INVARIANT UniqueNumbers
CHECK_DEADLOCK FALSE
