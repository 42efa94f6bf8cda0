\* One worker, no disturbance: the default of a template stays empty.
CONSTANTS
  t1 = t1
  Templates <- OneTemplate
  InService <- OneTemplate
  Versions = {1}
  TemplateOf <- AllOfOne
  VersionWorkers = 1
  TemplateWorkers = 1
  SpecValidity = {TRUE}
  Ticks = {0}
  Disturbances = {}
  MaxDisturbances = 0
SPECIFICATION Spec
INVARIANT DefaultIsSetAtRest
CHECK_DEADLOCK FALSE
