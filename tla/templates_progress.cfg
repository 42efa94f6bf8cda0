\* Two workers for versions and one for templates, and a restart of the leader, under
\* fairness; the specs give no config.
CONSTANTS
  t1 = t1
  Templates <- OneTemplate
  InService <- OneTemplate
  Versions = {1, 2}
  TemplateOf <- AllOfOne
  VersionWorkers = 2
  TemplateWorkers = 1
  SpecValidity = {FALSE}
  Ticks = {0}
  Disturbances = {"restart"}
  MaxDisturbances = 1
SPECIFICATION FairSpec
INVARIANTS TypeOK CounterCovers
PROPERTIES ImplementsNumbering LatestNeverFalls EventuallyNumbered LatestCatchesUp
CHECK_DEADLOCK FALSE
