\* Three requests on two queues, beside each other or in turn.
CONSTANTS
  Queues = {default, gold}
  DefaultQueueName = default
  Requests = {r1, r2, r3}
  Disturbances = {"lostReply", "editQueue", "deleteQueue", "restart"}
  MaxDisturbances = 2
SPECIFICATION Spec
SYMMETRY AnyRequest
INVARIANTS TypeOK OneDefault
PROPERTIES NoBlindUnmark SuccessLeavesOneDefault
CHECK_DEADLOCK FALSE
