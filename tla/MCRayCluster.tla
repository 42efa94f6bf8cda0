---------------------------- MODULE MCRayCluster ----------------------------
\* Instances of RayCluster for TLC.
EXTENDS RayCluster

CONSTANTS c1, here, m1, log, data

OneCluster == {c1}
OneNamespace == {here}
AllHere == [c \in Clusters |-> here]
TwoClaims == [c \in Clusters |-> <<log, data>>]

TheWords == {"", "own", "none", "true", "default", "ray stop", "0.0.0.0", "$REDIS_PASSWORD",
             "RAY_REDIS_ADDRESS", "REDIS_PASSWORD", "RAY_gcs_rpc_server_reconnect_timeout_s"}

Resources(cpu, memory, gpu) ==
  [r \in ResourceNames |-> CASE r = "cpu" -> cpu [] r = "memory" -> memory [] r = "gpu" -> gpu]
Bare == [params |-> [p \in StartParams |-> ""], env |-> <<>>, ports |-> "none",
         lifecycle |-> "none", requests |-> Resources(0, 0, 0), limits |-> Resources(0, 0, 0)]

\* The built-in default cluster, of getDefaultRayCluster.
Default ==
  [gcs |-> "none", ft |-> TRUE, autoscaling |-> "true",
   head |-> [Bare EXCEPT
     !.params = [p \in StartParams |-> CASE p = "block" -> "true"
                   [] p = "dashboard-host" -> "0.0.0.0" [] OTHER -> "$REDIS_PASSWORD"],
     !.env = <<"RAY_REDIS_ADDRESS", "REDIS_PASSWORD">>, !.ports = "default",
     !.requests = Resources(500, 1000, 0), !.limits = Resources(1000, 2000, 0)],
   workers |-> <<[Bare EXCEPT !.requests = Resources(2000, 4000, 0),
                              !.limits = Resources(2000, 4000, 0)]>>]

\* A user's, with half the limits and some of the defaults missing, to be switched to GCS
\* fault tolerance later.
Plain ==
  [gcs |-> "none", ft |-> FALSE, autoscaling |-> "none",
   head |-> [Bare EXCEPT !.env = <<"REDIS_PASSWORD">>, !.ports = "own",
                         !.requests = Resources(500, 0, 1000),
                         !.limits = Resources(0, 1500, 2000)],
   workers |-> <<[Bare EXCEPT !.lifecycle = "own",
                              !.env = <<"RAY_gcs_rpc_server_reconnect_timeout_s">>]>>]

\* One that is refused: fault tolerance turns autoscaling on, which needs workers.
HeadOnly == [Plain EXCEPT !.gcs = "true", !.workers = <<>>]

ThreeSubmissions == {Default, Plain, HeadOnly}
==============================================================================
