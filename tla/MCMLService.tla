----------------------------- MODULE MCMLService -----------------------------
\* Instances of MLService for TLC.
EXTENDS MLService

CONSTANTS s1, s2, here, there

OneService == {s1}
TwoServices == {s1, s2}
OneNamespace == {here}
TwoNamespaces == {here, there}
AllHere == [s \in Services |-> here]
OneEach == [s \in Services |-> IF s = s1 THEN here ELSE there]

Strings == STRING

\* Two accelerators, of which one has a name that contains that of another type.
ProductNames == {"A100-80GB", "L40"}
ContainedNames == [p \in Products |-> IF p = "L40" THEN {7} ELSE {8, 24}]

\* A RayService that runs and then waits again, or has reported nothing.
BackToWaiting == [i \in 0..MaxStatus |->
                    IF i = 0 THEN "none" ELSE IF i = 2 THEN "running" ELSE "waiting"]

None == [p \in {} |-> 0]
Small == [name |-> "g1", scale |-> 1, params |-> NoParams, accelerators |-> None,
          placement |-> "any", resources |-> "small", volume |-> "none"]
Large == [Small EXCEPT !.scale = 2, !.params = [NoParams EXCEPT !["num-gpus"] = "1"],
                       !.accelerators = [p \in Products |-> 1],
                       !.placement = "gpu", !.resources = "none"]
Other == [Small EXCEPT !.name = "g2", !.volume = "cache"]

PlainSpec == [image |-> "", hf |-> "none", groups |-> <<Small>>]
TokenSpec == [image |-> "own", hf |-> "h1", groups |-> <<Other, Large>>]
OneSpec == {PlainSpec}
TwoSpecs == {PlainSpec, TokenSpec}
CreatedOnly == {<<NoSpec, PlainSpec>>}
ForthOnly == CreatedOnly \cup {<<PlainSpec, TokenSpec>>}
==============================================================================
