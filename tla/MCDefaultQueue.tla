--------------------------- MODULE MCDefaultQueue ---------------------------
\* Instances of DefaultQueue for TLC.
EXTENDS DefaultQueue, TLC

\* Requests differ in nothing but their names.
AnyRequest == Permutations(Requests)
==============================================================================
