----------------------------- MODULE MCBootstrap -----------------------------
\* Instances of Bootstrap for TLC.
EXTENDS Bootstrap

CONSTANTS server1, server2, admin1, admin2, user1

\* The second server has a newer default, and a value in its environment.
Upgraded == [s \in Servers |-> IF s = server1 THEN "a" ELSE "b"]
FromEnvironment == [s \in Servers |-> IF s = server1 THEN "" ELSE "c"]
==============================================================================
