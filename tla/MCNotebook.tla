----------------------------- MODULE MCNotebook -----------------------------
\* Instances of Notebook for TLC.
EXTENDS Notebook

CONSTANTS n1, home

OneNotebook == {n1}
OneVolume == [n \in Notebooks |-> <<home>>]
Running == <<"running">>
==============================================================================
