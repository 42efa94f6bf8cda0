--------------------------- MODULE MCModelTemplate ---------------------------
\* Instances of ModelTemplate for TLC.
EXTENDS ModelTemplate

CONSTANT t1

OneTemplate == {t1}
AllOfOne == [v \in Versions |-> t1]
==============================================================================
