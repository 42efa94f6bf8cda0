---------------------------- MODULE MCBuiltInData ----------------------------
\* Instances of BuiltInData for TLC.
EXTENDS BuiltInData

CONSTANTS s1, s2, s3
==============================================================================
