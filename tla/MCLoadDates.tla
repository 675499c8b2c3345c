----------------------------- MODULE MCLoadDates -----------------------------
EXTENDS LoadDates, TLC

CONSTANTS a, b, c, d

\* Each script updates a name of its own.
OwnName == [l \in Loaders |-> l]

\* b is a second run of the script a: both update a's name.
TwoRuns == [l \in Loaders |-> IF l = b THEN a ELSE l]
=============================================================================
