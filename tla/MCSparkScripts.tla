---------------------------- MODULE MCSparkScripts ----------------------------
EXTENDS SparkScripts

CONSTANTS p1, p2, delta

\* The Delta table has a chain of two queries.
TwoQueries == [t \in Deltas |-> 2]
=============================================================================
