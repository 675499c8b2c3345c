------------------------------ MODULE MCParkGold ------------------------------
EXTENDS ParkGold, TLC

CONSTANTS p1, p2, other

\* The PARK processes update the PARK row, any other script its own.
ParkOrOwn == [l \in Loaders |-> IF l \in Parks THEN Park ELSE l]
=============================================================================
