------------------------------ MODULE MCDefcGold ------------------------------
EXTENDS DefcGold

CONSTANTS r1, r2
=============================================================================
