------------------------------ MODULE MCFonGold -------------------------------
EXTENDS FonGold

CONSTANTS r1
=============================================================================
