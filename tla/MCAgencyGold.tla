----------------------------- MODULE MCAgencyGold -----------------------------
EXTENDS AgencyGold

CONSTANTS r1

\* A good file, and one whose last table is refused.
GoodAndBad == {[cgac |-> "v1", frec |-> "v2", subtier |-> "v1"],
               [cgac |-> "v2", frec |-> "v2", subtier |-> "custom"]}
=============================================================================
