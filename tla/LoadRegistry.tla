---------------------------- MODULE LoadRegistry ----------------------------
(***************************************************************************)
(* What external_data_load_date promises: one row per name, each row with  *)
(* its own id, and every update an atomic upsert of the updater's own row. *)
(* LoadDates is the implementation.                                        *)
(***************************************************************************)
EXTENDS Naturals

CONSTANTS Names, \* the names that may be registered
          Ids,   \* the ids a row may get
          Times  \* the load dates

VARIABLES present, \* whether the registry file exists
          table    \* a function from the registered names to [id, start]

vars == <<present, table>>

Init == /\ present \in BOOLEAN
        /\ table = [n \in {} |-> [id |-> 0, start |-> 0]]

\* The load dates of n become s, later than the ones n had.  A registered name
\* keeps its id; a new one gets an id no other name has.
Upsert(n, i, s) ==
    /\ present
    /\ IF n \in DOMAIN table
       THEN i = table[n].id /\ table[n].start < s
       ELSE \A m \in DOMAIN table : table[m].id # i
    /\ table' = [m \in DOMAIN table \cup {n} |->
                     IF m = n THEN [id |-> i, start |-> s] ELSE table[m]]
    /\ UNCHANGED present

\* The registry is created, or emptied, by an explicit "initialize recreate".
Recreate == /\ present' = TRUE
            /\ table' = [n \in {} |-> [id |-> 0, start |-> 0]]

Next == \/ \E n \in Names, i \in Ids, s \in Times : Upsert(n, i, s)
        \/ Recreate

Spec == Init /\ [][Next]_vars
=============================================================================
