------------------------------- MODULE MCStore -------------------------------
(* Instances of Store: two workers, one of which may replace the other, that *)
(* open the same database files.                                             *)
EXTENDS Store, TLC

CONSTANTS m1, m2
MCVM == {m1, m2}

\* A worker with two handles, and one that interferes.
MCMaxHandle == [m \in MCVM |-> IF m = m1 THEN 2 ELSE 1]
MCOneHandle == [m \in MCVM |-> 1]
=============================================================================
