---------------------------- MODULE MCCostReport ----------------------------
(***************************************************************************)
(* CostReport with small sets: the workloads are all of one service, and   *)
(* the other services, if any, have none.                                  *)
(***************************************************************************)
EXTENDS CostReport

\* Where the server is: the date in UTC is sometimes a day ahead, sometimes a
\* day behind, or always the local one.
WestOfGreenwich == {0, 1}
EastOfGreenwich == {-1, 0}
Greenwich == {0}

OneOwner(w) == CHOOSE s \in Services : TRUE
=============================================================================
