---------------------------- MODULE MCCostEngine ----------------------------
(***************************************************************************)
(* CostEngine with one blended resource and one that is not.               *)
(***************************************************************************)
EXTENDS CostEngine

Server(price, amort, ram, ssd) ==
    [price |-> price, amort |-> amort, units |-> [ram |-> ram, ssd |-> ssd]]

\* Prices that divide evenly and that do not, a server that is paid off, and
\* one without storage.
SmallHardware ==
    { [servers |-> <<Server(2400, 12, 1, 1)>>,
       infrastructure |-> <<>>, fee |-> 0],
      [servers |-> <<Server(1300, 12, 2, 0), Server(900, 0, 1, 2)>>,
       infrastructure |-> <<[price |-> 500, amort |-> 7]>>, fee |-> 41],
      [servers |-> <<Server(70, 3, 3, 1)>>,
       infrastructure |-> <<>>, fee |-> 20] }

SmallNeeds == { [ram |-> 1, ssd |-> 0], [ram |-> 2, ssd |-> 1] }
=============================================================================
