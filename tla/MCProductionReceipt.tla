------------------------- MODULE MCProductionReceipt -------------------------
(* ProductionReceipt with the deliveries and the typed counters TLC tries. *)
EXTENDS ProductionReceipt

MCDeliveries ==
    {[good |-> 1, scrap |-> 0, seconds |-> 0], [good |-> 0, scrap |-> 2, seconds |-> 1]}

\* Nothing typed into the counters, or one good unit and two defects.
MCCounts == {<<0, 0>>, <<1, 2>>}

\* A run starts with its material, and with its cost articles too if it starts
\* with counters; a run with neither is the one whose cost is unknown.  This
\* keeps the instance small: other costs come with a save or a return.
MCInit ==
    /\ Init
    /\ \/ issued = MaxIssues /\ (rollup # <<0, 0>> => manual > 0)
       \/ issued = 0 /\ manual = 0 /\ rollup = <<0, 0>>

MCSpec == MCInit /\ [][Next]_vars
=============================================================================
