--------------------------- MODULE MCMinerControl ---------------------------
(* Instance of MinerControl for TLC: a Whatsminer and another machine, two jobs in flight, and an
   entry whose second and third pool have the same priority. *)
EXTENDS MinerControl

CONSTANTS whatsminer, avalon, p1, p2

MCMachines == {whatsminer, avalon}
MCTokened == {whatsminer}
MCWebMethods == [m \in MCMachines |-> IF m = whatsminer THEN 2 ELSE 0]
MCPoolEntries == {p1, p2}
MCConfigs == {<<p1, p2>>, <<p2>>}
MCEntered == {<<[pool |-> p2, priority |-> 0], [pool |-> p1, priority |-> 1],
                [pool |-> p2, priority |-> 1]>>}
=============================================================================
