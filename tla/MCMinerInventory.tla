-------------------------- MODULE MCMinerInventory --------------------------
(* Instance of MinerInventory for TLC: two addresses, three names, two users. *)
EXTENDS MinerInventory

CONSTANTS ip1, ip2, name1, name2, name3, alice, bob

MCIps == {ip1, ip2}
MCNames == {name1, name2, name3}
MCOwners == {alice, bob}

First == [ip |-> ip1, name |-> name1, owner |-> alice, link |-> alice,
          thresholds |-> TRUE, status |-> "active"]
MCTables == {{}, {First}}
MCYamlFiles ==
  {{}, {[ip |-> ip1, name |-> name1, owner |-> alice, thresholds |-> TRUE],
        [ip |-> ip2, name |-> name1, owner |-> bob, thresholds |-> FALSE]}}
=============================================================================
