---------------------------- MODULE MCLiveStats ----------------------------
(* Instance of LiveStats for TLC: two addresses, two names, two users. *)
EXTENDS LiveStats

CONSTANTS ip1, ip2, name1, name2, alice, bob

MCIps == {ip1, ip2}
MCNames == {name1, name2}
MCOwners == {alice, bob}

Miner(ip, name, owner) ==
  [ip |-> ip, name |-> name, owner |-> owner, link |-> NoOwner,
   thresholds |-> FALSE, status |-> "active"]
MCTables == {{Miner(ip1, name1, alice), Miner(ip2, name2, bob)}}
MCYamlFiles == {{}, {[ip |-> ip2, name |-> name1, owner |-> bob, thresholds |-> FALSE]}}

Deployments ==
  {[simulation |-> FALSE, source |-> s] : s \in {"prometheus", "push"}} \cup
  {[simulation |-> TRUE, source |-> "prometheus"]}
=============================================================================
