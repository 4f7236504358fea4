---------------------------- MODULE MCCollector ----------------------------
(* Instance of Collector for TLC: one machine that may be renamed or removed and one *)
(* example in the seed file.                                                         *)
EXTENDS Collector

CONSTANTS miner, example, old, new

MCIps == {miner, example}
MCLabels == {old, new}
OnlyMiner(l) == [ip \in MCIps |-> IF ip = miner THEN l ELSE Absent]
MCFleets == {OnlyMiner(old), OnlyMiner(new), OnlyMiner(Absent)}
MCYamlFile == [ip \in MCIps |-> IF ip = example THEN old ELSE Absent]
MCWithFallback == {miner}
=============================================================================
