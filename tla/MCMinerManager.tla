--------------------------- MODULE MCMinerManager ---------------------------
(* TLC instances of MinerManager.                                           *)
EXTENDS MinerManager, TLC

CONSTANTS s1, s2, c1, c2, p1, p2, good, other, empty, api, api2

MCSupervisors == {s1, s2}
MCOneSupervisor == {s1}
MCCallers == {c1, c2}
MCOneCaller == {c1}
MCPids == {p1, p2}

\* A complete configuration and an incomplete one; and another complete one, with
\* the miner's API on another port.
MCConfigs == {good, other, empty}
MCValid == {good, other}
MCTwoConfigs == {good, empty}
MCOneValid == {good}
MCEndpoints == {api, api2}
MCApi == [c \in Configs |-> IF c = other THEN api2 ELSE api]

\* Goroutines and pids are interchangeable.
MCSymmetry == Permutations(MCSupervisors) \union Permutations(MCCallers)
                \union Permutations(MCPids)
=============================================================================
