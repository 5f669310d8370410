-------------------------- MODULE MCAgentLifecycle --------------------------
(* TLC instances of AgentLifecycle: main and one handler.                   *)
EXTENDS AgentLifecycle

CONSTANTS s1, handler, p1, p2, good, empty, api

MCSupervisors == {s1}
MCCallers == {Main, handler}
MCPids == {p1, p2}
MCConfigs == {good, empty}
MCGood == {good}
MCEndpoints == {api}
MCApi == [c \in Configs |-> api]
=============================================================================
