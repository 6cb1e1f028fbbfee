------------------------------ MODULE MCAgent --------------------------------
(* Agent for TLC: the pipe sets of a session with and without CONERR.      *)
EXTENDS Agent, FiniteSets

WithoutConerr == {"control", "conout"}
WithConerr == {"control", "conout", "conerr"}
OutputOnly == {"conout", "conerr"} \cap OutPipes
InputAndError == {"conin", "conerr"}

AllRequests == Requests
ExitingSpawn == {r \in Requests : Cardinality(r.flags) = 2}
SpawnOrList == ExitingSpawn \cup {r \in Requests : r.kind = "processList"}
Inbound == {"control", "conin"}

=============================================================================
