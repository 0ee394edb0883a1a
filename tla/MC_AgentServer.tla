--------------------------- MODULE MC_AgentServer ---------------------------
(* Model-checking instance of AgentServer: two servers with one replica    *)
(* each, one model with two versions, three connections, two concurrent   *)
(* Syncs.                                                                   *)
EXTENDS AgentServer, TLC

CONSTANTS s1, s2, m1

MCServers == {s1, s2}
MCModels  == {m1}
MCIdxs    == {0}

\* The two servers are interchangeable.
MCSymmetry == Permutations(MCServers)
=============================================================================
