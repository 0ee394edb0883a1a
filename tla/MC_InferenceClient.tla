------------------------- MODULE MC_InferenceClient -------------------------
(* Model-checking instance of InferenceClient: two model names, a response *)
(* without one, and the iteration counts around the single/summary split.  *)
EXTENDS InferenceClient

MCNames == {"m1", "m2", ""}

\* The --iterations flag at zero, negative, and its default.
MCEdgeIterations == {-1, 0, 1}
=============================================================================
