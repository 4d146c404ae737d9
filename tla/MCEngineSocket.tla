--------------------------- MODULE MCEngineSocket ---------------------------
(* EngineSocket on small instances: clones polled by interchangeable threads. *)
EXTENDS EngineSocket, TLC

PollerSymmetry == Permutations(Pollers)
=============================================================================
