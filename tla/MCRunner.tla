------------------------------ MODULE MCRunner ------------------------------
(* Values of the runner's constants for TLC. *)
EXTENDS Runner, TLC

\* The two streams are treated alike.
StreamSymmetry == Permutations(Streams)

MCWrites == <<2, 0>>

MCSurvivorWrites == <<1>>

MCAllFaults == {"start", "read", "wait"}

MCNoFaults == {}

=============================================================================
