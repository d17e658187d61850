-------------------------- MODULE MCWindowsBridge --------------------------
(* Small instances of WindowsBridge for TLC. *)
EXTENDS WindowsBridge, TLC

Symmetry == Permutations(Commands) \cup Permutations(Threads)

=============================================================================
