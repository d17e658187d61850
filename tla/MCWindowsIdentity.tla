------------------------- MODULE MCWindowsIdentity -------------------------
(* Small instances of WindowsIdentity for TLC. *)
EXTENDS WindowsIdentity, TLC

Symmetry == Permutations(Codes) \cup Permutations(Devices)
            \cup Permutations(Nonces)

=============================================================================
