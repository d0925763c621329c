-------------------------- MODULE MCInstallScript --------------------------
EXTENDS InstallScript, TLC

(* Versions are interchangeable, where no liveness is checked. *)
Symmetry == Permutations(Versions)

=============================================================================
