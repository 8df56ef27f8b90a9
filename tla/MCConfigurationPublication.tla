--------------------- MODULE MCConfigurationPublication ---------------------
(* Processes are interchangeable: what each came for is part of the state.  *)
EXTENDS ConfigurationPublication, TLC

Symmetry == Permutations(Transaction)
=============================================================================
