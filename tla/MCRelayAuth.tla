----------------------------- MODULE MCRelayAuth -----------------------------
(***************************************************************************)
(* Instances of RelayAuth for TLC.  Handlers and keys are interchangeable. *)
(***************************************************************************)
EXTENDS RelayAuth, TLC

CONSTANTS k1, k2, h1, h2

Symmetry == Permutations(Keys) \cup Permutations(Handlers)
==============================================================================
