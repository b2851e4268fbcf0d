-------------------------- MODULE MCRelayFederation --------------------------
(* RelayFederation on a small instance. *)
EXTENDS RelayFederation

=============================================================================
