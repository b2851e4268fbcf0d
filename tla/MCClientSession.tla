--------------------------- MODULE MCClientSession ---------------------------
(***************************************************************************)
(* Instances of ClientSession for TLC.  The relays are model values; A is  *)
(* the default one.                                                        *)
(***************************************************************************)
EXTENDS ClientSession

CONSTANTS A, B
=============================================================================
