--------------------------- MODULE MCClientOutbox ---------------------------
(* ClientOutbox on a small instance: keys 1 and 2, of which one may be unusable. *)
EXTENDS ClientOutbox

=============================================================================
