---------------------------- MODULE MCRelayMailbox ----------------------------
(***************************************************************************)
(* An instance of RelayMailbox for TLC.  Handlers are interchangeable, and *)
(* so are the ciphertexts sent to both recipients; b3 fills the mailbox of *)
(* b, who does not poll, until both caps bind.                             *)
(***************************************************************************)
EXTENDS RelayMailbox, TLC

CONSTANTS a, b, b1, b2, b3, h1, h2

To(k, blob) == [toKey |-> k, blob |-> blob]

Mixed == Blobs \ {b3}

MCBatches ==
    {<<To(a, x)>> : x \in Mixed} \cup {<<To(a, x), To(a, y)>> : x, y \in Mixed}
        \cup {<<To(b, b3)>>, <<To(b, b1), To(b, b2)>>, <<To(b, b2), To(b, b1)>>}

Symmetry == Permutations(Mixed) \cup Permutations(Handlers)
===============================================================================
