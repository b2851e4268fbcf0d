---------------------------- MODULE MCClientInbox ----------------------------
(***************************************************************************)
(* Instances of ClientInbox for TLC: what a peer may have sent.            *)
(***************************************************************************)
EXTENDS ClientInbox

CONSTANTS P, o

Said(i, t) == [kind |-> "text", from |-> P, id |-> i, ts |-> t]

Acks(ids, t) == [kind |-> "ack", from |-> P, ids |-> ids, ts |-> t]

Named(t) == [kind |-> "profile", from |-> P, ts |-> t]

Junk == [kind |-> "junk"]

Echo == [kind |-> "echo"]

\* More texts than a conversation and a dedup set hold, out of order and one of them from
\* the future; a text sent twice; a text under an id of ours; acks out of order; an
\* unreadable event ahead of a text.
Mail ==
    {<<Said(1, 9), Said(2, 1), Said(3, 2)>>,
     <<Said(1, 2), Said(1, 2)>>,
     <<Said(1, 1), Said(o, 2)>>,
     <<Acks({}, 9), Acks({o}, 1)>>,
     <<Acks({}, 9), Acks({o}, 2)>>,
     <<Echo, Junk, Said(1, 9)>>,
     <<Named(9), Named(1)>>}
=============================================================================
