-------------------------------- MODULE Mail --------------------------------
(***************************************************************************)
(* What a relay promises its recipients, without cursors, acks, handlers   *)
(* or polls: letters wait in the order they were posted, are offered       *)
(* oldest first, and a letter that waits is given up only when its         *)
(* recipient has taken it, when it is too old, or when it is displaced by  *)
(* newer letters in a full mailbox, oldest first.                          *)
(***************************************************************************)
EXTENDS Naturals, FiniteSets

CONSTANTS
    Keys,             \* recipients
    MaxPerRecipient,  \* letters that wait for a recipient
    MaxTotal,         \* letters that wait
    MaxAge            \* how long a letter waits

VARIABLES
    clock,    \* the time
    last,     \* the number of the last letter
    waiting,  \* letters
    offered,  \* recipient -> letters on their way to it
    taken     \* recipient -> letters it has received

vars == <<clock, last, waiting, offered, taken>>

For(k) == {m \in waiting : m.toKey = k}

TooOld(m) == clock >= m.receivedAt + MaxAge

Init ==
    /\ clock = 1
    /\ last = 0
    /\ waiting = {}
    /\ offered = [k \in Keys |-> {}]
    /\ taken = [k \in Keys |-> {}]

Passes ==
    /\ clock' = clock + 1
    /\ UNCHANGED <<last, waiting, offered, taken>>

\* New letters have numbers above all earlier ones.  What they displace is older than what
\* stays for its recipient, and the mailbox is full then.
Post ==
    /\ \A m \in waiting' \ waiting : last < m.receivedAt /\ m.receivedAt <= last'
    /\ \A m \in waiting \ waiting' :
          /\ \A x \in For(m.toKey)' : m.receivedAt < x.receivedAt
          /\ \/ Cardinality(For(m.toKey)') >= MaxPerRecipient
             \/ Cardinality(waiting') > MaxTotal
    /\ \A m, x \in waiting' : m # x => /\ m.receivedAt # x.receivedAt
                                       /\ <<m.toKey, m.blob>> # <<x.toKey, x.blob>>
    /\ UNCHANGED <<clock, offered, taken>>

\* A recipient is offered letters with all older ones that wait for it.
Offer(k, page) ==
    /\ \A m \in page, x \in For(k) \ page : m.receivedAt < x.receivedAt \/ TooOld(x)
    /\ offered' = [offered EXCEPT ![k] = @ \cup page]
    /\ UNCHANGED <<clock, last, waiting, taken>>

\* Offers are taken, or lost; left are the ones still on their way.
Take(k, page, left) ==
    /\ taken' = [taken EXCEPT ![k] = @ \cup page]
    /\ offered' = [offered EXCEPT ![k] = left]
    /\ UNCHANGED <<clock, last, waiting>>

Lose(k, left) ==
    /\ offered' = [offered EXCEPT ![k] = left]
    /\ UNCHANGED <<clock, last, waiting, taken>>

\* What was taken, or is too old, need not wait.
Forget(gone) ==
    /\ \A m \in gone : m \in taken[m.toKey] \/ TooOld(m)
    /\ waiting' = waiting \ gone
    /\ UNCHANGED <<clock, last, offered, taken>>

Next ==
    \/ Passes
    \/ Post
    \/ \E k \in Keys :
          \/ \E page \in SUBSET For(k) : Offer(k, page)
          \/ \E page, left \in SUBSET offered[k] : Take(k, page, left)
          \/ \E left \in SUBSET offered[k] : Lose(k, left)
    \/ \E gone \in SUBSET waiting : Forget(gone)

Spec == Init /\ [][Next]_vars

=============================================================================
