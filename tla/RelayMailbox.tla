---------------------------- MODULE RelayMailbox ----------------------------
(***************************************************************************)
(* The relay's mailbox (server.knot): POST /messages appends rows under a  *)
(* fresh sequence number, POST /poll acks everything up to the caller's    *)
(* cursor and returns the rows above it, waiting for one if there is none; *)
(* a background sweep drops rows past their age.                           *)
(*                                                                         *)
(* Every `atomic` block is one action.  A handler reads the clock and runs *)
(* several atomic blocks, so handlers interleave.  The client side is the  *)
(* poll loop of ClientSession reduced to the cursor: it adopts the cursor  *)
(* of a page that reaches it, pages may be lost, polls may overlap (an     *)
(* abandoned one is not cancelled), and a relaunch may fall back to a      *)
(* cursor saved earlier.  Sessions and federation are not part of this     *)
(* module.                                                                 *)
(***************************************************************************)
EXTENDS Naturals, FiniteSets, Sequences

CONSTANTS
    Keys,              \* recipients
    Pollers,           \* the recipients that poll
    Blobs,             \* ciphertexts
    MaxPerRecipient,   \* maxMessagesPerRecipient
    MaxTotal,          \* maxMessagesTotal
    MaxPollEvents,     \* maxPollEvents
    MaxAge,            \* messageMaxAge
    Handlers,          \* bound: polls the relay serves at once
    Batches,           \* the requests to send
    MaxTime,           \* bound: the clock
    MaxSeq             \* bound: sequence numbers issued

ASSUME MailboxAssumption ==
    /\ Pollers \subseteq Keys
    /\ Batches \subseteq Seq([toKey: Keys, blob: Blobs])
    /\ MaxPerRecipient \in Nat \ {0}
    /\ MaxTotal \in Nat \ {0}
    /\ MaxPollEvents \in Nat \ {0}
    /\ MaxAge \in Nat \ {0}
    /\ MaxTime \in Nat \ {0}
    /\ MaxSeq \in Nat

VARIABLES
    \* the relay
    clock,     \* now
    seq,       \* currentSeq of *seqCounter
    messages,  \* *messages
    polls,     \* handler -> where it is
    \* the recipients
    cursor,    \* key -> the number its next poll sends
    taken      \* key -> the rows of the pages it has adopted

relayVars == <<clock, seq, messages, polls>>
vars == <<clock, seq, messages, polls, cursor, taken>>

-----------------------------------------------------------------------------
(* Types *)

Row == [toKey: Keys, blob: Blobs, receivedAt: 0 .. MaxSeq]

Idle == [stage |-> "idle"]

\* collect: acked, not yet looked; wait: the first page was empty; recollect: woken
\* or timed out; answer: the page is on its way.
PollState ==
    {Idle}
      \cup [stage: {"collect", "wait", "recollect"}, key: Keys, at: 0 .. MaxTime,
            cursor: 0 .. MaxSeq]
      \cup [stage: {"answer"}, key: Keys, cursor: 0 .. MaxSeq, rows: SUBSET Row]

-----------------------------------------------------------------------------
(* Rows *)

MaxOf(a, b) == IF a > b THEN a ELSE b

MinOf(a, b) == IF a < b THEN a ELSE b

Older(S, m) == {x \in S : x.receivedAt < m.receivedAt}

\* The n rows of S with the lowest receivedAt, and the rest of S.
Oldest(S, n) == {m \in S : Cardinality(Older(S, m)) < n}

DropOldest(S, n) == S \ Oldest(S, n)

Excess(S, max) == IF Cardinality(S) > max THEN Cardinality(S) - max ELSE 0

For(S, k) == {m \in S : m.toKey = k}

Expired(m, t) == t >= m.receivedAt + MaxAge

\* freshFor
Fresh(k, c, t) == {m \in For(messages, k) : ~Expired(m, t) /\ m.receivedAt > c}

\* Faulty variant: a page of the newest rows.
PageNewest(k, c, t) ==
    LET fresh == Fresh(k, c, t)
    IN  DropOldest(fresh, Excess(fresh, MaxPollEvents))

\* Faulty variant: the number after the page.
PageCursorAfter(c, rows) ==
    1 + CHOOSE n \in {c} \cup {m.receivedAt : m \in rows} :
            \A m \in rows : m.receivedAt <= n

\* The page of doPoll's collectAt: the first rows, and the highest of their numbers.
Page(k, c, t) == Oldest(Fresh(k, c, t), MaxPollEvents)

PageCursor(c, rows) ==
    CHOOSE n \in {c} \cup {m.receivedAt : m \in rows} :
        \A m \in rows : m.receivedAt <= n

-----------------------------------------------------------------------------
(* POST /messages *)

\* Faulty variant: the clock alone.
SeqTsFromClock(t, s) == t

\* The number of the next row, for a handler that read the clock at t.
SeqTs(t, s) == MaxOf(t, s + 1)

\* Faulty variant: the ceiling over all recipients is not applied.
MadeRoomForOne(ms, k) ==
    LET own == For(ms, k)
    IN  (ms \ own) \cup DropOldest(own, Excess(own, MaxPerRecipient - 1))

\* Room for a row to k: the recipient's oldest rows go, then the oldest of all.
MadeRoom(ms, k) ==
    LET own  == For(ms, k)
        kept == (ms \ own) \cup DropOldest(own, Excess(own, MaxPerRecipient - 1))
    IN  DropOldest(kept, Excess(kept, MaxTotal))

\* Faulty variant: a ciphertext is appended again when it is sent again.
AppendMessageAgain(box, m, t) ==
    LET n == SeqTs(t, box.seq)
    IN  [seq |-> n,
         messages |-> MadeRoom(box.messages, m.toKey) \cup
                        {[toKey |-> m.toKey, blob |-> m.blob, receivedAt |-> n]}]

\* appendMessage, on box = [messages, seq].
AppendMessage(box, m, t) ==
    IF \E x \in box.messages : x.toKey = m.toKey /\ x.blob = m.blob
    THEN box
    ELSE LET n == SeqTs(t, box.seq)
         IN  [seq |-> n,
              messages |-> MadeRoom(box.messages, m.toKey) \cup
                             {[toKey |-> m.toKey, blob |-> m.blob, receivedAt |-> n]}]

\* The batch in order.
Appended(batch, t) ==
    LET box[i \in 0 .. Len(batch)] ==
          IF i = 0 THEN [messages |-> messages, seq |-> seq]
          ELSE AppendMessage(box[i - 1], batch[i], t)
    IN  box[Len(batch)]

\* handleSendMessages: it reads the clock, and commits the batch some time later.
SendMessages(batch, t) ==
    LET box == Appended(batch, t)
    IN  /\ box.seq <= MaxSeq
        /\ messages' = box.messages
        /\ seq' = box.seq
        /\ UNCHANGED <<clock, polls, cursor, taken>>

-----------------------------------------------------------------------------
(* POST /poll *)

\* handlePoll's clamp: nothing beyond what was issued can be acked.
Clamped(c) == MinOf(MaxOf(clock, seq), c)

\* ackPolledMessages.
Acked(k, c) == {m \in For(messages, k) : m.receivedAt <= c}

\* handlePoll's first block.  It reads the clock just before; an older reading would
\* clamp no differently, as no cursor is above seq, and only age `at`, as Tick does.
PollBegins(h, k) ==
    LET c == Clamped(cursor[k])
    IN  /\ polls[h] = Idle
        /\ messages' = messages \ Acked(k, c)
        /\ polls' = [polls EXCEPT ![h] =
                        [stage |-> "collect", key |-> k, at |-> clock, cursor |-> c]]
        /\ UNCHANGED <<clock, seq, cursor, taken>>

Answer(p, rows) ==
    [stage |-> "answer", key |-> p.key, cursor |-> PageCursor(p.cursor, rows), rows |-> rows]

\* The first collect, at the time the handler began.
PollCollects(h) ==
    LET p    == polls[h]
        rows == Page(p.key, p.cursor, p.at)
    IN  /\ p.stage = "collect"
        /\ polls' = [polls EXCEPT ![h] =
                        IF rows # {} THEN Answer(p, rows)
                        ELSE [p EXCEPT !.stage = "wait", !.at = clock]]
        /\ UNCHANGED <<clock, seq, messages, cursor, taken>>

\* The wait finds a fresh row.
PollWakes(h) ==
    LET p == polls[h]
    IN  /\ p.stage = "wait"
        /\ Fresh(p.key, p.cursor, p.at) # {}
        /\ polls' = [polls EXCEPT ![h].stage = "recollect"]
        /\ UNCHANGED <<clock, seq, messages, cursor, taken>>

\* pollTimeoutMs is over.
PollTimesOut(h) ==
    /\ polls[h].stage = "wait"
    /\ polls' = [polls EXCEPT ![h].stage = "recollect"]
    /\ UNCHANGED <<clock, seq, messages, cursor, taken>>

PollRecollects(h) ==
    LET p == polls[h]
    IN  /\ p.stage = "recollect"
        /\ polls' = [polls EXCEPT ![h] = Answer(p, Page(p.key, p.cursor, clock))]
        /\ UNCHANGED <<clock, seq, messages, cursor, taken>>

\* The page reaches the client, whose cursor only moves up.
PageArrives(h) ==
    LET p == polls[h]
    IN  /\ p.stage = "answer"
        /\ cursor' = [cursor EXCEPT ![p.key] = MaxOf(@, p.cursor)]
        /\ taken' = [taken EXCEPT ![p.key] = @ \cup p.rows]
        /\ polls' = [polls EXCEPT ![h] = Idle]
        /\ UNCHANGED <<clock, seq, messages>>

\* The client has given up on this poll, or the connection is gone.
PageLost(h) ==
    /\ polls[h].stage = "answer"
    /\ polls' = [polls EXCEPT ![h] = Idle]
    /\ UNCHANGED <<clock, seq, messages, cursor, taken>>

\* A relaunch falls back to a cursor that was stored: one of those adopted so far, or none.
Relaunch(k, c) ==
    /\ c <= cursor[k]
    /\ c = 0 \/ \E m \in taken[k] : m.receivedAt = c
    /\ cursor' = [cursor EXCEPT ![k] = c]
    /\ UNCHANGED <<relayVars, taken>>

-----------------------------------------------------------------------------
(* Time *)

Tick ==
    /\ clock < MaxTime
    /\ clock' = clock + 1
    /\ UNCHANGED <<seq, messages, polls, cursor, taken>>

\* pruneExpired, of the rows.
Prune ==
    /\ messages' = {m \in messages : ~Expired(m, clock)}
    /\ UNCHANGED <<clock, seq, polls, cursor, taken>>

-----------------------------------------------------------------------------
Init ==
    /\ clock = 1
    /\ seq = 0
    /\ messages = {}
    /\ polls = [h \in Handlers |-> Idle]
    /\ cursor = [k \in Keys |-> 0]
    /\ taken = [k \in Keys |-> {}]

Serve(h) ==
    \/ PollCollects(h)
    \/ PollWakes(h)
    \/ PollTimesOut(h)
    \/ PollRecollects(h)

Next ==
    \/ \E batch \in Batches, t \in 1 .. clock : SendMessages(batch, t)
    \/ \E h \in Handlers :
          \/ \E k \in Pollers : PollBegins(h, k)
          \/ Serve(h)
          \/ PageArrives(h)
          \/ PageLost(h)
    \/ \E k \in Pollers, c \in 0 .. MaxSeq : Relaunch(k, c)
    \/ Tick
    \/ Prune

Spec == Init /\ [][Next]_vars

-----------------------------------------------------------------------------
(* Properties *)

\* Every variable keeps its type.
TypeOK ==
    /\ clock \in 0 .. MaxTime
    /\ seq \in 0 .. MaxSeq
    /\ messages \subseteq Row
    /\ polls \in [Handlers -> PollState]
    /\ cursor \in [Keys -> 0 .. MaxSeq]
    /\ taken \in [Keys -> SUBSET Row]

\* A sequence number orders the rows, and a ciphertext is stored once, however
\* often it is sent again (appendMessage's dedupe).
RowsAreDistinct ==
    \A m, x \in messages : m # x =>
        m.receivedAt # x.receivedAt /\ <<m.toKey, m.blob>> # <<x.toKey, x.blob>>

\* A cursor never passes over a row: whatever the client's cursor is at or above,
\* it has taken (or it has expired).  This is why an ack may delete.
NothingSkipped ==
    \A m \in messages :
        m.receivedAt <= cursor[m.toKey] => m \in taken[m.toKey] \/ Expired(m, clock)

\* No recipient holds more than maxMessagesPerRecipient rows.
RecipientCapped == \A k \in Keys : Cardinality(For(messages, k)) <= MaxPerRecipient

\* The mailbox never holds more than maxMessagesTotal rows and the one just appended:
\* appendMessage trims to the ceiling first and reserves no slot, unlike the cap per
\* recipient.
TotalCapped == Cardinality(messages) <= MaxTotal + 1

\* Both ceilings hold.
Capped == RecipientCapped /\ TotalCapped

\* The pages on their way to a recipient.
Offered(k) ==
    UNION {polls[h].rows : h \in {x \in Handlers : polls[x].stage = "answer" /\ polls[x].key = k}}

Promised == INSTANCE Mail WITH last <- seq, waiting <- messages,
                               offered <- [k \in Keys |-> Offered(k)]

\* The mailbox keeps the promise of Mail: with cursors that overlapping polls, lost pages
\* and relaunches leave behind, an ack removes only what its recipient has taken, pages
\* come oldest first, and the evictions of appendMessage hit the oldest rows of a full
\* mailbox.
KeepsPromise == Promised!Spec

=============================================================================
