---------------------------- MODULE ClientOutbox ----------------------------
(***************************************************************************)
(* The send loop of the client core (core/src/app.rs): the outbox, the one *)
(* POST /messages allowed in flight, its watchdog, and every event that    *)
(* edits the outbox while that request is out.                             *)
(*                                                                         *)
(* `update` runs on one thread and a command's emitted events are drained  *)
(* before the shell is heard again, so a handler together with the         *)
(* StartFlush it emits is one action.  HTTP results and timers come back   *)
(* from the shell in any order and any time later: they are the members of *)
(* `pending`.                                                              *)
(*                                                                         *)
(* The VecDeque is a function from arrival numbers to items.  The code     *)
(* only pushes at the back, so the order of the arrival numbers is the     *)
(* order of the queue, and an item keeps its number while others go.       *)
(***************************************************************************)
EXTENDS Naturals, FiniteSets

CONSTANTS
    Peers,          \* public keys, as numbers: `contacts` iterates in key order
    BadKeys,        \* those encrypt_for cannot encrypt to
    MaxContacts,    \* MAX_CONTACTS
    MaxBatch,       \* MAX_SEND_BATCH
    MaxBatchBytes,  \* MAX_SEND_BATCH_BYTES, in the units of Bytes
    MaxRetries,     \* MAX_OUTBOX_RETRIES
    Generations,    \* the range of flush_gen: 2^64 in the code, which wraps
    MaxItems,       \* bound: items ever queued
    MaxProfile      \* bound: profile edits

ASSUME OutboxAssumption ==
    /\ Peers \subseteq Nat
    /\ IsFiniteSet(Peers)
    /\ BadKeys \subseteq Peers
    /\ MaxContacts \in Nat
    /\ MaxBatch \in Nat \ {0}
    /\ MaxBatchBytes \in Nat \ {0}
    /\ MaxRetries \in Nat \ {0}
    /\ Generations \in Nat \ {0, 1}
    /\ MaxItems \in Nat
    /\ MaxProfile \in Nat

VARIABLES
    \* the core's model
    contacts,           \* keys of `contacts`
    blocked,            \* contacts whose `blocked` flag is set
    profile,            \* version of the user's own profile
    outbox,             \* arrival number -> item
    arrivals,           \* items queued so far
    flushing,           \* a /messages request holds the send loop
    flush_gen,          \* the generation whose result is honoured
    in_flight,          \* what that result will pop, or None
    send_batch_budget,  \* effective byte budget of a batch
    flush_paused,       \* now_ms() < flush_paused_until
    token,              \* a session token is held
    kv_load_failed,     \* a storage read failed: nothing may be written
    \* the shell
    pending,            \* requests not yet answered, watchdogs not yet fired
    \* observer
    answered            \* <<arrival number, payload>> settled by a relay's honoured answer

queue  == <<contacts, blocked, profile, arrivals>>
limits == <<send_batch_budget, flush_paused, token, kv_load_failed>>
loop   == <<outbox, flushing, flush_gen, in_flight, pending>>
vars   == <<contacts, blocked, profile, outbox, arrivals, flushing, flush_gen,
            in_flight, send_batch_budget, flush_paused, token, kv_load_failed,
            pending, answered>>

-----------------------------------------------------------------------------
(* Types *)

Gens == 0 .. Generations - 1

\* `first_attempt`: never sent, sent within OUTBOX_TTL_MS, sent longer ago.
Ages == {"new", "tried", "old"}

\* `payload` stands for envelope_json: a profile's version, 0 for anything else
\* (a text or an ack never changes once queued).  `retries` is below the budget
\* in the queue, because charge_retry drops the item that reaches it.
Item == [to: Peers, kind: {"plain", "profile"}, payload: 0 .. MaxProfile,
         retries: 0 .. MaxRetries, age: Ages]

None == [count |-> 0, bytes |-> 0]

InFlight == [recipient: Peers, count: Nat \ {0}, bytes: Nat]

\* A request out at the relay, with the payload it carries under each arrival
\* number, or a timer.
Pending == [what: {"send"}, gen: Gens, to: Peers,
            batch: SUBSET ((0 .. MaxItems) \X (0 .. MaxProfile))]
             \cup [what: {"watchdog"}, gen: Gens]

-----------------------------------------------------------------------------
(* The queue *)

\* The items S of q as a request carries them.
Carried(q, S) == {<<i, q[i].payload>> : i \in S}

UpTo(q, i) == {j \in DOMAIN q : j <= i}

Before(q, i) == {j \in DOMAIN q : j < i}

\* The arrival numbers of the first n items.
Front(q, n) == {i \in DOMAIN q : Cardinality(Before(q, i)) < n}

Without(q, S) == [i \in DOMAIN q \ S |-> q[i]]

Push(q, n, item) == [i \in DOMAIN q \cup {n} |-> IF i = n THEN item ELSE q[i]]

NewItem(p) == [to |-> p, kind |-> "plain", payload |-> 0, retries |-> 0, age |-> "new"]

ProfileItem(p, version) ==
    [to |-> p, kind |-> "profile", payload |-> version, retries |-> 0, age |-> "new"]

\* items[p] for each peer p, under arrival number at[p].
PushAll(q, at, items) ==
    [i \in DOMAIN q \cup {at[p] : p \in DOMAIN at} |->
        IF i \in DOMAIN q THEN q[i] ELSE items[CHOOSE p \in DOMAIN at : at[p] = i]]

PushProfiles(q, at, version) ==
    PushAll(q, at, [p \in DOMAIN at |-> ProfileItem(p, version)])

\* `contacts` and `ack_targets` are BTreeMaps.
InKeyOrder(S, n) == [p \in S |-> n + Cardinality({r \in S : r < p})]

PageOrders(S, n) ==
    {at \in [S -> n .. n + Cardinality(S) - 1] : \A p, r \in S : at[p] = at[r] => p = r}

\* Faulty variant: an item gets one attempt too many.
IsExpiredLate(item) == item.retries > MaxRetries \/ item.age = "old"

IsExpired(item) == item.retries >= MaxRetries \/ item.age = "old"

\* The weight of a batch: a profile may carry a photo and counts double.
Bytes(q, S) == Cardinality(S) + Cardinality({i \in S : q[i].kind = "profile"})

-----------------------------------------------------------------------------
(* flush_next *)

NextGen(g) == (g + 1) % Generations

\* The counter has 64 bits, a request lives 70 seconds and a watchdog 90: by the
\* time a generation comes round again nothing that carries it is left.
Retired(g, ps) == \A x \in ps : x.gen # g

\* The unusable recipients at the head, discarded in one pass.
BadHead(q) == {i \in DOMAIN q : \A j \in UpTo(q, i) : q[j].to \in BadKeys}

Fits(q, S, budget) ==
    /\ \A i, j \in S : q[i].to = q[j].to
    /\ Cardinality(S) <= MaxBatch
    /\ Cardinality(S) > 1 => Bytes(q, S) <= budget

\* The longest run at the head that shares a recipient and stays in the limits.
Batch(q, budget) == {i \in DOMAIN q : Fits(q, UpTo(q, i), budget)}

Stamp(item) == IF item.age = "new" THEN [item EXCEPT !.age = "tried"] ELSE item

Stamped(q, S) == [i \in DOMAIN q |-> IF i \in S THEN Stamp(q[i]) ELSE q[i]]

\* No request in flight: the queue is q, the generation g, the shell holds ps.
Rest(q, g, ps) ==
    /\ outbox' = q
    /\ flushing' = FALSE
    /\ flush_gen' = g
    /\ in_flight' = None
    /\ pending' = ps

Send(q, g, ps, budget) ==
    LET batch == Batch(q, budget)
        gen   == NextGen(g)
        peer  == CHOOSE p \in Peers : \E i \in batch : q[i].to = p
    IN  /\ Retired(gen, ps)
        /\ outbox' = Stamped(q, batch)
        /\ flushing' = TRUE
        /\ flush_gen' = gen
        /\ in_flight' = [recipient |-> peer, count |-> Cardinality(batch),
                         bytes |-> Bytes(q, batch)]
        /\ pending' = ps \cup
              {[what |-> "send", gen |-> gen, to |-> peer,
                batch |-> Carried(q, batch)],
               [what |-> "watchdog", gen |-> gen]}

\* flush_next past its `flushing` guard.  MaySend is what the other guards
\* read: the pause, the token and the load latch.
FlushIdle(q, g, ps, budget, may_send) ==
    LET usable == Without(q, BadHead(q))
    IN  IF ~may_send THEN Rest(q, g, ps)
        ELSE IF Batch(usable, budget) = {} THEN Rest(usable, g, ps)
        ELSE Send(usable, g, ps, budget)

\* Faulty variant: a 429 does not hold back the other wake-ups.
MaySendInPause == ~kv_load_failed /\ token

MaySend == ~kv_load_failed /\ ~flush_paused /\ token

\* flush_next, entered with queue q by an event that leaves the loop alone.
FlushNext(q, may_send) ==
    IF flushing
    THEN outbox' = q /\ UNCHANGED <<flushing, flush_gen, in_flight, pending>>
    ELSE FlushIdle(q, flush_gen, pending, send_batch_budget, may_send)

-----------------------------------------------------------------------------
(* What the user does, and what a poll page queues *)

\* try_parse_pubkey refuses a key that cannot be encrypted to; an older contact
\* list may still hold one (Init).
AddContact(p) ==
    /\ p \notin contacts \cup BadKeys
    /\ contacts' = contacts \cup {p}
    /\ UNCHANGED <<blocked, profile, arrivals, limits, loop, answered>>

\* send_text: the text, and after it our profile if the key was new.
SendText(p) ==
    LET was_new == p \notin contacts
        n       == IF was_new THEN 2 ELSE 1
        texted  == Push(outbox, arrivals, NewItem(p))
    IN  /\ p \notin blocked
        /\ was_new => p \notin BadKeys /\ Cardinality(contacts) < MaxContacts
        /\ arrivals + n <= MaxItems
        /\ contacts' = contacts \cup {p}
        /\ arrivals' = arrivals + n
        /\ FlushNext(IF was_new
                     THEN Push(texted, arrivals + 1, ProfileItem(p, profile))
                     ELSE texted, MaySend)
        /\ UNCHANGED <<blocked, profile, limits, answered>>

\* ingest_poll: a page whose texts, from the senders S, are stored.  Strangers
\* become contacts, up to the cap, and are sent our profile in the order of the
\* page; then each sender is sent its delivery ack, and StartFlush is emitted.
\* (Whose key verified a signature is a usable recipient.)
IngestPage(S) ==
    LET strangers == S \ contacts
        n         == Cardinality(strangers)
    IN  /\ ~kv_load_failed
        /\ S # {}
        /\ S \cap (blocked \cup BadKeys) = {}
        /\ strangers # {} => Cardinality(contacts) + n <= MaxContacts
        /\ arrivals + n + Cardinality(S) <= MaxItems
        /\ contacts' = contacts \cup S
        /\ arrivals' = arrivals + n + Cardinality(S)
        /\ \E at \in PageOrders(strangers, arrivals) :
              FlushNext(PushAll(PushProfiles(outbox, at, profile),
                                InKeyOrder(S, arrivals + n),
                                [p \in S |-> NewItem(p)]), MaySend)
        /\ UNCHANGED <<blocked, profile, limits, answered>>

\* Faulty variant: the send that carries the mail is not detached.
WithdrawAttached(p) ==
    /\ outbox' = Without(outbox, {i \in DOMAIN outbox : outbox[i].to = p})
    /\ UNCHANGED <<in_flight, flushing, flush_gen, pending>>

\* Removing a peer's mail, and detach_in_flight: a send that carries it keeps
\* the loop but will pop nothing.
Withdraw(p) ==
    /\ outbox' = Without(outbox, {i \in DOMAIN outbox : outbox[i].to = p})
    /\ in_flight' = IF in_flight # None /\ in_flight.recipient = p THEN None ELSE in_flight
    /\ UNCHANGED <<flushing, flush_gen, pending>>

SetBlocked(p, on) ==
    /\ p \in contacts
    /\ blocked' = IF on THEN blocked \cup {p} ELSE blocked \ {p}
    /\ IF on THEN Withdraw(p) ELSE UNCHANGED loop
    /\ UNCHANGED <<contacts, profile, arrivals, limits, answered>>

DeleteContact(p) ==
    /\ p \in contacts
    /\ contacts' = contacts \ {p}
    /\ blocked' = blocked \ {p}
    /\ Withdraw(p)
    /\ UNCHANGED <<profile, arrivals, limits, answered>>

\* Faulty variant: a profile on the wire is overwritten too.
ReplaceableOnWire(p) ==
    {i \in DOMAIN outbox : outbox[i].kind = "profile" /\ outbox[i].to = p}

\* The profiles SaveProfile may overwrite: the ones behind the batch on the wire.
Replaceable(p) ==
    {i \in DOMAIN outbox \ Front(outbox, in_flight.count) :
        outbox[i].kind = "profile" /\ outbox[i].to = p}

\* The first of them is overwritten, for each contact that has one.
Superseded(q, version) ==
    [i \in DOMAIN q |->
        IF \E p \in contacts \ blocked :
              i \in Replaceable(p) /\ \A j \in Replaceable(p) : i <= j
        THEN [q[i] EXCEPT !.payload = version] ELSE q[i]]

\* Faulty variant: blocked contacts are not skipped.
SaveProfileToAll ==
    LET version == profile + 1
        fresh   == {p \in contacts : Replaceable(p) = {}}
    IN  /\ version <= MaxProfile
        /\ arrivals + Cardinality(fresh) <= MaxItems
        /\ profile' = version
        /\ arrivals' = arrivals + Cardinality(fresh)
        /\ FlushNext(PushProfiles(Superseded(outbox, version),
                                  InKeyOrder(fresh, arrivals), version), MaySend)
        /\ UNCHANGED <<contacts, blocked, limits, answered>>

\* A contact with no profile to overwrite gets a new item; blocked ones nothing.
SaveProfile ==
    LET version == profile + 1
        fresh   == {p \in contacts \ blocked : Replaceable(p) = {}}
    IN  /\ version <= MaxProfile
        /\ arrivals + Cardinality(fresh) <= MaxItems
        /\ profile' = version
        /\ arrivals' = arrivals + Cardinality(fresh)
        /\ FlushNext(PushProfiles(Superseded(outbox, version),
                                  InKeyOrder(fresh, arrivals), version), MaySend)
        /\ UNCHANGED <<contacts, blocked, limits, answered>>

\* Faulty variant: the guard is lowered without a new generation.
SetServerUrlSameGen ==
    /\ token' = FALSE
    /\ send_batch_budget' = MaxBatchBytes
    /\ flush_paused' = FALSE
    /\ Rest(outbox, flush_gen, pending)
    /\ UNCHANGED <<queue, kv_load_failed, answered>>

\* SetServerUrl: everything learned from the old relay goes, its send included.
SetServerUrl ==
    /\ Retired(NextGen(flush_gen), pending)
    /\ token' = FALSE
    /\ send_batch_budget' = MaxBatchBytes
    /\ flush_paused' = FALSE
    /\ Rest(outbox, NextGen(flush_gen), pending)
    /\ UNCHANGED <<queue, kv_load_failed, answered>>

-----------------------------------------------------------------------------
(* Wake-ups *)

\* StartFlush from a page without texts or the timer a 429 armed.
StartFlush ==
    /\ FlushNext(outbox, MaySend)
    /\ UNCHANGED <<queue, limits, answered>>

\* The wait a 429 asked for is over.
PauseEnds ==
    /\ flush_paused
    /\ flush_paused' = FALSE
    /\ UNCHANGED <<queue, loop, send_batch_budget, token, kv_load_failed, answered>>

\* VerifyResult: a new session starts the loop again.
Authenticated ==
    /\ ~token
    /\ token' = TRUE
    /\ FlushNext(outbox, ~kv_load_failed /\ ~flush_paused)
    /\ UNCHANGED <<queue, send_batch_budget, flush_paused, kv_load_failed, answered>>

\* PollResult 401.
PollUnauthorized ==
    /\ token
    /\ token' = FALSE
    /\ UNCHANGED <<queue, loop, send_batch_budget, flush_paused, kv_load_failed, answered>>

\* LoadedMessages with a read error: the lazy loads may still be landing.
LoadFails ==
    /\ ~kv_load_failed
    /\ kv_load_failed' = TRUE
    /\ UNCHANGED <<queue, loop, send_batch_budget, flush_paused, token, answered>>

\* Time passes: the oldest n items in the queue outlive the TTL.
TtlPasses(n) ==
    /\ \E i \in Front(outbox, n) : outbox[i].age = "tried"
    /\ outbox' = [i \in DOMAIN outbox |->
                    IF i \in Front(outbox, n) /\ outbox[i].age = "tried"
                    THEN [outbox[i] EXCEPT !.age = "old"] ELSE outbox[i]]
    /\ UNCHANGED <<queue, limits, flushing, flush_gen, in_flight, pending, answered>>

FlushWatchdog(w) ==
    /\ w.what = "watchdog"
    /\ IF w.gen # flush_gen \/ ~flushing
       THEN pending' = pending \ {w} /\ UNCHANGED <<outbox, flushing, flush_gen, in_flight>>
       ELSE LET gen == NextGen(flush_gen)
            IN  /\ Retired(gen, pending)
                /\ FlushIdle(outbox, gen, pending \ {w}, send_batch_budget, MaySend)
    /\ UNCHANGED <<queue, limits, answered>>

-----------------------------------------------------------------------------
(* SendResult *)

Live(r) == r.what = "send" /\ r.gen = flush_gen

\* A result for a send that was abandoned.
SendResultStale(r) ==
    /\ r.what = "send"
    /\ r.gen # flush_gen
    /\ pending' = pending \ {r}
    /\ UNCHANGED <<queue, limits, outbox, flushing, flush_gen, in_flight, answered>>

SendResult401(r) ==
    /\ Live(r)
    /\ token' = FALSE
    /\ Rest(outbox, flush_gen, pending \ {r})
    /\ UNCHANGED <<queue, send_batch_budget, flush_paused, kv_load_failed, answered>>

SendResult429(r) ==
    /\ Live(r)
    /\ flush_paused' = TRUE
    /\ Rest(outbox, flush_gen, pending \ {r})
    /\ UNCHANGED <<queue, send_batch_budget, token, kv_load_failed, answered>>

\* A batch that can be split measures the relay's body cap.
SendResult413(r) ==
    /\ Live(r)
    /\ in_flight.count > 1
    /\ send_batch_budget' = in_flight.bytes \div 2
    /\ FlushIdle(outbox, flush_gen, pending \ {r}, in_flight.bytes \div 2, MaySend)
    /\ UNCHANGED <<queue, flush_paused, token, kv_load_failed, answered>>

\* Faulty variant: only the first item of the batch is popped.
SendResultFinalPopsOne(r) ==
    /\ Live(r)
    /\ answered' = answered \cup r.batch
    /\ FlushIdle(IF kv_load_failed \/ in_flight = None THEN outbox
                 ELSE Without(outbox, Front(outbox, 1)),
                 flush_gen, pending \ {r}, send_batch_budget, MaySend)
    /\ UNCHANGED <<queue, limits>>

\* 2xx or 400: the relay is finished with the batch, in_flight.count items go.
SendResultFinal(r) ==
    /\ Live(r)
    /\ answered' = answered \cup r.batch
    /\ FlushIdle(IF kv_load_failed THEN outbox
                 ELSE Without(outbox, Front(outbox, in_flight.count)),
                 flush_gen, pending \ {r}, send_batch_budget, MaySend)
    /\ UNCHANGED <<queue, limits>>

\* Faulty variant: a failed attempt costs nothing.
ChargedNothing(q, S) == q

Charged(q, S) == [i \in DOMAIN q |->
                    IF i \in S THEN [q[i] EXCEPT !.retries = @ + 1] ELSE q[i]]

\* retry_batch, on a transport error, a 5xx or a 413 for a lone item.
SendResultTransient(r) ==
    LET batch   == Front(outbox, in_flight.count)
        charged == Charged(outbox, batch)
        expired == {i \in batch : IsExpired(charged[i])}
    IN  /\ Live(r)
        /\ IF expired = {} THEN Rest(charged, flush_gen, pending \ {r})
           ELSE FlushIdle(Without(charged, expired), flush_gen, pending \ {r},
                          send_batch_budget, MaySend)
        /\ UNCHANGED <<queue, limits, answered>>

-----------------------------------------------------------------------------
Init ==
    /\ contacts \in SUBSET Peers
    /\ blocked = {}
    /\ profile = 0
    /\ outbox = [i \in {} |-> NewItem(i)]
    /\ arrivals = 0
    /\ flushing = FALSE
    /\ flush_gen = 0
    /\ in_flight = None
    /\ send_batch_budget = MaxBatchBytes
    /\ flush_paused = FALSE
    /\ token = FALSE
    /\ kv_load_failed = FALSE
    /\ pending = {}
    /\ answered = {}

User ==
    \/ SaveProfile
    \/ SetServerUrl
    \/ \E p \in Peers :
          \/ AddContact(p)
          \/ SendText(p)
          \/ DeleteContact(p)
          \/ \E on \in BOOLEAN : SetBlocked(p, on)

SendResult(r) ==
    \/ SendResultStale(r)
    \/ SendResult401(r)
    \/ SendResult429(r)
    \/ SendResult413(r)
    \/ SendResultFinal(r)
    \/ SendResultTransient(r)

Next ==
    \/ User
    \/ \E S \in SUBSET Peers : IngestPage(S)
    \/ StartFlush
    \/ PauseEnds
    \/ Authenticated
    \/ PollUnauthorized
    \/ LoadFails
    \/ \E n \in 1 .. MaxItems : TtlPasses(n)
    \/ \E x \in pending : FlushWatchdog(x) \/ SendResult(x)

Spec == Init /\ [][Next]_vars

\* What the code's scheduling gives.  Poll pages keep emitting StartFlush, and
\* every 429 arms a timer for the end of its (capped) wait; the auth loop keeps
\* trying; the shell fires every timer and resolves every request (70 s timeout).
\* Of the relay it is assumed (RelayDecides) that it does not for ever answer only
\* 401, 429 or 413: if requests are live again and again, again and again one is
\* accepted, refused or failed.  This is strong fairness of those results but for
\* the bound on generations, which can hold a result back.
RelayDecides ==
    []<>(\E r \in pending : Live(r)) =>
    []<><<\E r \in pending : SendResultFinal(r) \/ SendResultTransient(r)>>_vars

Fairness ==
    /\ WF_vars(StartFlush)
    /\ WF_vars(PauseEnds)
    /\ WF_vars(Authenticated)
    /\ WF_vars(\E x \in pending : SendResultStale(x))
    /\ WF_vars(\E x \in pending : FlushWatchdog(x))
    /\ RelayDecides

FairSpec == Spec /\ Fairness

-----------------------------------------------------------------------------
(* Properties *)

\* Every variable of the send loop keeps its type: queued items are numbered
\* below `arrivals` and still have retry budget left.
TypeOK ==
    /\ contacts \subseteq Peers
    /\ blocked \subseteq contacts
    /\ profile \in 0 .. MaxProfile
    /\ arrivals \in 0 .. MaxItems
    /\ outbox \in [DOMAIN outbox -> Item]
    /\ DOMAIN outbox \subseteq 0 .. arrivals - 1
    /\ \A i \in DOMAIN outbox : outbox[i].retries < MaxRetries
    /\ flushing \in BOOLEAN
    /\ flush_gen \in Gens
    /\ in_flight = None \/ in_flight \in InFlight
    /\ send_batch_budget \in Nat
    /\ flush_paused \in BOOLEAN
    /\ token \in BOOLEAN
    /\ kv_load_failed \in BOOLEAN
    /\ pending \subseteq Pending
    /\ answered \subseteq (0 .. MaxItems) \X (0 .. MaxProfile)

\* The `flushing` guard is owned: it is up exactly while the request of the
\* current generation is unanswered, there is one such request, and the watchdog
\* that would release a lost one is armed.  A guard nobody owns silences the
\* client for good; a second live request would pop the first one's mail.
GuardOwned ==
    LET live == {x \in pending : Live(x)}
    IN  /\ flushing <=> live # {}
        /\ \A x, y \in live : x = y
        /\ flushing => \E w \in pending : w.what = "watchdog" /\ w.gen = flush_gen

\* What a result will pop is what its request carried: while in_flight is set,
\* the first in_flight.count items of the outbox are, payload for payload, the
\* batch of the live request, whatever was pushed, superseded, withdrawn or aged
\* since it was built.
InFlightIsHead ==
    in_flight # None =>
        /\ flushing
        /\ Cardinality(Front(outbox, in_flight.count)) = in_flight.count
        /\ \A r \in pending : Live(r) =>
              /\ r.to = in_flight.recipient
              /\ r.batch = Carried(outbox, Front(outbox, in_flight.count))
              /\ \A i \in Front(outbox, in_flight.count) : outbox[i].to = r.to

\* What a relay has answered for is never queued, so never sent, again (unless
\* storage is latched read-only, when nothing is sent at all).
AnsweredIsGone ==
    kv_load_failed \/ answered \cap Carried(outbox, DOMAIN outbox) = {}

\* Nothing is queued for a blocked contact.
BlockedIsSilent == \A i \in DOMAIN outbox : outbox[i].to \notin blocked

\* An item leaves the outbox only because the relay answered for it, its peer
\* was blocked or deleted, its key is unusable, or it was on the wire when a send
\* failed and that failure exhausted its retries or its TTL.
LeavesForAReason ==
    [][\A i \in DOMAIN outbox \ DOMAIN outbox' :
          \/ <<i, outbox[i].payload>> \in answered'
          \/ outbox[i].to \in blocked' \cup (Peers \ contacts')
          \/ outbox[i].to \in BadKeys
          \/ /\ IsExpired([outbox[i] EXCEPT !.retries = @ + 1])
             /\ \E r \in pending \ pending' :
                   Live(r) /\ <<i, outbox[i].payload>> \in r.batch]_vars

\* A request goes only to a contact that is not blocked, and only with a token,
\* outside a rate-limit pause and over readable storage.
SendsOnlyWhenAllowed ==
    [][\A r \in pending' \ pending : r.what = "send" =>
          /\ r.to \in contacts' \ blocked'
          /\ token' /\ ~flush_paused' /\ ~kv_load_failed']_vars

\* The outbox is a strict FIFO and yet nothing is stuck in it: every item leaves
\* in the end, if the relay does not for ever answer 401, 429 and 413 (RelayDecides)
\* and however often the user switches relays, blocks or edits (or storage is latched
\* read-only).
EveryItemLeaves ==
    \A i \in 0 .. MaxItems - 1 :
        i \in DOMAIN outbox ~> (i \notin DOMAIN outbox \/ kv_load_failed)

=============================================================================
