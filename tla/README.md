# Skrepka: TLA+ models and proofs

Skrepka is an end-to-end encrypted messenger: a client core in Rust (`core/`), an
Apple shell around it (`apple/`), and a relay written in Knot (`server.knot`). This
directory models the parts whose correctness depends on the order of events, checks
them with TLC on small instances, and proves the central facts with TLAPS for every
instance.

## 1. The system

| Part | State | Operations | Modelled in |
|---|---|---|---|
| client send loop (`app.rs`: `flush_next`, `retry_batch`, `SendResult`, `FlushWatchdog`) | `outbox`, `flushing`, `flush_gen`, `in_flight`, `send_batch_budget`, `flush_paused_until` | texts, profile edits, acks are queued; one `POST /messages` at a time pops the head | `ClientOutbox` |
| client startup, auth and poll loop (`app.rs`: `Loaded*`, `Connect`, `Authenticate`, `ChallengeResult`, `VerifyResult`, `Poll*`, `SavedCursor`, `SetServerUrl`) | `settings.server_url`, `cursor`, `token`, `conn`, `polling`/`poll_gen`, `authenticating`/`auth_gen`, `loads_pending`, `kv_load_failed` | log in, long-poll, ack by polling again, switch relays | `ClientSession` |
| client inbox (`ingest_poll`, `insert_sorted`, `trim_history`) | `contacts`, `messages`, `seen_ids` | decrypt a page, store, dedupe, apply acks; load conversations lazily | `ClientInbox`; what a page queues for sending: `ClientOutbox` |
| client storage (`persist_*`, `parse_kv`, `KvStore`) | one file per key, a serial queue | get, set, delete | settings and cursor keys (`ClientSession`); contacts, conversations, seen ids, cursor (`ClientInbox`) |
| Apple shell (`Core.swift`, `Effects.swift`, `SkrepkaApp.swift`) | pending tasks and timers | runs effects, resolves them later, in any order | `pending`, `timers`, `writes` of the client modules |
| relay mailbox (`appendMessage`, `handleSendMessages`, `handlePoll`, `doPoll`) | `*messages`, `*seqCounter` | append, ack and page, wait, sweep | `RelayMailbox` |
| relay login (`handleChallenge`, `handleVerifyAuth`, `refreshLocalPresence`) | `*challenges`, `*sessions`, local rows of `*presence` | issue, redeem, revoke, cap, sweep | `RelayAuth` |
| relay federation (`handleRecvGossip`, `forwardQueuedToAll`, `forkForwardsTo`, `retryPendingForwards`, `handleForwardMessage`, `recordFailure`, `clearFailure`) | `*forwards`, `*forwardFailures`, remote rows of `*presence`, `deliveredTo` | gossip who is online, stage, forward, retry, back off | `RelayFederation` |
| payloads (`protocol.rs`) | none | write, sanitise, read, limits | `Payload` |
| sealed messages (`crypto.rs`: `encrypt`, `decrypt`, padding, signatures) | none | seal, open | `SealedBox` |
| `@p` names (`phonemic.rs`) | none | encode, decode, check a typed key | `Phonemic` |
| what two clients make of each other (`app.rs` with the three above) | contacts, profiles, texts, watermarks of every user | add, block, write, edit the profile, take mail | `Correspondence` |
| FFI, screens, navigation, scripts | none that the others read | I/O | no |

How they interact. `Core::update` runs on one thread. A handler returns a command: the
events it emits are handled before the shell is heard again, while HTTP requests, storage
operations and timers go to the shell and come back later. Client and relay meet in
`/auth/challenge`, `/auth/verify`, `/messages` and `/poll`; polling with a cursor *is* the
ack that deletes mail at the relay. The relay runs one thread per request; its `atomic`
blocks are serialised, but a handler reads the clock before, and between, them.

What is hard, and what makes each part correct:

* Send loop: a result pops "the first `count` items" of a queue that the user, poll pages,
  blocks and deletions have edited since the request was built; watchdogs and relay
  switches hand the loop to a new request while the old answer is still coming. Correct
  means: one owner of the guard, a result pops what its request carried, nothing vanishes
  without a reason, and the FIFO drains.
* Poll and auth loops: any result may be lost, late or from another relay, storage may fail
  or the process be killed at any point. Correct means: at most one honoured request per
  loop with its watchdog armed, always an alarm left, nothing crosses relays, nothing is
  acked that is not stored, nothing is written over data that could not be read.
* Inbox: the process may be killed between any two writes of a page, the page comes again,
  conversations load after mail for them has arrived, peers choose their timestamps and the
  relay the order. Correct means: conversations in order and with nothing a side wrote
  shown twice, the dedup set covers them, and what the stored cursor lets the relay delete is on disk.
* Mailbox: sends commit out of clock order, polls overlap, pages get lost. Correct means:
  a cursor never passes over mail its owner has not taken, caps hold and evict the oldest.
* Federation: a message sits at one relay, its recipient polls another, and gossip about
  who is online where is lost, late and overtaken; a resend, a staging fork and the retry
  sweep all act on one forward, on clocks read earlier. Correct means: while a key is known
  to be online elsewhere its mail is delivered, queued or visibly given up, a relay is backed
  off for what its latest call did, and "delivered" means stored.
* Correspondence: relays reorder, repeat and misdirect; other people pass on what they were
  sent; a form counts characters, a payload bytes, a blob compressed and padded bytes.
  Correct means: what is shown of a person is what that person wrote to this user, what is
  accepted for sending can be read at the other end, an old profile stays old.
* Login: two verifies race, handlers act on an old clock, pools are full. Correct means: a
  challenge buys one session, revocation is final, a key with a live session is
  present.

`PROJECT.json` lists every hazard with its line and the properties that cover it.

## 2. Modules

**ClientOutbox** - the send loop. The `VecDeque` is a function from arrival numbers to
items: the code only pushes at the back, so the numbers' order is the queue's, and an item
keeps its identity when others leave. An item keeps its recipient, whether it is a profile,
a payload (the profile version; a text never changes), its retries and its age class. Byte
sizes become weights (a profile weighs 2, anything else 1). Each status class of
`SendResult` is an action: 401, 429, 413 for a batch that can be split, final (2xx, 400) and
transient (the rest, transport errors, a 413 for a lone item). `FlushIdle` is `flush_next`
past its `flushing` guard and is part of every action whose handler calls it or emits
`StartFlush`. `answered` is an observer: what the relay has settled. `TtlPasses` ages the
oldest part of the queue; first attempts are stamped in queue order, so a prefix ages.
`IngestPage` is what a page with texts does to contacts and queue (one ack item per sender:
a page holds fewer messages than `MAX_ACK_IDS`).

**ClientSession** - startup, auth, polling. `Connect`, `Authenticate` and `Poll` are events
that handlers emit, so they are operators applied inside the emitting action, parameterised
by the fields the emitter has already assigned; they read primed variables where the
emitter's assignment comes first. A cursor carries the relay that issued it, a request the
relay it was sent to, a token the relay that issued it: this makes cross-relay mistakes
visible. `verify` succeeds only at the relay whose challenge was signed. The four startup
keys that play no part here are the single load "rest". A storage result is handled when
its write lands. `Faults` switches on what the environment may do (lost results, failing
reads and writes, kills, and a foreground or a relay switch before the loads have landed).

**ClientInbox** - `ingest_poll` as a recursion over the page that carries the *set* of possible
outcomes: the capped dedup `HashSet` gives up ids in no particular order (`Cuts`), and the
touched conversations are written in any order (`Orders`). `IngestPoll(n, k)` takes the next
n events of which the budgets let the first k through, and queues the page's writes in the
code's order (`PageWrites`). `Relaunch` is a kill and the startup loads; it leaves in
`loading` what was read of each conversation, which `LoadedMessages` merges later. An event
keeps its kind, sender, id or acked ids and timestamp; "junk" stands for all that does not
decode, decrypt or parse, "echo" for our own mail. A peer may put any id in a text, one of
ours too once it was used (`Sendable`). The outbox is ClientOutbox's. Observers:
`excused` (events the code means to drop: blocked, list full, page over budget, and of a
deleted contact the texts taken and those the dedup sets on disk or in the queue still list),
`unsaved` (peers the last write of whose file failed) and `torn` (peers whose file was
written or deleted before it was read, is there without a contact, or was unsaved when the
process ended).

**Mail** - what a mailbox promises, without cursors, polls and handlers: letters wait under
rising numbers, are offered to their recipient with all older ones, and leave only when
taken, too old, or displaced, oldest first, from a full mailbox.

**RelayMailbox** - one action per `atomic` block; a send commits with a clock reading that
may be old; a poll goes through `collect`, `wait`, `recollect`, `answer`. The client is
reduced to its cursor and what it has taken; a relaunch falls back to any cursor it adopted
before, or to none. `KeepsPromise` is the refinement of `Mail`: rows are the letters waiting,
the pages in answers are the letters offered. Forwards are `RelayFederation`'s.

**RelayFederation** - two relays, one key, one message. The origin has the message, the row
of `*forwards`, the failure row about the home and the key's remote presence row; the home
has the key's local row and what it stored. A call is a record of its stage and the age of
its clock reading, so that "read the clock, then call, then record the outcome" is not
atomic; it may be lost in either direction, and calls overtake each other. The rest of the
traffic (other keys' forwards, the ceilings' room, their outcomes) is nondeterministic;
`OtherMail` is its effect on this message: `appendMessage` may evict it, which takes the
`deliveredTo` mark along and leaves the forward to `pruneExpired`, and `capForwards` may
displace its forward. Lifetimes count down, so the state space has no absolute time.
Observers: `latest`, the outcome of the call with the latest clock reading (a sweep reads
the clock once, before all its calls), and `givenUp`, whether the code dropped the forward
on purpose. Gossip that is dropped at the sender because the origin is backed off is part
of `GossipLost`.

**Phonemic**, **Payload**, **SealedBox** - pure functions, abstracted to what their checks
look at. A typed name is its parts between hyphens, or its hex bytes; a text is its length in
bytes, in characters and as a JSON string, and how much of it the sanitiser drops; a blob is
whom it was sealed for, under which associated data, and the signed content, with the real
padding arithmetic. The primitives (AEAD, Ed25519, zstd) are external and perfect, the
length of a frame is zstd's worst case.

**Correspondence** - composes the three with the client: users run this code, others do not.
`net` holds every blob a user handed to a relay; any of it may reach anybody at any time, as
may what the others write and what they were sent and pass on. A text is acked by a payload
with its one id; the batches of `MAX_ACK_IDS` that a long page makes (app.rs:2447) do not
occur, and `Readable` says nothing of them.
Each user step takes a millisecond, and each user's clock is ahead by a constant. Observers: `said` and `newest`.

**RelayAuth** - challenges, sessions and local presence, with the clock read before each
block. Nonces and tokens are numbered in the order they are stored, which also breaks ties
in `capList` (a stable sort over appended lists). Observers: `logins`, every session ever
installed with the challenge that bought it, and `barred`.

**ClientOutboxProofs**, **ClientSessionProofs**, **ClientInboxProofs**,
**RelayMailboxProofs**, **RelayAuthProofs**, **RelayFederationProofs**,
**CorrespondenceProofs** - theorems about the modules they extend; **ClientDurableProofs**
builds on ClientInboxProofs.

**MC...** - constants, model values and symmetry for TLC. Definitions introduced by the
words "Faulty variant" are plausible bugs of the definition they precede; each property is
known to fail for one of them (`mutants` in `PROJECT.json`).

## 3. Runs

| Run | Properties | Bounds |
|---|---|---|
| ClientOutboxSafety | TypeOK, GuardOwned, InFlightIsHead, AnsweredIsGone, BlockedIsSilent, LeavesForAReason, SendsOnlyWhenAllowed | 2 peers, 2 items, 1 profile edit, batches of 2 and weight 3, 2 attempts, 3 generations |
| ClientOutboxLive | EveryItemLeaves | 2 peers, one with an unusable key, 2 items, 2 attempts |
| ClientSessionLoops | TypeOK, NeverStranded, OnlineIsHonest, UnreadableIsUntouched | 1 relay, lost results, failing reads and writes, kills, 3 generations, 1 queued write |
| ClientSessionSwitch | GuardsOwned, SessionOfRelay, CursorOfRelay, DiskOfOneRelay | 2 relays, 3 queued writes, at most 4 requests and watchdogs out, lost results |
| ClientSessionLive | KeepsAsking | 1 relay, lost results, a page with mail after every relay change, 2 queued writes, at most 4 requests and watchdogs out |
| ClientInbox | TypeOK, ConversationsInOrder, DedupCovers, DurableUnlessTorn, AcksInAnyOrder | 1 peer, 7 mail histories of up to 3 events, 1 own text, conversations of 2, dedup sets of 3, pages of 2, 4 queued writes, kills, 1 storage operation that fails |
| RelayMailbox | TypeOK, RowsAreDistinct, NothingSkipped, Capped, KeepsPromise | 2 recipients of which one polls, 3 ciphertexts, 2 overlapping polls, pages of 1, batches of 2, caps of 2, 4 numbers, clock to 2 |
| RelayFederation | TypeOK, LatestCallWins, NoMailLeftBehind, DeliveredIsStored | 1 forwarding fork beside the sweep, 1 gossip of each kind, 1 staging fork, 2 attempts, clock readings up to 1 tick old, session 2, gossip 3, failure 2 ticks |
| Correspondence | TypeOK, Authentic, Readable, NewestProfileWins | 2 users and a third person, clocks 0 and 2 ahead, skew 2, 3 user steps, bodies and profiles at and over every limit |
| RelayAuth | TypeOK, PoolsCapped, RedeemedOnce, PresentWhileLoggedIn, RevocationIsFinal | 2 keys, 2 handlers, pools of 3 challenges and 2 sessions, 2 sessions per key, 4 draws, clock to 2 |

Why the bounds are enough to be interesting. Three generations let two abandoned requests be
out while a third is live. A generation is reused only when nothing that carries it is left,
which 64 bits and a 70 s request timeout give the code; the guard `Retired` says so. Two
peers give a batch boundary, a contact to block and one to keep; two items give a batch that
a 413 splits, or a batch and an item behind it; two attempts give both "charged" and
"dropped". In the inbox, three texts and one of
our own overflow both a conversation and its dedup set, and a stranger's page fills the
write queue, so a kill can fall between any two of its writes; the user acts only when the
queue is empty, and the cap on contacts is not reached. One read or write fails; with two,
over five million states, nothing else shows, but the run takes four minutes. Three queued writes
let a page's cursor still be queued when the relay is switched. In the
mailbox, two rows, pages of one and two polls are the least that lets one poll's cursor
overtake another's page; four numbers fill both caps and one more, so that each of them
evicts. In federation, one fork, the sweep and the open outcomes of other calls give three
calls to one peer at once, one tick of delay lets a reading straddle an expiry, and two
attempts tell the last from the first; failure counts above the cap of the backoff are not
told apart, which `FederationAssumption` checks to be sound; eviction may strike at any time. In correspondence, three user
steps are enough to become contacts, write, edit a profile and write again, with any amount
of delivery between them; the lengths are the code's own. In login, two
handlers race for one challenge with another still outstanding, or each for one of its own,
so that the slower one installs an older session over a newer; the cap on all sessions binds
only together with the one per key, and rests on `PoolsStayCapped`. A `Connect` before the
loads have landed ("early") is in no passing run: `GuardsAreOwned`, `AlwaysAnAlarm` and
`OnlineHasToken` are proved for it. Deadlock is not checked in
the ClientOutbox, ClientInbox and Correspondence runs: with an empty queue and every bound
used up the send loop may stop, and so may an inbox without mail and people who have done
what they may.

### Disagreements between the code and its comments

Two runs state what a comment promises and TLC refutes it.

* **ClientSessionAck** (`AcksOnlyWhatIsSaved`): the re-poll "must not happen until the batch
  is durable", but the advanced cursor is in the model at once, and a foreground `Connect`
  or the 90 s timer armed beside the write polls with it while the write is queued.
* **ClientInboxHistory** (`HistoryKept`): the lazy load merges "keeping both the on-disk
  history and any in-memory additions", but only in memory. A text sent, or a page taken,
  before the load has already queued a write of the new messages alone, and nothing writes
  the merged list until the conversation is next touched.

Others met on the way have no run of their own.

* A switch of relays must "start B from the beginning" (app.rs:950), but the new URL and the
  reset cursor are two writes (app.rs:977). Killed between them, the client relaunches with
  the new relay and the old relay's cursor, and its first poll tells the new relay to delete
  what waits there: `CursorOfRelay` fails as soon as "kill" is added to the faults of
  ClientSessionSwitch. `DiskOfOneRelay` shows that this is the only moment.
* A stranger's first page writes the conversation and `seen_ids` before `contacts`. Killed in
  between, the relaunched client has no contact and so never loads the file; the redelivered
  text is dropped as already seen, and the next write of the conversation overwrites it.
* A contact deleted before its conversation is loaded: the late load puts the conversation
  back in memory, without a contact. `torn` excludes these two from `DurableUnlessTorn`;
  everything else that can happen is covered.
* The shell warns that connecting before the settings are loaded "would authenticate against
  the default relay"; its own foreground handler does so. `SessionOfRelay` fails as soon as
  "early" is added to the faults of ClientSessionSwitch.
* A conversation's write that fails does not stop the cursor's write behind it: the page is
  acked and is only in memory until the conversation is next written (the comment at
  app.rs:877 argues for the cursor's own write only). ClientInbox shows that nothing
  worse happens while the process lives: the next write that lands makes up for it. Killed
  before, the text is lost (`unsaved` becomes `torn`).
* "A replayed stale profile cannot roll" a contact back (PROTOCOL.md:288) holds up to the
  clock skew: the watermark is clamped to our own clock, so of two profiles dated into the
  future the older may replace the newer. `NewestProfileWins` therefore counts only profiles
  that came when due.
* A stranger who writes is answered with our profile under *their* timestamp (app.rs:2268), so
  our next edit within the skew may be ignored by them as older.
* A photo that is removed stays with the contacts: an absent field is written as absent and
  read as "no change".
* A contact added by name is never told our profile until the next edit (`send_text` shares
  it only with a key that was no contact), against PROTOCOL.md:286.
* A curve point without an X25519 form passes `try_parse_pubkey`, and everything sent to it
  is dropped; `Readable` excludes these keys.
* Ten 404s in a row, about five minutes, exhaust a forward while the key's row at the origin
  stays live; it is not staged again before the key is newly online (PROTOCOL.md:651 says so).
* Offline gossip that overtakes a newer online gossip cancels the key's forwards until the
  next refresh; and `handleRecvGossip` judges "newly online" with a clock read before its
  transaction, so a row that expires in between is not restaged. Both are in the model, the
  second one counted in `givenUp`.
* `DeleteContact` deletes the conversation's file even when storage could not be read, while
  its writes of contacts and `seen_ids` are refused.
* The "global ceiling" of `maxMessagesTotal` (server.knot:200) is enforced before the append
  without reserving the slot, so the mailbox may hold one row more; `TotalCapped` states the
  bound that holds.
* A slow login replaces the presence row by one with its own, older expiry (server.knot:1022),
  although the key may have a newer session that outlives it (up to ten, server.knot:155):
  until the next poll the relay may count a key as gone that is logged in.
  `PresentWhileLoggedIn` names this exception and bounds it by the slow login's session.
* A text may come under an id of ours ("a peer can put any value in any field",
  PROTOCOL.md:259). `send_text` leaves its ids out of the dedup set (app.rs:1855) and
  `ingest_poll` asks nothing else (app.rs:2289), so the conversation then shows that id twice,
  once for each side; but a dedup set seeded from the conversation, or the merge of a late
  load, takes the text for one already there. `ConversationsInOrder` therefore tells messages
  apart by side and id, and `DurableUnlessTorn` is about texts under other ids.
* Mail evicted from a full mailbox leaves its forward behind (server.knot:183), which a resend
  finds with the attempts it had.
* A fresh challenge is said always to survive its own `capList` (server.knot:1285), but the
  clock is read before the atomic block; in a full pool the handler with the oldest reading
  evicts the row it returns, and its client has to ask again.

### Fairness

`ClientOutboxLive`: poll pages keep emitting `StartFlush`, a 429 arms a timer for the end of
its capped wait, the auth loop keeps trying, the shell resolves every request (70 s timeout)
and fires every timer: weak fairness of each. Of the relay one thing is assumed,
`RelayDecides`: it does not for ever answer only 401, 429 and 413. The code cannot make an
item leave if every answer is "log in again" or "slow down". Nothing is assumed of the user.

`ClientSessionLive`: weak fairness of the loads, the timers, the storage queue, the
watchdogs, and of each loop's pending requests being resolved *or lost*. Nothing is assumed
of the relay or the user.

Nothing is assumed of the relays: neither the mailbox nor the federation has a liveness
property. A page is delivered only if the client polls again (`KeepsAsking`), and a forward
may be refused, lost or exhausted for good; what the code does promise is the safety
property that such mail is not silently forgotten.

## 4. Proofs

Constants are arbitrary up to the named assumptions (`OutboxAssumption`, `SessionAssumption`,
`InboxAssumption`, `IdAssumption`, `MailboxAssumption`, `AuthAssumption`, `FederationAssumption`,
`CorrespondenceAssumption` with `PayloadAssumption`, `BoxAssumption`, `PhonemicAssumption`):
limits are positive, there are at least two generations, peers are finitely many numbers;
mail is a sequence of events, a peer's texts under one id have one
timestamp (it is one text, delivered again), and a dedup set has more room than a
conversation (the code's 2,000 against 1,000); a clock reading is not in use for longer than
a gossiped row or a failure row lives; keys are curve points and nobody is both a user and
another; the limits of the payload are the code's numbers. Every safety property and every
action property of the passing runs is a theorem, and so is the mailbox's refinement. Each proof has the same outline: an invariant that is inductive, one
lemma per action, and the property as a consequence.

`ClientOutboxProofs`:

* `InvariantHolds`: `Spec => []OutboxInv`, with `OutboxInv == AroundInv /\ LoopInv`. The
  queue is well typed, numbered below `arrivals` and finite; a live request exists exactly
  while `flushing` is up; it is unique; its watchdog is armed; and if `in_flight` is set the
  batch of the live request is the payloads of an initial segment of the queue, of
  `in_flight.count` items to one recipient. The last part needs that the batch is a
  *segment*: lemmas `FrontIsSegment`, `SegmentIsFront` and `SameFront` connect "the first n
  items" with initial segments, and `BatchIsSegment` shows `flush_next` builds one.
  `EditKeeps` and `ExtendsKeepsHead` then cover every edit behind the head, and
  `WithdrawKeeps` the one edit that may hit it, where `in_flight` is dropped.
* `TypeCorrect`, `GuardIsOwned`, `ResultPopsItsBatch` follow: `TypeOK`, `GuardOwned` and
  `InFlightIsHead` for every instance.

* `MailInvariant`, on top of `OutboxInv`: every queued item is for a contact that is not
  blocked (`Wanted`); what was answered for has an old number that is no longer queued
  (`Settled`); a live request that a withdrawal detached from the queue carries nothing that
  is still queued (`Detached`). `AnsweredIsGone` alone is not inductive: an answer settles
  what its request carried, and only `InFlightIsHead` says that this is what the result pops.
* `AnsweredStaysGone`, `BlockedStaysSilent`, and the action properties
  `NothingLeavesUnreasoned` (`LeavesForAReason`) and `EverySendAllowed`
  (`SendsOnlyWhenAllowed`), from one lemma per action about what leaves and what is sent.

`ClientSessionProofs`, under any set of faults:

* `GuardInvariant`: the types; for each loop, that at most one request carries the current
  generation, the guard is up exactly then, and its watchdog is armed; and that there is an
  alarm. `NeverStranded` is not inductive by itself: whether an alarm is left after a
  watchdog is spent depends on the guard that watchdog stood for, so alarm and guards are
  one invariant. The events a handler emits are operators, and each has a lemma of its own
  (`Connect`, `Authenticate`, `Poll`) that the handlers' steps cite.
* `SessionTyped`, `GuardsAreOwned`, `AlwaysAnAlarm`, `OnlineHasToken`, and the action property
  `UnreadableStaysUntouched`.

Across a relay switch, on top of `GuardInv`, with the hypotheses the properties need and that
the run ClientSessionSwitch makes:

* `SessionInvariant`, if nobody acts before the settings are loaded ("early"): every request
  that would be honoured was sent to the relay configured now, and the token is that relay's.
* `CursorInvariant`, if moreover the process is not killed: the cursor in memory is the
  current relay's or none, and while the startup loads are out, what they have read so far
  is one relay's.
* `QueueInv`, if moreover no write fails: each queued relay URL has the cursor's reset right
  behind it, each queued cursor is of the relay storage will name when its turn comes, and
  storage will name the current relay when the queue has run.
* `SessionKeepsToItsRelay`, `CursorKeepsToItsRelay`, `StorageKeepsOneRelay` follow. Without
  the hypotheses the properties are false (section 3). `Init` admits every disk on which the
  cursor belongs to the relay, so a theorem without kills covers the life of any process
  that starts from such storage.

`ClientInboxProofs`:

* `InboxInvariant`: `Spec => []InboxInv`. Conversations in memory, on their way in, queued for
  storage and on disk are in order, apart and within the cap (`Convos`), and what is outgoing
  in them has an id we have drawn, what is not one that a peer put in a text; a dedup set that exists is not
  empty (`Seen`) and covers its conversation (`Covers`); a watermark is not ahead of the clock
  (`Person`); no cursor, stored or queued, is ahead of the one in memory. That an outgoing
  message has a drawn id is what keeps `SendText`, which does not look for duplicates, from
  storing a message of ours twice; that dedup sets are never empty is what lets a late load extend one
  without leaving it smaller than the conversation.
* `TrimIsConvo`, `InsertIsListed`, `MergeIsConvo` and `MarkedIsConvo` say what `trim_history`,
  `insert_sorted`, the merge of a late load and the marking of acked messages make of a
  conversation. `PartitionPointIs` shows that in a sorted conversation there is a place to
  insert at, by the least-number principle.
* The loop of `ingest_poll` is a recursive function from the number of events read to the set
  of outcomes. `IngestLoops` has what one event keeps: the loop's own invariant `LoopInv`,
  `Onward` (no watermark moves before the page has been read, and what was set aside stays)
  and `SetAside` (an ack that was read is excused or set aside). `LoopedKeeps` is the same for
  a page of any length, by `UpToInduction`.
* `InboxTyped`, `ConversationsStayInOrder`, `DedupStaysCovering`, and the action property
  `AcksHeardInAnyOrder` (`AcksInAnyOrder`): an ack of the page that was not stale when the page
  came is set aside under a timestamp no older than its own, so it is fresh at the end.

`ClientDurableProofs`, on top of `InboxInv`:

* `DurableInvariant`: `Spec => []DurableInv`. `DurableUnlessTorn` speaks of the disk, but what
  is on disk tomorrow is what is queued today, and what will be queued is what is in memory.
  So the disk and the queue behind it are taken as one history of *places*, 0 for the disk
  and i for the i-th write. For a text, some places are *versions* of its conversation's file
  (a write or a delete of it; the disk, unless the last write was lost) and some *claim* that
  the text was taken: a cursor past it, or dedup sets that list it. `Stored`: the version that
  is on disk when a claim gets there, and every version after it, *holds* the text, that is,
  has its id or is full of nothing older. `InMind`, while the client may write:
  whatever claims the text, memory (or the conversation on its way into memory) holds it, the
  last version holds whatever memory holds, and until a conversation has arrived memory has
  nothing of it.
* Dedup sets are claims as much as the cursor is: a page that is redelivered after a kill is
  skipped text by text because `seen_ids` was stored, and then acked. Without them the
  invariant is not inductive.
* `DatedAll`: wherever a text is found, it stands under its clamped timestamp. `insert_sorted`
  and `trim_history` drop by time, so this is what makes a text that was dropped older than
  all that is left (`InsertHolds`); it is also where `IdAssumption` is used.
* `PopSound` and `AppendSound` are the two things that can happen to a history, as facts about
  sets of numbers: its first place is folded into the disk (landed or lost), or places are
  added whose versions come before their claims. `PageWritesFor` shows the latter of
  `PageWrites`: this is where the order of a page's writes matters.
* `Steps` is what one event of a page does to a text: what was held stays held, a dedup set
  that grows is backed, a conversation that changed is marked as touched and so written.
  `LoopedSteps` is the same for a page of any length.
* The texts it speaks of (`Texts`) have ids that are not ours; those read on the way
  (`Arrivals`) may have any.
* `MailStaysDurable` (`DurableUnlessTorn`): the saved cursor is a claim at place 0, and with the
  last write not lost the disk is a version there.

`RelayMailboxProofs`:

* `MailboxInvariant`: rows are numbered apart and below the counter, a ciphertext is stored
  once, the caps hold (`Stored`); what a poll holds - the cursor it was called with, the rows
  it collected, the page it answers with - covers no row its client has not taken
  (`PollInv`): a poll that is still collecting has a cursor below every row of its key, one
  that answers has a page with every row up to its cursor that has not expired. Two facts
  about sets carry it: the rows that `DropOldest` leaves are counted by the number of older
  rows, which distinct numbers make injective (pigeonhole), and whatever is appended gets the
  largest number of all (`Grew`).
* `Appended` is a recursive function over the batch. Its equation and what it gives for a
  batch of any length are shown by `UpToInduction`: a *set* of lengths that has 0 and is
  closed under successor has all of them, by the least-number principle. The library's
  induction theorems are not needed for this.
* `MailboxTyped`, `RowsStayDistinct`, `CursorsSkipNothing`, `MailboxStaysCapped`.
* `MailboxKeepsPromise`: the refinement of `Mail`. `SendMessages` is a `Post`; the ack that
  begins a poll and the sweep are `Forget`; a collection that finds a page is an `Offer`;
  `PageArrives` a `Take`, `PageLost` a `Lose`, `Tick` a `Passes`; all else is a stutter.

`RelayAuthProofs`:

* `AuthInvariant`: numbers name one challenge each, and a challenge that has bought a session
  or was dropped by a revocation is not in the pool. `RedeemedOnce` alone is not inductive:
  it needs that a redeemed challenge cannot be found again by the re-check of phase 3.
* `ChallengeRedeemedOnce` (`RedeemedOnce`) and `RevocationHolds` (`RevocationIsFinal`).
* `AuthTyped`, with the bound of every expiry by the clock; `PoolsStayCapped`, where `capList`
  is the set of rows with few enough others behind them, so that its size follows by
  counting; `PresenceLastsWithSession`, session by session (`Covered`): the row lasts as
  long as the session, or as long as one that was installed later and expires earlier. `CoverLasts` takes it through polls, which only extend the row,
  `InstallCovers` and `OthersCover` through a login; it needs that sessions are numbered
  below the next draw, so that the one installed is later than all.

`RelayFederationProofs`:

* `FederationInvariant`: `Spec => []FederationInv`. `LatestCallWins` is inductive with the
  types; `OutcomeKeepsBackoff` goes through the order of the two calls and the tie. For
  `DeliveredIsStored` the invariant adds `OkIsStored`: nobody holds a success, in an answer
  or in a fork that has cleared the failures, before the home stored the message.
  `NoMailLeftBehind` needs that a row that is live now is live for every older reading.
  `OtherMailKeeps` shows that an eviction disturbs none of it, as nothing in the invariant
  says that a queued forward has a message.
* `FederationTyped`, `BackoffFollowsLatestCall`, `MailIsForwarded`, `DeliveredWasStored`: all
  four invariants of the run, for every lifetime and number of forks and attempts.

`CorrespondenceProofs`:

* `TypeInvariant` and `CorrespondenceTyped` (`TypeOK`): the shapes, and that no name a user
  types makes him a contact of himself.
* `WatermarkInvariant`: the watermark of a contact lies between the newest profile that came
  when due and the one that is shown, and no trace is left of whoever is no contact.
  `ProfilesDoNotRollBack` (`NewestProfileWins`) follows.
* `AuthenticInvariant`: every blob in `net` is the sealing of something its author said
  (`Sealed`), every message is backed by what its peer said, and so is every profile shown.
  The step from a box that opens to its author and addressee is `OpensIsSaid`: a box passed
  on by a third party opens only if the recipient that its signature names is the one who
  opens it. `ShownIsAuthentic` (`Authentic`) follows, relative to the perfect primitives.
* `ReadableInvariant`: whatever was written fits into a blob and is understood (`Fits`). The
  lemmas behind it are arithmetic on the lengths of any text, ack and form that passes the
  limits: none is longer than `Longest`, 394,043 bytes. The hypothesis `RoomForAll` says that
  a blob has room for that; the code's limits (1,048,576 bytes of plaintext, 44,040,192 of
  blob, against 394,043 and twice that with padding) give it. `WritingIsReadable` (`Readable`)
  follows when every curve point is somebody's key or of low order.

Only model-checked: the liveness properties `EveryItemLeaves` and `KeepsAsking` (fairness and
ENABLED are out of the prover's reach).

## 5. Not modelled, and the plan

Not modelled: the cryptographic primitives, the identity's storage and backup, JSON syntax,
host-name checks (pure functions over strings), FFI, navigation and screens, background
refresh, scripts, and rate limits, which the Knot runtime implements. Of federation: the
caps on presence rows, the denylist, peer discovery and a key
that polls two relays.

Planned, in this order:

1. `ClientInbox`: the outbox key beside the others, the cap on contacts.
2. `RelayFederation`: a key that is multi-homed, and the cap on presence rows.
3. Proofs: nothing of the present modules is left but the two liveness properties.
