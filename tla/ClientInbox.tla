----------------------------- MODULE ClientInbox -----------------------------
(***************************************************************************)
(* What the client core (core/src/app.rs) does with mail: ingest_poll      *)
(* folds a page into contacts, conversations and the per-peer dedup sets,  *)
(* and queues their writes; the conversations of a launch are loaded       *)
(* lazily, so a page can come before the history it belongs to.            *)
(*                                                                         *)
(* Left out: the outbox and its key (ClientOutbox), when polls happen and  *)
(* a failing read of the settings or the cursor (ClientSession).  The      *)
(* clock stands still at Now: handlers only compare timestamps with it.  A *)
(* body, a name and a photo are never looked at.                           *)
(***************************************************************************)
EXTENDS Naturals, FiniteSets, SequencesExt

CONSTANTS
    Peers,
    OwnIds,       \* the UUIDs SendText draws
    Mails,        \* what the relay may have for us: sequences of events, in order
    Now,          \* now_ms()
    Skew,         \* MAX_FUTURE_SKEW_MS
    MaxMessages,  \* MAX_MESSAGES_PER_PEER
    MaxSeenIds,   \* MAX_SEEN_IDS_PER_PEER
    MaxContacts,  \* MAX_CONTACTS
    MaxPage,      \* bound: events in a page
    MaxWrites,    \* bound: storage writes queued at once
    MaxBusy,      \* bound: storage writes queued when the user acts
    MaxFailures   \* bound: storage operations that fail

\* junk does not decrypt or parse, echo is our own mail come back.
PayloadKinds == {"text", "ack", "profile", "junk", "echo"}

Events == UNION {ToSet(q) : q \in Mails}

PeerIds == {e.id : e \in {x \in Events : x.kind = "text"}}

ASSUME InboxAssumption ==
    /\ IsFiniteSet(Peers)
    /\ \A q \in Mails : q \in Seq(Events)
    /\ \A e \in Events :
          /\ e.kind \in PayloadKinds
          /\ e.kind \in {"text", "ack", "profile"} => e.from \in Peers /\ e.ts \in Nat
          /\ e.kind = "ack" => e.ids \subseteq OwnIds
    /\ Now \in Nat /\ Skew \in Nat
    /\ MaxMessages \in Nat \ {0}
    /\ MaxSeenIds \in Nat /\ MaxSeenIds > MaxMessages
    /\ MaxContacts \in Nat /\ MaxPage \in Nat /\ MaxWrites \in Nat
    /\ MaxBusy \in Nat /\ MaxFailures \in Nat

\* A peer draws an id for one text.
ASSUME IdAssumption ==
    \A q \in Mails : \A e, f \in ToSet(q) :
        e.kind = "text" /\ f.kind = "text" /\ e.from = f.from /\ e.id = f.id => e.ts = f.ts

VARIABLES
    \* the core's model
    contacts,        \* a contact's block and its two watermarks
    messages,        \* conversations in memory
    seen_ids,        \* per peer, the ids already taken
    cursor,          \* how much of `mail` the next poll acks
    kv_load_failed,
    \* the shell, storage and the relay
    loading,         \* what was read for each conversation still on its way
    writes,          \* the serial storage queue
    disk,
    mail,            \* every event the relay has or will have for us, in order
    \* observers
    drawn,           \* OwnIds used
    excused,         \* events the code means not to act on
    torn,            \* peers whose file was written or deleted before it was read, or is
                     \* there without a contact, so that nothing will read it, or was
                     \* unsaved when the process ended
    unsaved,         \* peers the last write of whose file failed
    failures         \* storage operations that failed

model == <<contacts, messages, seen_ids, cursor, kv_load_failed>>
vars  == <<model, loading, writes, disk, mail, drawn, excused, torn, unsaved, failures>>

-----------------------------------------------------------------------------
(* Partial functions and conversations *)

Maybe(f, x, default) == IF x \in DOMAIN f THEN f[x] ELSE default

With(f, x, v) == [y \in DOMAIN f \cup {x} |-> IF y = x THEN v ELSE f[y]]

Without(f, x) == [y \in DOMAIN f \ {x} |-> f[y]]

Nothing == [p \in {} |-> 0]

Least(a, b) == IF a < b THEN a ELSE b

Stranger == [blocked |-> FALSE, last_ack_ts |-> 0, last_profile_ts |-> 0]

Message == [id: PeerIds \cup OwnIds, ts: Nat, outgoing: BOOLEAN, delivered: BOOLEAN]

IdsOf(convo) == {m.id : m \in ToSet(convo)}

Incoming(convo) == {m.id : m \in {x \in ToSet(convo) : ~x.outgoing}}

\* How many messages, all of them in front, are no later than ts.
PartitionPoint(convo, ts) ==
    CHOOSE n \in 0 .. Len(convo) : \A i \in DOMAIN convo : convo[i].ts <= ts <=> i <= n

\* insert_sorted: after every message of its own time.
InsertSorted(convo, m) == InsertAt(convo, PartitionPoint(convo, m.ts) + 1, m)

\* trim_history: the oldest go.
TrimHistory(convo) ==
    SubSeq(convo, (IF Len(convo) > MaxMessages THEN Len(convo) - MaxMessages ELSE 0) + 1,
           Len(convo))

Orders(S) == {q \in [1 .. Cardinality(S) -> S] : IsInjective(q)}

-----------------------------------------------------------------------------
(* Storage: one serial queue; the effects of a handler are queued in the order it *)
(* lists them.                                                                    *)

Set(key, value) == [key |-> key, value |-> value]

SetMessages(p, convo) == [key |-> "messages", peer |-> p, value |-> convo]

Delete(p) == [key |-> "delete", peer |-> p]

\* refuse_write: a model that failed a read writes nothing.
Guarded(ws) == IF kv_load_failed THEN <<>> ELSE ws

Queued(ws) ==
    /\ Len(writes) + Len(ws) <= MaxWrites
    /\ writes' = writes \o ws

After(w, d) ==
    CASE w.key = "messages" -> [d EXCEPT !.messages = With(@, w.peer, w.value)]
      [] w.key = "delete"   -> [d EXCEPT !.messages = Without(@, w.peer)]
      [] w.key = "contacts" -> [d EXCEPT !.contacts = w.value]
      [] w.key = "seen_ids" -> [d EXCEPT !.seen_ids = w.value]
      [] w.key = "cursor"   -> [d EXCEPT !.cursor = w.value]

FileOf(w) == IF w.key \in {"messages", "delete"} THEN {w.peer} ELSE {}

\* KvStore runs the queue; Saved and SavedCursor change nothing here.
WriteLands ==
    /\ writes # <<>>
    /\ disk' = After(Head(writes), disk)
    /\ writes' = Tail(writes)
    /\ unsaved' = unsaved \ FileOf(Head(writes))
    /\ UNCHANGED <<model, loading, mail, drawn, excused, torn, failures>>

\* Saved with an error sets the error line and nothing else: what is queued behind the
\* write, the cursor included, goes on.
WriteFails ==
    /\ failures < MaxFailures
    /\ writes # <<>>
    /\ writes' = Tail(writes)
    /\ unsaved' = unsaved \cup FileOf(Head(writes))
    /\ failures' = failures + 1
    /\ UNCHANGED <<model, loading, disk, mail, drawn, excused, torn>>

-----------------------------------------------------------------------------
(* ingest_poll.  Its loop is a fold over the page; a HashSet gives up its ids in *)
(* no particular order, so the fold carries the set of outcomes.                 *)

Loop ==
    [contacts |-> contacts, messages |-> messages, seen_ids |-> seen_ids, acks |-> Nothing,
     touched |-> {}, dirty |-> FALSE, stored |-> FALSE, excused |-> excused]

\* ts.max(0).min(now + MAX_FUTURE_SKEW_MS)
Clamped(ts) == Least(ts, Now + Skew)

\* Faulty variant: the cap takes any id.
CutsAny(ids, convo) ==
    LET over == IF Cardinality(ids) > MaxSeenIds THEN Cardinality(ids) - MaxSeenIds ELSE 0
    IN  {C \in SUBSET ids : Cardinality(C) = over}

\* Ids the cap on a dedup set may remove: none of the conversation's.
Cuts(ids, convo) ==
    LET over == IF Cardinality(ids) > MaxSeenIds THEN Cardinality(ids) - MaxSeenIds ELSE 0
        old  == ids \ IdsOf(convo)
    IN  {C \in SUBSET old : Cardinality(C) = Least(over, Cardinality(old))}

\* The dedup set a text is held against: seeded from the conversation when empty.
IdSet(s, p) ==
    LET ids == Maybe(s.seen_ids, p, {})
    IN  IF ids = {} THEN IdsOf(Maybe(s.messages, p, <<>>)) ELSE ids

\* A text already taken: only the entries exist afterwards.
OldText(s, e) ==
    {[s EXCEPT !.messages = With(@, e.from, Maybe(@, e.from, <<>>)),
               !.seen_ids = With(@, e.from, IdSet(s, e.from))]}

NewText(s, e) ==
    LET p     == e.from
        convo == InsertSorted(Maybe(s.messages, p, <<>>),
                              [id |-> e.id, ts |-> Clamped(e.ts), outgoing |-> FALSE,
                               delivered |-> FALSE])
        ids   == IdSet(s, p) \cup {e.id}
    IN  {[s EXCEPT !.messages = With(@, p, TrimHistory(convo)),
                   !.seen_ids = With(@, p, ids \ C),
                   !.touched  = @ \cup {p}] : C \in Cuts(ids, convo)}

\* Payload::Text: a stranger becomes a contact while there is room.
Text(s, e) ==
    IF e.from \notin DOMAIN s.contacts /\ Cardinality(DOMAIN s.contacts) >= MaxContacts
    THEN {[s EXCEPT !.excused = @ \cup {e}]}
    ELSE LET t == IF e.from \in DOMAIN s.contacts THEN s
                  ELSE [s EXCEPT !.contacts = With(@, e.from, Stranger), !.dirty = TRUE]
         IN  IF e.id \in IdSet(t, e.from) THEN OldText(t, e) ELSE NewText(t, e)

\* Faulty variant: an ack older than one before it in the page is stale at once.
DeliveryAckAtOnce(s, e) ==
    LET a  == Maybe(s.acks, e.from, [ts |-> 0, ids |-> {}])
        ts == Clamped(e.ts)
    IN  IF ts < a.ts THEN {s}
        ELSE {[s EXCEPT !.acks = With(@, e.from, [ts |-> ts, ids |-> a.ids \cup e.ids])]}

\* Payload::DeliveryAck: set aside until the page has been read.
DeliveryAck(s, e) ==
    LET a  == Maybe(s.acks, e.from, [ts |-> 0, ids |-> {}])
        ts == Clamped(e.ts)
    IN  {[s EXCEPT !.acks = With(@, e.from, [ts  |-> IF ts > a.ts THEN ts ELSE a.ts,
                                             ids |-> a.ids \cup e.ids])]}

\* Payload::Profile: nothing from a stranger, nothing stale.
Profile(s, e) ==
    IF e.from \in DOMAIN s.contacts /\ Clamped(e.ts) >= s.contacts[e.from].last_profile_ts
    THEN {[s EXCEPT !.contacts[e.from].last_profile_ts = Least(Clamped(e.ts), Now),
                    !.dirty = TRUE]}
    ELSE {s}

Blocked(s, p) == p \in DOMAIN s.contacts /\ s.contacts[p].blocked

\* One event.  `stored` is events_stored > 0.
Ingest(s, e) ==
    LET t == [s EXCEPT !.stored = TRUE]
    IN  CASE e.kind = "junk" -> {s}
          [] e.kind = "echo" -> {t}
          [] OTHER -> IF Blocked(s, e.from)
                      THEN {[t EXCEPT !.excused = @ \cup {e}]}
                      ELSE CASE e.kind = "text"    -> Text(t, e)
                             [] e.kind = "ack"     -> DeliveryAck(t, e)
                             [] e.kind = "profile" -> Profile(t, e)

\* The outcomes of the whole loop.
Looped(s, events) ==
    LET after[i \in 0 .. Len(events)] ==
          IF i = 0 THEN {s} ELSE UNION {Ingest(t, events[i]) : t \in after[i - 1]}
    IN  after[Len(events)]

\* A watermark never runs ahead of the clock.
Watermark(ts) == Least(ts, Now)

Fresh(s, p) == p \notin DOMAIN s.contacts \/ s.acks[p].ts >= s.contacts[p].last_ack_ts

Marked(convo, ids) ==
    [i \in DOMAIN convo |-> IF convo[i].outgoing /\ convo[i].id \in ids
                            THEN [convo[i] EXCEPT !.delivered = TRUE] ELSE convo[i]]

\* The deferred acks, applied sender by sender.
Acked(s) ==
    LET heard  == {p \in DOMAIN s.acks : Fresh(s, p)}
        marked == [p \in DOMAIN s.messages |->
                      IF p \in heard THEN Marked(s.messages[p], s.acks[p].ids)
                      ELSE s.messages[p]]
    IN  [s EXCEPT
           !.contacts = [p \in DOMAIN @ |->
                IF p \in heard THEN [@[p] EXCEPT !.last_ack_ts = Watermark(s.acks[p].ts)]
                ELSE @[p]],
           !.messages = marked,
           !.touched  = @ \cup {p \in DOMAIN marked : marked[p] # s.messages[p]},
           !.dirty    = @ \/ heard \cap DOMAIN s.contacts # {}]

\* Faulty variant: the cursor goes first.
PageWritesCursorFirst(s, order, c) ==
    (IF c # cursor THEN <<Set("cursor", c)>> ELSE <<>>)
      \o [i \in DOMAIN order |-> SetMessages(order[i], s.messages[order[i]])]
      \o (IF order # <<>> THEN <<Set("seen_ids", s.seen_ids)>> ELSE <<>>)
      \o (IF s.dirty THEN <<Set("contacts", s.contacts)>> ELSE <<>>)

\* What ingest_poll persists, then PollResult's cursor.
PageWrites(s, order, c) ==
    [i \in DOMAIN order |-> SetMessages(order[i], s.messages[order[i]])]
      \o (IF order # <<>> THEN <<Set("seen_ids", s.seen_ids)>> ELSE <<>>)
      \o (IF s.dirty THEN <<Set("contacts", s.contacts)>> ELSE <<>>)
      \o (IF c # cursor THEN <<Set("cursor", c)>> ELSE <<>>)

\* Faulty variant: a page of which nothing could be read starts the mailbox over.
NextCursorReset(s, n, k) == IF k = n \/ s.stored THEN cursor + n ELSE 0

\* A page cut short is acked all the same if anything in it could be read.
NextCursor(s, n, k) == IF k = n \/ s.stored THEN cursor + n ELSE cursor

\* An id of ours in an event is one we have used: nobody guesses a UUID, but a peer may
\* write under any id it was sent.
Sendable(e) ==
    /\ e.kind = "ack" => e.ids \subseteq drawn
    /\ e.kind = "text" /\ e.id \in OwnIds => e.id \in drawn

\* PollResult with the next n events, of which the budgets let through the first k.
IngestPoll(n, k) ==
    /\ ~kv_load_failed
    /\ cursor + n <= Len(mail)
    /\ \A e \in ToSet(SubSeq(mail, cursor + 1, cursor + n)) : Sendable(e)
    /\ \E s \in {Acked(t) : t \in Looped(Loop, SubSeq(mail, cursor + 1, cursor + k))} :
       \E order \in Orders(s.touched) :
          /\ contacts' = s.contacts
          /\ messages' = s.messages
          /\ seen_ids' = s.seen_ids
          /\ cursor' = NextCursor(s, n, k)
          /\ Queued(PageWrites(s, order, cursor'))
          /\ excused' = s.excused \cup ToSet(SubSeq(mail, cursor + k + 1, cursor'))
          /\ torn' = torn \cup (s.touched \cap DOMAIN loading)
    /\ UNCHANGED <<kv_load_failed, loading, disk, mail, drawn, unsaved, failures>>

-----------------------------------------------------------------------------
(* The user *)

AddContact(p) ==
    /\ Len(writes) <= MaxBusy
    /\ contacts' = With(contacts, p, Maybe(contacts, p, Stranger))
    /\ Queued(Guarded(<<Set("contacts", contacts')>>))
    /\ UNCHANGED <<messages, seen_ids, cursor, kv_load_failed, loading, disk, mail, drawn,
                   excused, torn, unsaved, failures>>

SetBlocked(p, blocked) ==
    /\ Len(writes) <= MaxBusy
    /\ p \in DOMAIN contacts
    /\ contacts' = [contacts EXCEPT ![p].blocked = blocked]
    /\ Queued(Guarded(<<Set("contacts", contacts')>>))
    /\ UNCHANGED <<messages, seen_ids, cursor, kv_load_failed, loading, disk, mail, drawn,
                   excused, torn, unsaved, failures>>

\* The texts of p that a delete forgets: those taken and those whose ids are stored, or
\* about to be, as taken.
Forgotten(p) ==
    LET stored == {disk.seen_ids} \cup {w.value : w \in {x \in ToSet(writes) : x.key = "seen_ids"}}
    IN  {e \in ToSet(mail) :
            /\ e.kind = "text" /\ e.from = p
            /\ \/ \E n \in 1 .. cursor : mail[n] = e
               \/ \E s \in stored : e.id \in Maybe(s, p, {})}

\* The delete of the key is not guarded.
DeleteContact(p) ==
    /\ Len(writes) <= MaxBusy
    /\ p \in DOMAIN contacts
    /\ contacts' = Without(contacts, p)
    /\ messages' = Without(messages, p)
    /\ seen_ids' = Without(seen_ids, p)
    /\ Queued(Guarded(<<Set("contacts", contacts')>>) \o <<Delete(p)>>
                \o Guarded(<<Set("seen_ids", seen_ids')>>))
    /\ excused' = excused \cup Forgotten(p)
    /\ torn' = torn \cup ({p} \cap DOMAIN loading)
    /\ UNCHANGED <<cursor, kv_load_failed, loading, disk, mail, drawn, unsaved, failures>>

SendText(p, id) ==
    LET convo == InsertSorted(Maybe(messages, p, <<>>),
                              [id |-> id, ts |-> Now, outgoing |-> TRUE, delivered |-> FALSE])
    IN  /\ Len(writes) <= MaxBusy
        /\ id \notin drawn
        /\ IF p \in DOMAIN contacts THEN ~contacts[p].blocked
           ELSE Cardinality(DOMAIN contacts) < MaxContacts
        /\ drawn' = drawn \cup {id}
        /\ messages' = With(messages, p, TrimHistory(convo))
        /\ contacts' = With(contacts, p, Maybe(contacts, p, Stranger))
        /\ Queued(Guarded(<<SetMessages(p, messages'[p]), Set("contacts", contacts')>>))
        /\ torn' = torn \cup ({p} \cap DOMAIN loading)
        /\ UNCHANGED <<seen_ids, cursor, kv_load_failed, loading, disk, mail, excused, unsaved, failures>>

-----------------------------------------------------------------------------
(* Launch *)

\* Faulty variant: the union is not sorted again.
MergedUnsorted(p, list) ==
    LET known == Maybe(messages, p, <<>>)
    IN  {TrimHistory(known \o SelectSeq(list, LAMBDA m : m.id \notin IdsOf(known)))}

\* sort_by_key, which is stable: places of `all` in the order their messages get.
ByTime(all, places) ==
    {q \in Orders(places) :
        \A i, j \in DOMAIN q : i < j => \/ all[q[i]].ts < all[q[j]].ts
                                        \/ all[q[i]].ts = all[q[j]].ts /\ q[i] < q[j]}

\* The union by id, in order and within the cap: one conversation.
Merged(p, list) ==
    LET known == Maybe(messages, p, <<>>)
        all   == known \o list
        kept  == {i \in DOMAIN all : i <= Len(known) \/ all[i].id \notin IdsOf(known)}
    IN  IF p \notin DOMAIN messages THEN {list}
        ELSE {TrimHistory([i \in DOMAIN q |-> all[q[i]]]) : q \in ByTime(all, kept)}

LoadedMessages(p) ==
    /\ p \in DOMAIN loading
    /\ loading' = Without(loading, p)
    /\ seen_ids' = IF p \in DOMAIN seen_ids
                   THEN [seen_ids EXCEPT ![p] = @ \cup IdsOf(loading[p])] ELSE seen_ids
    /\ \E convo \in Merged(p, loading[p]) : messages' = With(messages, p, convo)
    /\ UNCHANGED <<contacts, cursor, kv_load_failed, writes, disk, mail, drawn, excused, torn,
                   unsaved, failures>>

LoadFails(p) ==
    /\ failures < MaxFailures
    /\ p \in DOMAIN loading
    /\ loading' = Without(loading, p)
    /\ kv_load_failed' = TRUE
    /\ failures' = failures + 1
    /\ UNCHANGED <<contacts, messages, seen_ids, cursor, writes, disk, mail, drawn, excused, torn,
                   unsaved>>

\* The process ends, its queue with it, and the startup loads run again.  Nothing is
\* handled here before the last of them; LoadedContacts asks for the conversations.  The
\* read of seen_ids may fail without the model being latched.
Relaunch(failed) ==
    /\ failures + Cardinality(failed) <= MaxFailures
    /\ failures' = failures + Cardinality(failed)
    /\ contacts' = IF "contacts" \in failed THEN Nothing ELSE disk.contacts
    /\ seen_ids' = IF "seen_ids" \in failed THEN Nothing ELSE disk.seen_ids
    /\ kv_load_failed' = ("contacts" \in failed)
    /\ cursor' = disk.cursor
    /\ messages' = Nothing
    /\ loading' = [p \in DOMAIN contacts' \cap DOMAIN disk.messages |-> disk.messages[p]]
    /\ writes' = <<>>
    /\ torn' = torn \cup unsaved
                  \cup (IF kv_load_failed' THEN {} ELSE DOMAIN disk.messages \ DOMAIN contacts')
    /\ unsaved' = {}
    /\ UNCHANGED <<disk, mail, drawn, excused>>

-----------------------------------------------------------------------------
\* A fresh install.
Init ==
    /\ contacts = Nothing
    /\ messages = Nothing
    /\ seen_ids = Nothing
    /\ cursor = 0
    /\ kv_load_failed = FALSE
    /\ loading = Nothing
    /\ writes = <<>>
    /\ disk = [contacts |-> Nothing, messages |-> Nothing, seen_ids |-> Nothing, cursor |-> 0]
    /\ mail \in Mails
    /\ drawn = {}
    /\ excused = {}
    /\ torn = {}
    /\ unsaved = {}
    /\ failures = 0

Next ==
    \/ \E n \in 1 .. MaxPage : \E k \in 1 .. n : IngestPoll(n, k)
    \/ WriteLands
    \/ WriteFails
    \/ \E failed \in SUBSET {"contacts", "seen_ids"} : Relaunch(failed)
    \/ \E p \in Peers :
          \/ AddContact(p)
          \/ \E blocked \in BOOLEAN : SetBlocked(p, blocked)
          \/ DeleteContact(p)
          \/ \E id \in OwnIds : SendText(p, id)
          \/ LoadedMessages(p)
          \/ LoadFails(p)

Spec == Init /\ [][Next]_vars

-----------------------------------------------------------------------------
(* Properties *)

Contact == [blocked: BOOLEAN, last_ack_ts: Nat, last_profile_ts: Nat]

\* Every variable keeps its type.
TypeOK ==
    /\ DOMAIN contacts \subseteq Peers /\ \A p \in DOMAIN contacts : contacts[p] \in Contact
    /\ DOMAIN messages \subseteq Peers /\ \A p \in DOMAIN messages : messages[p] \in Seq(Message)
    /\ DOMAIN seen_ids \subseteq Peers
    /\ \A p \in DOMAIN seen_ids : seen_ids[p] \subseteq PeerIds \cup OwnIds
    /\ cursor \in 0 .. Len(mail)
    /\ kv_load_failed \in BOOLEAN
    /\ DOMAIN loading \subseteq Peers /\ \A p \in DOMAIN loading : loading[p] \in Seq(Message)
    /\ Len(writes) <= MaxWrites
    /\ disk.cursor \in 0 .. cursor
    /\ mail \in Mails
    /\ drawn \subseteq OwnIds
    /\ excused \subseteq Events
    /\ torn \subseteq Peers
    /\ unsaved \subseteq Peers
    /\ failures \in 0 .. MaxFailures

\* Two messages: a peer may write under an id of ours, which the dedup set does not have
\* (SendText), so the side that wrote tells them apart too.
Apart(m, x) == m.id # x.id \/ m.outgoing # x.outgoing

\* A conversation as trim_history and the view take it for granted: in order of ts,
\* no message of a side twice, within the cap.
InOrder(convo) ==
    /\ Len(convo) <= MaxMessages
    /\ \A i, j \in DOMAIN convo : i < j => /\ convo[i].ts <= convo[j].ts
                                           /\ Apart(convo[i], convo[j])

\* Whatever races a lazy load or a relaunch, the conversations in memory, on their way
\* in and on disk are in order, within the cap, and show no message of ours and no text
\* of the peer's twice.
ConversationsInOrder ==
    /\ \A p \in DOMAIN messages : InOrder(messages[p])
    /\ \A p \in DOMAIN loading : InOrder(loading[p])
    /\ \A p \in DOMAIN disk.messages : InOrder(disk.messages[p])

\* The dedup set covers the conversation: an id a peer sent that is in memory is in
\* its set, or the set is empty and will be seeded.  The cap on the set, the merge of a
\* late load and a lost seen_ids write must all keep this.
DedupCovers ==
    \A p \in DOMAIN messages :
        \/ Maybe(seen_ids, p, {}) = {}
        \/ Incoming(messages[p]) \subseteq seen_ids[p]

\* A full conversation with nothing older than ts.
AgedOut(convo, ts) ==
    Len(convo) = MaxMessages /\ \A m \in ToSet(convo) : m.ts >= ts

\* Text number n is where it belongs on disk d: in its conversation's file, or older
\* than all that file has room for, or the code means not to keep it (blocked, contact
\* list full, contact deleted, page over budget).  A text under an id of ours may pass
\* for one already taken.
Kept(n, d) ==
    mail[n].kind = "text" /\ mail[n].id \notin OwnIds =>
        \/ mail[n] \in excused
        \/ mail[n].id \in IdsOf(Maybe(d.messages, mail[n].from, <<>>))
        \/ AgedOut(Maybe(d.messages, mail[n].from, <<>>), Clamped(mail[n].ts))

\* "It must not happen until the batch is durable on our side" (PollResult): what the
\* saved cursor lets the relay delete is on disk and stays there, through every kill,
\* but for a peer whose file was torn (see the observer) or whose last write failed.
\* The next write of the conversation that lands makes up for the one that failed.
DurableUnlessTorn ==
    \A n \in 1 .. disk.cursor :
        mail[n].kind = "text" => mail[n].from \in torn \cup unsaved \/ Kept(n, disk)

\* The same of a poll or a text that does beat a lazy load ("union by id, keeping both the on-disk
\* history and any in-memory additions", LoadedMessages).
HistoryKept == \A n \in 1 .. disk.cursor : Kept(n, disk)

\* Whatever order the relay puts a page in, an ack no older than the watermark the page
\* found marks its messages delivered (Q17 in ingest_poll); and so does every ack that is
\* not older than our clock, whatever the peer's clock said before: one that runs ahead
\* does not make its later acks look stale.  Messages still to be loaded lazily are not
\* there to be marked.
AcksInAnyOrder ==
    [][\A n \in cursor + 1 .. cursor' :
          LET e == mail[n]
          IN  /\ e.kind = "ack" /\ e \notin excused'
              /\ e.from \in DOMAIN contacts \cap DOMAIN messages'
              /\ Clamped(e.ts) >= contacts[e.from].last_ack_ts \/ e.ts >= Now
              => \A m \in ToSet(messages'[e.from]) : m.outgoing /\ m.id \in e.ids => m.delivered
      ]_vars

=============================================================================
