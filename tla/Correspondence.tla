--------------------------- MODULE Correspondence ---------------------------
(***************************************************************************)
(* People who write to each other: clients running core/src/app.rs         *)
(* (Users), and keys whose owners run something else (Others).  What they  *)
(* hand to the relays is a set of sealed blobs, net; any of them may reach *)
(* anybody, any number of times, in any order, or never.                   *)
(*                                                                         *)
(* This module composes the sealed box, the payload format and the names   *)
(* with what the client does when the user adds a contact, writes, edits   *)
(* the profile, and when a page of one event is taken (ingest_poll; longer *)
(* pages and what is stored are ClientInbox's).  The outbox between a push *)
(* and the relay is ClientOutbox's: an item that it drops is a blob that   *)
(* is never delivered here.                                                *)
(*                                                                         *)
(* Two observers do not exist in the code: said, what the users sealed and *)
(* for whom, and newest, the timestamps of the profiles that came from a   *)
(* contact and of the one that is shown.                                   *)
(***************************************************************************)
EXTENDS Phonemic, Payload, SealedBox

CONSTANTS
    Users,        \* keys of the people running this client
    Others,       \* keys of people running another
    Ahead,        \* how far each user's clock is ahead of the slowest
    Skew,         \* MAX_FUTURE_SKEW_MS
    MaxContacts,  \* MAX_CONTACTS
    Typed,        \* the texts a user types as somebody's name
    Visited,      \* the keys whose conversation a user opens
    Bodies,       \* what users write, trimmed
    Profiles,     \* what users fill in as their profiles
    ForeignMail,  \* the plaintexts other clients write to a user
    MaxTime       \* bound on the clock, and so on the users' steps

ASSUME CorrespondenceAssumption ==
    /\ Users \cap Others = {}
    /\ Users \cup Others \subseteq Points
    /\ \A u \in Users : Visited[u] \subseteq Points \ {u}
    /\ Ahead \in [Users -> Nat]
    /\ Skew \in Nat
    /\ MaxContacts \in Nat
    /\ MaxTime \in Nat \ {0}
    /\ \A t \in Bodies : IsText(t)
    /\ \A p \in Profiles : /\ IsText(p.displayName) /\ IsText(p.bio)
                           /\ \A x \in p.photo : IsPhoto(x) /\ \A y \in p.photo : x = y
    /\ \A u \in Users : \A p \in ForeignMail[u] : p.ts \in Int

VARIABLES
    clock,     \* the slowest clock
    contacts,  \* model.contacts: user -> key -> contact
    profile,   \* model.profile
    messages,  \* model.messages, as a set: order and trimming are ClientInbox's
    seen,      \* model.seen_ids: user -> key -> ids
    net,       \* the blobs users ever handed to a relay
    said,      \* observer: what users sealed, and for whom
    newest     \* observer: timestamps of the profiles that came, and of the one shown

vars == <<clock, contacts, profile, messages, seen, net, said, newest>>

-----------------------------------------------------------------------------
(* State *)

NoContact == [known |-> FALSE]

\* Faulty variant: one's own key is a contact like any other.
NotOwnKeyAlways(u, k) == TRUE

\* AddContact refuses one's own key.
NotOwnKey(u, k) == k # u

\* Contact::new
NewContact == [known |-> TRUE, blocked |-> FALSE, displayName |-> EmptyText,
               bio |-> EmptyText, photo |-> {}, lastProfileTs |-> 0, lastAckTs |-> 0]

NoProfile == [heard |-> 0, shown |-> 0]

NoName == [displayName |-> EmptyText, bio |-> EmptyText, photo |-> {}]

Now(u) == clock + Ahead[u]

Known(u, k) == contacts[u][k].known

Blocked(u, k) == Known(u, k) /\ contacts[u][k].blocked

Full(u) == Cardinality({k \in Points : Known(u, k)}) >= MaxContacts

Earlier(x, y) == IF x < y THEN x ELSE y

Later(x, y) == IF x > y THEN x ELSE y

Init ==
    /\ clock = 1
    /\ contacts = [u \in Users |-> [k \in Points |-> NoContact]]
    /\ profile = [u \in Users |-> NoName]
    /\ messages = [u \in Users |-> {}]
    /\ seen = [u \in Users |-> [k \in Points |-> {}]]
    /\ net = {}
    /\ said = {}
    /\ newest = [u \in Users |-> [k \in Points |-> NoProfile]]

-----------------------------------------------------------------------------
(* Sending *)

Mail(to, payload, ts) == [to |-> to, plaintext |-> Serialize(payload, ts)]

\* The profile as this client sends it: name and bio always, the photo if there is one.
OwnProfile(u) ==
    Profile({profile'[u].displayName}, {profile'[u].bio}, profile'[u].photo)

\* encrypt_for, on its way to the relay: what cannot be sealed is dropped.
Post(u, mails) ==
    /\ net' = net \cup {Encrypt(u, m.to, m.plaintext) :
                          m \in {x \in mails : CanEncrypt(x.to, x.plaintext)}}
    /\ said' = said \cup {[from |-> u, to |-> m.to, plaintext |-> m.plaintext] : m \in mails}

\* A step of a user takes a millisecond at least.
Takes == clock < MaxTime /\ clock' = clock + 1

-----------------------------------------------------------------------------
(* What the user does *)

\* AddContact.  Names that do not decode, or that are one's own, change nothing.
AddContact(u, text) ==
    /\ Takes
    /\ \E k \in TryParsePubkey(text) :
          /\ NotOwnKey(u, k)
          /\ ~Known(u, k)
          /\ contacts' = [contacts EXCEPT ![u][k] = NewContact]
    /\ UNCHANGED <<profile, messages, seen, net, said, newest>>

\* SetBlocked.  What the outbox still holds for a blocked key is dropped: it is not
\* delivered.
SetBlocked(u, k, blocked) ==
    /\ Takes
    /\ Known(u, k)
    /\ contacts' = [contacts EXCEPT ![u][k].blocked = blocked]
    /\ UNCHANGED <<profile, messages, seen, net, said, newest>>

\* DeleteContact
DeleteContact(u, k) ==
    /\ Takes
    /\ Known(u, k)
    /\ contacts' = [contacts EXCEPT ![u][k] = NoContact]
    /\ messages' = [messages EXCEPT ![u] = {m \in @ : m.peer # k}]
    /\ seen' = [seen EXCEPT ![u][k] = {}]
    /\ newest' = [newest EXCEPT ![u][k] = NoProfile]
    /\ UNCHANGED <<profile, net, said>>

\* The limits of the profile form, before anything is sanitised.
ProfileAccepted(p) ==
    /\ p.displayName.chars <= MaxDisplayName
    /\ p.bio.chars <= MaxBio
    /\ \A x \in p.photo : x.bytes <= MaxPhoto /\ x.base64

\* SaveProfile: told to every contact that is not blocked.
SaveProfile(u, p) ==
    /\ Takes
    /\ ProfileAccepted(p)
    /\ profile' = [profile EXCEPT ![u] = p]
    /\ Post(u, {Mail(k, OwnProfile(u), Now(u)) : k \in {x \in Points : Known(u, x) /\ ~Blocked(u, x)}})
    /\ UNCHANGED <<contacts, messages, seen, newest>>

\* Faulty variant: the length of a body in characters.
BodyAcceptedChars(body) == body.bytes > 0 /\ body.chars <= MaxBody

\* The trimmed text of the compose field: not empty, not too long in bytes.
BodyAccepted(body) == body.bytes > 0 /\ body.bytes <= MaxBody

\* send_text.  A key that was no contact becomes one and is told our profile.
SendText(u, k, body) ==
    LET id    == [by |-> u, n |-> clock, bytes |-> 36]
        isNew == ~Known(u, k)
    IN  /\ Takes
        /\ ~Blocked(u, k)
        /\ BodyAccepted(body)
        /\ ~(isNew /\ Full(u))
        /\ messages' = [messages EXCEPT ![u] = @ \cup
              {[peer |-> k, id |-> id, body |-> body, outgoing |-> TRUE, delivered |-> FALSE]}]
        /\ contacts' = IF isNew THEN [contacts EXCEPT ![u][k] = NewContact] ELSE contacts
        /\ profile' = profile
        /\ Post(u, {Mail(k, Text(id, body), Now(u))} \cup
                   IF isNew THEN {Mail(k, OwnProfile(u), Now(u))} ELSE {})
        /\ UNCHANGED <<seen, newest>>

-----------------------------------------------------------------------------
(* ingest_poll: a page with one event *)

\* What the relays may hand to u: anything any user ever sent, what the others write in
\* their own name, and what the others were sent and pass on as it is.
Reaching(u) ==
    net \cup {Encrypt(f, u, p) : f \in Others, p \in ForeignMail[u]}
        \cup {Blob(u, b.inner) : b \in {x \in net : x.sealedFor \in Others}}

\* The event opens, and is neither our own nor from a blocked contact.
Arrives(u, b) ==
    /\ Opens(u, b)
    /\ Opened(b).sender # u
    /\ ~Blocked(u, Opened(b).sender)

\* The sender's timestamp, not negative and not far ahead of our clock.
Clamped(u, ts) == Earlier(Later(ts, 0), Now(u) + Skew)

\* A text: a stranger becomes a contact, if there is room, and is told our profile under
\* the text's timestamp; a new text is kept and acked.
IngestText(u, b) ==
    /\ Arrives(u, b)
    /\ \E parsed \in Parse(Opened(b).plaintext) :
        LET from     == Opened(b).sender
            p        == parsed.payload
            ts       == Clamped(u, parsed.ts)
            stranger == ~Known(u, from)
            convo    == {m.id : m \in {x \in messages[u] : x.peer = from}}
            ids      == IF seen[u][from] = {} THEN convo ELSE seen[u][from]
            isNew    == p.id \notin ids
        IN  /\ p.type = "text"
            /\ ~(stranger /\ Full(u))
            /\ contacts' = IF stranger THEN [contacts EXCEPT ![u][from] = NewContact] ELSE contacts
            /\ seen' = [seen EXCEPT ![u][from] = ids \cup {p.id}]
            /\ messages' = IF isNew
                           THEN [messages EXCEPT ![u] = @ \cup
                                  {[peer |-> from, id |-> p.id, body |-> p.body,
                                    outgoing |-> FALSE, delivered |-> FALSE]}]
                           ELSE messages
            /\ profile' = profile
            /\ Post(u, (IF stranger THEN {Mail(from, OwnProfile(u), ts)} ELSE {}) \cup
                       (IF isNew THEN {Mail(from, DeliveryAck({p.id}), Now(u))} ELSE {}))
            /\ UNCHANGED <<clock, newest>>

\* A delivery ack: unless it is older than the last one, it marks our texts.
IngestAck(u, b) ==
    /\ Arrives(u, b)
    /\ \E parsed \in Parse(Opened(b).plaintext) :
        LET from == Opened(b).sender
            p    == parsed.payload
            ts   == Clamped(u, parsed.ts)
        IN  /\ p.type = "delivery.ack"
            /\ ~(Known(u, from) /\ ts < contacts[u][from].lastAckTs)
            /\ contacts' = IF Known(u, from)
                           THEN [contacts EXCEPT ![u][from].lastAckTs = Earlier(ts, Now(u))]
                           ELSE contacts
            /\ messages' = [messages EXCEPT ![u] =
                  {IF m.outgoing /\ m.peer = from /\ m.id \in p.ackIds
                   THEN [m EXCEPT !.delivered = TRUE] ELSE m : m \in @}]
            /\ UNCHANGED <<clock, profile, seen, net, said, newest>>

\* Faulty variant: the watermark stays where it is.
UpdatedUnmarked(c, p, ts, now) ==
    [c EXCEPT !.displayName = IF p.displayName = {} THEN @ ELSE CHOOSE t \in p.displayName : TRUE,
              !.bio = IF p.bio = {} THEN @ ELSE CHOOSE t \in p.bio : TRUE,
              !.photo = IF p.photo = {} THEN @ ELSE p.photo]

\* What a profile leaves of a contact: absent fields stay, and the watermark is not put
\* into the future.
Updated(c, p, ts, now) ==
    [c EXCEPT !.displayName = IF p.displayName = {} THEN @ ELSE CHOOSE t \in p.displayName : TRUE,
              !.bio = IF p.bio = {} THEN @ ELSE CHOOSE t \in p.bio : TRUE,
              !.photo = IF p.photo = {} THEN @ ELSE p.photo,
              !.lastProfileTs = Earlier(ts, now)]

\* A profile: from a contact, and not older than the last one.
IngestProfile(u, b) ==
    /\ Arrives(u, b)
    /\ \E parsed \in Parse(Opened(b).plaintext) :
        LET from  == Opened(b).sender
            p     == parsed.payload
            ts    == Clamped(u, parsed.ts)
            taken == ts >= contacts[u][from].lastProfileTs
        IN  /\ p.type = "profile"
            /\ Known(u, from)
            /\ contacts' = IF taken
                           THEN [contacts EXCEPT ![u][from] = Updated(@, p, ts, Now(u))]
                           ELSE contacts
            /\ newest' = [newest EXCEPT
                  ![u][from].heard = IF ts <= Now(u) THEN Later(@, ts) ELSE @,
                  ![u][from].shown = IF taken THEN ts ELSE @]
            /\ UNCHANGED <<clock, profile, messages, seen, net, said>>

-----------------------------------------------------------------------------

Next ==
    \E u \in Users :
          \/ \E text \in Typed[u] : AddContact(u, text)
          \/ \E k \in Points : \/ DeleteContact(u, k)
                               \/ \E blocked \in BOOLEAN : SetBlocked(u, k, blocked)
          \/ \E k \in Visited[u], body \in Bodies : SendText(u, k, body)
          \/ \E p \in Profiles : SaveProfile(u, p)
          \/ \E b \in Reaching(u) : IngestText(u, b) \/ IngestAck(u, b) \/ IngestProfile(u, b)

Spec == Init /\ [][Next]_vars

-----------------------------------------------------------------------------
(* Properties *)

\* Every piece of state has its shape.
TypeOK ==
    /\ clock \in 1 .. MaxTime
    /\ \A u \in Users, k \in Points :
          /\ contacts[u][k] = NoContact \/ DOMAIN contacts[u][k] = DOMAIN NewContact
          /\ Known(u, k) => contacts[u][k].lastProfileTs \in Nat /\ contacts[u][k].lastAckTs \in Nat
          /\ ~Known(u, u)

\* The texts u has from s, the delivery marks, and the profile, were sealed by s for u.
TextsFrom(u, s) ==
    \A m \in messages[u] : m.peer = s /\ ~m.outgoing =>
        \E x \in said : /\ x.from = s /\ x.to = u
                        /\ \E y \in Parse(x.plaintext) : y.payload = Text(m.id, m.body)

MarksFrom(u, s) ==
    \A m \in messages[u] : m.peer = s /\ m.delivered =>
        \E x \in said : /\ x.from = s /\ x.to = u
                        /\ x.plaintext.payload.type = "delivery.ack"
                        /\ m.id \in x.plaintext.payload.ackIds

ProfileFrom(u, s) ==
    newest[u][s].shown > 0 =>
        \E x \in said : /\ x.from = s /\ x.to = u
                        /\ \E y \in Parse(x.plaintext) :
                              /\ y.payload.type = "profile"
                              /\ newest[u][s].shown <= y.ts
                              /\ y.payload.displayName = {contacts[u][s].displayName}

\* Whatever a client shows as coming from a person who runs this client was written by
\* that person for this user: the texts, the profile, and that our texts were delivered.
\* The relays may reorder, repeat and misdirect, and other people may pass on what they
\* were sent.
Authentic == \A u, s \in Users : TextsFrom(u, s) /\ MarksFrom(u, s) /\ ProfileFrom(u, s)

\* Everything a user writes goes to somebody's key and is readable there: the limits of the
\* forms are not wider than what a blob may hold and what the reader accepts.
Readable ==
    \A x \in said :
        /\ x.to \in Users \cup Others \cup LowOrder
        /\ x.to \notin LowOrder =>
              LET b == Encrypt(x.from, x.to, x.plaintext)
              IN  b \in net /\ Opens(x.to, b) /\ Parse(x.plaintext) # {}

\* A profile that comes late or again does not replace a newer one: what is shown of a
\* contact is no older than any profile that came from it when due by our clock.
NewestProfileWins ==
    \A u \in Users, k \in Points : Known(u, k) => newest[u][k].shown >= newest[u][k].heard

=============================================================================
