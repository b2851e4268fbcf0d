------------------------ MODULE CorrespondenceProofs ------------------------
(***************************************************************************)
(* Proofs about Correspondence, for every number of users, every skew of   *)
(* their clocks and everything they may write: an old profile does not     *)
(* replace a newer one, what is shown of a user is what that user wrote to *)
(* the one who sees it, and what the forms accept can be read at the other *)
(* end.                                                                    *)
(***************************************************************************)
EXTENDS Correspondence, FiniteSetTheorems, TLAPS

Fields == {"known", "blocked", "displayName", "bio", "photo", "lastProfileTs", "lastAckTs"}

IsContact(c) ==
    \/ c = NoContact
    \/ DOMAIN c = Fields /\ c.known = TRUE /\ c.lastProfileTs \in Nat

\* Where the watermark of a contact is: between the newest profile that came when due and
\* the profile that is shown.  Whoever is no contact left no trace.
Watermark(c, n, now) ==
    /\ IsContact(c)
    /\ n \in [heard : Nat, shown : Nat]
    /\ n.heard <= now
    /\ c.known => n.heard <= c.lastProfileTs /\ c.lastProfileTs <= n.shown
    /\ ~c.known => n = NoProfile

\* Two tables of users and keys that differ at one place only.
Differ(f, g, u, k) ==
    /\ DOMAIN g = Users
    /\ \A x \in Users : DOMAIN g[x] = Points
    /\ \A x \in Users, y \in Points : x # u \/ y # k => g[x][y] = f[x][y]

Tables ==
    /\ DOMAIN contacts = Users /\ DOMAIN newest = Users
    /\ \A u \in Users : DOMAIN contacts[u] = Points /\ DOMAIN newest[u] = Points

Watermarks == \A u \in Users, k \in Points : Watermark(contacts[u][k], newest[u][k], Now(u))

\* A blob: who sealed it, and when it says it was written.
Dated(b) == b.inner.sender \in Points /\ b.inner.frame.plaintext.ts \in Int

WatermarkInv ==
    /\ clock \in Nat
    /\ Tables
    /\ Watermarks
    /\ \A b \in net : Dated(b)

-----------------------------------------------------------------------------
(* Contacts and clocks *)

\* No contact is not known, and a new one has no watermark.
LEMMA Contacts ==
    /\ NoContact.known = FALSE
    /\ IsContact(NewContact) /\ NewContact.known = TRUE /\ NewContact.lastProfileTs = 0
BY DEF NoContact, NewContact, IsContact, Fields

\* A contact with one other field changed, or with a profile taken, is a contact.
LEMMA ContactChanges ==
    ASSUME NEW c, DOMAIN c = Fields, NEW v, NEW p, NEW ts, NEW now
    PROVE  /\ LET d == [c EXCEPT !.blocked = v]
              IN  DOMAIN d = Fields /\ d.known = c.known /\ d.lastProfileTs = c.lastProfileTs
           /\ LET d == [c EXCEPT !.lastAckTs = v]
              IN  DOMAIN d = Fields /\ d.known = c.known /\ d.lastProfileTs = c.lastProfileTs
           /\ LET d == Updated(c, p, ts, now)
              IN  DOMAIN d = Fields /\ d.known = c.known /\ d.lastProfileTs = Earlier(ts, now)
BY DEF Fields, Updated

\* A user's clock and a clamped timestamp are numbers.
LEMMA Clocks ==
    ASSUME clock \in Nat, NEW u \in Users, NEW ts \in Int
    PROVE  Now(u) \in Nat /\ Clamped(u, ts) \in Nat
<1>1. Ahead[u] \in Nat /\ Skew \in Nat
  BY CorrespondenceAssumption
<1>2. Now(u) \in Nat
  BY <1>1 DEF Now
<1> HIDE DEF Now
<1> QED BY <1>1, <1>2 DEF Clamped, Earlier, Later

\* Changing one entry changes nothing else.
LEMMA OneEntry ==
    ASSUME NEW f, DOMAIN f = Users, \A x \in Users : DOMAIN f[x] = Points,
           NEW u \in Users, NEW k \in Points, NEW v
    PROVE  /\ Differ(f, f, u, k)
           /\ Differ(f, [f EXCEPT ![u][k] = v], u, k)
           /\ [f EXCEPT ![u][k] = v][u][k] = v
BY DEF Differ

\* Time does not harm a watermark.
LEMMA WatermarkLater ==
    ASSUME NEW c, NEW n, NEW now \in Nat, NEW then \in Nat, now <= then, Watermark(c, n, now)
    PROVE  Watermark(c, n, then)
BY DEF Watermark

\* So a step that touches one contact is judged by that contact alone.
LEMMA OneContact ==
    ASSUME WatermarkInv, clock' \in Nat, clock <= clock',
           NEW u \in Users, NEW k \in Points,
           Differ(contacts, contacts', u, k), Differ(newest, newest', u, k),
           Watermark(contacts'[u][k], newest'[u][k], Now(u)')
    PROVE  Tables' /\ Watermarks'
<1>1. Tables'
  BY DEF Tables, Differ
<1>2. ASSUME NEW x \in Users, NEW y \in Points, x # u \/ y # k
      PROVE  Watermark(contacts'[x][y], newest'[x][y], Now(x)')
  <2>1. contacts'[x][y] = contacts[x][y] /\ newest'[x][y] = newest[x][y]
    BY <1>2 DEF Differ
  <2>2. Now(x) \in Nat /\ Now(x)' \in Nat /\ Now(x) <= Now(x)'
    BY CorrespondenceAssumption DEF WatermarkInv, Now
  <2>3. Watermark(contacts[x][y], newest[x][y], Now(x))
    BY DEF WatermarkInv, Watermarks
  <2> QED BY <2>1, <2>2, <2>3, WatermarkLater
<1>3. Watermarks'
  BY <1>2 DEF Watermarks
<1> QED BY <1>1, <1>3

\* And one that touches none keeps all.
LEMMA NoContactTouched ==
    ASSUME WatermarkInv, clock' \in Nat, clock <= clock', UNCHANGED <<contacts, newest>>
    PROVE  Tables' /\ Watermarks'
<1>1. ASSUME NEW x \in Users, NEW y \in Points
      PROVE  Watermark(contacts[x][y], newest[x][y], Now(x)')
  <2>1. Now(x) \in Nat /\ Now(x)' \in Nat /\ Now(x) <= Now(x)'
    BY CorrespondenceAssumption DEF WatermarkInv, Now
  <2> QED BY <2>1, WatermarkLater DEF WatermarkInv, Watermarks
<1> QED BY <1>1 DEF WatermarkInv, Tables, Watermarks

-----------------------------------------------------------------------------
(* Blobs *)

\* Whatever a reader makes of a plaintext has the writer's timestamp.
LEMMA ParsedTs ==
    ASSUME NEW plaintext, NEW parsed \in Parse(plaintext)
    PROVE  parsed.ts = plaintext.ts
BY DEF Parse

\* What reaches a user is dated and signed.
LEMMA ReachingIsDated ==
    ASSUME WatermarkInv, NEW u \in Users, NEW b \in Reaching(u)
    PROVE  Opened(b).sender \in Points /\ Opened(b).plaintext.ts \in Int
<1>1. CASE b \in net
  BY <1>1 DEF WatermarkInv, Dated, Opened
<1>2. ASSUME NEW f \in Others, NEW p \in ForeignMail[u], b = Encrypt(f, u, p)
      PROVE  Opened(b).sender \in Points /\ Opened(b).plaintext.ts \in Int
  BY <1>2, CorrespondenceAssumption DEF Encrypt, Opened, Blob, Inner, Frame
<1>3. ASSUME NEW x \in net, b = Blob(u, x.inner)
      PROVE  Opened(b).sender \in Points /\ Opened(b).plaintext.ts \in Int
  BY <1>3 DEF WatermarkInv, Dated, Opened, Blob
<1> QED BY <1>1, <1>2, <1>3 DEF Reaching

\* What a user posts is dated by a clock.
LEMMA PostIsDated ==
    ASSUME \A b \in net : Dated(b), NEW u \in Users, NEW mails, Post(u, mails),
           \A m \in mails : m.plaintext.ts \in Int
    PROVE  \A b \in net' : Dated(b)
<1>1. \A m \in mails : Dated(Encrypt(u, m.to, m.plaintext))
  BY CorrespondenceAssumption DEF Dated, Encrypt, Blob, Inner, Frame
<1> QED BY <1>1 DEF Post

\* A mail carries the timestamp it is given.
LEMMA MailIsDated ==
    ASSUME NEW to, NEW payload, NEW ts
    PROVE  Mail(to, payload, ts).plaintext.ts = ts
BY DEF Mail, Serialize

-----------------------------------------------------------------------------
(* Steps of the user *)

\* Time, in a step of the user.
LEMMA TakesTime ==
    ASSUME WatermarkInv, Takes
    PROVE  clock' \in Nat /\ clock <= clock'
BY DEF WatermarkInv, Takes

\* A contact that was none starts without a profile.
LEMMA NewKeeps ==
    ASSUME WatermarkInv, clock' \in Nat, clock <= clock', NEW u \in Users, NEW k \in Points,
           ~Known(u, k), contacts' = [contacts EXCEPT ![u][k] = NewContact], newest' = newest
    PROVE  Tables' /\ Watermarks'
<1>1. Differ(contacts, contacts', u, k) /\ contacts'[u][k] = NewContact
  BY OneEntry DEF WatermarkInv, Tables
<1>2. Differ(newest, newest', u, k)
  BY OneEntry DEF WatermarkInv, Tables
<1>3. newest[u][k] = NoProfile
  BY DEF WatermarkInv, Watermarks, Watermark, Known
<1>4. Now(u)' \in Nat
  BY CorrespondenceAssumption DEF Now
<1>5. Watermark(NewContact, NoProfile, Now(u)')
  BY <1>4, Contacts DEF Watermark, NoProfile
<1> QED BY <1>1, <1>2, <1>3, <1>5, OneContact

\* Another field of a contact.
LEMMA FieldKeeps ==
    ASSUME WatermarkInv, clock' \in Nat, clock <= clock', NEW u \in Users, NEW k \in Points,
           Known(u, k), NEW v, newest' = newest,
           \/ contacts' = [contacts EXCEPT ![u][k].blocked = v]
           \/ contacts' = [contacts EXCEPT ![u][k].lastAckTs = v]
    PROVE  Tables' /\ Watermarks'
<1> DEFINE c == contacts[u][k]
<1>0. Watermark(c, newest[u][k], Now(u))
  BY DEF WatermarkInv, Watermarks
<1>1. DOMAIN c = Fields /\ c.known = TRUE /\ c.lastProfileTs \in Nat
  BY <1>0, Contacts DEF Watermark, IsContact, Known
<1>2. PICK d : /\ contacts' = [contacts EXCEPT ![u][k] = d]
               /\ DOMAIN d = Fields /\ d.known = c.known /\ d.lastProfileTs = c.lastProfileTs
  <2>1. CASE contacts' = [contacts EXCEPT ![u][k].blocked = v]
    <3> DEFINE d == [c EXCEPT !.blocked = v]
    <3>1. contacts' = [contacts EXCEPT ![u][k] = d]
      BY <2>1
    <3>2. DOMAIN d = Fields /\ d.known = c.known /\ d.lastProfileTs = c.lastProfileTs
      BY <1>1, ContactChanges
    <3> HIDE DEF d
    <3> QED BY <3>1, <3>2
  <2>2. CASE contacts' = [contacts EXCEPT ![u][k].lastAckTs = v]
    <3> DEFINE d == [c EXCEPT !.lastAckTs = v]
    <3>1. contacts' = [contacts EXCEPT ![u][k] = d]
      BY <2>2
    <3>2. DOMAIN d = Fields /\ d.known = c.known /\ d.lastProfileTs = c.lastProfileTs
      BY <1>1, ContactChanges
    <3> HIDE DEF d
    <3> QED BY <3>1, <3>2
  <2> QED BY <2>1, <2>2
<1>3. Differ(contacts, contacts', u, k) /\ contacts'[u][k] = d
  BY <1>2, OneEntry DEF WatermarkInv, Tables
<1>4. Differ(newest, newest', u, k)
  BY OneEntry DEF WatermarkInv, Tables
<1>5. Now(u) \in Nat /\ Now(u)' \in Nat /\ Now(u) <= Now(u)'
  BY CorrespondenceAssumption DEF WatermarkInv, Now
<1>6. Watermark(d, newest[u][k], Now(u)')
  BY <1>0, <1>1, <1>2, <1>5 DEF Watermark, IsContact
<1> QED BY <1>3, <1>4, <1>6, OneContact

\* DeleteContact forgets the profile with the contact.
LEMMA DeleteKeeps ==
    ASSUME WatermarkInv, NEW u \in Users, NEW k \in Points, DeleteContact(u, k)
    PROVE  Tables' /\ Watermarks'
<1>1. clock' \in Nat /\ clock <= clock'
  BY TakesTime DEF DeleteContact
<1>2. Differ(contacts, contacts', u, k) /\ contacts'[u][k] = NoContact
  BY OneEntry DEF WatermarkInv, Tables, DeleteContact
<1>3. Differ(newest, newest', u, k) /\ newest'[u][k] = NoProfile
  BY OneEntry DEF WatermarkInv, Tables, DeleteContact
<1>4. Now(u)' \in Nat
  BY <1>1, CorrespondenceAssumption DEF Now
<1>5. Watermark(NoContact, NoProfile, Now(u)')
  BY <1>4, Contacts DEF Watermark, NoProfile, IsContact
<1> QED BY <1>1, <1>2, <1>3, <1>5, OneContact

\* A name that decodes is a key.
LEMMA ParsedIsPoint ==
    ASSUME NEW text, NEW k \in TryParsePubkey(text)
    PROVE  k \in Points
BY DEF TryParsePubkey, ValidPubkey, None, Some

\* What the user does.
LEMMA UserKeeps ==
    ASSUME WatermarkInv, NEW u \in Users,
           \/ \E text \in Typed[u] : AddContact(u, text)
           \/ \E k \in Points : \/ DeleteContact(u, k)
                                \/ \E blocked \in BOOLEAN : SetBlocked(u, k, blocked)
           \/ \E k \in Visited[u], body \in Bodies : SendText(u, k, body)
           \/ \E p \in Profiles : SaveProfile(u, p)
    PROVE  WatermarkInv'
<1>1. ASSUME NEW text \in Typed[u], AddContact(u, text)
      PROVE  WatermarkInv'
  <2>1. clock' \in Nat /\ clock <= clock'
    BY <1>1, TakesTime DEF AddContact
  <2>2. PICK k \in Points : /\ ~Known(u, k)
                            /\ contacts' = [contacts EXCEPT ![u][k] = NewContact]
    BY <1>1, ParsedIsPoint DEF AddContact
  <2>3. newest' = newest /\ net' = net
    BY <1>1 DEF AddContact
  <2>4. Tables' /\ Watermarks'
    BY <2>1, <2>2, <2>3, NewKeeps
  <2> QED BY <2>1, <2>3, <2>4 DEF WatermarkInv
<1>2. ASSUME NEW k \in Points, DeleteContact(u, k)
      PROVE  WatermarkInv'
  <2>1. clock' \in Nat /\ net' = net
    BY <1>2, TakesTime DEF DeleteContact
  <2>2. Tables' /\ Watermarks'
    BY <1>2, DeleteKeeps
  <2> QED BY <2>1, <2>2 DEF WatermarkInv
<1>3. ASSUME NEW k \in Points, NEW blocked \in BOOLEAN, SetBlocked(u, k, blocked)
      PROVE  WatermarkInv'
  <2>1. clock' \in Nat /\ clock <= clock' /\ net' = net
    BY <1>3, TakesTime DEF SetBlocked
  <2>2. Tables' /\ Watermarks'
    BY <1>3, <2>1, FieldKeeps DEF SetBlocked
  <2> QED BY <2>1, <2>2 DEF WatermarkInv
<1>4. ASSUME NEW k \in Visited[u], NEW body \in Bodies, SendText(u, k, body)
      PROVE  WatermarkInv'
  <2>0. k \in Points
    BY CorrespondenceAssumption
  <2>1. clock' \in Nat /\ clock <= clock' /\ newest' = newest
    BY <1>4, TakesTime DEF SendText
  <2>2. \/ contacts' = contacts
        \/ ~Known(u, k) /\ contacts' = [contacts EXCEPT ![u][k] = NewContact]
    BY <1>4 DEF SendText
  <2>3. Tables' /\ Watermarks'
    BY <2>0, <2>1, <2>2, NewKeeps, NoContactTouched
  <2>4. Now(u) \in Int
    BY Clocks DEF WatermarkInv
  <2>5. \A b \in net' : Dated(b)
    <3> DEFINE text  == Text([by |-> u, n |-> clock, bytes |-> 36], body)
               mails == {Mail(k, text, Now(u))} \cup
                        IF ~Known(u, k) THEN {Mail(k, OwnProfile(u), Now(u))} ELSE {}
    <3>1. Post(u, mails)
      BY <1>4 DEF SendText
    <3>2. \A m \in mails : m.plaintext.ts = Now(u)
      BY MailIsDated
    <3> HIDE DEF mails
    <3> QED BY <2>4, <3>1, <3>2, PostIsDated DEF WatermarkInv
  <2> QED BY <2>1, <2>3, <2>5 DEF WatermarkInv
<1>5. ASSUME NEW p \in Profiles, SaveProfile(u, p)
      PROVE  WatermarkInv'
  <2>1. clock' \in Nat /\ clock <= clock' /\ newest' = newest /\ contacts' = contacts
    BY <1>5, TakesTime DEF SaveProfile
  <2>2. Tables' /\ Watermarks'
    BY <2>1, NoContactTouched
  <2>3. Now(u) \in Int
    BY Clocks DEF WatermarkInv
  <2>4. \A b \in net' : Dated(b)
    BY <1>5, <2>3, PostIsDated, MailIsDated DEF SaveProfile, WatermarkInv
  <2> QED BY <2>1, <2>2, <2>4 DEF WatermarkInv
<1> QED BY <1>1, <1>2, <1>3, <1>4, <1>5

-----------------------------------------------------------------------------
(* Steps of ingest_poll *)

\* A text may make a contact, and answers under two timestamps.
LEMMA IngestTextKeeps ==
    ASSUME WatermarkInv, NEW u \in Users, NEW b \in Reaching(u), IngestText(u, b)
    PROVE  WatermarkInv'
<1> DEFINE from == Opened(b).sender
<1>1. PICK parsed \in Parse(Opened(b).plaintext), isNew \in BOOLEAN :
         /\ \/ contacts' = contacts
            \/ ~Known(u, from) /\ contacts' = [contacts EXCEPT ![u][from] = NewContact]
         /\ Post(u, (IF ~Known(u, from) THEN {Mail(from, OwnProfile(u), Clamped(u, parsed.ts))}
                                        ELSE {}) \cup
                    (IF isNew THEN {Mail(from, DeliveryAck({parsed.payload.id}), Now(u))} ELSE {}))
         /\ clock' = clock /\ newest' = newest
  <2> HIDE DEF from
  <2> QED BY DEF IngestText, from
<1>2. from \in Points /\ parsed.ts \in Int
  BY ReachingIsDated, ParsedTs
<1>3. Clamped(u, parsed.ts) \in Int /\ Now(u) \in Int
  BY <1>2, Clocks DEF WatermarkInv
<1>4. \A x \in net' : Dated(x)
  <2> DEFINE mails == (IF ~Known(u, from) THEN {Mail(from, OwnProfile(u), Clamped(u, parsed.ts))}
                                          ELSE {}) \cup
                      (IF isNew THEN {Mail(from, DeliveryAck({parsed.payload.id}), Now(u))} ELSE {})
  <2>1. \A m \in mails : m.plaintext.ts \in Int
    BY <1>3, MailIsDated
  <2>2. Post(u, mails)
    BY <1>1
  <2> HIDE DEF mails
  <2> QED BY <2>1, <2>2, PostIsDated DEF WatermarkInv
<1>5. clock' \in Nat /\ clock <= clock'
  BY <1>1 DEF WatermarkInv
<1>6. Tables' /\ Watermarks'
  BY <1>1, <1>2, <1>5, NewKeeps, NoContactTouched
<1> QED BY <1>4, <1>5, <1>6 DEF WatermarkInv

\* An ack moves another watermark.
LEMMA IngestAckKeeps ==
    ASSUME WatermarkInv, NEW u \in Users, NEW b \in Reaching(u), IngestAck(u, b)
    PROVE  WatermarkInv'
<1> DEFINE from == Opened(b).sender
<1>1. PICK v : \/ contacts' = contacts
               \/ Known(u, from) /\ contacts' = [contacts EXCEPT ![u][from].lastAckTs = v]
  BY DEF IngestAck
<1>2. clock' = clock /\ newest' = newest /\ net' = net
  BY DEF IngestAck
<1>3. from \in Points
  BY ReachingIsDated
<1>4. clock' \in Nat /\ clock <= clock'
  BY <1>2 DEF WatermarkInv
<1>5. Tables' /\ Watermarks'
  BY <1>1, <1>2, <1>3, <1>4, FieldKeeps, NoContactTouched
<1> QED BY <1>2, <1>4, <1>5 DEF WatermarkInv

\* Whether a profile is taken, and what it makes of its sender's entries.
Taken(u, from, parsed) == Clamped(u, parsed.ts) >= contacts[u][from].lastProfileTs

AsUpdated(u, from, parsed) ==
    Updated(contacts[u][from], parsed.payload, Clamped(u, parsed.ts), Now(u))

AsHeard(u, from, parsed) ==
    LET n  == newest[u][from]
        ts == Clamped(u, parsed.ts)
    IN  [heard |-> IF ts <= Now(u) THEN Later(n.heard, ts) ELSE n.heard,
         shown |-> IF Taken(u, from, parsed) THEN ts ELSE n.shown]

\* ingest_poll applies a profile to its sender's entries, and to no others.
LEMMA ProfileEffect ==
    ASSUME WatermarkInv, NEW u \in Users, NEW b \in Reaching(u), IngestProfile(u, b)
    PROVE  LET from == Opened(b).sender
           IN  \E parsed \in Parse(Opened(b).plaintext) :
                 /\ parsed.payload.type = "profile"
                 /\ Known(u, from)
                 /\ Differ(contacts, contacts', u, from) /\ Differ(newest, newest', u, from)
                 /\ contacts'[u][from] = IF Taken(u, from, parsed) THEN AsUpdated(u, from, parsed)
                                         ELSE contacts[u][from]
                 /\ newest'[u][from] = AsHeard(u, from, parsed)
                 /\ clock' = clock /\ net' = net
<1> DEFINE from == Opened(b).sender
           c == contacts[u][from]
           n == newest[u][from]
<1>0. from \in Points
  BY ReachingIsDated
<1>1. PICK parsed \in Parse(Opened(b).plaintext) :
         LET ts    == Clamped(u, parsed.ts)
             taken == ts >= c.lastProfileTs
         IN  /\ parsed.payload.type = "profile"
             /\ Known(u, from)
             /\ contacts' = IF taken
                            THEN [contacts EXCEPT ![u][from] = Updated(@, parsed.payload, ts, Now(u))]
                            ELSE contacts
             /\ newest' = [newest EXCEPT
                   ![u][from].heard = IF ts <= Now(u) THEN Later(@, ts) ELSE @,
                   ![u][from].shown = IF taken THEN ts ELSE @]
             /\ clock' = clock /\ net' = net
  BY DEF IngestProfile
<1> DEFINE ts == Clamped(u, parsed.ts)
           d == Updated(c, parsed.payload, ts, Now(u))
           x == IF ts <= Now(u) THEN Later(n.heard, ts) ELSE n.heard
           y == IF ts >= c.lastProfileTs THEN ts ELSE n.shown
<1>2. n \in [heard : Nat, shown : Nat]
  BY <1>0 DEF WatermarkInv, Watermarks, Watermark
<1>3. newest' = [newest EXCEPT ![u][from] = [heard |-> x, shown |-> y]]
  <2>1. newest' = [newest EXCEPT ![u][from].heard = x, ![u][from].shown = y]
    BY <1>0, <1>1 DEF WatermarkInv, Tables
  <2> HIDE DEF x, y
  <2>2. newest' = [newest EXCEPT ![u][from] = [[n EXCEPT !.heard = x] EXCEPT !.shown = y]]
    BY <1>0, <2>1 DEF WatermarkInv, Tables
  <2>3. n = [heard |-> n.heard, shown |-> n.shown]
    BY <1>2
  <2>4. [n EXCEPT !.heard = x] = [heard |-> x, shown |-> n.shown]
    BY <2>3
  <2>5. [[heard |-> x, shown |-> n.shown] EXCEPT !.shown = y] = [heard |-> x, shown |-> y]
    OBVIOUS
  <2> QED BY <2>2, <2>4, <2>5
<1>4. AsHeard(u, from, parsed) = [heard |-> x, shown |-> y]
  BY DEF AsHeard, Taken
<1>5. Differ(newest, newest', u, from) /\ newest'[u][from] = AsHeard(u, from, parsed)
  <2> DEFINE v == AsHeard(u, from, parsed)
  <2>1. newest' = [newest EXCEPT ![u][from] = v]
    BY <1>3, <1>4
  <2> HIDE DEF v
  <2>2. Differ(newest, newest', u, from) /\ newest'[u][from] = v
    BY <1>0, <2>1, OneEntry DEF WatermarkInv, Tables
  <2> QED BY <2>2 DEF v
<1>6. CASE Taken(u, from, parsed)
  <2>1. contacts' = [contacts EXCEPT ![u][from] = d]
    BY <1>1, <1>6 DEF Taken
  <2>2. d = AsUpdated(u, from, parsed)
    BY DEF AsUpdated
  <2>3. Differ(contacts, contacts', u, from) /\ contacts'[u][from] = d
    <3> HIDE DEF d
    <3> QED BY <1>0, <2>1, OneEntry DEF WatermarkInv, Tables
  <2> QED BY <1>1, <1>5, <1>6, <2>2, <2>3
<1>7. CASE ~Taken(u, from, parsed)
  <2>1. contacts' = contacts
    BY <1>1, <1>7 DEF Taken
  <2>2. Differ(contacts, contacts', u, from)
    BY <1>0, <2>1, OneEntry DEF WatermarkInv, Tables
  <2> QED BY <1>1, <1>5, <1>7, <2>1, <2>2
<1> QED BY <1>6, <1>7

\* A profile that is taken is at least as new as everything heard when due, one that is not
\* taken is older than the watermark.
LEMMA IngestProfileKeeps ==
    ASSUME WatermarkInv, NEW u \in Users, NEW b \in Reaching(u), IngestProfile(u, b)
    PROVE  WatermarkInv'
<1> DEFINE from == Opened(b).sender
           c == contacts[u][from]
           n == newest[u][from]
<1>0. from \in Points
  BY ReachingIsDated
<1>1. PICK parsed \in Parse(Opened(b).plaintext) :
         /\ Known(u, from)
         /\ Differ(contacts, contacts', u, from) /\ Differ(newest, newest', u, from)
         /\ contacts'[u][from] = IF Taken(u, from, parsed) THEN AsUpdated(u, from, parsed) ELSE c
         /\ newest'[u][from] = AsHeard(u, from, parsed)
         /\ clock' = clock /\ net' = net
  BY ProfileEffect
<1> DEFINE ts == Clamped(u, parsed.ts)
           d == AsUpdated(u, from, parsed)
           m == AsHeard(u, from, parsed)
<1>2. ts \in Nat /\ Now(u) \in Nat
  BY ReachingIsDated, ParsedTs, Clocks DEF WatermarkInv
<1>3. Watermark(c, n, Now(u))
  BY <1>0 DEF WatermarkInv, Watermarks
<1>4. /\ DOMAIN c = Fields /\ c.known = TRUE /\ c.lastProfileTs \in Nat
      /\ n \in [heard : Nat, shown : Nat]
  BY <1>1, <1>3, Contacts DEF Watermark, IsContact, Known
<1>5. DOMAIN d = Fields /\ d.known = TRUE /\ d.lastProfileTs = Earlier(ts, Now(u))
  BY <1>4, ContactChanges DEF AsUpdated
<1>6. /\ m.heard = IF ts <= Now(u) THEN Later(n.heard, ts) ELSE n.heard
      /\ m.shown = IF ts >= c.lastProfileTs THEN ts ELSE n.shown
  BY DEF AsHeard, Taken
<1>7. m \in [heard : Nat, shown : Nat]
  BY <1>2, <1>4 DEF AsHeard, Later
<1> HIDE DEF d, m, ts
<1>8. Watermark(contacts'[u][from], m, Now(u))
  <2>1. CASE ts >= c.lastProfileTs
    <3>1. contacts'[u][from] = d
      BY <1>1, <2>1 DEF Taken, d, ts
    <3>2. m.heard <= Now(u) /\ m.heard <= Earlier(ts, Now(u)) /\ Earlier(ts, Now(u)) <= m.shown
      BY <1>2, <1>3, <1>4, <1>6, <2>1 DEF Watermark, Later, Earlier
    <3>3. Earlier(ts, Now(u)) \in Nat
      BY <1>2 DEF Earlier
    <3> QED BY <1>5, <1>7, <3>1, <3>2, <3>3 DEF Watermark, IsContact
  <2>2. CASE ~(ts >= c.lastProfileTs)
    <3>1. contacts'[u][from] = c
      BY <1>1, <2>2 DEF Taken, ts
    <3>2. m.heard <= Now(u) /\ m.heard <= c.lastProfileTs /\ m.shown = n.shown
      BY <1>2, <1>3, <1>4, <1>6, <2>2 DEF Watermark, Later
    <3> QED BY <1>3, <1>4, <1>7, <3>1, <3>2 DEF Watermark
  <2> QED BY <2>1, <2>2
<1>9. Now(u)' = Now(u) /\ clock' \in Nat /\ clock <= clock'
  BY <1>1 DEF Now, WatermarkInv
<1>10. Tables' /\ Watermarks'
  BY <1>0, <1>1, <1>8, <1>9, OneContact DEF m
<1> QED BY <1>1, <1>9, <1>10 DEF WatermarkInv

-----------------------------------------------------------------------------
(* The theorem *)

\* The invariant holds at the start.
LEMMA WatermarkInit == Init => WatermarkInv
<1> SUFFICES ASSUME Init PROVE WatermarkInv
  OBVIOUS
<1>1. Tables
  BY DEF Init, Tables
<1>2. ASSUME NEW u \in Users, NEW k \in Points
      PROVE  Watermark(contacts[u][k], newest[u][k], Now(u))
  <2>1. contacts[u][k] = NoContact /\ newest[u][k] = NoProfile
    BY DEF Init
  <2>2. Now(u) \in Nat
    BY CorrespondenceAssumption DEF Init, Now
  <2> QED BY <2>1, <2>2, Contacts DEF Watermark, IsContact, NoProfile
<1> QED BY <1>1, <1>2 DEF Init, WatermarkInv, Watermarks

\* Every step keeps it.
LEMMA WatermarkStep == WatermarkInv /\ [Next]_vars => WatermarkInv'
<1> SUFFICES ASSUME WatermarkInv, [Next]_vars PROVE WatermarkInv'
  OBVIOUS
<1>1. CASE Next
  BY <1>1, UserKeeps, IngestTextKeeps, IngestAckKeeps, IngestProfileKeeps DEF Next
<1>2. CASE UNCHANGED vars
  <2>1. clock' \in Nat /\ clock <= clock' /\ UNCHANGED <<contacts, newest, net>>
    BY <1>2 DEF vars, WatermarkInv
  <2> QED BY <2>1, NoContactTouched DEF WatermarkInv
<1> QED BY <1>1, <1>2

\* The inductive invariant holds in every behaviour.
THEOREM WatermarkInvariant == Spec => []WatermarkInv
BY WatermarkInit, WatermarkStep, PTL DEF Spec

\* What ingest_poll shows as a contact's profile is no older than any profile that came
\* from that contact when it was due, in whatever order and however often they come.
THEOREM ProfilesDoNotRollBack == Spec => []NewestProfileWins
<1>1. WatermarkInv => NewestProfileWins
  <2> SUFFICES ASSUME WatermarkInv, NEW u \in Users, NEW k \in Points, Known(u, k)
               PROVE  newest[u][k].shown >= newest[u][k].heard
    BY DEF NewestProfileWins
  <2>1. Watermark(contacts[u][k], newest[u][k], Now(u))
    BY DEF WatermarkInv, Watermarks
  <2>2. contacts[u][k].lastProfileTs \in Nat
    BY <2>1, Contacts DEF Watermark, IsContact, Known
  <2> QED BY <2>1, <2>2 DEF Watermark, Known
<1> QED BY <1>1, WatermarkInvariant, PTL

-----------------------------------------------------------------------------
(* Authenticity *)

\* What a user has said to another, in S.
SaidText(S, s, u, id, body) ==
    \E x \in S : /\ x.from = s /\ x.to = u
                 /\ \E y \in Parse(x.plaintext) : y.payload = Text(id, body)

SaidAck(S, s, u, id) ==
    \E x \in S : /\ x.from = s /\ x.to = u
                 /\ x.plaintext.payload.type = "delivery.ack"
                 /\ id \in x.plaintext.payload.ackIds

SaidProfile(S, s, u, ts, name) ==
    \E x \in S : /\ x.from = s /\ x.to = u
                 /\ \E y \in Parse(x.plaintext) : /\ y.payload.type = "profile"
                                                  /\ ts <= y.ts
                                                  /\ y.payload.displayName = {name}

\* What was said stays said.
LEMMA SaidMonotone ==
    ASSUME NEW S, NEW T, S \subseteq T, NEW s, NEW u
    PROVE  /\ \A id, body : SaidText(S, s, u, id, body) => SaidText(T, s, u, id, body)
           /\ \A id : SaidAck(S, s, u, id) => SaidAck(T, s, u, id)
           /\ \A ts, name : SaidProfile(S, s, u, ts, name) => SaidProfile(T, s, u, ts, name)
BY DEF SaidText, SaidAck, SaidProfile

MessageFields == {"peer", "id", "body", "outgoing", "delivered"}

\* A message as a user sees it: whoever it is from, or whoever took it, said so.
Backed(S, u, m) ==
    /\ DOMAIN m = MessageFields
    /\ \A s \in Users : /\ m.peer = s /\ ~m.outgoing => SaidText(S, s, u, m.id, m.body)
                        /\ m.peer = s /\ m.delivered => SaidAck(S, s, u, m.id)

MessagesBacked ==
    DOMAIN messages = Users /\ \A u \in Users : \A m \in messages[u] : Backed(said, u, m)

ProfilesBacked ==
    \A u, s \in Users : newest[u][s].shown > 0 =>
        SaidProfile(said, s, u, newest[u][s].shown, contacts[u][s].displayName)

\* A profile with a name.
Named(plaintext) ==
    plaintext.payload.type = "profile" => \E t : plaintext.payload.displayName = {t}

\* What is in net was sealed by the user who said it; users' profiles have a name.
Sealed ==
    /\ \A b \in net : \E x \in said : x.from \in Users /\ b = Encrypt(x.from, x.to, x.plaintext)
    /\ \A x \in said : Named(x.plaintext)

AuthenticInv == WatermarkInv /\ Sealed /\ MessagesBacked /\ ProfilesBacked

\* Messages stay backed as more is said.
LEMMA BackedLater ==
    ASSUME NEW S, NEW T, S \subseteq T, NEW u, NEW m, Backed(S, u, m)
    PROVE  Backed(T, u, m)
BY SaidMonotone DEF Backed

\* A box that opens in the name of a user was sealed by that user, for whoever opens it:
\* the signature names the recipient.
LEMMA OpensIsSaid ==
    ASSUME Sealed, NEW u \in Users, NEW b \in Reaching(u), Opens(u, b), Opened(b).sender \in Users
    PROVE  \E x \in said : /\ x.from = Opened(b).sender /\ x.to = u
                           /\ x.plaintext = Opened(b).plaintext
<1>1. ASSUME NEW x, b = Encrypt(x.from, x.to, x.plaintext)
      PROVE  /\ Opened(b).sender = x.from /\ x.to = u
             /\ Opened(b).plaintext = x.plaintext
  BY <1>1 DEF Encrypt, Blob, Inner, Frame, Opens, Opened
<1>2. CASE b \in net
  BY <1>1, <1>2 DEF Sealed
<1>3. ASSUME NEW f \in Others, NEW p \in ForeignMail[u], b = Encrypt(f, u, p)
      PROVE  FALSE
  <2>1. Opened(b).sender = f
    BY <1>3 DEF Encrypt, Blob, Inner, Opened
  <2> QED BY <1>3, <2>1, CorrespondenceAssumption
<1>4. ASSUME NEW c \in net, b = Blob(u, c.inner)
      PROVE  \E x \in said : /\ x.from = Opened(b).sender /\ x.to = u
                             /\ x.plaintext = Opened(b).plaintext
  <2>1. PICK x \in said : c = Encrypt(x.from, x.to, x.plaintext)
    BY <1>4 DEF Sealed
  <2> DEFINE frame == Frame(x.plaintext)
             pad   == Padding(frame.len)
  <2>2. c.inner = Inner(x.from, Signature(x.from, x.to, frame, pad), frame, pad)
    BY <2>1 DEF Encrypt, Blob
  <2> HIDE DEF frame, pad
  <2>3. b.inner = c.inner
    BY <1>4 DEF Blob
  <2>4. /\ b.inner.sender = x.from /\ b.inner.frame = frame /\ b.inner.padding = pad
        /\ b.inner.sig = Signature(x.from, x.to, frame, pad)
    BY <2>2, <2>3 DEF Inner
  <2>5. Signature(x.from, x.to, frame, pad) = Signature(x.from, u, frame, pad)
    BY <2>4 DEF Opens
  <2>6. x.to = u
    BY <2>5 DEF Signature, Signed
  <2> QED BY <2>4, <2>6 DEF Opened, Frame, frame
<1> QED BY <1>2, <1>3, <1>4 DEF Reaching

\* What the reader makes of the three kinds of payload.
LEMMA ParsedPayload ==
    ASSUME NEW plaintext, NEW y \in Parse(plaintext)
    PROVE  /\ y.payload.type = "text" => y.payload = Text(y.payload.id, y.payload.body)
           /\ y.payload.type = "delivery.ack" => y.payload = plaintext.payload
           /\ y.payload.type = "profile" =>
                 /\ plaintext.payload.type = "profile"
                 /\ y.payload.displayName = SanitizeAll(plaintext.payload.displayName)
BY DEF Parse, Text, Profile

\* What the actions leave alone.
LEMMA Untouched ==
    ASSUME NEW u, NEW k, NEW b
    PROVE  /\ AddContact(u, k) => UNCHANGED <<messages, net, said, newest>>
           /\ DeleteContact(u, k) => UNCHANGED <<net, said>>
           /\ \A blocked : SetBlocked(u, k, blocked) => UNCHANGED <<messages, net, said, newest>>
           /\ SaveProfile(u, k) => UNCHANGED <<contacts, messages, newest>>
           /\ \A body : SendText(u, k, body) => UNCHANGED newest
           /\ IngestText(u, b) => UNCHANGED newest
           /\ IngestAck(u, b) => UNCHANGED <<net, said, newest>>
           /\ IngestProfile(u, b) => UNCHANGED <<messages, net, said>>
BY DEF AddContact, DeleteContact, SetBlocked, SaveProfile, SendText, IngestText, IngestAck,
       IngestProfile

\* Nothing that was said is unsaid.
LEMMA SaidGrows ==
    ASSUME [Next]_vars
    PROVE  said \subseteq said'
<1>1. ASSUME NEW u, NEW mails, Post(u, mails)
      PROVE  said \subseteq said'
  BY <1>1 DEF Post
<1>2. CASE UNCHANGED said
  BY <1>2
<1>3. ASSUME NEW u \in Users, NEW p \in Profiles, SaveProfile(u, p)
      PROVE  said \subseteq said'
  BY <1>1, <1>3 DEF SaveProfile
<1>4. ASSUME NEW u \in Users, NEW k \in Visited[u], NEW body \in Bodies, SendText(u, k, body)
      PROVE  said \subseteq said'
  BY <1>1, <1>4 DEF SendText
<1>5. ASSUME NEW u \in Users, NEW b \in Reaching(u), IngestText(u, b)
      PROVE  said \subseteq said'
  BY <1>1, <1>5 DEF IngestText
<1>6. \/ UNCHANGED said
      \/ \E u \in Users : \/ \E p \in Profiles : SaveProfile(u, p)
                          \/ \E k \in Visited[u], body \in Bodies : SendText(u, k, body)
                          \/ \E b \in Reaching(u) : IngestText(u, b)
  BY Untouched DEF Next, vars
<1> QED BY <1>2, <1>3, <1>4, <1>5, <1>6

\* A post is sealed by its author.
LEMMA PostIsSealed ==
    ASSUME Sealed, NEW u \in Users, NEW mails, Post(u, mails),
           \A m \in mails : Named(m.plaintext)
    PROVE  Sealed'
<1> DEFINE said1(m) == [from |-> u, to |-> m.to, plaintext |-> m.plaintext]
<1>1. \A m \in mails : said1(m) \in said'
  BY DEF Post
<1>2. \A b \in net' : \E x \in said' : x.from \in Users /\ b = Encrypt(x.from, x.to, x.plaintext)
  <2> SUFFICES ASSUME NEW b \in net' \ net
               PROVE  \E x \in said' : x.from \in Users /\ b = Encrypt(x.from, x.to, x.plaintext)
    BY DEF Sealed, Post
  <2>1. PICK m \in mails : b = Encrypt(u, m.to, m.plaintext)
    BY DEF Post
  <2> QED BY <1>1, <2>1
<1>3. \A x \in said' : Named(x.plaintext)
  <2> SUFFICES ASSUME NEW x \in said' PROVE Named(x.plaintext)
    OBVIOUS
  <2>1. CASE x \in said
    BY <2>1 DEF Sealed
  <2>2. CASE x \notin said
    <3>1. PICK m \in mails : x = said1(m)
      BY <2>2 DEF Post
    <3>2. x.plaintext = m.plaintext
      BY <3>1
    <3> QED BY <3>2
  <2> QED BY <2>1, <2>2
<1> QED BY <1>2, <1>3 DEF Sealed

\* Users' mails: a profile has a name.
LEMMA MailIsNamed ==
    /\ \A u, to, ts : Named(Mail(to, OwnProfile(u), ts).plaintext)
    /\ \A to, ts, id, body : Named(Mail(to, Text(id, body), ts).plaintext)
    /\ \A to, ts, ackIds : Named(Mail(to, DeliveryAck(ackIds), ts).plaintext)
BY DEF Named, Mail, Serialize, OwnProfile, Profile, Text, DeliveryAck

\* Every step leaves what is in net sealed by its author.
LEMMA SealedStep ==
    ASSUME Sealed, [Next]_vars
    PROVE  Sealed'
<1>1. CASE UNCHANGED <<net, said>>
  BY <1>1 DEF Sealed
<1>2. ASSUME NEW u \in Users, NEW p \in Profiles, SaveProfile(u, p)
      PROVE  Sealed'
  <2> DEFINE mails == {Mail(k, OwnProfile(u), Now(u)) :
                          k \in {x \in Points : Known(u, x) /\ ~Blocked(u, x)}}
  <2>1. Post(u, mails)
    BY <1>2 DEF SaveProfile
  <2>2. \A m \in mails : Named(m.plaintext)
    BY MailIsNamed
  <2> HIDE DEF mails
  <2> QED BY <2>1, <2>2, PostIsSealed
<1>3. ASSUME NEW u \in Users, NEW k \in Visited[u], NEW body \in Bodies, SendText(u, k, body)
      PROVE  Sealed'
  <2> DEFINE id    == [by |-> u, n |-> clock, bytes |-> 36]
             mails == {Mail(k, Text(id, body), Now(u))} \cup
                      IF ~Known(u, k) THEN {Mail(k, OwnProfile(u), Now(u))} ELSE {}
  <2>1. Post(u, mails)
    BY <1>3 DEF SendText
  <2> HIDE DEF id
  <2>2. \A m \in mails : Named(m.plaintext)
    BY MailIsNamed
  <2> HIDE DEF mails
  <2> QED BY <2>1, <2>2, PostIsSealed
<1>4. ASSUME NEW u \in Users, NEW b \in Reaching(u), IngestText(u, b)
      PROVE  Sealed'
  <2> DEFINE from == Opened(b).sender
             mails(ts, id, isNew) ==
                (IF ~Known(u, from) THEN {Mail(from, OwnProfile(u), ts)} ELSE {}) \cup
                (IF isNew THEN {Mail(from, DeliveryAck({id}), Now(u))} ELSE {})
  <2>1. PICK ts, id, isNew : Post(u, mails(ts, id, isNew))
    BY <1>4 DEF IngestText
  <2>2. \A m \in mails(ts, id, isNew) : Named(m.plaintext)
    BY MailIsNamed
  <2> HIDE DEF mails
  <2> QED BY <2>1, <2>2, PostIsSealed
<1>5. \/ UNCHANGED <<net, said>>
      \/ \E u \in Users : \/ \E p \in Profiles : SaveProfile(u, p)
                          \/ \E k \in Visited[u], body \in Bodies : SendText(u, k, body)
                          \/ \E b \in Reaching(u) : IngestText(u, b)
  BY Untouched DEF Next, vars
<1> QED BY <1>1, <1>2, <1>3, <1>4, <1>5

\* A table of messages whose new entries are backed.
LEMMA BackedTable ==
    ASSUME MessagesBacked, said \subseteq said', NEW u \in Users, NEW new,
           messages' = [messages EXCEPT ![u] = new],
           \A m \in new : Backed(said', u, m)
    PROVE  MessagesBacked'
<1>1. DOMAIN messages' = Users /\ messages'[u] = new
  BY DEF MessagesBacked
<1>2. \A x \in Users : x # u => messages'[x] = messages[x]
  BY DEF MessagesBacked
<1>3. ASSUME NEW x \in Users, NEW m \in messages'[x]
      PROVE  Backed(said', x, m)
  BY <1>1, <1>2, <1>3, BackedLater DEF MessagesBacked
<1> QED BY <1>1, <1>3 DEF MessagesBacked

\* Every message that a step leaves is backed.
LEMMA MessagesStep ==
    ASSUME Sealed, MessagesBacked, [Next]_vars
    PROVE  MessagesBacked'
<1>0. said \subseteq said'
  BY SaidGrows
<1>1. CASE UNCHANGED messages
  BY <1>0, <1>1, BackedLater DEF MessagesBacked
<1>2. ASSUME NEW u \in Users, NEW k \in Points, DeleteContact(u, k)
      PROVE  MessagesBacked'
  <2> DEFINE new == {m \in messages[u] : m.peer # k}
  <2>1. messages' = [messages EXCEPT ![u] = new]
    BY <1>2 DEF DeleteContact
  <2>2. \A m \in new : Backed(said', u, m)
    BY <1>0, BackedLater DEF MessagesBacked
  <2> HIDE DEF new
  <2> QED BY <1>0, <2>1, <2>2, BackedTable
<1>3. ASSUME NEW u \in Users, NEW k \in Visited[u], NEW body \in Bodies, SendText(u, k, body)
      PROVE  MessagesBacked'
  <2> DEFINE own == [peer |-> k, id |-> [by |-> u, n |-> clock, bytes |-> 36], body |-> body,
                     outgoing |-> TRUE, delivered |-> FALSE]
             new == messages[u] \cup {own}
  <2>1. messages' = [messages EXCEPT ![u] = new]
    BY <1>3 DEF SendText
  <2>2. Backed(said', u, own)
    BY DEF Backed, MessageFields
  <2>3. \A m \in new : Backed(said', u, m)
    BY <1>0, <2>2, BackedLater DEF MessagesBacked
  <2> HIDE DEF new
  <2> QED BY <1>0, <2>1, <2>3, BackedTable
<1>4. ASSUME NEW u \in Users, NEW b \in Reaching(u), IngestText(u, b), ~UNCHANGED messages
      PROVE  MessagesBacked'
  <2> DEFINE from == Opened(b).sender
  <2>1. PICK parsed \in Parse(Opened(b).plaintext) :
           /\ parsed.payload.type = "text"
           /\ messages' = [messages EXCEPT ![u] = @ \cup
                 {[peer |-> from, id |-> parsed.payload.id, body |-> parsed.payload.body,
                   outgoing |-> FALSE, delivered |-> FALSE]}]
    BY <1>4 DEF IngestText
  <2> DEFINE text == [peer |-> from, id |-> parsed.payload.id, body |-> parsed.payload.body,
                      outgoing |-> FALSE, delivered |-> FALSE]
             new  == messages[u] \cup {text}
  <2>2. messages' = [messages EXCEPT ![u] = new]
    BY <2>1
  <2>3. parsed.payload = Text(parsed.payload.id, parsed.payload.body)
    BY <2>1, ParsedPayload
  <2>4. ASSUME NEW s \in Users, from = s
        PROVE  SaidText(said', s, u, parsed.payload.id, parsed.payload.body)
    <3>1. PICK x \in said : x.from = s /\ x.to = u /\ x.plaintext = Opened(b).plaintext
      BY <1>4, <2>4, OpensIsSaid DEF IngestText, Arrives
    <3> QED BY <1>0, <2>1, <2>3, <3>1 DEF SaidText
  <2>5. Backed(said', u, text)
    BY <2>4 DEF Backed, MessageFields
  <2>6. \A m \in new : Backed(said', u, m)
    BY <1>0, <2>5, BackedLater DEF MessagesBacked
  <2> HIDE DEF new
  <2> QED BY <1>0, <2>2, <2>6, BackedTable
<1>5. ASSUME NEW u \in Users, NEW b \in Reaching(u), IngestAck(u, b)
      PROVE  MessagesBacked'
  <2> DEFINE from == Opened(b).sender
  <2>1. PICK parsed \in Parse(Opened(b).plaintext) :
           /\ parsed.payload.type = "delivery.ack"
           /\ messages' = [messages EXCEPT ![u] =
                 {IF m.outgoing /\ m.peer = from /\ m.id \in parsed.payload.ackIds
                  THEN [m EXCEPT !.delivered = TRUE] ELSE m : m \in @}]
    BY <1>5 DEF IngestAck
  <2> DEFINE marked(m) == IF m.outgoing /\ m.peer = from /\ m.id \in parsed.payload.ackIds
                          THEN [m EXCEPT !.delivered = TRUE] ELSE m
             new == {marked(m) : m \in messages[u]}
  <2>2. messages' = [messages EXCEPT ![u] = new]
    BY <2>1
  <2>3. ASSUME NEW s \in Users, from = s, NEW id \in parsed.payload.ackIds
        PROVE  SaidAck(said', s, u, id)
    <3>1. PICK x \in said : x.from = s /\ x.to = u /\ x.plaintext = Opened(b).plaintext
      BY <1>5, <2>3, OpensIsSaid DEF IngestAck, Arrives
    <3>2. parsed.payload = x.plaintext.payload
      BY <2>1, <3>1, ParsedPayload
    <3> QED BY <1>0, <2>1, <2>3, <3>1, <3>2 DEF SaidAck
  <2>4. ASSUME NEW m \in messages[u]
        PROVE  Backed(said', u, marked(m))
    <3>1. Backed(said', u, m)
      BY <1>0, BackedLater DEF MessagesBacked
    <3>2. CASE m.outgoing /\ m.peer = from /\ m.id \in parsed.payload.ackIds
      <4> DEFINE d == [m EXCEPT !.delivered = TRUE]
      <4>1. /\ DOMAIN d = MessageFields
            /\ d.peer = m.peer /\ d.id = m.id /\ d.body = m.body /\ d.outgoing = m.outgoing
        BY <3>1 DEF Backed, MessageFields
      <4> HIDE DEF d
      <4>2. Backed(said', u, d)
        BY <2>3, <3>1, <3>2, <4>1 DEF Backed
      <4> QED BY <3>2, <4>2 DEF d
    <3>3. CASE ~(m.outgoing /\ m.peer = from /\ m.id \in parsed.payload.ackIds)
      BY <3>1, <3>3
    <3> QED BY <3>2, <3>3
  <2>5. \A m \in new : Backed(said', u, m)
    BY <2>4
  <2> HIDE DEF new
  <2> QED BY <1>0, <2>2, <2>5, BackedTable
<1>6. \/ UNCHANGED messages
      \/ \E u \in Users : \/ \E k \in Points : DeleteContact(u, k)
                          \/ \E k \in Visited[u], body \in Bodies : SendText(u, k, body)
                          \/ \E b \in Reaching(u) : IngestText(u, b) \/ IngestAck(u, b)
  BY Untouched DEF Next, vars
<1> QED BY <1>1, <1>2, <1>3, <1>4, <1>5, <1>6

\* A step that touches one contact leaves the other profiles as they were.
LEMMA OneProfile ==
    ASSUME ProfilesBacked, said \subseteq said', NEW u \in Users, NEW k \in Points,
           Differ(contacts, contacts', u, k), Differ(newest, newest', u, k),
           k \in Users /\ newest'[u][k].shown > 0 =>
               SaidProfile(said', k, u, newest'[u][k].shown, contacts'[u][k].displayName)
    PROVE  ProfilesBacked'
<1> SUFFICES ASSUME NEW x \in Users, NEW s \in Users, newest'[x][s].shown > 0
             PROVE  SaidProfile(said', s, x, newest'[x][s].shown, contacts'[x][s].displayName)
  BY DEF ProfilesBacked
<1>1. CASE x = u /\ s = k
  BY <1>1
<1>2. CASE x # u \/ s # k
  <2>1. s \in Points
    BY CorrespondenceAssumption
  <2>2. newest'[x][s] = newest[x][s] /\ contacts'[x][s] = contacts[x][s]
    BY <1>2, <2>1 DEF Differ
  <2>3. SaidProfile(said, s, x, newest[x][s].shown, contacts[x][s].displayName)
    BY <2>2 DEF ProfilesBacked
  <2> QED BY <2>2, <2>3, SaidMonotone
<1> QED BY <1>1, <1>2

\* A contact that was none has no profile to back.
LEMMA NewIsBacked ==
    ASSUME WatermarkInv, ProfilesBacked, said \subseteq said', NEW u \in Users, NEW k \in Points,
           ~Known(u, k), contacts' = [contacts EXCEPT ![u][k] = NewContact], newest' = newest
    PROVE  ProfilesBacked'
<1>1. Differ(contacts, contacts', u, k) /\ Differ(newest, newest', u, k)
  BY OneEntry DEF WatermarkInv, Tables
<1>2. newest[u][k] = NoProfile
  BY DEF WatermarkInv, Watermarks, Watermark, Known
<1>3. ~(newest'[u][k].shown > 0)
  BY <1>2 DEF NoProfile
<1> QED BY <1>1, <1>3, OneProfile

\* Nor does another field of a contact matter.
LEMMA FieldIsBacked ==
    ASSUME WatermarkInv, ProfilesBacked, said \subseteq said', NEW u \in Users, NEW k \in Points,
           Known(u, k), NEW v, newest' = newest,
           \/ contacts' = [contacts EXCEPT ![u][k].blocked = v]
           \/ contacts' = [contacts EXCEPT ![u][k].lastAckTs = v]
    PROVE  ProfilesBacked'
<1> DEFINE c == contacts[u][k]
<1>1. DOMAIN c = Fields
  BY Contacts DEF WatermarkInv, Watermarks, Watermark, IsContact, Known
<1>2. PICK d : contacts' = [contacts EXCEPT ![u][k] = d] /\ d.displayName = c.displayName
  <2>1. CASE contacts' = [contacts EXCEPT ![u][k].blocked = v]
    <3> DEFINE d == [c EXCEPT !.blocked = v]
    <3>1. contacts' = [contacts EXCEPT ![u][k] = d]
      BY <2>1
    <3>2. d.displayName = c.displayName
      BY <1>1 DEF Fields
    <3> HIDE DEF d
    <3> QED BY <3>1, <3>2
  <2>2. CASE contacts' = [contacts EXCEPT ![u][k].lastAckTs = v]
    <3> DEFINE d == [c EXCEPT !.lastAckTs = v]
    <3>1. contacts' = [contacts EXCEPT ![u][k] = d]
      BY <2>2
    <3>2. d.displayName = c.displayName
      BY <1>1 DEF Fields
    <3> HIDE DEF d
    <3> QED BY <3>1, <3>2
  <2> QED BY <2>1, <2>2
<1>3. Differ(contacts, contacts', u, k) /\ Differ(newest, newest', u, k) /\ contacts'[u][k] = d
  BY <1>2, OneEntry DEF WatermarkInv, Tables
<1>4. k \in Users /\ newest'[u][k].shown > 0 =>
         SaidProfile(said', k, u, newest'[u][k].shown, contacts'[u][k].displayName)
  <2>1. contacts'[u][k].displayName = contacts[u][k].displayName
    BY <1>2, <1>3
  <2>2. k \in Users /\ newest[u][k].shown > 0 =>
           SaidProfile(said, k, u, newest[u][k].shown, contacts[u][k].displayName)
    BY DEF ProfilesBacked
  <2> QED BY <2>1, <2>2, SaidMonotone
<1> QED BY <1>3, <1>4, OneProfile

\* A profile that is taken was said, and is not shown as newer than it is.
LEMMA IngestProfileIsBacked ==
    ASSUME WatermarkInv, Sealed, ProfilesBacked, said \subseteq said',
           NEW u \in Users, NEW b \in Reaching(u), IngestProfile(u, b)
    PROVE  ProfilesBacked'
<1> DEFINE from == Opened(b).sender
           c == contacts[u][from]
<1>0. from \in Points
  BY ReachingIsDated
<1>1. PICK parsed \in Parse(Opened(b).plaintext) :
         /\ parsed.payload.type = "profile"
         /\ Known(u, from)
         /\ Differ(contacts, contacts', u, from) /\ Differ(newest, newest', u, from)
         /\ contacts'[u][from] = IF Taken(u, from, parsed) THEN AsUpdated(u, from, parsed) ELSE c
         /\ newest'[u][from] = AsHeard(u, from, parsed)
  BY ProfileEffect
<1>2. newest'[u][from].shown = IF Taken(u, from, parsed) THEN Clamped(u, parsed.ts)
                               ELSE newest[u][from].shown
  BY <1>1 DEF AsHeard
<1>3. CASE ~Taken(u, from, parsed)
  <2>1. newest'[u][from].shown = newest[u][from].shown /\ contacts'[u][from] = c
    BY <1>1, <1>2, <1>3
  <2>2. from \in Users /\ newest'[u][from].shown > 0 =>
           SaidProfile(said', from, u, newest'[u][from].shown, contacts'[u][from].displayName)
    BY <2>1, SaidMonotone DEF ProfilesBacked
  <2> HIDE DEF from
  <2> QED BY <1>0, <1>1, <2>2, OneProfile
<1>4. CASE Taken(u, from, parsed)
  <2>0. newest'[u][from].shown = Clamped(u, parsed.ts) /\ contacts'[u][from] = AsUpdated(u, from, parsed)
    BY <1>1, <1>2, <1>4
  <2>1. ASSUME from \in Users, Clamped(u, parsed.ts) > 0
        PROVE  SaidProfile(said', from, u, Clamped(u, parsed.ts), AsUpdated(u, from, parsed).displayName)
    <3>1. PICK x \in said : x.from = from /\ x.to = u /\ x.plaintext = Opened(b).plaintext
      BY <2>1, OpensIsSaid DEF IngestProfile, Arrives
    <3>2. PICK t : x.plaintext.payload.displayName = {t}
      BY <1>1, <3>1, ParsedPayload DEF Sealed, Named
    <3>3. parsed.payload.displayName = {Sanitize(t)}
      BY <1>1, <3>1, <3>2, ParsedPayload DEF SanitizeAll
    <3>4. AsUpdated(u, from, parsed).displayName = Sanitize(t)
      <4>1. DOMAIN c = Fields
        BY <1>0, <1>1, Contacts DEF WatermarkInv, Watermarks, Watermark, IsContact, Known
      <4>2. AsUpdated(u, from, parsed).displayName =
              IF parsed.payload.displayName = {} THEN c.displayName
              ELSE CHOOSE y \in parsed.payload.displayName : TRUE
        <5> HIDE DEF from
        <5> QED BY <4>1 DEF AsUpdated, Updated, Fields
      <4> QED BY <3>3, <4>2
    <3>5. Clamped(u, parsed.ts) <= parsed.ts
      <4>1. parsed.ts \in Int /\ Now(u) \in Nat /\ Skew \in Nat
        BY ReachingIsDated, ParsedTs, Clocks, CorrespondenceAssumption DEF WatermarkInv
      <4> HIDE DEF from
      <4> QED BY <2>1, <4>1 DEF Clamped, Earlier, Later
    <3> QED BY <1>1, <3>1, <3>3, <3>4, <3>5 DEF SaidProfile
  <2>2. from \in Users /\ newest'[u][from].shown > 0 =>
           SaidProfile(said', from, u, newest'[u][from].shown, contacts'[u][from].displayName)
    BY <2>0, <2>1
  <2> HIDE DEF from
  <2> QED BY <1>0, <1>1, <2>2, OneProfile
<1> QED BY <1>3, <1>4

\* Every profile that a step leaves shown is backed.
LEMMA ProfilesStep ==
    ASSUME WatermarkInv, Sealed, ProfilesBacked, [Next]_vars
    PROVE  ProfilesBacked'
<1>0. said \subseteq said'
  BY SaidGrows
<1>1. CASE UNCHANGED <<contacts, newest>>
  BY <1>0, <1>1, SaidMonotone DEF ProfilesBacked
<1>2. ASSUME NEW u \in Users, NEW text \in Typed[u], AddContact(u, text)
      PROVE  ProfilesBacked'
  <2>1. PICK k \in Points : /\ ~Known(u, k)
                            /\ contacts' = [contacts EXCEPT ![u][k] = NewContact]
    BY <1>2, ParsedIsPoint DEF AddContact
  <2>2. newest' = newest
    BY <1>2, Untouched
  <2> QED BY <1>0, <2>1, <2>2, NewIsBacked
<1>3. ASSUME NEW u \in Users, NEW k \in Points, DeleteContact(u, k)
      PROVE  ProfilesBacked'
  <2>1. Differ(contacts, contacts', u, k)
    BY <1>3, OneEntry DEF WatermarkInv, Tables, DeleteContact
  <2>2. Differ(newest, newest', u, k) /\ newest'[u][k] = NoProfile
    BY <1>3, OneEntry DEF WatermarkInv, Tables, DeleteContact
  <2>3. ~(newest'[u][k].shown > 0)
    BY <2>2 DEF NoProfile
  <2> QED BY <1>0, <2>1, <2>2, <2>3, OneProfile
<1>4. ASSUME NEW u \in Users, NEW k \in Points, NEW blocked \in BOOLEAN, SetBlocked(u, k, blocked)
      PROVE  ProfilesBacked'
  <2>1. newest' = newest
    BY <1>4, Untouched
  <2>2. Known(u, k) /\ contacts' = [contacts EXCEPT ![u][k].blocked = blocked]
    BY <1>4 DEF SetBlocked
  <2> QED BY <1>0, <2>1, <2>2, FieldIsBacked
<1>5. ASSUME NEW u \in Users, NEW k \in Visited[u], NEW body \in Bodies, SendText(u, k, body)
      PROVE  ProfilesBacked'
  <2>1. k \in Points /\ newest' = newest
    BY <1>5, Untouched, CorrespondenceAssumption
  <2>2. \/ contacts' = contacts
        \/ ~Known(u, k) /\ contacts' = [contacts EXCEPT ![u][k] = NewContact]
    BY <1>5 DEF SendText
  <2> QED BY <1>0, <1>1, <2>1, <2>2, NewIsBacked
<1>6. ASSUME NEW u \in Users, NEW b \in Reaching(u), IngestText(u, b)
      PROVE  ProfilesBacked'
  <2> DEFINE from == Opened(b).sender
  <2>1. from \in Points /\ newest' = newest
    BY <1>6, Untouched, ReachingIsDated
  <2>2. \/ contacts' = contacts
        \/ ~Known(u, from) /\ contacts' = [contacts EXCEPT ![u][from] = NewContact]
    BY <1>6 DEF IngestText
  <2> HIDE DEF from
  <2> QED BY <1>0, <1>1, <2>1, <2>2, NewIsBacked
<1>7. ASSUME NEW u \in Users, NEW b \in Reaching(u), IngestAck(u, b)
      PROVE  ProfilesBacked'
  <2> DEFINE from == Opened(b).sender
  <2>1. from \in Points /\ newest' = newest
    BY <1>7, Untouched, ReachingIsDated
  <2>2. PICK v : \/ contacts' = contacts
                 \/ Known(u, from) /\ contacts' = [contacts EXCEPT ![u][from].lastAckTs = v]
    BY <1>7 DEF IngestAck
  <2> HIDE DEF from
  <2> QED BY <1>0, <1>1, <2>1, <2>2, FieldIsBacked
<1>8. ASSUME NEW u \in Users, NEW b \in Reaching(u), IngestProfile(u, b)
      PROVE  ProfilesBacked'
  BY <1>0, <1>8, IngestProfileIsBacked
<1>9. CASE UNCHANGED vars
  BY <1>1, <1>9 DEF vars
<1>10. ASSUME NEW u \in Users, NEW p \in Profiles, SaveProfile(u, p)
       PROVE  ProfilesBacked'
  BY <1>1, <1>10, Untouched
<1> QED BY <1>2, <1>3, <1>4, <1>5, <1>6, <1>7, <1>8, <1>9, <1>10 DEF Next

\* The invariant holds at the start.
LEMMA AuthenticInit == Init => AuthenticInv
<1> SUFFICES ASSUME Init PROVE AuthenticInv
  OBVIOUS
<1>1. WatermarkInv
  BY WatermarkInit
<1>2. Sealed
  BY DEF Init, Sealed
<1>3. MessagesBacked
  BY DEF Init, MessagesBacked
<1>4. ProfilesBacked
  <2>1. \A u, s \in Users : newest[u][s] = NoProfile
    BY CorrespondenceAssumption DEF Init
  <2> QED BY <2>1 DEF ProfilesBacked, NoProfile
<1> QED BY <1>1, <1>2, <1>3, <1>4 DEF AuthenticInv

\* Every step keeps it.
LEMMA AuthenticStep == AuthenticInv /\ [Next]_vars => AuthenticInv'
BY WatermarkStep, SealedStep, MessagesStep, ProfilesStep DEF AuthenticInv

\* The inductive invariant holds in every behaviour.
THEOREM AuthenticInvariant == Spec => []AuthenticInv
BY AuthenticInit, AuthenticStep, PTL DEF Spec

\* The texts, the profile and the delivery marks that ingest_poll shows of a person who runs
\* this client come from what that person sealed for this user, whatever the relays and
\* other people do with the boxes.
THEOREM ShownIsAuthentic == Spec => []Authentic
<1>1. AuthenticInv => Authentic
  <2>1. ASSUME AuthenticInv, NEW u \in Users, NEW s \in Users
        PROVE  TextsFrom(u, s) /\ MarksFrom(u, s)
    <3>1. \A m \in messages[u] : Backed(said, u, m)
      BY <2>1 DEF AuthenticInv, MessagesBacked
    <3>2. TextsFrom(u, s)
      BY <3>1 DEF Backed, SaidText, TextsFrom
    <3>3. MarksFrom(u, s)
      BY <3>1 DEF Backed, SaidAck, MarksFrom
    <3> QED BY <3>2, <3>3
  <2>2. ASSUME AuthenticInv, NEW u \in Users, NEW s \in Users
        PROVE  ProfileFrom(u, s)
    BY <2>2 DEF AuthenticInv, ProfilesBacked, SaidProfile, ProfileFrom
  <2> QED BY <2>1, <2>2 DEF Authentic
<1> QED BY <1>1, AuthenticInvariant, PTL

-----------------------------------------------------------------------------
(* Types *)

\* A contact that is known is somebody else, and its other watermark is a number.
OtherContact(c, u, k) == c.known => k # u /\ c.lastAckTs \in Nat

TypeInv ==
    /\ WatermarkInv
    /\ clock \in 1 .. MaxTime
    /\ \A u \in Users, k \in Points : OtherContact(contacts[u][k], u, k)

\* A step that leaves contacts alone, or changes one into another's.
LEMMA OneOther ==
    ASSUME TypeInv, NEW u \in Users, NEW k \in Points, NEW c, OtherContact(c, u, k),
           contacts' = contacts \/ contacts' = [contacts EXCEPT ![u][k] = c]
    PROVE  \A x \in Users, y \in Points : OtherContact(contacts'[x][y], x, y)
<1>1. Differ(contacts, [contacts EXCEPT ![u][k] = c], u, k)
      /\ [contacts EXCEPT ![u][k] = c][u][k] = c
  BY OneEntry DEF TypeInv, WatermarkInv, Tables
<1>2. CASE contacts' = contacts
  BY <1>2 DEF TypeInv
<1>3. CASE contacts' = [contacts EXCEPT ![u][k] = c]
  BY <1>1, <1>3 DEF TypeInv, Differ
<1> QED BY <1>2, <1>3

\* New contacts, and none, are such contacts.
LEMMA NewOther ==
    ASSUME NEW u, NEW k
    PROVE  OtherContact(NoContact, u, k) /\ (k # u => OtherContact(NewContact, u, k))
BY DEF OtherContact, NoContact, NewContact

\* So is what the actions make of one.
LEMMA ChangedOther ==
    ASSUME TypeInv, NEW u \in Users, NEW k \in Points, NEW b, NEW a \in Nat, NEW p, NEW ts, NEW now,
           Known(u, k)
    PROVE  LET c == contacts[u][k]
           IN  /\ OtherContact([c EXCEPT !.blocked = b], u, k)
               /\ OtherContact([c EXCEPT !.lastAckTs = a], u, k)
               /\ OtherContact(Updated(c, p, ts, now), u, k)
<1> DEFINE c == contacts[u][k]
<1>1. OtherContact(c, u, k) /\ c.known /\ DOMAIN c = Fields
  <2>1. Watermark(c, newest[u][k], Now(u))
    BY DEF TypeInv, WatermarkInv, Watermarks
  <2> QED BY <2>1, Contacts DEF TypeInv, Watermark, IsContact, Known
<1> HIDE DEF c
<1>2. k # u /\ c.lastAckTs \in Nat
  BY <1>1 DEF OtherContact
<1>3. OtherContact([c EXCEPT !.blocked = b], u, k)
  BY <1>1, <1>2 DEF OtherContact, Fields
<1>4. OtherContact([c EXCEPT !.lastAckTs = a], u, k)
  BY <1>1, <1>2 DEF OtherContact, Fields
<1>5. OtherContact(Updated(c, p, ts, now), u, k)
  <2>1. Updated(c, p, ts, now).lastAckTs = c.lastAckTs
    BY <1>1 DEF Updated, Fields
  <2> QED BY <1>2, <2>1 DEF OtherContact
<1> QED BY <1>3, <1>4, <1>5 DEF c

LEMMA TypeStep ==
    ASSUME TypeInv, [Next]_vars, WatermarkInv'
    PROVE  TypeInv'
<1>1. clock' \in 1 .. MaxTime
  <2>1. clock' = clock \/ Takes
    <3>1. \A u, x, y : \/ AddContact(u, x) \/ DeleteContact(u, x) \/ SetBlocked(u, x, y)
                        \/ SendText(u, x, y) \/ SaveProfile(u, x) => Takes
      BY DEF AddContact, SetBlocked, DeleteContact, SendText, SaveProfile
    <3>2. ASSUME NEW u, NEW b
          PROVE  /\ IngestText(u, b) => clock' = clock
                 /\ IngestAck(u, b) => clock' = clock
                 /\ IngestProfile(u, b) => clock' = clock
      BY DEF IngestText, IngestAck, IngestProfile
    <3>3. CASE UNCHANGED vars
      BY <3>3 DEF vars
    <3>4. CASE Next
      BY <3>1, <3>2, <3>4 DEF Next
    <3> QED BY <3>3, <3>4
  <2> QED BY <2>1, CorrespondenceAssumption DEF TypeInv, Takes
<1> DEFINE Kept == \A u \in Users, k \in Points : OtherContact(contacts'[u][k], u, k)
<1>2. ASSUME NEW u \in Users, NEW text \in Typed[u], AddContact(u, text)
      PROVE  Kept
  <2>1. PICK k \in Points : k # u /\ contacts' = [contacts EXCEPT ![u][k] = NewContact]
    BY <1>2, ParsedIsPoint DEF AddContact, NotOwnKey
  <2> QED BY <2>1, NewOther, OneOther
<1>3. ASSUME NEW u \in Users, NEW k \in Points, DeleteContact(u, k)
      PROVE  Kept
  BY <1>3, NewOther, OneOther DEF DeleteContact
<1>4. ASSUME NEW u \in Users, NEW k \in Points, NEW b \in BOOLEAN, SetBlocked(u, k, b)
      PROVE  Kept
  <2> DEFINE d == [contacts[u][k] EXCEPT !.blocked = b]
  <2>1. Known(u, k) /\ contacts' = [contacts EXCEPT ![u][k] = d]
    BY <1>4 DEF SetBlocked
  <2>2. OtherContact(d, u, k)
    BY <2>1, ChangedOther
  <2> HIDE DEF d
  <2> QED BY <2>1, <2>2, OneOther
<1>5. ASSUME NEW u \in Users, NEW k \in Visited[u], NEW body \in Bodies, SendText(u, k, body)
      PROVE  Kept
  <2>1. k \in Points /\ k # u
    BY CorrespondenceAssumption
  <2>2. contacts' = contacts \/ contacts' = [contacts EXCEPT ![u][k] = NewContact]
    BY <1>5 DEF SendText
  <2> QED BY <2>1, <2>2, NewOther, OneOther
<1>6. ASSUME NEW u \in Users, NEW b \in Reaching(u), IngestText(u, b)
      PROVE  Kept
  <2> DEFINE from == Opened(b).sender
  <2>1. from \in Points /\ from # u
    BY <1>6, ReachingIsDated DEF TypeInv, IngestText, Arrives
  <2>2. contacts' = contacts \/ contacts' = [contacts EXCEPT ![u][from] = NewContact]
    BY <1>6 DEF IngestText
  <2> HIDE DEF from
  <2> QED BY <2>1, <2>2, NewOther, OneOther
<1>7. ASSUME NEW u \in Users, NEW b \in Reaching(u), IngestAck(u, b)
      PROVE  Kept
  <2> DEFINE from == Opened(b).sender
  <2>1. from \in Points
    BY ReachingIsDated DEF TypeInv
  <2>2. PICK parsed \in Parse(Opened(b).plaintext) :
           \/ contacts' = contacts
           \/ /\ Known(u, from)
              /\ contacts' = [contacts EXCEPT ![u][from].lastAckTs =
                                 Earlier(Clamped(u, parsed.ts), Now(u))]
    BY <1>7 DEF IngestAck
  <2> DEFINE a == Earlier(Clamped(u, parsed.ts), Now(u))
             d == [contacts[u][from] EXCEPT !.lastAckTs = a]
  <2>3. a \in Nat
    <3>1. Clamped(u, parsed.ts) \in Nat /\ Now(u) \in Nat
      BY ReachingIsDated, ParsedTs, Clocks DEF TypeInv, WatermarkInv
    <3> QED BY <3>1 DEF Earlier
  <2>4. contacts' = contacts \/ (Known(u, from) /\ contacts' = [contacts EXCEPT ![u][from] = d])
    BY <2>2
  <2>5. Known(u, from) => OtherContact(d, u, from)
    <3> HIDE DEF a
    <3> QED BY <2>1, <2>3, ChangedOther
  <2>6. OtherContact(NoContact, u, from)
    BY NewOther
  <2> HIDE DEF d, from
  <2> QED BY <2>1, <2>4, <2>5, <2>6, OneOther
<1>8. ASSUME NEW u \in Users, NEW b \in Reaching(u), IngestProfile(u, b)
      PROVE  Kept
  <2> DEFINE from == Opened(b).sender
  <2>1. from \in Points
    BY ReachingIsDated DEF TypeInv
  <2>2. PICK parsed \in Parse(Opened(b).plaintext) :
           /\ Known(u, from)
           /\ \/ contacts' = contacts
              \/ contacts' = [contacts EXCEPT ![u][from] =
                                 Updated(@, parsed.payload, Clamped(u, parsed.ts), Now(u))]
    BY <1>8 DEF IngestProfile
  <2> DEFINE d == Updated(contacts[u][from], parsed.payload, Clamped(u, parsed.ts), Now(u))
  <2>3. contacts' = contacts \/ contacts' = [contacts EXCEPT ![u][from] = d]
    BY <2>2
  <2>4. OtherContact(d, u, from)
    <3>1. 0 \in Nat
      OBVIOUS
    <3> QED BY <2>1, <2>2, <3>1, ChangedOther
  <2> HIDE DEF d, from
  <2> QED BY <2>1, <2>3, <2>4, OneOther
<1>9. ASSUME UNCHANGED vars PROVE Kept
  BY <1>9 DEF vars, TypeInv
<1> HIDE DEF Kept
<1>10. ASSUME Next PROVE Kept
  <2>1. ASSUME NEW u \in Users, NEW b \in Reaching(u),
               IngestText(u, b) \/ IngestAck(u, b) \/ IngestProfile(u, b)
        PROVE  Kept
    BY <1>6, <1>7, <1>8, <2>1
  <2>2. PICK u \in Users :
           \/ \E text \in Typed[u] : AddContact(u, text)
           \/ \E k \in Points : \/ DeleteContact(u, k)
                                \/ \E blocked \in BOOLEAN : SetBlocked(u, k, blocked)
           \/ \E k \in Visited[u], body \in Bodies : SendText(u, k, body)
           \/ \E p \in Profiles : SaveProfile(u, p)
           \/ \E b \in Reaching(u) : IngestText(u, b) \/ IngestAck(u, b) \/ IngestProfile(u, b)
    BY <1>10 DEF Next
  <2>3. ASSUME NEW p \in Profiles, SaveProfile(u, p) PROVE Kept
    BY <2>3, Untouched DEF TypeInv, Kept
  <2> QED BY <1>2, <1>3, <1>4, <1>5, <2>1, <2>2, <2>3
<1>11. Kept
  BY <1>9, <1>10
<1> QED BY <1>1, <1>11 DEF TypeInv, Kept

THEOREM TypeInvariant == Spec => []TypeInv
<1>1. Init => TypeInv
  <2> SUFFICES ASSUME Init PROVE TypeInv
    OBVIOUS
  <2>1. \A u \in Users, k \in Points : contacts[u][k] = NoContact
    BY DEF Init
  <2>2. clock \in 1 .. MaxTime
    BY CorrespondenceAssumption DEF Init
  <2> QED BY <2>1, <2>2, NewOther, WatermarkInit DEF TypeInv
<1>2. TypeInv /\ WatermarkInv' /\ [Next]_vars => TypeInv'
  BY TypeStep
<1> QED BY <1>1, <1>2, WatermarkInvariant, PTL DEF Spec

\* Contacts keep their shape and their watermarks stay numbers, whatever timestamps others
\* send; and no name typed, and no text received, makes a user a contact of himself.
THEOREM CorrespondenceTyped == Spec => []TypeOK
<1>1. TypeInv => TypeOK
  <2> SUFFICES ASSUME TypeInv PROVE TypeOK
    OBVIOUS
  <2>1. ASSUME NEW u \in Users, NEW k \in Points
        PROVE  /\ contacts[u][k] = NoContact \/ DOMAIN contacts[u][k] = DOMAIN NewContact
               /\ Known(u, k) => contacts[u][k].lastProfileTs \in Nat
                                 /\ contacts[u][k].lastAckTs \in Nat
    <3>1. IsContact(contacts[u][k]) /\ OtherContact(contacts[u][k], u, k)
      BY DEF TypeInv, WatermarkInv, Watermarks, Watermark
    <3>2. DOMAIN NewContact = Fields
      BY DEF NewContact, Fields
    <3> QED BY <3>1, <3>2, Contacts DEF IsContact, Known, OtherContact
  <2>2. \A u \in Users : ~Known(u, u)
    BY CorrespondenceAssumption DEF TypeInv, OtherContact, Known
  <2> QED BY <2>1, <2>2 DEF TypeInv, TypeOK
<1> QED BY <1>1, TypeInvariant, PTL

-----------------------------------------------------------------------------
(* Readability: the lengths of what is written *)

\* The longest plaintext a user writes: a body at its limit, all of it escaped.
Longest == 6 * MaxBody + 6 * MaxId + 59

\* A blob has room for it, whatever compression and padding add.
RoomForAll == Longest <= MaxPlaintextLen /\ 2 * Longest + 2 * Unit <= MaxBlobLen

\* A plaintext that fits into a blob and is understood.
Fits(plaintext) ==
    plaintext.len \in Nat /\ plaintext.len <= Longest /\ Parse(plaintext) # {}

LEMMA LongestIs == Longest \in Nat /\ Longest = 394043
BY PayloadAssumption DEF Longest

\* Sanitising makes a text no longer.
LEMMA SanitizeShortens ==
    ASSUME NEW t, IsText(t)
    PROVE  /\ Sanitize(t).bytes \in Int /\ Sanitize(t).bytes <= t.bytes
           /\ Sanitize(t).chars \in Int /\ Sanitize(t).chars <= t.chars
           /\ t.bytes \in Nat /\ t.chars \in Nat
<1>1. DOMAIN t = {"tag", "bytes", "chars", "json", "hiddenBytes", "hiddenChars"}
  BY DEF IsText, EmptyText
<1>2. Sanitize(t).bytes = t.bytes - t.hiddenBytes /\ Sanitize(t).chars = t.chars - t.hiddenChars
  BY <1>1 DEF Sanitize
<1> QED BY <1>2 DEF IsText

\* A body that the compose field accepts.
LEMMA TextIsReadable ==
    ASSUME NEW id, id.bytes = 36, NEW body, IsText(body), body.bytes <= MaxBody, NEW ts
    PROVE  Fits(Serialize(Text(id, body), ts))
<1> DEFINE p == Text(id, body)
           s == Serialize(p, ts)
<1>1. p.type = "text" /\ p.id = id /\ p.body = body
  BY DEF Text
<1>2. body.json \in Nat /\ body.bytes \in Nat /\ body.json <= 6 * body.bytes
  BY DEF IsText
<1>3. s.len = 35 + TsLen + 6 * MaxId + 2 + (body.json + 2) /\ s.payload = p
  BY <1>1 DEF Serialize, JsonLen, Quoted
<1>4. s.len \in Nat /\ s.len <= Longest
  BY <1>2, <1>3, PayloadAssumption DEF Longest, TsLen
<1>5. TextFits(id, Sanitize(body))
  BY SanitizeShortens, PayloadAssumption DEF TextFits
<1> HIDE DEF p, s
<1>6. Parse(s) # {}
  BY <1>1, <1>3, <1>5 DEF Parse
<1> QED BY <1>4, <1>6 DEF Fits, p, s

\* An ack for one text that was read.
LEMMA AckIsReadable ==
    ASSUME NEW id, id.bytes <= MaxId, NEW ts
    PROVE  Fits(Serialize(DeliveryAck({id}), ts))
<1> DEFINE p == DeliveryAck({id})
           s == Serialize(p, ts)
<1>1. p.type = "delivery.ack" /\ p.ackIds = {id}
  BY DEF DeliveryAck
<1>2. Cardinality({id}) = 1
  BY FS_Singleton
<1>3. s.len = 42 + TsLen + (6 * MaxId + 3) /\ s.payload = p
  <2>1. s.len = JsonLen(p) /\ s.payload = p
    BY DEF Serialize
  <2>2. JsonLen(p) = 42 + TsLen + Cardinality(p.ackIds) * (6 * MaxId + 3)
    BY <1>1 DEF JsonLen
  <2> QED BY <1>1, <1>2, <2>1, <2>2, PayloadAssumption
<1>4. s.len \in Nat /\ s.len <= Longest
  BY <1>3, PayloadAssumption DEF Longest, TsLen
<1>5. AcksFit({id})
  BY <1>2, PayloadAssumption DEF AcksFit
<1> HIDE DEF p, s
<1>6. Parse(s) # {}
  BY <1>1, <1>3, <1>5 DEF Parse
<1> QED BY <1>4, <1>6 DEF Fits, p, s

\* A form that was accepted, or the empty one.
Form(f) ==
    /\ IsText(f.displayName) /\ IsText(f.bio)
    /\ f.displayName.chars <= MaxDisplayName /\ f.bio.chars <= MaxBio
    /\ \A x \in f.photo : x.bytes \in Nat /\ x.bytes <= MaxPhoto /\ x.base64
    /\ \A x, y \in f.photo : x = y

LEMMA ProfileIsReadable ==
    ASSUME NEW f, Form(f), NEW ts
    PROVE  Fits(Serialize(Profile({f.displayName}, {f.bio}, f.photo), ts))
<1> DEFINE p == Profile({f.displayName}, {f.bio}, f.photo)
           s == Serialize(p, ts)
<1>1. /\ p.type = "profile" /\ p.displayName = {f.displayName} /\ p.bio = {f.bio}
      /\ p.photo = f.photo
  BY DEF Profile
<1>2. /\ f.displayName.json \in Nat /\ f.displayName.json <= 24 * MaxDisplayName
      /\ f.bio.json \in Nat /\ f.bio.json <= 24 * MaxBio
  BY PayloadAssumption DEF Form, IsText
<1>3. \A t, n : Field(n, {t}) = n + (t.json + 2)
  BY DEF Field, Quoted
<1>4. PhotoField(9, f.photo) \in Nat /\ PhotoField(9, f.photo) <= 9 + MaxPhoto + 2
  <2>1. CASE f.photo = {}
    BY <2>1, PayloadAssumption DEF PhotoField
  <2>2. CASE f.photo # {}
    <3>1. (CHOOSE x \in f.photo : TRUE) \in f.photo
      BY <2>2
    <3> QED BY <2>2, <3>1, PayloadAssumption DEF PhotoField, Form
  <2> QED BY <2>1, <2>2
<1>5. s.payload = p
      /\ s.len = 25 + TsLen + (16 + (f.displayName.json + 2)) + (7 + (f.bio.json + 2))
                 + PhotoField(9, f.photo)
  <2>1. s.len = JsonLen(p) /\ s.payload = p
    BY DEF Serialize
  <2>2. JsonLen(p) = 25 + TsLen + Field(16, p.displayName) + Field(7, p.bio)
                     + PhotoField(9, p.photo)
    BY <1>1 DEF JsonLen
  <2> QED BY <1>1, <1>3, <2>1, <2>2
<1>6. s.len \in Nat /\ s.len <= Longest
  BY <1>2, <1>4, <1>5, PayloadAssumption DEF Longest, TsLen
<1>7. ProfileFits(SanitizeAll({f.displayName}), SanitizeAll({f.bio}), f.photo)
  <2>2. /\ Sanitize(f.displayName).chars <= MaxDisplayName
        /\ Sanitize(f.bio).chars <= MaxBio
    BY SanitizeShortens, PayloadAssumption DEF Form
  <2>3. /\ \A t \in SanitizeAll({f.displayName}) : t = Sanitize(f.displayName)
        /\ \A t \in SanitizeAll({f.bio}) : t = Sanitize(f.bio)
    BY DEF SanitizeAll
  <2> QED BY <2>2, <2>3 DEF ProfileFits, Form
<1> HIDE DEF p, s
<1>8. Parse(s) # {}
  BY <1>1, <1>5, <1>7 DEF Parse
<1> QED BY <1>6, <1>8 DEF Fits, p, s

-----------------------------------------------------------------------------
(* Readability: the blob *)

\* Padding adds at most a unit.
LEMMA PaddedIs ==
    ASSUME NEW n \in Nat
    PROVE  PaddedLen(n) \in Nat /\ n <= PaddedLen(n) /\ PaddedLen(n) <= n + Unit
<1>1. CASE n <= Unit
  <2>1. \E b \in PaddingBuckets : n <= b /\ \A c \in PaddingBuckets : n <= c => b <= c
    BY <1>1 DEF PaddingBuckets, Unit
  <2>2. PaddedLen(n) \in PaddingBuckets /\ n <= PaddedLen(n)
    BY <1>1, <2>1 DEF PaddedLen
  <2>3. \A b \in PaddingBuckets : b \in Nat /\ b <= Unit
    BY DEF PaddingBuckets, Unit
  <2> QED BY <2>2, <2>3 DEF Unit
<1>2. CASE ~(n <= Unit)
  <2>1. PaddedLen(n) = (n + 65536) - (n % 65536)
    BY <1>2 DEF PaddedLen, Unit
  <2>2. PICK r \in Nat : r = n % 65536 /\ r < 65536
    OBVIOUS
  <2>3. PaddedLen(n) = (n + 65536) - r
    BY <2>1, <2>2
  <2>4. (n + 65536) - r \in Nat /\ n <= (n + 65536) - r /\ (n + 65536) - r <= n + 65536
    BY <2>2
  <2> QED BY <2>3, <2>4 DEF Unit
<1> QED BY <1>1, <1>2

\* So does compression, at worst.
LEMMA BoundIs ==
    ASSUME NEW n \in Nat
    PROVE  CompressBound(n) \in Nat /\ CompressBound(n) <= 2 * n + 64
<1>1. n \div 256 \in Nat /\ n \div 256 <= n
  OBVIOUS
<1>2. ASSUME n < 131072
      PROVE  (131072 - n) \div 2048 \in Nat /\ (131072 - n) \div 2048 <= 64
  <2> DEFINE d == 131072 - n
  <2>1. d \in Nat /\ d <= 131072
    BY <1>2
  <2> HIDE DEF d
  <2>2. d \div 2048 \in Nat /\ d \div 2048 <= 64
    BY <2>1
  <2> QED BY <2>2 DEF d
<1> QED BY <1>1, <1>2 DEF CompressBound

\* A mail that fits opens where it is addressed to.
LEMMA FitsOpens ==
    ASSUME RoomForAll, NEW u, NEW to, NEW plaintext, Fits(plaintext)
    PROVE  Opens(to, Encrypt(u, to, plaintext)) /\ plaintext.len <= MaxPlaintextLen
<1> DEFINE frame == Frame(plaintext)
           n     == frame.len
           pad   == Padding(n)
           b     == Encrypt(u, to, plaintext)
<1>1. plaintext.len \in Nat /\ plaintext.len <= MaxPlaintextLen /\ plaintext.len <= 394043
      /\ 919158 <= MaxBlobLen /\ MaxBlobLen \in Nat /\ MaxPlaintextLen \in Nat /\ MinBlobLen = 173
  BY LongestIs, BoxAssumption DEF Fits, RoomForAll, Unit
<1>2. frame.plaintext = plaintext /\ n = CompressBound(plaintext.len)
  BY DEF Frame
<1>3. n \in Nat /\ n <= 2 * plaintext.len + 64
  BY <1>1, <1>2, BoundIs
<1>4. /\ b.version = WireVersion /\ b.sealedFor = to /\ b.aad = Aad(WireVersion, to)
      /\ b.inner = Inner(u, Signature(u, to, frame, pad), frame, pad)
      /\ b.len = Unpadded(frame.len) + b.inner.padding
  BY DEF Encrypt, Blob, Inner
<1> HIDE DEF b, pad
<1>5. /\ b.inner.sender = u /\ b.inner.frame = frame /\ b.inner.padding = pad
      /\ b.inner.sig = Signature(u, to, frame, pad)
  BY <1>4 DEF Inner
<1> HIDE DEF frame
<1>6. b.len \in Nat /\ MinBlobLen <= b.len /\ b.len <= MaxBlobLen
  <2>1. Unpadded(n) = 173 + n /\ Unpadded(n) \in Nat
    BY <1>1, <1>3 DEF Unpadded
  <2>2. b.len = Unpadded(n) + (PaddedLen(Unpadded(n)) - Unpadded(n))
    BY <1>4, <1>5 DEF pad, Padding
  <2> DEFINE m == Unpadded(n)
             w == PaddedLen(m)
  <2>3. w \in Nat /\ m <= w /\ w <= m + 65536
    BY <2>1, PaddedIs DEF Unit
  <2> HIDE DEF m, w
  <2>4. b.len = w /\ m = 173 + n
    BY <2>1, <2>2, <2>3 DEF m, w
  <2> QED BY <1>1, <1>3, <2>3, <2>4
<1>7. Opens(to, b)
  BY <1>1, <1>2, <1>4, <1>5, <1>6 DEF Opens
<1> QED BY <1>1, <1>7 DEF b

-----------------------------------------------------------------------------
(* Readability: what is said *)

\* What users hold for their profiles is an accepted form, and all they said fits, went to
\* a key, and is in net if that key is usable.
ReadableInv ==
    /\ WatermarkInv
    /\ DOMAIN profile = Users
    /\ \A u \in Users : Form(profile[u])
    /\ \A x \in said :
          /\ x.to \in Points /\ Fits(x.plaintext)
          /\ x.to \notin LowOrder => Encrypt(x.from, x.to, x.plaintext) \in net

LEMMA NoNameIsForm == Form(NoName)
<1>1. IsText(EmptyText) /\ EmptyText.chars = 0
  BY DEF IsText, EmptyText
<1>2. NoName.displayName = EmptyText /\ NoName.bio = EmptyText /\ NoName.photo = {}
  BY DEF NoName
<1> QED BY <1>1, <1>2, PayloadAssumption DEF Form

\* A form that SaveProfile accepts.
LEMMA AcceptedIsForm ==
    ASSUME NEW p \in Profiles, ProfileAccepted(p)
    PROVE  Form(p)
BY CorrespondenceAssumption DEF Form, ProfileAccepted, IsPhoto

\* A post of mails that fit, to keys.
LEMMA PostIsReadable ==
    ASSUME RoomForAll, ReadableInv, WatermarkInv', NEW u \in Users, NEW mails, Post(u, mails),
           \A m \in mails : m.to \in Points /\ Fits(m.plaintext),
           DOMAIN profile' = Users, \A x \in Users : Form(profile'[x])
    PROVE  ReadableInv'
<1> SUFFICES ASSUME NEW x \in said'
             PROVE  /\ x.to \in Points /\ Fits(x.plaintext)
                    /\ x.to \notin LowOrder => Encrypt(x.from, x.to, x.plaintext) \in net'
  BY DEF ReadableInv
<1>1. CASE x \in said
  BY <1>1 DEF ReadableInv, Post
<1>2. CASE x \notin said
  <2>1. PICK m \in mails : x = [from |-> u, to |-> m.to, plaintext |-> m.plaintext]
    BY <1>2 DEF Post
  <2>2. x.from = u /\ x.to = m.to /\ x.plaintext = m.plaintext
    BY <2>1
  <2>3. m.plaintext.len <= MaxPlaintextLen
    BY FitsOpens
  <2>4. m.to \notin LowOrder => Encrypt(u, m.to, m.plaintext) \in net'
    BY <2>3 DEF Post, CanEncrypt
  <2> QED BY <2>2, <2>4
<1> QED BY <1>1, <1>2

\* A text that was read has an id within the limit.
LEMMA ParsedTextFits ==
    ASSUME NEW plaintext, NEW y \in Parse(plaintext), y.payload.type = "text"
    PROVE  y.payload.id.bytes <= MaxId
BY DEF Parse, Text, TextFits, DeliveryAck, Profile

\* An edit of the profile is told in the form that was accepted.
LEMMA SaveProfileIsReadable ==
    ASSUME RoomForAll, ReadableInv, WatermarkInv', NEW u \in Users, NEW p \in Profiles,
           SaveProfile(u, p)
    PROVE  ReadableInv'
<1> DEFINE keys  == {x \in Points : Known(u, x) /\ ~Blocked(u, x)}
           mails == {Mail(k, OwnProfile(u), Now(u)) : k \in keys}
<1>1. Post(u, mails) /\ profile' = [profile EXCEPT ![u] = p] /\ ProfileAccepted(p)
  BY DEF SaveProfile
<1>2. DOMAIN profile' = Users /\ \A x \in Users : Form(profile'[x])
  <2>1. Form(p)
    BY <1>1, AcceptedIsForm
  <2> QED BY <1>1, <2>1 DEF ReadableInv
<1>3. ASSUME NEW k \in Points, NEW ts
      PROVE  Mail(k, OwnProfile(u), ts).to \in Points /\ Fits(Mail(k, OwnProfile(u), ts).plaintext)
  BY <1>2, ProfileIsReadable DEF Mail, OwnProfile
<1>4. \A m \in mails : m.to \in Points /\ Fits(m.plaintext)
  BY <1>3
<1> HIDE DEF mails
<1> QED BY <1>1, <1>2, <1>4, PostIsReadable

\* A text, and the profile for a new contact.
LEMMA SendTextIsReadable ==
    ASSUME RoomForAll, ReadableInv, WatermarkInv', NEW u \in Users, NEW k \in Visited[u],
           NEW body \in Bodies, SendText(u, k, body)
    PROVE  ReadableInv'
<1> DEFINE id    == [by |-> u, n |-> clock, bytes |-> 36]
           mails == {Mail(k, Text(id, body), Now(u))} \cup
                    IF ~Known(u, k) THEN {Mail(k, OwnProfile(u), Now(u))} ELSE {}
<1>1. Post(u, mails) /\ profile' = profile /\ body.bytes <= MaxBody
  BY DEF SendText, BodyAccepted
<1>2. DOMAIN profile' = Users /\ \A x \in Users : Form(profile'[x])
  BY <1>1 DEF ReadableInv
<1>3. k \in Points /\ IsText(body)
  BY CorrespondenceAssumption
<1>4. id.bytes = 36
  OBVIOUS
<1> HIDE DEF id
<1>5. /\ Mail(k, Text(id, body), Now(u)).to \in Points
      /\ Fits(Mail(k, Text(id, body), Now(u)).plaintext)
  BY <1>1, <1>3, <1>4, TextIsReadable DEF Mail
<1>6. /\ Mail(k, OwnProfile(u), Now(u)).to \in Points
      /\ Fits(Mail(k, OwnProfile(u), Now(u)).plaintext)
  BY <1>2, <1>3, ProfileIsReadable DEF Mail, OwnProfile
<1>7. \A m \in mails : m.to \in Points /\ Fits(m.plaintext)
  BY <1>5, <1>6
<1> HIDE DEF mails
<1> QED BY <1>1, <1>2, <1>7, PostIsReadable

\* What a text received is answered with: the profile for a stranger, and an ack with an id
\* that parse_payload has let through.
LEMMA IngestTextIsReadable ==
    ASSUME RoomForAll, ReadableInv, WatermarkInv', NEW u \in Users, NEW b \in Reaching(u),
           IngestText(u, b)
    PROVE  ReadableInv'
<1> DEFINE from == Opened(b).sender
           shared(ts) == Mail(from, OwnProfile(u), ts)
           ack(id)    == Mail(from, DeliveryAck({id}), Now(u))
<1>1. PICK parsed \in Parse(Opened(b).plaintext), stranger \in BOOLEAN, isNew \in BOOLEAN :
         /\ parsed.payload.type = "text"
         /\ profile' = profile
         /\ Post(u, (IF stranger THEN {shared(Clamped(u, parsed.ts))} ELSE {}) \cup
                    (IF isNew THEN {ack(parsed.payload.id)} ELSE {}))
  <2> HIDE DEF from
  <2> QED BY DEF IngestText, from
<1> DEFINE mails == (IF stranger THEN {shared(Clamped(u, parsed.ts))} ELSE {}) \cup
                    (IF isNew THEN {ack(parsed.payload.id)} ELSE {})
<1>2. from \in Points
  BY ReachingIsDated DEF ReadableInv
<1>3. DOMAIN profile' = Users /\ \A x \in Users : Form(profile'[x])
  BY <1>1 DEF ReadableInv
<1>4. parsed.payload.id.bytes <= MaxId
  BY <1>1, ParsedTextFits
<1> HIDE DEF from
<1>5. \A ts : shared(ts).to \in Points /\ Fits(shared(ts).plaintext)
  BY <1>2, <1>3, ProfileIsReadable DEF Mail, OwnProfile
<1>6. ack(parsed.payload.id).to \in Points /\ Fits(ack(parsed.payload.id).plaintext)
  BY <1>2, <1>4, AckIsReadable DEF Mail
<1>7. Post(u, mails)
  BY <1>1
<1> HIDE DEF shared, ack
<1>8. \A m \in mails : m.to \in Points /\ Fits(m.plaintext)
  BY <1>5, <1>6
<1> HIDE DEF mails
<1> QED BY <1>3, <1>7, <1>8, PostIsReadable

LEMMA ReadableStep ==
    ASSUME RoomForAll, ReadableInv, WatermarkInv', [Next]_vars
    PROVE  ReadableInv'
<1>1. CASE UNCHANGED <<profile, net, said>>
  BY <1>1 DEF ReadableInv
<1>2. \/ UNCHANGED <<profile, net, said>>
      \/ \E u \in Users : \/ \E p \in Profiles : SaveProfile(u, p)
                          \/ \E k \in Visited[u], body \in Bodies : SendText(u, k, body)
                          \/ \E b \in Reaching(u) : IngestText(u, b)
  <2>1. \A u, x : AddContact(u, x) => UNCHANGED <<profile, net, said>>
    BY DEF AddContact
  <2>2. \A u, x : DeleteContact(u, x) => UNCHANGED <<profile, net, said>>
    BY DEF DeleteContact
  <2>3. \A u, x, y : SetBlocked(u, x, y) => UNCHANGED <<profile, net, said>>
    BY DEF SetBlocked
  <2>4. \A u, x : IngestAck(u, x) => UNCHANGED <<profile, net, said>>
    BY DEF IngestAck
  <2>5. \A u, x : IngestProfile(u, x) => UNCHANGED <<profile, net, said>>
    BY DEF IngestProfile
  <2> QED BY <2>1, <2>2, <2>3, <2>4, <2>5 DEF Next, vars
<1> QED BY <1>1, <1>2, SaveProfileIsReadable, SendTextIsReadable, IngestTextIsReadable

\* The inductive invariant holds in every behaviour, if a blob has room for the longest text.
THEOREM ReadableInvariant ==
    ASSUME RoomForAll
    PROVE  Spec => []ReadableInv
<1>1. Init => ReadableInv
  <2> SUFFICES ASSUME Init PROVE ReadableInv
    OBVIOUS
  <2>1. DOMAIN profile = Users /\ \A u \in Users : profile[u] = NoName
    BY DEF Init
  <2>2. said = {}
    BY DEF Init
  <2> QED BY <2>1, <2>2, NoNameIsForm, WatermarkInit DEF ReadableInv
<1>2. ReadableInv /\ WatermarkInv' /\ [Next]_vars => ReadableInv'
  BY ReadableStep
<1> QED BY <1>1, <1>2, WatermarkInvariant, PTL DEF Spec

\* Whatever a user writes within the limits of the forms can be sealed, opened and parsed at
\* the other end: the bytes, characters, JSON escapes, compression and padding that the
\* limits are in do not contradict one another, for any text.  Every curve point is taken
\* to be somebody's key, or to be of low order.
THEOREM WritingIsReadable ==
    ASSUME RoomForAll, Points \subseteq Users \cup Others \cup LowOrder
    PROVE  Spec => []Readable
<1>1. ReadableInv => Readable
  <2> SUFFICES ASSUME ReadableInv, NEW x \in said
               PROVE  /\ x.to \in Users \cup Others \cup LowOrder
                      /\ x.to \notin LowOrder =>
                            LET b == Encrypt(x.from, x.to, x.plaintext)
                            IN  b \in net /\ Opens(x.to, b) /\ Parse(x.plaintext) # {}
    BY DEF Readable
  <2>1. /\ x.to \in Points /\ Fits(x.plaintext)
        /\ x.to \notin LowOrder => Encrypt(x.from, x.to, x.plaintext) \in net
    BY DEF ReadableInv
  <2>2. Opens(x.to, Encrypt(x.from, x.to, x.plaintext))
    BY <2>1, FitsOpens
  <2> QED BY <2>1, <2>2 DEF Fits
<1> QED BY <1>1, ReadableInvariant, PTL
=============================================================================
