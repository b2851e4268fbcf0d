------------------------------- MODULE Payload -------------------------------
(***************************************************************************)
(* The plaintext of a message (core/src/protocol.rs): what a client        *)
(* writes, and what a client accepts.  The writer keeps its input as it    *)
(* is; the reader drops invisible characters and refuses what is too long. *)
(*                                                                         *)
(* A text keeps its lengths: in bytes, in characters, in the bytes of its  *)
(* JSON string (an escaped byte takes six), and the bytes and characters   *)
(* that sanitize_text drops.  An optional field is a set of at most one    *)
(* value.  The length of a plaintext is an upper bound: the longest        *)
(* timestamp, and every id as long as ids may be.                          *)
(***************************************************************************)
EXTENDS Integers, FiniteSets

CONSTANTS
    MaxBody,         \* MAX_BODY_LEN, in bytes
    MaxDisplayName,  \* MAX_DISPLAY_NAME_LEN, in characters
    MaxBio,          \* MAX_BIO_LEN, in characters
    MaxPhoto,        \* MAX_PHOTO_LEN, in bytes of base64
    MaxId,           \* MAX_ID_LEN, in bytes
    MaxAckIds        \* MAX_ACK_IDS

ASSUME PayloadAssumption ==
    /\ MaxBody = 65536
    /\ MaxDisplayName = 128
    /\ MaxBio = 1024
    /\ MaxPhoto = 65536
    /\ MaxId = 128
    /\ MaxAckIds \in 1 .. 1024

EmptyText == [tag |-> "", bytes |-> 0, chars |-> 0, json |-> 0, hiddenBytes |-> 0, hiddenChars |-> 0]

\* What holds of the lengths of any string.
IsText(t) ==
    /\ DOMAIN t = DOMAIN EmptyText
    /\ t.bytes \in Nat /\ t.chars \in Nat /\ t.json \in Nat
    /\ t.hiddenBytes \in 0 .. t.bytes /\ t.hiddenChars \in 0 .. t.chars
    /\ t.chars <= t.bytes /\ t.bytes <= 4 * t.chars
    /\ t.json <= 6 * t.bytes

\* Base64 has nothing to escape.
IsPhoto(p) == p.bytes \in Nat /\ p.base64 \in BOOLEAN

-----------------------------------------------------------------------------
(* Payload *)

Text(id, body) == [type |-> "text", id |-> id, body |-> body]

DeliveryAck(ackIds) == [type |-> "delivery.ack", ackIds |-> ackIds]

Profile(displayName, bio, photo) ==
    [type |-> "profile", displayName |-> displayName, bio |-> bio, photo |-> photo]

\* A type another client's revision may know.
Unknown == [type |-> "unknown"]

-----------------------------------------------------------------------------
(* Writing *)

TsLen == 20

Quoted(t) == t.json + 2

\* A field that is written only when it is there.
Field(key, option) == IF option = {} THEN 0 ELSE key + Quoted(CHOOSE t \in option : TRUE)

PhotoField(key, option) == IF option = {} THEN 0 ELSE key + (CHOOSE p \in option : TRUE).bytes + 2

\* The JSON text of a payload: braces, keys and punctuation, and its values.
JsonLen(payload) ==
    CASE payload.type = "text"         -> 35 + TsLen + 6 * MaxId + 2 + Quoted(payload.body)
      [] payload.type = "delivery.ack" -> 42 + TsLen + Cardinality(payload.ackIds) * (6 * MaxId + 3)
      [] payload.type = "profile"      -> 25 + TsLen + Field(16, payload.displayName)
                                          + Field(7, payload.bio) + PhotoField(9, payload.photo)
      [] OTHER                         -> 64

\* serialize_payload
Serialize(payload, ts) == [len |-> JsonLen(payload), payload |-> payload, ts |-> ts]

-----------------------------------------------------------------------------
(* Reading *)

\* sanitize_text: control, bidirectional and zero-width characters are dropped.
Sanitize(t) ==
    [t EXCEPT !.bytes = @ - t.hiddenBytes, !.chars = @ - t.hiddenChars,
              !.hiddenBytes = 0, !.hiddenChars = 0]

SanitizeAll(option) == {Sanitize(t) : t \in option}

\* The limits of parse_payload, after sanitising.
TextFits(id, body) == id.bytes <= MaxId /\ body.bytes <= MaxBody

AcksFit(ackIds) == Cardinality(ackIds) <= MaxAckIds /\ \A id \in ackIds : id.bytes <= MaxId

ProfileFits(displayName, bio, photo) ==
    /\ \A t \in displayName : t.chars <= MaxDisplayName
    /\ \A t \in bio : t.chars <= MaxBio
    /\ \A p \in photo : p.bytes <= MaxPhoto /\ p.base64

\* parse_payload: no payload, or one; the timestamp is what the sender wrote.
Parse(plaintext) ==
    LET p == plaintext.payload
        Parsed(payload, fits) ==
            IF fits THEN {[ts |-> plaintext.ts, payload |-> payload]} ELSE {}
    IN  CASE p.type = "text" ->
               Parsed(Text(p.id, Sanitize(p.body)), TextFits(p.id, Sanitize(p.body)))
          [] p.type = "delivery.ack" -> Parsed(p, AcksFit(p.ackIds))
          [] p.type = "profile" ->
               LET name == SanitizeAll(p.displayName)
                   bio  == SanitizeAll(p.bio)
               IN  Parsed(Profile(name, bio, p.photo), ProfileFits(name, bio, p.photo))
          [] OTHER -> {}

=============================================================================
