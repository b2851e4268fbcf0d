-------------------------- MODULE MCCorrespondence --------------------------
(***************************************************************************)
(* An instance of Correspondence for TLC: two-byte keys over two bytes, so *)
(* one syllable pair is a name.  A and B run this client, C another one,   *)
(* and D is a curve point without an X25519 form.                          *)
(***************************************************************************)
EXTENDS Correspondence

A == <<0, 0>>
B == <<0, 1>>
C == <<1, 0>>
D == <<1, 1>>

AllPoints == {A, B, C, D}

People == {A, B}

Strangers == {C}

Weak == {D}

Prefix == [x \in {0, 1} |-> IF x = 0 THEN "doz" ELSE "mar"]

Suffix == [x \in {0, 1} |-> IF x = 0 THEN "zod" ELSE "nec"]

\* B's clock is two ticks ahead of A's.
Clocks == [u \in {A, B} |-> IF u = B THEN 2 ELSE 0]

\* The name as it is shown, in capitals between stray hyphens, in hex; a syllable that is
\* none; the names of a weak key and of too short and too long a key.
Spellings(k) ==
    LET part == Shown(k).parts[1]
    IN  {Shown(k), ObText(<<EmptyPart, [part EXCEPT !.upper = TRUE], EmptyPart>>),
         HexText(k, TRUE)}

\* B types nothing: A becomes a contact by writing.
Names ==
    [u \in {A, B} |->
      IF u = B THEN {}
      ELSE Spellings(A) \cup Spellings(B) \cup
           {Shown(D), ObText(<<OtherPart>>), ObText(<<>>), HexText(<<0>>, FALSE),
            ObText(Shown(A).parts \o Shown(B).parts)}]

Chats == [u \in {A, B} |-> IF u = A THEN {B, C} ELSE {A}]

TextOf(tag, chars, width, escaped, hidden) ==
    [tag |-> tag, bytes |-> chars * width, chars |-> chars, json |-> chars * escaped,
     hiddenBytes |-> hidden * width, hiddenChars |-> hidden]

\* As long as a body may be, all of it escaped; one character more, a third as many
\* characters of three bytes each; nothing.
Writings ==
    {TextOf("quotes", MaxBody, 1, 6, 0), TextOf("long", MaxBody + 1, 1, 1, 1),
     TextOf("wide", MaxBody \div 2, 3, 3, 0), EmptyText}

Photo(bytes, base64) == [bytes |-> bytes, base64 |-> base64]

Named(name, bio, photo) == [displayName |-> name, bio |-> bio, photo |-> photo]

\* A full form in wide characters, a form at the limits with hidden characters, and forms
\* that are refused.
Forms ==
    {Named(TextOf("name", MaxDisplayName, 4, 4, 0), TextOf("bio", MaxBio, 1, 6, 0), {Photo(MaxPhoto, TRUE)}),
     Named(TextOf("plain", 5, 1, 1, 1), EmptyText, {}),
     Named(TextOf("name", MaxDisplayName + 1, 1, 1, 0), EmptyText, {}),
     Named(EmptyText, TextOf("bio", MaxBio + 1, 1, 1, 0), {}),
     Named(EmptyText, EmptyText, {Photo(MaxPhoto + 1, TRUE)}),
     Named(EmptyText, EmptyText, {Photo(4, FALSE)})}

\* C writes to A: an ack for the id of A's first text, whomever that went to; a profile
\* without a name and from the far future; a type that is unknown here.
FromC ==
    [u \in {A, B} |->
      IF u = B THEN {}
      ELSE {Serialize(DeliveryAck({[by |-> A, n |-> 1, bytes |-> 36]}), -1),
            Serialize(Profile({}, {}, {Photo(4, TRUE)}), 99),
            Serialize(Unknown, 1)}]

=============================================================================
