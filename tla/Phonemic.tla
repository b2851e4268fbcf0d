------------------------------ MODULE Phonemic ------------------------------
(***************************************************************************)
(* The two spellings of a public key (core/src/phonemic.rs): lowercase hex *)
(* and the hyphenated @p syllables.  A key is shown as @p and typed by     *)
(* somebody else as either.                                                *)
(*                                                                         *)
(* A text the user types keeps what the decoders look at: for @p, the      *)
(* parts between hyphens, each empty, a pair of syllables in some case, or *)
(* something else; for hex, the bytes and the case of the digits.  A text  *)
(* of one kind is never decoded as the other: 64 hex digits are no         *)
(* six-letter part, and a hyphen is no hex digit.  White space around a    *)
(* text is trimmed first and does not appear.                              *)
(***************************************************************************)
EXTENDS Naturals, Sequences

CONSTANTS
    Bytes,     \* 0 .. 255 in the code
    PrefixOf,  \* PREFIXES: byte -> syllable
    SuffixOf,  \* SUFFIXES: byte -> syllable
    KeyLen,    \* ED25519_PUBLIC_LEN
    Points     \* the byte strings that are curve points

ASSUME PhonemicAssumption ==
    /\ KeyLen \in Nat \ {0}
    /\ KeyLen % 2 = 0
    /\ DOMAIN PrefixOf = Bytes
    /\ DOMAIN SuffixOf = Bytes
    /\ \A x, y \in Bytes : PrefixOf[x] = PrefixOf[y] => x = y
    /\ \A x, y \in Bytes : SuffixOf[x] = SuffixOf[y] => x = y
    /\ Points \subseteq [1 .. KeyLen -> Bytes]

\* Option: at most one value.
None == {}

Some(x) == {x}

-----------------------------------------------------------------------------
(* Texts *)

EmptyPart == [kind |-> "empty"]

OtherPart == [kind |-> "other"]

Part(pre, suf, upper) == [kind |-> "pair", pre |-> pre, suf |-> suf, upper |-> upper]

ObText(parts) == [kind |-> "ob", parts |-> parts]

HexText(bytes, upper) == [kind |-> "hex", bytes |-> bytes, upper |-> upper]

-----------------------------------------------------------------------------
(* Encoding and decoding *)

\* The parts to_ob writes: a syllable pair for every pair of bytes.
Syllables(bytes) ==
    [i \in 1 .. Len(bytes) \div 2 |->
        Part(PrefixOf[bytes[2 * i - 1]], SuffixOf[bytes[2 * i]], FALSE)]

\* to_ob: nothing for an empty or odd string.
ToOb(bytes) ==
    IF bytes = <<>> \/ Len(bytes) % 2 # 0 THEN None ELSE Some(Syllables(bytes))

\* hex_to_ob, what view() shows of a key: the @p, or the hex where there is none.
Shown(key) ==
    IF ToOb(key) = None THEN HexText(key, FALSE) ELSE ObText(Syllables(key))

\* Case is folded before anything is looked up.
Lowered(part) == IF part.kind = "pair" THEN [part EXCEPT !.upper = FALSE] ELSE part

\* prefix_index and suffix_index find the syllables; the tables are lowercase.
IsPair(part) ==
    /\ part.kind = "pair"
    /\ ~part.upper
    /\ \E x \in Bytes : PrefixOf[x] = part.pre
    /\ \E x \in Bytes : SuffixOf[x] = part.suf

ByteOf(table, syllable) == CHOOSE x \in Bytes : table[x] = syllable

\* The bytes of parts that are neither empty nor in capitals.
Decode(parts) ==
    IF parts = <<>> \/ \E i \in 1 .. Len(parts) : ~IsPair(parts[i]) THEN None
    ELSE Some([j \in 1 .. 2 * Len(parts) |->
                IF j % 2 = 1 THEN ByteOf(PrefixOf, parts[(j + 1) \div 2].pre)
                             ELSE ByteOf(SuffixOf, parts[j \div 2].suf)])

\* from_ob: empty parts are skipped, one unknown part rejects the text.
FromOb(parts) ==
    Decode(SelectSeq([i \in 1 .. Len(parts) |-> Lowered(parts[i])],
                     LAMBDA p : p # EmptyPart))

\* valid_pubkey_hex: the right length, and a curve point.
ValidPubkey(bytes) == IF Len(bytes) = KeyLen /\ bytes \in Points THEN Some(bytes) ELSE None

\* try_parse_pubkey: @p first, then hex in any case; the key is its bytes.
TryParsePubkey(text) ==
    IF text.kind = "ob" THEN UNION {ValidPubkey(b) : b \in FromOb(text.parts)}
                        ELSE ValidPubkey(text.bytes)

=============================================================================
