------------------------------ MODULE SealedBox -----------------------------
(***************************************************************************)
(* The sealed message of core/src/crypto.rs: compressed, padded, signed by *)
(* the sender for the recipient, and encrypted to the recipient.           *)
(*                                                                         *)
(* The primitives are external and perfect: a box opens only with the key  *)
(* it was sealed for and under the associated data it was sealed with, and *)
(* a signature verifies only for the signer and the very bytes signed.     *)
(* Lengths are the real ones, since that is where limits meet: the         *)
(* plaintext is a record with a length, and its frame is as long as zstd   *)
(* can make it.                                                            *)
(***************************************************************************)
EXTENDS Naturals, Sequences

CONSTANTS
    WireVersion,      \* WIRE_VERSION
    MinBlobLen,       \* MIN_BLOB_LEN: everything in a blob but the compressed plaintext
    MaxBlobLen,       \* MAX_BLOB_LEN
    MaxPlaintextLen,  \* MAX_PLAINTEXT_LEN
    LowOrder          \* curve points without a usable X25519 form

ASSUME BoxAssumption ==
    /\ MinBlobLen = 1 + 32 + 24 + 32 + 64 + 4 + 16
    /\ MaxBlobLen \in Nat
    /\ MaxPlaintextLen \in Nat

-----------------------------------------------------------------------------
(* Length padding *)

Unit == 65536

PaddingBuckets == {256, 512, 1024, 2048, 4096, 8192, 16384, 32768, Unit}

\* padded_len: the next bucket, above the last one the next multiple, and one more
\* where the length is a multiple already.
PaddedLen(actual) ==
    IF actual <= Unit
    THEN CHOOSE b \in PaddingBuckets :
            actual <= b /\ \A c \in PaddingBuckets : actual <= c => b <= c
    ELSE (actual + Unit) - (actual % Unit)

\* compress: zstd's bound on the length of a frame, which an incompressible text reaches.
CompressBound(n) == n + (n \div 256) + (IF n < 131072 THEN (131072 - n) \div 2048 ELSE 0)

\* The blob around a frame of n bytes, without padding, and the padding.
Unpadded(n) == MinBlobLen + n

Padding(n) == PaddedLen(Unpadded(n)) - Unpadded(n)

-----------------------------------------------------------------------------
(* Signatures and boxes *)

\* Faulty variant: the recipient is not signed.
SignedUnbound(recipient, frame, padding) == [frame |-> frame, padding |-> padding]

\* What a message signature covers: MSG_TAG, the recipient, the length, the frame and
\* the padding.
Signed(recipient, frame, padding) ==
    [recipient |-> recipient, frame |-> frame, padding |-> padding]

\* A signature, by whoever made it.
Signature(signer, recipient, frame, padding) ==
    [by |-> signer, over |-> Signed(recipient, frame, padding)]

\* The frame of a plaintext.
Frame(plaintext) == [plaintext |-> plaintext, len |-> CompressBound(plaintext.len)]

\* aad(): the visible header and the recipient.
Aad(version, recipient) == [version |-> version, recipient |-> recipient]

\* A blob: its version byte, the key pair it was sealed for, the associated data, and
\* what is inside.  Ephemeral key and nonce are fresh, so blobs differ only in content.
Blob(recipient, inner) ==
    [version |-> WireVersion, sealedFor |-> recipient, aad |-> Aad(WireVersion, recipient),
     inner |-> inner, len |-> Unpadded(inner.frame.len) + inner.padding]

Inner(sender, sig, frame, padding) ==
    [sender |-> sender, sig |-> sig, frame |-> frame, padding |-> padding]

\* Where encrypt gives up: an oversized plaintext, or a key that is no usable point.
CanEncrypt(recipient, plaintext) ==
    /\ plaintext.len <= MaxPlaintextLen
    /\ recipient \notin LowOrder

\* encrypt
Encrypt(sender, recipient, plaintext) ==
    LET frame == Frame(plaintext)
        pad   == Padding(frame.len)
    IN  Blob(recipient, Inner(sender, Signature(sender, recipient, frame, pad), frame, pad))

\* decrypt succeeds: the length, the version, the key and the associated data, the
\* signature over what the recipient rebuilds, and the size of what was compressed.
Opens(recipient, blob) ==
    /\ blob.len >= MinBlobLen
    /\ blob.len <= MaxBlobLen
    /\ blob.version = WireVersion
    /\ blob.sealedFor = recipient
    /\ blob.aad = Aad(blob.version, recipient)
    /\ blob.inner.sig = Signature(blob.inner.sender, recipient, blob.inner.frame,
                                  blob.inner.padding)
    /\ blob.inner.frame.plaintext.len <= MaxPlaintextLen

\* ... and yields the plaintext and its sender.
Opened(blob) ==
    [sender |-> blob.inner.sender, plaintext |-> blob.inner.frame.plaintext]

=============================================================================
