------------------------- MODULE RelayMailboxProofs -------------------------
(***************************************************************************)
(* Proofs about RelayMailbox, for every number of recipients, polls and    *)
(* ceilings and batches of any length: rows are distinct, the ceilings     *)
(* hold, no cursor passes over a row its client has not taken, and the     *)
(* mailbox keeps the promise of Mail.                                      *)
(***************************************************************************)
EXTENDS RelayMailbox, FiniteSetTheorems, WellFoundedInduction, TLAPS

-----------------------------------------------------------------------------
(* Numbers *)

\* A set of natural numbers has a least element.
LEMMA LeastNumber ==
    ASSUME NEW S \in SUBSET Nat, S # {}
    PROVE  \E n \in S : \A m \in S : n <= m
<1>1. IsWellFoundedOn(OpToRel(<, Nat), Nat)
    BY NatLessThanWellFounded
<1>2. PICK n \in S : \A m \in S : ~(<<m, n>> \in OpToRel(<, Nat))
    BY <1>1, WFMin, Zenon
<1>3. ASSUME NEW m \in S PROVE n <= m
  <2>1. <<m, n>> \notin OpToRel(<, Nat)
      BY <1>2
  <2>2. ~(m < n)
      BY <2>1 DEF OpToRel
  <2>3. QED
      BY <2>2
<1>4. QED
    BY <1>3

\* Induction up to n, on the set of the numbers for which a claim holds.
LEMMA UpToInduction ==
    ASSUME NEW n \in Nat, NEW G \in SUBSET (0 .. n), 0 \in G,
           \A i \in 1 .. n : i - 1 \in G => i \in G
    PROVE  G = 0 .. n
<1>1. SUFFICES ASSUME (0 .. n) \ G # {} PROVE FALSE
    OBVIOUS
<1>2. (0 .. n) \ G \in SUBSET Nat
    OBVIOUS
<1>3. PICK i \in (0 .. n) \ G : \A m \in (0 .. n) \ G : i <= m
    BY <1>1, <1>2, LeastNumber
<1>4. i \in 1 .. n /\ i - 1 \in 0 .. n
    BY <1>3
<1>5. i - 1 \in G
    BY <1>3, <1>4
<1>6. QED
    BY <1>3, <1>4, <1>5

-----------------------------------------------------------------------------
(* The oldest rows *)

\* Finitely many rows, each with a number of its own.
Ordered(S) ==
    /\ IsFiniteSet(S)
    /\ \A m \in S : m.receivedAt \in Nat
    /\ \A m, x \in S : m # x => m.receivedAt # x.receivedAt

LEMMA OrderedPart ==
    ASSUME NEW S, Ordered(S), NEW T \in SUBSET S
    PROVE  Ordered(T) /\ Cardinality(T) <= Cardinality(S)
           /\ Cardinality(T) \in Nat /\ Cardinality(S) \in Nat
BY FS_Subset, FS_CardinalityType DEF Ordered

\* How many rows are older than a row tells rows apart.
LEMMA OlderCount ==
    ASSUME NEW S, Ordered(S), NEW m \in S
    PROVE  /\ Cardinality(Older(S, m)) \in 0 .. Cardinality(S) - 1
           /\ \A x \in S : m.receivedAt < x.receivedAt =>
                 Cardinality(Older(S, m)) < Cardinality(Older(S, x))
<1>1. ASSUME NEW T, IsFiniteSet(T), m \in T, Older(S, m) \subseteq T
      PROVE  Cardinality(Older(S, m)) \in Nat /\ Cardinality(T) \in Nat
             /\ Cardinality(Older(S, m)) < Cardinality(T)
  <2>1. Older(S, m) \subseteq T \ {m}
      BY <1>1 DEF Older, Ordered
  <2>2. IsFiniteSet(T \ {m}) /\ Cardinality(T \ {m}) = Cardinality(T) - 1
      BY <1>1, FS_RemoveElement
  <2>3. /\ IsFiniteSet(Older(S, m))
        /\ Cardinality(Older(S, m)) <= Cardinality(T \ {m})
      BY <2>1, <2>2, FS_Subset
  <2>4. Cardinality(Older(S, m)) \in Nat /\ Cardinality(T) \in Nat
      BY <1>1, <2>3, FS_CardinalityType
  <2>5. QED
      BY <2>2, <2>3, <2>4
<1>2. Cardinality(Older(S, m)) \in 0 .. Cardinality(S) - 1
  <2>1. /\ Cardinality(Older(S, m)) \in Nat /\ Cardinality(S) \in Nat
        /\ Cardinality(Older(S, m)) < Cardinality(S)
      BY <1>1 DEF Ordered, Older
  <2>2. QED
      BY <2>1
<1>3. ASSUME NEW x \in S, m.receivedAt < x.receivedAt
      PROVE  Cardinality(Older(S, m)) < Cardinality(Older(S, x))
  <2>1. m \in Older(S, x) /\ Older(S, m) \subseteq Older(S, x)
      BY <1>3 DEF Older, Ordered
  <2>2. IsFiniteSet(Older(S, x))
      BY FS_Subset DEF Older, Ordered
  <2>3. QED
      BY <1>1, <2>1, <2>2
<1>4. QED
    BY <1>2, <1>3

\* Rows whose counts lie within an interval are no more than its numbers.
LEMMA CountedBy ==
    ASSUME NEW S, Ordered(S), NEW T \in SUBSET S, NEW a \in Nat, NEW b \in Nat, a <= b,
           \A m \in T : Cardinality(Older(S, m)) \in a .. b - 1
    PROVE  Cardinality(T) <= b - a
<1> DEFINE f == [m \in T |-> Cardinality(Older(S, m))]
<1>1. IsFiniteSet(a .. b - 1) /\ Cardinality(a .. b - 1) = b - a
  <2>1. a \in Int /\ b - 1 \in Int
      OBVIOUS
  <2>2. /\ IsFiniteSet(a .. (b - 1))
        /\ Cardinality(a .. (b - 1)) = IF a > b - 1 THEN 0 ELSE (b - 1) - a + 1
      BY <2>1, FS_Interval
  <2>3. QED
      BY <2>2
<1>2. IsFiniteSet(T) /\ Cardinality(T) \in Nat
    BY FS_Subset, FS_CardinalityType DEF Ordered
<1>3. \A m, x \in T : m # x => f[m] # f[x]
  <2>1. SUFFICES ASSUME NEW m \in T, NEW x \in T, m # x PROVE f[m] # f[x]
      OBVIOUS
  <2>2. m.receivedAt \in Nat /\ x.receivedAt \in Nat /\ m.receivedAt # x.receivedAt
      BY <2>1 DEF Ordered
  <2>3. m.receivedAt < x.receivedAt \/ x.receivedAt < m.receivedAt
      BY <2>2
  <2>4. f[m] < f[x] \/ f[x] < f[m]
      BY <2>3, OlderCount
  <2>5. f[m] \in a .. b - 1 /\ f[x] \in a .. b - 1
      OBVIOUS
  <2> HIDE DEF f
  <2>6. QED
      BY <2>4, <2>5
<1>4. f \in [T -> a .. b - 1]
    OBVIOUS
<1> HIDE DEF f
<1>5. ~(Cardinality(a .. b - 1) < Cardinality(T))
    BY <1>1, <1>2, <1>3, <1>4, FS_PigeonHole
<1>6. QED
    BY <1>1, <1>2, <1>5

\* Dropping the n oldest of S drops n rows, all older than what stays.
LEMMA DropOldestDrops ==
    ASSUME NEW S, Ordered(S), NEW n \in Nat, n <= Cardinality(S)
    PROVE  /\ Cardinality(Oldest(S, n)) = n
           /\ Cardinality(DropOldest(S, n)) = Cardinality(S) - n
           /\ DropOldest(S, n) \subseteq S
           /\ \A m \in Oldest(S, n), x \in DropOldest(S, n) : m.receivedAt < x.receivedAt
<1> DEFINE O == Oldest(S, n)
           D == DropOldest(S, n)
<1>1. O \in SUBSET S /\ D \in SUBSET S /\ S = O \cup D /\ O \cap D = {}
    BY DEF Oldest, DropOldest
<1>2. Cardinality(S) \in Nat /\ IsFiniteSet(O) /\ IsFiniteSet(D)
      /\ Cardinality(O) \in Nat /\ Cardinality(D) \in Nat
    BY <1>1, FS_Subset, FS_CardinalityType DEF Ordered
<1>3. Cardinality(S) = Cardinality(O) + Cardinality(D)
  <2>1. Cardinality(O \cup D) = Cardinality(O) + Cardinality(D) - Cardinality(O \cap D)
      BY <1>2, FS_Union
  <2>2. Cardinality(O \cap D) = 0
      BY <1>1, FS_EmptySet
  <2> HIDE DEF O, D
  <2>3. QED
      BY <1>1, <1>2, <2>1, <2>2
<1>4. Cardinality(O) <= n
  <2>1. \A m \in O : Cardinality(Older(S, m)) \in 0 .. n - 1
      BY <1>1, <1>2, OlderCount DEF Oldest
  <2>2. Cardinality(O) <= n - 0
      BY <1>1, <2>1, CountedBy
  <2>3. QED
      BY <2>2
<1>5. Cardinality(D) <= Cardinality(S) - n
  <2>1. ASSUME NEW m \in D PROVE Cardinality(Older(S, m)) \in n .. Cardinality(S) - 1
    <3>1. Cardinality(Older(S, m)) \in 0 .. Cardinality(S) - 1
        BY <1>1, OlderCount
    <3>2. ~(Cardinality(Older(S, m)) < n)
        BY DEF Oldest, DropOldest
    <3>3. QED
        BY <1>2, <3>1, <3>2
  <2>2. QED
      BY <1>1, <1>2, <2>1, CountedBy
<1>6. ASSUME NEW m \in O, NEW x \in D PROVE m.receivedAt < x.receivedAt
  <2>1. /\ Cardinality(Older(S, m)) < n /\ ~(Cardinality(Older(S, x)) < n)
        /\ m \in S /\ x \in S
      BY DEF Oldest, DropOldest
  <2>2. Cardinality(Older(S, m)) \in Nat /\ Cardinality(Older(S, x)) \in Nat
      BY <2>1, OlderCount
  <2>3. m # x
      BY <2>1
  <2>4. m.receivedAt \in Nat /\ x.receivedAt \in Nat /\ m.receivedAt # x.receivedAt
      BY <2>1, <2>3 DEF Ordered
  <2>5. ~(x.receivedAt < m.receivedAt)
    <3>1. x.receivedAt < m.receivedAt =>
             Cardinality(Older(S, x)) < Cardinality(Older(S, m))
        BY <2>1, OlderCount
    <3>2. QED
        BY <2>1, <2>2, <3>1
  <2>6. QED
      BY <2>4, <2>5
<1>7. Cardinality(O) = n /\ Cardinality(D) = Cardinality(S) - n
  <2> HIDE DEF O, D
  <2>1. QED
      BY <1>2, <1>3, <1>4, <1>5
<1>8. QED
    BY <1>1, <1>6, <1>7

-----------------------------------------------------------------------------
(* Making room, and appending a row *)

AnyRow == [toKey: Keys, blob: Blobs, receivedAt: Nat]

\* A mailbox of rows ms after s numbers were issued.
Stored(ms, s) ==
    /\ s \in Nat
    /\ ms \subseteq AnyRow
    /\ IsFiniteSet(ms)
    /\ \A m \in ms : m.receivedAt <= s
    /\ \A m, x \in ms : m # x =>
          m.receivedAt # x.receivedAt /\ <<m.toKey, m.blob>> # <<x.toKey, x.blob>>
    /\ \A k \in Keys : Cardinality(For(ms, k)) <= MaxPerRecipient
    /\ Cardinality(ms) <= MaxTotal + 1

LEMMA StoredIsOrdered ==
    ASSUME NEW ms, NEW s, Stored(ms, s)
    PROVE  /\ Ordered(ms) /\ Cardinality(ms) \in Nat
           /\ \A k : /\ Ordered(For(ms, k)) /\ For(ms, k) \subseteq ms
                     /\ Cardinality(For(ms, k)) \in Nat
<1>1. Ordered(ms)
    BY DEF Stored, AnyRow, Ordered
<1>2. \A k : For(ms, k) \in SUBSET ms
    BY DEF For
<1>3. QED
    BY <1>1, <1>2, OrderedPart

\* What dropping the excess over max leaves: max rows, the newest, or all.
LEMMA ExcessDropped ==
    ASSUME NEW S, Ordered(S), NEW max \in Nat
    PROVE  /\ DropOldest(S, Excess(S, max)) \subseteq S
           /\ Cardinality(DropOldest(S, Excess(S, max))) <= max
           /\ Cardinality(S) > max => Cardinality(DropOldest(S, Excess(S, max))) = max
           /\ Cardinality(S) <= max => DropOldest(S, Excess(S, max)) = S
           /\ \A m \in S \ DropOldest(S, Excess(S, max)), x \in DropOldest(S, Excess(S, max)) :
                 m.receivedAt < x.receivedAt
<1> DEFINE n == Excess(S, max)
           D == DropOldest(S, n)
<1>1. Cardinality(S) \in Nat
    BY FS_CardinalityType DEF Ordered
<1>2. n \in Nat /\ n <= Cardinality(S)
      /\ (Cardinality(S) > max => Cardinality(S) - n = max)
      /\ (Cardinality(S) <= max => n = 0)
    BY <1>1 DEF Excess
<1> HIDE DEF n
<1>3. /\ Cardinality(Oldest(S, n)) = n
      /\ Cardinality(D) = Cardinality(S) - n
      /\ D \subseteq S
      /\ \A m \in Oldest(S, n), x \in D : m.receivedAt < x.receivedAt
    BY <1>2, DropOldestDrops
<1>4. S \ D = Oldest(S, n)
    BY DEF DropOldest, Oldest
<1>5. Cardinality(S) <= max => D = S
  <2>1. SUFFICES ASSUME Cardinality(S) <= max PROVE Oldest(S, n) = {}
      BY DEF DropOldest
  <2>2. Oldest(S, n) \in SUBSET S
      BY DEF Oldest
  <2>3. IsFiniteSet(Oldest(S, n)) /\ Cardinality(Oldest(S, n)) = 0
      BY <1>2, <1>3, <2>1, <2>2, FS_Subset DEF Ordered
  <2>4. QED
      BY <2>3, FS_EmptySet
<1> HIDE DEF D
<1>6. Cardinality(D) <= max
    BY <1>1, <1>2, <1>3
<1>7. QED
    BY <1>2, <1>3, <1>4, <1>5, <1>6 DEF n, D

\* Two disjoint parts.
LEMMA PartsCount ==
    ASSUME NEW S, NEW T, IsFiniteSet(S), IsFiniteSet(T), S \cap T = {}
    PROVE  /\ Cardinality(S \cup T) = Cardinality(S) + Cardinality(T)
           /\ Cardinality(S) \in Nat /\ Cardinality(T) \in Nat
<1>1. Cardinality(S \cup T) = Cardinality(S) + Cardinality(T) - Cardinality(S \cap T)
    BY FS_Union
<1>2. Cardinality(S \cap T) = 0
    BY FS_EmptySet
<1>3. Cardinality(S) \in Nat /\ Cardinality(T) \in Nat
    BY FS_CardinalityType
<1>4. QED
    BY <1>1, <1>2, <1>3

\* MadeRoom: room for one row under both ceilings, at the cost of the oldest rows, and
\* only of a recipient, or of a mailbox, that is full.
LEMMA MadeRoomMakes ==
    ASSUME NEW ms, NEW s, Stored(ms, s), NEW k \in Keys
    PROVE  LET r == MadeRoom(ms, k)
           IN  /\ r \subseteq ms
               /\ Cardinality(For(r, k)) <= MaxPerRecipient - 1
               /\ Cardinality(r) <= MaxTotal
               /\ \A d \in ms \ r : \A x \in For(r, d.toKey) : d.receivedAt < x.receivedAt
               /\ Cardinality(ms) > MaxTotal => Cardinality(r) = MaxTotal
               /\ \/ Cardinality(r) = MaxTotal
                  \/ /\ \A j \in Keys \ {k} : For(r, j) = For(ms, j)
                     /\ IF Cardinality(For(ms, k)) = MaxPerRecipient
                        THEN Cardinality(For(r, k)) = MaxPerRecipient - 1
                        ELSE r = ms
<1> DEFINE own   == For(ms, k)
           room  == DropOldest(own, Excess(own, MaxPerRecipient - 1))
           kept  == (ms \ own) \cup room
           r     == DropOldest(kept, Excess(kept, MaxTotal))
<1>1. MaxPerRecipient - 1 \in Nat /\ MaxTotal \in Nat /\ MaxPerRecipient \in Nat
    BY MailboxAssumption
<1>2. Ordered(own) /\ own \subseteq ms /\ Ordered(ms) /\ IsFiniteSet(ms)
      /\ Cardinality(own) \in Nat /\ Cardinality(ms) \in Nat /\ Cardinality(own) <= MaxPerRecipient
    BY StoredIsOrdered DEF Stored
<1>3. /\ room \subseteq own
      /\ Cardinality(room) <= MaxPerRecipient - 1
      /\ Cardinality(own) > MaxPerRecipient - 1 => Cardinality(room) = MaxPerRecipient - 1
      /\ Cardinality(own) <= MaxPerRecipient - 1 => room = own
      /\ \A d \in own \ room, x \in room : d.receivedAt < x.receivedAt
    BY <1>1, <1>2, ExcessDropped
<1>4. /\ For(kept, k) = room
      /\ \A j \in Keys \ {k} : For(kept, j) = For(ms, j)
      /\ kept \subseteq ms
    BY <1>3 DEF For
<1> HIDE DEF room
<1>5. Ordered(kept)
    BY <1>2, <1>4, OrderedPart
<1>6. /\ r \subseteq kept
      /\ Cardinality(r) <= MaxTotal
      /\ Cardinality(kept) > MaxTotal => Cardinality(r) = MaxTotal
      /\ Cardinality(kept) <= MaxTotal => r = kept
      /\ \A d \in kept \ r, x \in r : d.receivedAt < x.receivedAt
    BY <1>1, <1>5, ExcessDropped
<1>7. MadeRoom(ms, k) = r
    BY DEF MadeRoom, room
<1> HIDE DEF r
<1>8. Cardinality(For(r, k)) <= MaxPerRecipient - 1
  <2>1. For(r, k) \in SUBSET room
      BY <1>4, <1>6 DEF For
  <2>2. IsFiniteSet(room)
      BY <1>2, <1>3, FS_Subset DEF Ordered
  <2>3. /\ Cardinality(For(r, k)) <= Cardinality(room)
        /\ Cardinality(For(r, k)) \in Nat /\ Cardinality(room) \in Nat
      BY <2>1, <2>2, FS_Subset, FS_CardinalityType
  <2>4. QED
      BY <1>1, <1>3, <2>3
<1>9. ASSUME NEW d \in ms \ r, NEW x \in For(r, d.toKey)
      PROVE  d.receivedAt < x.receivedAt
  <2>1. CASE d \in kept
      BY <1>6, <1>9, <2>1 DEF For
  <2>2. CASE d \notin kept
    <3>1. d \in own \ room /\ d.toKey = k
        BY <1>9, <2>2 DEF For
    <3>2. x \in room
        BY <1>4, <1>6, <1>9, <3>1 DEF For
    <3>3. QED
        BY <1>3, <3>1, <3>2
  <2>3. QED
      BY <2>1, <2>2
<1>10. Cardinality(kept) >= Cardinality(ms) - 1 /\ Cardinality(kept) \in Nat
  <2>1. IsFiniteSet(ms \ own) /\ IsFiniteSet(room) /\ IsFiniteSet(own)
      BY <1>2, <1>3, FS_Subset DEF Ordered
  <2>2. /\ Cardinality(kept) = Cardinality(ms \ own) + Cardinality(room)
        /\ Cardinality(ms \ own) \in Nat /\ Cardinality(room) \in Nat
      BY <1>3, <2>1, PartsCount
  <2>3. (ms \ own) \cup own = ms /\ (ms \ own) \cap own = {}
      BY <1>2
  <2>4. Cardinality(ms) = Cardinality(ms \ own) + Cardinality(own)
      BY <2>1, <2>3, PartsCount
  <2> HIDE DEF kept, own
  <2>5. Cardinality(room) >= Cardinality(own) - 1
      BY <1>1, <1>2, <1>3
  <2>6. QED
      BY <1>2, <2>2, <2>4, <2>5
<1>11. Cardinality(ms) > MaxTotal => Cardinality(r) = MaxTotal
  <2>1. CASE Cardinality(kept) > MaxTotal
      BY <1>6, <2>1
  <2>2. CASE Cardinality(kept) <= MaxTotal
    <3> HIDE DEF kept
    <3>1. Cardinality(ms) > MaxTotal => Cardinality(kept) = MaxTotal
        BY <1>1, <1>2, <1>10, <2>2
    <3>2. QED
        BY <1>6, <2>2, <3>1
  <2> HIDE DEF kept
  <2>3. QED
      BY <1>1, <1>10, <2>1, <2>2
<1>12. \/ Cardinality(r) = MaxTotal
       \/ /\ \A j \in Keys \ {k} : For(r, j) = For(ms, j)
          /\ IF Cardinality(own) = MaxPerRecipient
             THEN Cardinality(For(r, k)) = MaxPerRecipient - 1
             ELSE r = ms
  <2>1. CASE Cardinality(kept) > MaxTotal
      BY <1>6, <2>1
  <2>2. CASE Cardinality(kept) <= MaxTotal
    <3>1. r = kept
        BY <1>6, <2>2
    <3>2. Cardinality(own) = MaxPerRecipient => Cardinality(room) = MaxPerRecipient - 1
        BY <1>1, <1>3
    <3>3. Cardinality(own) # MaxPerRecipient => kept = ms
      <4>1. Cardinality(own) # MaxPerRecipient => Cardinality(own) <= MaxPerRecipient - 1
          BY <1>1, <1>2
      <4>2. QED
          BY <1>2, <1>3, <4>1
    <3>4. QED
        BY <1>4, <3>1, <3>2, <3>3
  <2> HIDE DEF kept
  <2>3. QED
      BY <1>1, <1>10, <2>1, <2>2
<1>13. r \subseteq ms
    BY <1>4, <1>6
<1>14. QED
    BY <1>6, <1>7, <1>8, <1>9, <1>11, <1>12, <1>13

\* What has become, after some appends, of a mailbox that held `old` rows and had issued
\* s0 numbers: it is a mailbox; its new rows have new numbers; and what it lost is older
\* than all it still has for that recipient, who has a full share, or else the mailbox
\* is full.
Grew(old, s0, ms, s) ==
    /\ Stored(ms, s)
    /\ s0 <= s
    /\ \A m \in ms \ old : s0 < m.receivedAt
    /\ \A d \in old \ ms : \A x \in For(ms, d.toKey) : d.receivedAt < x.receivedAt
    /\ \A d \in old \ ms : \/ Cardinality(For(ms, d.toKey)) >= MaxPerRecipient
                           \/ Cardinality(ms) > MaxTotal

LEMMA NotGrown ==
    ASSUME NEW ms, NEW s, Stored(ms, s)
    PROVE  Grew(ms, s, ms, s)
BY DEF Grew, Stored

\* One append.
LEMMA AppendGrows ==
    ASSUME NEW old, NEW s0, NEW b, Stored(old, s0), Grew(old, s0, b.messages, b.seq),
           NEW m \in [toKey: Keys, blob: Blobs], NEW t \in Nat
    PROVE  LET a == AppendMessage(b, m, t) IN Grew(old, s0, a.messages, a.seq)
<1> DEFINE ms  == b.messages
           s   == b.seq
           n   == SeqTs(t, s)
           k   == m.toKey
           r   == MadeRoom(ms, k)
           new == [toKey |-> m.toKey, blob |-> m.blob, receivedAt |-> n]
           ns  == r \cup {new}
<1>1. CASE \E x \in ms : x.toKey = m.toKey /\ x.blob = m.blob
    BY <1>1 DEF AppendMessage
<1>2. CASE ~\E x \in ms : x.toKey = m.toKey /\ x.blob = m.blob
  <2>1. AppendMessage(b, m, t) = [seq |-> n, messages |-> ns]
      BY <1>2 DEF AppendMessage
  <2>2. Stored(ms, s) /\ s \in Nat /\ s0 \in Nat /\ s0 <= s
      BY DEF Grew, Stored
  <2>3. n \in Nat /\ s < n
      BY <2>2 DEF SeqTs, MaxOf
  <2>4. k \in Keys /\ new \in AnyRow /\ new.receivedAt = n /\ new.toKey = k
      BY <2>3 DEF AnyRow
  <2>5. /\ MaxPerRecipient \in Nat \ {0} /\ MaxTotal \in Nat
        /\ \A j : /\ Cardinality(For(ms, j)) \in Nat
                  /\ IsFiniteSet(For(ms, j)) /\ IsFiniteSet(ms)
        /\ Cardinality(ms) \in Nat
      BY <2>2, StoredIsOrdered, MailboxAssumption DEF Ordered
  <2>6. /\ r \subseteq ms
        /\ Cardinality(For(r, k)) <= MaxPerRecipient - 1
        /\ Cardinality(r) <= MaxTotal
        /\ \A d \in ms \ r : \A x \in For(r, d.toKey) : d.receivedAt < x.receivedAt
        /\ Cardinality(ms) > MaxTotal => Cardinality(r) = MaxTotal
        /\ \/ Cardinality(r) = MaxTotal
           \/ /\ \A j \in Keys \ {k} : For(r, j) = For(ms, j)
              /\ IF Cardinality(For(ms, k)) = MaxPerRecipient
                 THEN Cardinality(For(r, k)) = MaxPerRecipient - 1
                 ELSE r = ms
      BY <2>2, <2>4, MadeRoomMakes
  <2>7. \A x \in ms : x \in AnyRow /\ x.receivedAt \in Nat /\ x.receivedAt <= s
      BY <2>2 DEF Stored, AnyRow
  <2>8. \A x \in ms : x.receivedAt < n /\ <<x.toKey, x.blob>> # <<new.toKey, new.blob>>
      BY <1>2, <2>2, <2>3, <2>7
  <2>9. new \notin r
      BY <2>6, <2>8
  <2> HIDE DEF ms, s, n, r, new
  <2>10. /\ IsFiniteSet(r) /\ Cardinality(r) \in Nat
         /\ Cardinality(ns) = Cardinality(r) + 1 /\ IsFiniteSet(ns)
    <3>1. IsFiniteSet(r) /\ Cardinality(r) \in Nat
        BY <2>5, <2>6, FS_Subset, FS_CardinalityType
    <3>2. QED
        BY <2>9, <3>1, FS_AddElement
  <2>11. \A j \in Keys : IF j = k THEN For(ns, j) = For(r, j) \cup {new} /\ new \notin For(r, j)
                         ELSE For(ns, j) = For(r, j)
      BY <2>4, <2>9 DEF For
  <2>12. \A j \in Keys : /\ IsFiniteSet(For(r, j)) /\ Cardinality(For(r, j)) \in Nat
                         /\ Cardinality(For(r, j)) <= Cardinality(For(ms, j))
    <3>1. \A j \in Keys : For(r, j) \in SUBSET For(ms, j)
        BY <2>6 DEF For
    <3>2. QED
        BY <2>5, <3>1, FS_Subset, FS_CardinalityType
  <2>13. Cardinality(For(ns, k)) = Cardinality(For(r, k)) + 1
    <3>1. For(ns, k) = For(r, k) \cup {new} /\ new \notin For(r, k) /\ IsFiniteSet(For(r, k))
        BY <2>4, <2>11, <2>12
    <3>2. QED
        BY <3>1, FS_AddElement
  <2>14. Stored(ns, n)
    <3>1. ns \subseteq AnyRow /\ \A x \in ns : x.receivedAt <= n
        BY <2>3, <2>4, <2>6, <2>7, <2>8
    <3>2. \A x, y \in ns : x # y => x.receivedAt # y.receivedAt
                                    /\ <<x.toKey, x.blob>> # <<y.toKey, y.blob>>
      <4>1. \A x, y \in r : x # y => x.receivedAt # y.receivedAt
                                     /\ <<x.toKey, x.blob>> # <<y.toKey, y.blob>>
          BY <2>2, <2>6 DEF Stored
      <4>2. \A x \in r : x.receivedAt # new.receivedAt
                         /\ <<x.toKey, x.blob>> # <<new.toKey, new.blob>>
          BY <2>3, <2>4, <2>6, <2>7, <2>8
      <4>3. QED
          BY <4>1, <4>2
    <3>3. \A j \in Keys : Cardinality(For(ns, j)) <= MaxPerRecipient
      <4>1. Cardinality(For(ns, k)) <= MaxPerRecipient
          BY <2>4, <2>5, <2>6, <2>12, <2>13
      <4>2. ASSUME NEW j \in Keys, j # k PROVE Cardinality(For(ns, j)) <= MaxPerRecipient
        <5>1. Cardinality(For(ms, j)) <= MaxPerRecipient
            BY <2>2 DEF Stored
        <5>2. Cardinality(For(ns, j)) <= Cardinality(For(ms, j))
            BY <2>11, <2>12, <4>2
        <5>3. Cardinality(For(ns, j)) \in Nat
            BY <2>11, <2>12, <4>2
        <5>4. QED
            BY <2>5, <5>1, <5>2, <5>3
      <4>3. QED
          BY <4>1, <4>2
    <3>4. Cardinality(ns) <= MaxTotal + 1
        BY <2>5, <2>6, <2>10
    <3>5. QED
        BY <2>3, <2>10, <3>1, <3>2, <3>3, <3>4 DEF Stored
  <2>15. s0 <= n
      BY <2>2, <2>3
  <2>16. \A x \in ns \ old : s0 < x.receivedAt
    <3>1. \A x \in ms \ old : s0 < x.receivedAt
        BY DEF Grew, ms
    <3>2. s0 < new.receivedAt
        BY <2>2, <2>3, <2>4
    <3>3. QED
        BY <2>6, <3>1, <3>2
  <2>17. \A d \in old : d.receivedAt \in Nat /\ d.receivedAt < n /\ d.toKey \in Keys
      BY <2>2, <2>3 DEF Stored, AnyRow
  <2>18. ASSUME NEW d \in old \ ns, NEW x \in For(ns, d.toKey)
         PROVE  d.receivedAt < x.receivedAt
    <3>1. CASE x = new
        BY <2>4, <2>17, <3>1
    <3>2. CASE x # new
      <4>1. x \in For(r, d.toKey) /\ x \in For(ms, d.toKey) /\ d \notin r
          BY <2>6, <2>18, <3>2 DEF For
      <4>2. CASE d \in ms
          BY <2>6, <4>1, <4>2
      <4>3. CASE d \notin ms
          BY <2>18, <4>1, <4>3 DEF Grew, ms
      <4>4. QED
          BY <4>2, <4>3
    <3>3. QED
        BY <3>1, <3>2
  <2>19. ASSUME NEW d \in old \ ns
         PROVE  \/ Cardinality(For(ns, d.toKey)) >= MaxPerRecipient
                \/ Cardinality(ns) > MaxTotal
    <3>1. CASE Cardinality(r) = MaxTotal
        BY <2>5, <2>10, <3>1
    <3>2. CASE Cardinality(r) # MaxTotal
      <4>1. /\ \A j \in Keys \ {k} : For(r, j) = For(ms, j)
            /\ IF Cardinality(For(ms, k)) = MaxPerRecipient
               THEN Cardinality(For(r, k)) = MaxPerRecipient - 1
               ELSE r = ms
            /\ ~(Cardinality(ms) > MaxTotal)
          BY <2>6, <3>2
      <4>2. Cardinality(For(ms, k)) = MaxPerRecipient =>
               Cardinality(For(ns, k)) >= MaxPerRecipient
          BY <2>5, <2>13, <4>1
      <4>3. d.toKey \in Keys /\ d \notin r
          BY <2>17, <2>19
      <4>4. CASE d \in ms
        <5>1. d.toKey = k
            BY <4>1, <4>3, <4>4 DEF For
        <5>2. Cardinality(For(ms, k)) = MaxPerRecipient
            BY <4>1, <4>3, <4>4
        <5>3. QED
            BY <4>2, <5>1, <5>2
      <4>5. CASE d \notin ms
        <5>1. Cardinality(For(ms, d.toKey)) >= MaxPerRecipient
            BY <2>19, <4>1, <4>5 DEF Grew, ms
        <5>2. CASE d.toKey = k
          <6>1. Cardinality(For(ms, k)) <= MaxPerRecipient
              BY <2>2, <2>4 DEF Stored
          <6>2. Cardinality(For(ms, k)) = MaxPerRecipient
              BY <2>5, <5>1, <5>2, <6>1
          <6>3. QED
              BY <4>2, <5>2, <6>2
        <5>3. CASE d.toKey # k
            BY <2>11, <4>1, <4>3, <5>1, <5>3
        <5>4. QED
            BY <5>2, <5>3
      <4>6. QED
          BY <4>4, <4>5
    <3>3. QED
        BY <3>1, <3>2
  <2>20. Grew(old, s0, ns, n)
      BY <2>14, <2>15, <2>16, <2>18, <2>19 DEF Grew
  <2>21. QED
      BY <2>1, <2>20
<1>3. QED
    BY <1>1, <1>2

-----------------------------------------------------------------------------
(* A batch: induction over its length *)

\* The boxes after each row of the batch, up to the n-th.
Boxes(f, n, batch, t) ==
    f = [i \in 0 .. n |->
            IF i = 0 THEN [messages |-> messages, seq |-> seq]
            ELSE AppendMessage(f[i - 1], batch[i], t)]

LEMMA BoxesExist ==
    ASSUME NEW n \in Nat, NEW batch, NEW t
    PROVE  \E f : Boxes(f, n, batch, t)
<1> DEFINE G == {i \in 0 .. n : \E f : Boxes(f, i, batch, t)}
           start == [messages |-> messages, seq |-> seq]
<1>1. 0 \in G
  <2>1. Boxes([i \in 0 .. 0 |-> start], 0, batch, t)
      BY DEF Boxes
  <2>2. QED
      BY <2>1
<1>2. ASSUME NEW i \in 1 .. n, i - 1 \in G PROVE i \in G
  <2>1. PICK f : Boxes(f, i - 1, batch, t)
      BY <1>2
  <2> DEFINE g == [j \in 0 .. i |-> IF j = i THEN AppendMessage(f[i - 1], batch[i], t) ELSE f[j]]
  <2>2. f = [j \in 0 .. i - 1 |-> IF j = 0 THEN start ELSE AppendMessage(f[j - 1], batch[j], t)]
      BY <2>1 DEF Boxes
  <2>3. \A j \in 0 .. i : g[j] = IF j = 0 THEN start ELSE AppendMessage(g[j - 1], batch[j], t)
    <3>1. SUFFICES ASSUME NEW j \in 0 .. i
                   PROVE  g[j] = IF j = 0 THEN start ELSE AppendMessage(g[j - 1], batch[j], t)
        OBVIOUS
    <3>2. CASE j = i
      <4>1. j - 1 \in 0 .. i /\ j - 1 # i /\ j # 0
          BY <3>2
      <4>2. g[j - 1] = f[j - 1] /\ g[j] = AppendMessage(f[j - 1], batch[j], t)
          BY <3>2, <4>1
      <4>3. QED
          BY <4>1, <4>2
    <3>3. CASE j # i /\ j # 0
      <4>1. j - 1 \in 0 .. i /\ j - 1 # i /\ j \in 0 .. i - 1
          BY <3>3
      <4>2. g[j - 1] = f[j - 1] /\ g[j] = f[j]
          BY <3>3, <4>1
      <4>3. f[j] = AppendMessage(f[j - 1], batch[j], t)
          BY <2>2, <3>3, <4>1
      <4>4. QED
          BY <3>3, <4>2, <4>3
    <3>4. CASE j # i /\ j = 0
      <4>1. j \in 0 .. i - 1 /\ g[j] = f[j]
          BY <3>4
      <4>2. QED
          BY <2>2, <3>4, <4>1
    <3>5. QED
        BY <3>2, <3>3, <3>4
  <2>4. g = [j \in 0 .. i |-> g[j]]
      OBVIOUS
  <2> HIDE DEF g
  <2>5. Boxes(g, i, batch, t)
      BY <2>3, <2>4 DEF Boxes
  <2>6. QED
      BY <2>5
<1> HIDE DEF G
<1>3. G = 0 .. n
  <2>1. G \in SUBSET (0 .. n)
      BY DEF G
  <2>2. QED
      BY <1>1, <1>2, <2>1, UpToInduction
<1>4. QED
    BY <1>3 DEF G

\* The recursion of Appended is what it says.
LEMMA AppendedIsLast ==
    ASSUME NEW batch, NEW t, Len(batch) \in Nat
    PROVE  \E f : Boxes(f, Len(batch), batch, t) /\ Appended(batch, t) = f[Len(batch)]
<1> DEFINE box[i \in 0 .. Len(batch)] ==
          IF i = 0 THEN [messages |-> messages, seq |-> seq]
          ELSE AppendMessage(box[i - 1], batch[i], t)
<1>1. \E f : Boxes(f, Len(batch), batch, t)
    BY BoxesExist
<1>2. Boxes(box, Len(batch), batch, t)
    BY <1>1 DEF Boxes
<1>3. Appended(batch, t) = box[Len(batch)]
    BY DEF Appended
<1>4. QED
    BY <1>2, <1>3

\* A whole batch keeps what each append keeps, however long it is.
LEMMA BatchGrows ==
    ASSUME Stored(messages, seq), NEW batch \in Seq([toKey: Keys, blob: Blobs]), NEW t \in Nat
    PROVE  LET a == Appended(batch, t) IN Grew(messages, seq, a.messages, a.seq)
<1> DEFINE n == Len(batch)
           M == [toKey: Keys, blob: Blobs]
<1>1. n \in Nat /\ \A i \in 1 .. n : batch[i] \in M
  <2> HIDE DEF M
  <2>1. batch \in Seq(M)
      BY DEF M
  <2>2. QED
      BY <2>1
<1>2. PICK f : Boxes(f, n, batch, t) /\ Appended(batch, t) = f[n]
    BY <1>1, AppendedIsLast
<1> HIDE DEF n
<1>3. /\ f[0] = [messages |-> messages, seq |-> seq]
      /\ \A i \in 1 .. n : f[i] = AppendMessage(f[i - 1], batch[i], t)
  <2>1. f = [i \in 0 .. n |-> IF i = 0 THEN [messages |-> messages, seq |-> seq]
                              ELSE AppendMessage(f[i - 1], batch[i], t)]
      BY <1>2 DEF Boxes
  <2>2. 0 \in 0 .. n /\ \A i \in 1 .. n : i \in 0 .. n /\ i # 0
      BY <1>1
  <2>3. f[0] = [messages |-> messages, seq |-> seq]
      BY <2>1, <2>2
  <2>4. ASSUME NEW i \in 1 .. n PROVE f[i] = AppendMessage(f[i - 1], batch[i], t)
      BY <2>1, <2>2
  <2>5. QED
      BY <2>3, <2>4
<1> DEFINE G == {i \in 0 .. n : Grew(messages, seq, f[i].messages, f[i].seq)}
<1>4. 0 \in G
    BY <1>1, <1>3, NotGrown
<1>5. ASSUME NEW i \in 1 .. n, i - 1 \in G PROVE i \in G
  <2>1. Grew(messages, seq, f[i - 1].messages, f[i - 1].seq)
      BY <1>5
  <2>2. batch[i] \in [toKey: Keys, blob: Blobs] /\ f[i] = AppendMessage(f[i - 1], batch[i], t)
      BY <1>1, <1>3
  <2>3. Grew(messages, seq, f[i].messages, f[i].seq)
      BY <2>1, <2>2, AppendGrows
  <2>4. QED
      BY <1>1, <2>3
<1>6. G \in SUBSET (0 .. n)
    OBVIOUS
<1> HIDE DEF G
<1>7. G = 0 .. n
    BY <1>1, <1>4, <1>5, <1>6, UpToInduction
<1>8. n \in G
    BY <1>1, <1>7
<1>9. QED
    BY <1>2, <1>8 DEF G

-----------------------------------------------------------------------------
(* The inductive invariant *)

Collecting(p) == p.stage \in {"collect", "wait", "recollect"}

\* A poll that still collects has acked its recipient's rows up to its cursor, and a
\* page passes over a row below its cursor only if the row has expired.
PollInv(p, ms, s, t) ==
    /\ Collecting(p) =>
          /\ p.at <= t /\ p.cursor <= s
          /\ \A m \in For(ms, p.key) : p.cursor < m.receivedAt
    /\ p.stage = "answer" =>
          /\ p.cursor <= s
          /\ \A m \in For(ms, p.key) :
                m.receivedAt <= p.cursor => m \in p.rows \/ Expired(m, t)

MailboxInv ==
    /\ clock \in 1 .. MaxTime
    /\ seq \in 0 .. MaxSeq
    /\ Stored(messages, seq)
    /\ polls \in [Handlers -> PollState]
    /\ \A h \in Handlers : PollInv(polls[h], messages, seq, clock)
    /\ cursor \in [Keys -> 0 .. MaxSeq]
    /\ \A k \in Keys : cursor[k] <= seq
    /\ taken \in [Keys -> SUBSET Row]
    /\ NothingSkipped

LEMMA InvTypes ==
    ASSUME MailboxInv
    PROVE  /\ clock \in Nat /\ seq \in Nat /\ MaxAge \in Nat
           /\ messages \subseteq Row
           /\ \A m \in messages : /\ m.receivedAt \in Nat /\ m.receivedAt <= seq
                                  /\ m.toKey \in Keys
<1>1. seq \in Nat /\ seq <= MaxSeq /\ MaxSeq \in Nat /\ clock \in Nat /\ MaxAge \in Nat
    BY MailboxAssumption DEF MailboxInv
<1>2. \A m \in messages : m \in AnyRow /\ m.receivedAt <= seq
    BY DEF MailboxInv, Stored
<1>3. \A m \in messages : m.receivedAt \in 0 .. MaxSeq
    BY <1>1, <1>2 DEF AnyRow
<1>4. messages \subseteq Row
    BY <1>2, <1>3 DEF AnyRow, Row
<1>5. QED
    BY <1>1, <1>2, <1>4 DEF AnyRow

\* Taking rows away leaves a mailbox.
LEMMA StoredShrinks ==
    ASSUME NEW ms, NEW s, Stored(ms, s), NEW ns \in SUBSET ms
    PROVE  Stored(ns, s)
<1>1. /\ IsFiniteSet(ns) /\ Cardinality(ns) <= Cardinality(ms)
      /\ Cardinality(ns) \in Nat /\ Cardinality(ms) \in Nat
    BY FS_Subset, FS_CardinalityType DEF Stored
<1>2. ASSUME NEW k \in Keys PROVE Cardinality(For(ns, k)) <= MaxPerRecipient
  <2>1. For(ns, k) \in SUBSET For(ms, k) /\ For(ms, k) \in SUBSET ms
      BY DEF For
  <2>2. IsFiniteSet(For(ms, k))
      BY <2>1, FS_Subset DEF Stored
  <2>3. /\ Cardinality(For(ns, k)) <= Cardinality(For(ms, k))
        /\ Cardinality(For(ns, k)) \in Nat /\ Cardinality(For(ms, k)) \in Nat
      BY <2>1, <2>2, FS_Subset, FS_CardinalityType
  <2>4. Cardinality(For(ms, k)) <= MaxPerRecipient /\ MaxPerRecipient \in Nat
      BY MailboxAssumption DEF Stored
  <2>5. QED
      BY <2>3, <2>4
<1>3. Cardinality(ns) <= MaxTotal + 1
  <2>1. Cardinality(ms) <= MaxTotal + 1 /\ MaxTotal \in Nat
      BY MailboxAssumption DEF Stored
  <2>2. QED
      BY <1>1, <2>1
<1>4. QED
    BY <1>1, <1>2, <1>3 DEF Stored

\* A row once expired stays so.
LEMMA StaysExpired ==
    ASSUME NEW m, m.receivedAt \in Nat, NEW t \in Nat, NEW u \in Nat, t <= u, Expired(m, t)
    PROVE  Expired(m, u)
<1>1. MaxAge \in Nat
    BY MailboxAssumption
<1>2. QED
    BY <1>1 DEF Expired

\* Neither fewer rows nor the passing of time harms a poll.
LEMMA PollInvShrinks ==
    ASSUME MailboxInv, NEW p, NEW ns \in SUBSET messages, NEW t \in Nat, clock <= t,
           p \in PollState, PollInv(p, messages, seq, clock)
    PROVE  PollInv(p, ns, seq, t)
<1>1. clock \in Nat /\ \A m \in messages : m.receivedAt \in Nat
    BY InvTypes
<1>2. \A k : For(ns, k) \subseteq For(messages, k)
    BY DEF For
<1>3. Collecting(p) => p.at \in Nat
    BY DEF PollState, Idle, Collecting
<1>4. Collecting(p) => p.at <= t
    BY <1>1, <1>3 DEF PollInv
<1>5. \A m \in messages : Expired(m, clock) => Expired(m, t)
    BY <1>1, StaysExpired
<1>6. For(messages, p.key) \subseteq messages
    BY DEF For
<1>7. QED
    BY <1>2, <1>4, <1>5, <1>6 DEF PollInv

\* A step that at most takes rows away and moves one poll is judged by that poll.
LEMMA OnePoll ==
    ASSUME MailboxInv, messages' \subseteq messages, seq' = seq,
           clock' \in 1 .. MaxTime, clock <= clock',
           NEW h \in Handlers, NEW p \in PollState,
           PollInv(p, messages', seq, clock'),
           polls' = polls \/ polls' = [polls EXCEPT ![h] = p],
           cursor' \in [Keys -> 0 .. MaxSeq], \A k \in Keys : cursor'[k] <= seq,
           taken' \in [Keys -> SUBSET Row],
           NothingSkipped'
    PROVE  MailboxInv'
<1>1. Stored(messages', seq')
    BY StoredShrinks DEF MailboxInv
<1>2. polls' \in [Handlers -> PollState]
    BY DEF MailboxInv
<1>3. ASSUME NEW x \in Handlers PROVE PollInv(polls'[x], messages', seq', clock')
  <2>1. CASE polls'[x] = polls[x]
    <3>1. PollInv(polls[x], messages, seq, clock) /\ polls[x] \in PollState /\ clock' \in Nat
        BY DEF MailboxInv
    <3>2. PollInv(polls[x], messages', seq, clock')
        BY <3>1, PollInvShrinks
    <3>3. QED
        BY <2>1, <3>2
  <2>2. CASE polls'[x] # polls[x]
    <3>1. polls'[x] = p
        BY <2>2 DEF MailboxInv
    <3>2. QED
        BY <3>1
  <2>3. QED
      BY <2>1, <2>2
<1>4. seq' \in 0 .. MaxSeq
    BY DEF MailboxInv
<1>5. QED
    BY <1>1, <1>2, <1>3, <1>4 DEF MailboxInv

\* Fewer rows and later are skipped no more than before.
LEMMA SkipsNoMore ==
    ASSUME MailboxInv, messages' \subseteq messages, clock' \in Nat, clock <= clock',
           \A k \in Keys : cursor'[k] \in Nat /\ cursor'[k] <= cursor[k],
           \A k \in Keys : taken[k] \subseteq taken'[k]
    PROVE  NothingSkipped'
<1>1. SUFFICES ASSUME NEW m \in messages', m.receivedAt <= cursor'[m.toKey]
               PROVE  m \in taken'[m.toKey] \/ Expired(m, clock')
    BY DEF NothingSkipped
<1>2. m.toKey \in Keys /\ m.receivedAt \in Nat /\ clock \in Nat /\ m \in messages
      /\ cursor[m.toKey] \in Nat
    BY InvTypes, MailboxAssumption DEF MailboxInv
<1>3. m.receivedAt <= cursor[m.toKey]
    BY <1>1, <1>2
<1>4. m \in taken[m.toKey] \/ Expired(m, clock)
    BY <1>2, <1>3 DEF MailboxInv, NothingSkipped
<1>5. QED
    BY <1>2, <1>4, StaysExpired

-----------------------------------------------------------------------------
(* A page *)

\* Its rows are fresh and the oldest; its cursor is the number of the last of them, or
\* the one polled with.
LEMMA PageIs ==
    ASSUME MailboxInv, NEW k, NEW c \in Nat, c <= seq, NEW t \in Nat
    PROVE  LET rows == Page(k, c, t)
               last == PageCursor(c, rows)
           IN  /\ rows \subseteq Fresh(k, c, t)
               /\ \A m \in rows, x \in Fresh(k, c, t) \ rows : m.receivedAt < x.receivedAt
               /\ last \in Nat /\ last <= seq
               /\ \A m \in rows : m.receivedAt <= last
               /\ last = c \/ \E m \in rows : m.receivedAt = last
<1> DEFINE fresh == Fresh(k, c, t)
           rows  == Page(k, c, t)
           tops  == {c} \cup {m.receivedAt : m \in rows}
           last  == PageCursor(c, rows)
           U     == {u \in Nat : c <= u /\ \A m \in rows : m.receivedAt <= u}
<1>1. /\ seq \in Nat /\ fresh \subseteq messages
      /\ \A m \in fresh : m.receivedAt \in Nat /\ m.receivedAt <= seq /\ c < m.receivedAt
    BY InvTypes DEF Fresh, For
<1>2. Ordered(fresh)
    BY <1>1, StoredIsOrdered, OrderedPart DEF MailboxInv
<1>3. /\ rows \subseteq fresh
      /\ \A m \in rows, x \in fresh \ rows : m.receivedAt < x.receivedAt
  <2>1. rows = Oldest(fresh, MaxPollEvents) /\ rows \subseteq fresh
      BY DEF Page, Oldest
  <2>2. MaxPollEvents \in Nat /\ Cardinality(fresh) \in Nat
      BY <1>2, FS_CardinalityType, MailboxAssumption DEF Ordered
  <2>3. CASE MaxPollEvents <= Cardinality(fresh)
    <3>1. \A m \in Oldest(fresh, MaxPollEvents), x \in DropOldest(fresh, MaxPollEvents) :
             m.receivedAt < x.receivedAt
        BY <1>2, <2>2, <2>3, DropOldestDrops
    <3>2. QED
        BY <2>1, <3>1 DEF DropOldest
  <2>4. CASE Cardinality(fresh) < MaxPollEvents
    <3>1. ASSUME NEW x \in fresh PROVE x \in rows
      <4>1. Cardinality(Older(fresh, x)) \in 0 .. Cardinality(fresh) - 1
          BY <1>2, OlderCount
      <4>2. Cardinality(Older(fresh, x)) < MaxPollEvents
          BY <2>2, <2>4, <4>1
      <4>3. QED
          BY <2>1, <4>2 DEF Oldest
    <3>2. QED
        BY <2>1, <3>1
  <2>5. QED
      BY <2>2, <2>3, <2>4
<1> HIDE DEF fresh, rows
<1>4. seq \in U
    BY <1>1, <1>3
<1>5. PICK u \in U : \A v \in U : u <= v
    BY <1>4, LeastNumber
<1>6. u \in tops
  <2>1. SUFFICES ASSUME u # c, \A m \in rows : m.receivedAt # u PROVE FALSE
      OBVIOUS
  <2>2. \A m \in rows : m.receivedAt \in Nat
      BY <1>1, <1>3
  <2>3. u - 1 \in U
      BY <1>5, <2>1, <2>2
  <2>4. QED
      BY <1>5, <2>3
<1>7. last \in tops /\ \A m \in rows : m.receivedAt <= last
  <2>1. \E n \in tops : \A m \in rows : m.receivedAt <= n
      BY <1>5, <1>6
  <2>2. QED
      BY <2>1 DEF PageCursor
<1>8. last \in Nat /\ last <= seq /\ (last = c \/ \E m \in rows : m.receivedAt = last)
  <2> HIDE DEF last
  <2>1. QED
      BY <1>1, <1>3, <1>7
<1>9. QED
    BY <1>3, <1>7, <1>8 DEF fresh, rows

\* So a page passes over nothing but what was expired when it was made.
LEMMA AnswerSkipsNothing ==
    ASSUME MailboxInv, NEW p \in PollState, Collecting(p),
           PollInv(p, messages, seq, clock), NEW t \in Nat, t <= clock
    PROVE  LET a == Answer(p, Page(p.key, p.cursor, t))
           IN  a \in PollState /\ PollInv(a, messages, seq, clock)
<1> DEFINE rows == Page(p.key, p.cursor, t)
           last == PageCursor(p.cursor, rows)
           a    == Answer(p, rows)
<1>1. p.key \in Keys /\ p.cursor \in Nat /\ p.cursor <= seq
      /\ \A m \in For(messages, p.key) : p.cursor < m.receivedAt
    BY DEF PollState, Idle, Collecting, PollInv
<1>2. /\ rows \subseteq Fresh(p.key, p.cursor, t)
      /\ \A m \in rows, x \in Fresh(p.key, p.cursor, t) \ rows : m.receivedAt < x.receivedAt
      /\ last \in Nat /\ last <= seq
      /\ \A m \in rows : m.receivedAt <= last
      /\ last = p.cursor \/ \E m \in rows : m.receivedAt = last
    BY <1>1, PageIs
<1>3. a = [stage |-> "answer", key |-> p.key, cursor |-> last, rows |-> rows]
    BY DEF Answer
<1> HIDE DEF rows, last
<1>4. rows \subseteq messages /\ messages \subseteq Row /\ clock \in Nat
      /\ \A m \in messages : m.receivedAt \in Nat
    BY <1>2, InvTypes DEF Fresh, For
<1>5. last \in 0 .. MaxSeq
    BY <1>2, MailboxAssumption DEF MailboxInv
<1>6. a \in PollState
    BY <1>1, <1>3, <1>4, <1>5 DEF PollState
<1>7. ASSUME NEW m \in For(messages, p.key), m.receivedAt <= last
      PROVE  m \in rows \/ Expired(m, clock)
  <2>1. m \in messages /\ m.receivedAt \in Nat /\ p.cursor < m.receivedAt
      BY <1>1, <1>4 DEF For
  <2>2. CASE Expired(m, t)
      BY <1>4, <2>1, <2>2, StaysExpired
  <2>3. CASE ~Expired(m, t)
    <3>1. m \in Fresh(p.key, p.cursor, t)
        BY <2>1, <2>3 DEF Fresh
    <3>2. PICK x \in rows : x.receivedAt = last
        BY <1>1, <1>2, <1>7, <2>1
    <3>3. m \in rows \/ x.receivedAt < m.receivedAt
        BY <1>2, <3>1
    <3>4. QED
        BY <1>2, <1>7, <2>1, <3>2, <3>3
  <2>4. QED
      BY <2>2, <2>3
<1>8. PollInv(a, messages, seq, clock)
    BY <1>2, <1>3, <1>7 DEF PollInv, Collecting
<1> HIDE DEF a
<1>9. QED
    BY <1>6, <1>8 DEF a, rows

-----------------------------------------------------------------------------
(* The actions *)

LEMMA InitMailbox == Init => MailboxInv
<1> SUFFICES ASSUME Init PROVE MailboxInv
    OBVIOUS
<1>1. clock = 1 /\ seq = 0 /\ messages = {}
    BY DEF Init
<1>2. Stored(messages, seq)
  <2>1. IsFiniteSet({}) /\ Cardinality({}) = 0
      BY FS_EmptySet
  <2>2. \A k : For({}, k) = {}
      BY DEF For
  <2>3. MaxPerRecipient \in Nat /\ MaxTotal \in Nat
      BY MailboxAssumption
  <2>4. \A k \in Keys : Cardinality(For({}, k)) <= MaxPerRecipient
      BY <2>1, <2>2, <2>3
  <2>5. QED
      BY <1>1, <2>1, <2>3, <2>4 DEF Stored
<1>3. polls \in [Handlers -> PollState] /\ \A h \in Handlers : polls[h] = Idle
    BY DEF Init, PollState
<1>4. \A h \in Handlers : PollInv(polls[h], messages, seq, clock)
    BY <1>3 DEF PollInv, Collecting, Idle
<1>5. cursor \in [Keys -> 0 .. MaxSeq] /\ \A k \in Keys : cursor[k] <= seq
    BY <1>1, MailboxAssumption DEF Init
<1>6. clock \in 1 .. MaxTime /\ seq \in 0 .. MaxSeq
    BY <1>1, MailboxAssumption
<1>7. taken \in [Keys -> SUBSET Row]
    BY DEF Init
<1>8. NothingSkipped
    BY <1>1 DEF NothingSkipped
<1>9. QED
    BY <1>2, <1>3, <1>4, <1>5, <1>6, <1>7, <1>8 DEF MailboxInv

\* What was sent is in the mailbox.
LEMMA SendGrows ==
    ASSUME MailboxInv, NEW batch \in Batches, NEW t \in 1 .. clock, SendMessages(batch, t)
    PROVE  Grew(messages, seq, messages', seq')
<1>1. Stored(messages, seq) /\ t \in Nat
      /\ batch \in Seq([toKey: Keys, blob: Blobs])
  <2>1. clock \in Nat /\ seq \in Nat /\ Stored(messages, seq)
      BY InvTypes DEF MailboxInv
  <2>2. t \in Nat
      BY <2>1
  <2> DEFINE M == [toKey: Keys, blob: Blobs]
  <2> HIDE DEF M
  <2>3. Batches \subseteq Seq(M)
      BY MailboxAssumption DEF M
  <2>4. batch \in Seq(M)
      BY <2>3
  <2>5. QED
      BY <2>1, <2>2, <2>4 DEF M
<1>2. QED
    BY <1>1, BatchGrows DEF SendMessages

\* New rows have numbers above every cursor and every poll.
LEMMA SendMailbox ==
    ASSUME MailboxInv, NEW batch \in Batches, NEW t \in 1 .. clock, SendMessages(batch, t)
    PROVE  MailboxInv'
<1>1. clock \in Nat /\ seq \in Nat
    BY InvTypes
<1>2. Grew(messages, seq, messages', seq') /\ seq' <= MaxSeq
      /\ UNCHANGED <<clock, polls, cursor, taken>>
    BY SendGrows DEF SendMessages
<1>3. /\ Stored(messages', seq') /\ seq <= seq'
      /\ \A m \in messages' \ messages : seq < m.receivedAt
    BY <1>2 DEF Grew
<1>4. seq' \in Nat /\ \A m \in messages' : m.receivedAt \in Nat /\ m.toKey \in Keys
    BY <1>3 DEF Stored, AnyRow
<1>5. seq' \in 0 .. MaxSeq
    BY <1>2, <1>4, MailboxAssumption
<1>6. ASSUME NEW h \in Handlers PROVE PollInv(polls[h], messages', seq', clock)
  <2>1. polls[h] \in PollState /\ PollInv(polls[h], messages, seq, clock)
      BY DEF MailboxInv
  <2>2. polls[h].stage # "idle" => polls[h].cursor \in Nat
      BY <2>1 DEF PollState, Idle
  <2>3. \A m \in For(messages', polls[h].key) :
           m \in For(messages, polls[h].key)
           \/ (seq < m.receivedAt /\ m.receivedAt \in Nat)
      BY <1>3, <1>4 DEF For
  <2> DEFINE p == polls[h]
  <2> HIDE DEF p
  <2>4. /\ PollInv(p, messages, seq, clock)
        /\ p.stage # "idle" => p.cursor \in Nat
        /\ \A m \in For(messages', p.key) :
              m \in For(messages, p.key) \/ (seq < m.receivedAt /\ m.receivedAt \in Nat)
      BY <2>1, <2>2, <2>3 DEF p
  <2>5. PollInv(p, messages', seq', clock)
      BY <1>1, <1>3, <1>4, <2>4 DEF PollInv, Collecting
  <2>6. QED
      BY <2>5 DEF p
<1>7. \A k \in Keys : cursor[k] \in Nat /\ cursor[k] <= seq
    BY MailboxAssumption DEF MailboxInv
<1>8. \A k \in Keys : cursor[k] <= seq'
    BY <1>1, <1>3, <1>4, <1>7
<1>9. NothingSkipped'
  <2>1. SUFFICES ASSUME NEW m \in messages', m.receivedAt <= cursor[m.toKey]
                 PROVE  m \in taken[m.toKey] \/ Expired(m, clock)
      BY <1>2 DEF NothingSkipped
  <2>2. m.receivedAt \in Nat /\ m.toKey \in Keys
      BY <1>4
  <2>3. m \in messages
      BY <1>1, <1>3, <1>7, <2>1, <2>2
  <2>4. QED
      BY <2>1, <2>3 DEF MailboxInv, NothingSkipped
<1>10. QED
    BY <1>2, <1>3, <1>5, <1>6, <1>8, <1>9 DEF MailboxInv

\* The ack leaves the recipient nothing up to the cursor the poll goes on with.
LEMMA BeginsMailbox ==
    ASSUME MailboxInv, NEW h \in Handlers, NEW k \in Pollers, PollBegins(h, k)
    PROVE  MailboxInv'
<1> DEFINE c == Clamped(cursor[k])
           p == [stage |-> "collect", key |-> k, at |-> clock, cursor |-> c]
<1>1. /\ messages' = messages \ Acked(k, c)
      /\ polls' = [polls EXCEPT ![h] = p]
      /\ UNCHANGED <<clock, seq, cursor, taken>>
    BY DEF PollBegins
<1>2. k \in Keys /\ cursor[k] \in 0 .. MaxSeq /\ cursor[k] <= seq
      /\ clock \in Nat /\ seq \in Nat /\ clock \in 0 .. MaxTime
    BY InvTypes, MailboxAssumption DEF MailboxInv
<1>3. c \in 0 .. MaxSeq /\ c <= seq
    BY <1>2, MailboxAssumption DEF Clamped, MinOf, MaxOf
<1> HIDE DEF c
<1>4. p \in PollState
    BY <1>2, <1>3 DEF PollState
<1>5. \A m \in For(messages', k) : c < m.receivedAt
  <2>1. \A m \in messages : m.receivedAt \in Nat
      BY InvTypes
  <2>2. QED
      BY <1>1, <1>3, <2>1 DEF For, Acked
<1>6. PollInv(p, messages', seq, clock)
    BY <1>2, <1>3, <1>5 DEF PollInv, Collecting
<1>7. \A x \in Keys : cursor[x] \in Nat /\ cursor[x] <= seq
    BY MailboxAssumption DEF MailboxInv
<1>8. messages' \subseteq messages
    BY <1>1
<1> HIDE DEF p
<1>9. NothingSkipped'
    BY <1>1, <1>2, <1>7, <1>8, SkipsNoMore
<1>10. /\ clock' \in 1 .. MaxTime /\ clock <= clock' /\ seq' = seq
       /\ cursor' \in [Keys -> 0 .. MaxSeq] /\ taken' \in [Keys -> SUBSET Row]
       /\ \A x \in Keys : cursor'[x] <= seq
       /\ PollInv(p, messages', seq, clock')
       /\ polls' = [polls EXCEPT ![h] = p]
    BY <1>1, <1>2, <1>6, <1>7 DEF MailboxInv
<1>11. QED
    BY <1>4, <1>8, <1>9, <1>10, OnePoll

\* The steps of a poll that move nothing but itself.
LEMMA MovesMailbox ==
    ASSUME MailboxInv, NEW h \in Handlers, NEW p \in PollState,
           PollInv(p, messages, seq, clock), polls' = [polls EXCEPT ![h] = p],
           UNCHANGED <<clock, seq, messages, cursor, taken>>
    PROVE  MailboxInv'
<1>1. clock \in Nat /\ \A x \in Keys : cursor[x] \in Nat /\ cursor[x] <= seq
    BY MailboxAssumption DEF MailboxInv
<1>2. NothingSkipped'
    BY <1>1, SkipsNoMore
<1>3. QED
    BY <1>1, <1>2, OnePoll DEF MailboxInv

LEMMA CollectsMailbox ==
    ASSUME MailboxInv, NEW h \in Handlers, PollCollects(h)
    PROVE  MailboxInv'
<1> DEFINE p    == polls[h]
           rows == Page(p.key, p.cursor, p.at)
           w    == [p EXCEPT !.stage = "wait", !.at = clock]
<1>1. p \in PollState /\ PollInv(p, messages, seq, clock) /\ p.stage = "collect"
      /\ clock \in 0 .. MaxTime /\ clock \in Nat
    BY DEF MailboxInv, PollCollects
<1>2. p \in [stage: {"collect", "wait", "recollect"}, key: Keys, at: 0 .. MaxTime,
            cursor: 0 .. MaxSeq]
    BY <1>1 DEF PollState, Idle
<1>3. Collecting(p) /\ p.at \in Nat /\ p.at <= clock
    BY <1>1, <1>2 DEF Collecting, PollInv
<1>4. /\ Answer(p, rows) \in PollState /\ PollInv(Answer(p, rows), messages, seq, clock)
    BY <1>1, <1>3, AnswerSkipsNothing
<1>5. /\ w \in PollState /\ w.stage = "wait" /\ w.at = clock
      /\ w.key = p.key /\ w.cursor = p.cursor
    BY <1>1, <1>2 DEF PollState
<1>6. PollInv(w, messages, seq, clock)
    BY <1>1, <1>3, <1>5 DEF PollInv, Collecting
<1>7. /\ \/ polls' = [polls EXCEPT ![h] = Answer(p, rows)]
         \/ polls' = [polls EXCEPT ![h] = w]
      /\ UNCHANGED <<clock, seq, messages, cursor, taken>>
    BY DEF PollCollects
<1> HIDE DEF w, rows
<1>8. QED
    BY <1>4, <1>5, <1>6, <1>7, MovesMailbox

LEMMA ServesMailbox ==
    ASSUME MailboxInv, NEW h \in Handlers,
           PollWakes(h) \/ PollTimesOut(h) \/ PollRecollects(h)
    PROVE  MailboxInv'
<1> DEFINE p == polls[h]
           w == [p EXCEPT !.stage = "recollect"]
<1>1. p \in PollState /\ PollInv(p, messages, seq, clock) /\ p.stage \in {"wait", "recollect"}
      /\ clock \in Nat
    BY DEF MailboxInv, PollWakes, PollTimesOut, PollRecollects
<1>2. p \in [stage: {"collect", "wait", "recollect"}, key: Keys, at: 0 .. MaxTime,
            cursor: 0 .. MaxSeq]
    BY <1>1 DEF PollState, Idle
<1>3. Collecting(p)
    BY <1>1 DEF Collecting
<1>4. CASE PollWakes(h) \/ PollTimesOut(h)
  <2>1. /\ w \in PollState /\ w.stage = "recollect" /\ w.at = p.at
        /\ w.key = p.key /\ w.cursor = p.cursor
      BY <1>2 DEF PollState
  <2>2. PollInv(w, messages, seq, clock)
      BY <1>1, <1>3, <2>1 DEF PollInv, Collecting
  <2>3. polls' = [polls EXCEPT ![h] = w] /\ UNCHANGED <<clock, seq, messages, cursor, taken>>
      BY <1>4 DEF PollWakes, PollTimesOut
  <2> HIDE DEF w
  <2>4. QED
      BY <2>1, <2>2, <2>3, MovesMailbox
<1>5. CASE PollRecollects(h)
  <2> DEFINE a == Answer(p, Page(p.key, p.cursor, clock))
  <2>1. a \in PollState /\ PollInv(a, messages, seq, clock)
      BY <1>1, <1>3, AnswerSkipsNothing
  <2>2. polls' = [polls EXCEPT ![h] = a] /\ UNCHANGED <<clock, seq, messages, cursor, taken>>
      BY <1>5 DEF PollRecollects
  <2> HIDE DEF a
  <2>3. QED
      BY <2>1, <2>2, MovesMailbox
<1>6. QED
    BY <1>4, <1>5

\* A page that is taken covers what its cursor passes over.
LEMMA ArrivesMailbox ==
    ASSUME MailboxInv, NEW h \in Handlers, PageArrives(h)
    PROVE  MailboxInv'
<1> DEFINE p == polls[h]
<1>1. /\ p.stage = "answer" /\ p \in PollState /\ PollInv(p, messages, seq, clock)
      /\ cursor' = [cursor EXCEPT ![p.key] = MaxOf(@, p.cursor)]
      /\ taken' = [taken EXCEPT ![p.key] = @ \cup p.rows]
      /\ polls' = [polls EXCEPT ![h] = Idle]
      /\ UNCHANGED <<clock, seq, messages>>
    BY DEF MailboxInv, PageArrives
<1>2. p.key \in Keys /\ p.cursor \in 0 .. MaxSeq /\ p.rows \in SUBSET Row /\ p.cursor <= seq
    BY <1>1 DEF PollState, Idle, PollInv
<1>3. /\ seq \in Nat /\ cursor \in [Keys -> 0 .. MaxSeq] /\ taken \in [Keys -> SUBSET Row]
      /\ \A k \in Keys : cursor[k] <= seq
    BY InvTypes DEF MailboxInv
<1> HIDE DEF p
<1>4. MaxOf(cursor[p.key], p.cursor) \in 0 .. MaxSeq /\ MaxOf(cursor[p.key], p.cursor) <= seq
    BY <1>2, <1>3 DEF MaxOf
<1>5. cursor' \in [Keys -> 0 .. MaxSeq] /\ taken' \in [Keys -> SUBSET Row]
    BY <1>1, <1>2, <1>3, <1>4
<1>6. \A k \in Keys : cursor'[k] <= seq
    BY <1>1, <1>3, <1>4
<1>7. NothingSkipped'
  <2>1. SUFFICES ASSUME NEW m \in messages, m.receivedAt <= cursor'[m.toKey]
                 PROVE  m \in taken'[m.toKey] \/ Expired(m, clock)
      BY <1>1 DEF NothingSkipped
  <2>2. m.toKey \in Keys /\ m.receivedAt \in Nat
      BY InvTypes
  <2>3. CASE m.receivedAt <= cursor[m.toKey]
    <3>1. m \in taken[m.toKey] \/ Expired(m, clock)
        BY <2>3 DEF MailboxInv, NothingSkipped
    <3>2. taken[m.toKey] \subseteq taken'[m.toKey]
        BY <1>1, <1>3, <2>2
    <3>3. QED
        BY <3>1, <3>2
  <2>4. CASE ~(m.receivedAt <= cursor[m.toKey])
    <3>1. m.toKey = p.key /\ m.receivedAt <= p.cursor
        BY <1>1, <1>2, <1>3, <2>1, <2>2, <2>4 DEF MaxOf
    <3>2. m \in p.rows \/ Expired(m, clock)
        BY <1>1, <3>1 DEF PollInv, For
    <3>3. taken'[m.toKey] = taken[m.toKey] \cup p.rows
        BY <1>1, <1>3, <2>2, <3>1
    <3>4. QED
        BY <3>2, <3>3
  <2>5. QED
      BY <2>3, <2>4
<1>8. /\ Idle \in PollState /\ PollInv(Idle, messages', seq, clock')
      /\ clock' \in 1 .. MaxTime /\ clock <= clock' /\ messages' \subseteq messages /\ seq' = seq
    BY <1>1 DEF PollState, Idle, PollInv, Collecting, MailboxInv
<1>9. QED
    BY <1>1, <1>5, <1>6, <1>7, <1>8, OnePoll

LEMMA LostMailbox ==
    ASSUME MailboxInv, NEW h \in Handlers, PageLost(h)
    PROVE  MailboxInv'
<1>1. Idle \in PollState /\ PollInv(Idle, messages, seq, clock)
    BY DEF PollState, Idle, PollInv, Collecting
<1>2. QED
    BY <1>1, MovesMailbox DEF PageLost

\* A relaunch only falls back.
LEMMA RelaunchMailbox ==
    ASSUME MailboxInv, NEW k \in Pollers, NEW c \in 0 .. MaxSeq, Relaunch(k, c)
    PROVE  MailboxInv'
<1>1. /\ c <= cursor[k] /\ cursor' = [cursor EXCEPT ![k] = c]
      /\ UNCHANGED <<clock, seq, messages, polls, taken>>
    BY DEF Relaunch, relayVars
<1>2. /\ k \in Keys /\ seq \in Nat /\ cursor \in [Keys -> 0 .. MaxSeq]
      /\ \A x \in Keys : cursor[x] <= seq
      /\ clock \in Nat
    BY InvTypes, MailboxAssumption DEF MailboxInv
<1>3. cursor' \in [Keys -> 0 .. MaxSeq]
    BY <1>1, <1>2
<1>4. \A x \in Keys : cursor'[x] \in Nat /\ cursor[x] \in Nat /\ cursor'[x] <= cursor[x]
    BY <1>1, <1>2, MailboxAssumption
<1>5. \A x \in Keys : cursor'[x] <= seq
    BY <1>2, <1>4
<1>6. NothingSkipped'
    BY <1>1, <1>2, <1>4, SkipsNoMore
<1>7. QED
    BY <1>1, <1>3, <1>5, <1>6 DEF MailboxInv

\* Time and the sweep.
LEMMA TimeMailbox ==
    ASSUME MailboxInv, Tick \/ Prune
    PROVE  MailboxInv'
<1>1. /\ clock' \in 1 .. MaxTime /\ clock <= clock' /\ messages' \subseteq messages
      /\ UNCHANGED <<seq, polls, cursor, taken>>
    BY MailboxAssumption DEF MailboxInv, Tick, Prune
<1>2. clock' \in Nat /\ \A x \in Keys : cursor[x] \in Nat /\ cursor[x] <= seq
    BY <1>1, MailboxAssumption DEF MailboxInv
<1>3. NothingSkipped'
    BY <1>1, <1>2, SkipsNoMore
<1>4. Stored(messages', seq')
    BY <1>1, StoredShrinks DEF MailboxInv
<1>5. \A h \in Handlers : PollInv(polls[h], messages', seq, clock')
    BY <1>1, <1>2, PollInvShrinks DEF MailboxInv
<1>6. QED
    BY <1>1, <1>3, <1>4, <1>5 DEF MailboxInv

LEMMA StepMailbox == MailboxInv /\ [Next]_vars => MailboxInv'
<1> SUFFICES ASSUME MailboxInv, [Next]_vars PROVE MailboxInv'
    OBVIOUS
<1>1. ASSUME NEW batch \in Batches, NEW t \in 1 .. clock, SendMessages(batch, t)
      PROVE  MailboxInv'
    BY <1>1, SendMailbox
<1>2. ASSUME NEW h \in Handlers, NEW k \in Pollers, PollBegins(h, k)
      PROVE  MailboxInv'
    BY <1>2, BeginsMailbox
<1>3. ASSUME NEW h \in Handlers, Serve(h)
      PROVE  MailboxInv'
    BY <1>3, CollectsMailbox, ServesMailbox DEF Serve
<1>4. ASSUME NEW h \in Handlers, PageArrives(h) \/ PageLost(h)
      PROVE  MailboxInv'
    BY <1>4, ArrivesMailbox, LostMailbox
<1>5. ASSUME NEW k \in Pollers, NEW c \in 0 .. MaxSeq, Relaunch(k, c)
      PROVE  MailboxInv'
    BY <1>5, RelaunchMailbox
<1>6. CASE Tick \/ Prune
    BY <1>6, TimeMailbox
<1>7. CASE UNCHANGED vars
    BY <1>7 DEF vars, MailboxInv, NothingSkipped
<1>8. QED
    BY <1>1, <1>2, <1>3, <1>4, <1>5, <1>6, <1>7 DEF Next

-----------------------------------------------------------------------------
(* Theorems *)

\* What the others follow from: the mailbox is ordered and within its ceilings, and
\* neither a cursor nor a poll under way has passed over a row that is still needed.
THEOREM MailboxInvariant == Spec => []MailboxInv
BY InitMailbox, StepMailbox, PTL DEF Spec

\* Every variable keeps its type, whatever is sent, polled, lost or relaunched.
THEOREM MailboxTyped == Spec => []TypeOK
<1>1. MailboxInv => TypeOK
  <2> SUFFICES ASSUME MailboxInv PROVE TypeOK
      OBVIOUS
  <2>1. clock \in 0 .. MaxTime
      BY MailboxAssumption DEF MailboxInv
  <2>2. QED
      BY <2>1, InvTypes DEF MailboxInv, TypeOK
<1>2. QED
    BY <1>1, MailboxInvariant, PTL

\* appendMessage numbers every row anew and stores a ciphertext for its recipient once:
\* with handlers that read their clock long before they commit, and batches of any length.
THEOREM RowsStayDistinct == Spec => []RowsAreDistinct
<1>1. MailboxInv => RowsAreDistinct
    BY DEF MailboxInv, Stored, RowsAreDistinct
<1>2. QED
    BY <1>1, MailboxInvariant, PTL

\* No row below a cursor was passed over: overlapping polls, lost pages and relaunches
\* leave no cursor above a row that its client has not taken, unless the row expired.
THEOREM CursorsSkipNothing == Spec => []NothingSkipped
<1>1. MailboxInv => NothingSkipped
    BY DEF MailboxInv
<1>2. QED
    BY <1>1, MailboxInvariant, PTL

\* Whatever is appended, the mailbox stays within both ceilings of appendMessage.
THEOREM MailboxStaysCapped == Spec => []Capped
<1>1. MailboxInv => Capped
    BY DEF MailboxInv, Stored, Capped, RecipientCapped, TotalCapped
<1>2. QED
    BY <1>1, MailboxInvariant, PTL

-----------------------------------------------------------------------------
(* The mailbox keeps the promise of Mail *)

\* Offered, of any state of the polls.
OfferedBy(q, k) ==
    UNION {q[h].rows : h \in {x \in Handlers : q[x].stage = "answer" /\ q[x].key = k}}

Offers(q) == [k \in Keys |-> OfferedBy(q, k)]

AbstractStep == [Promised!Next]_(Promised!vars)

\* The pages on their way to k are the ones it is offered.
LEMMA IsOffered ==
    ASSUME NEW q, NEW k, NEW m
    PROVE  m \in OfferedBy(q, k) <=>
              \E h \in Handlers : q[h].stage = "answer" /\ q[h].key = k /\ m \in q[h].rows
BY DEF OfferedBy

\* Moving a poll that is and was no page on its way offers nothing and withdraws nothing.
LEMMA OffersStay ==
    ASSUME NEW q \in [Handlers -> PollState], NEW h \in Handlers, NEW p,
           q[h].stage # "answer", p.stage # "answer"
    PROVE  Offers([q EXCEPT ![h] = p]) = Offers(q)
<1> DEFINE r == [q EXCEPT ![h] = p]
<1>1. r[h] = p /\ \A x \in Handlers : x # h => r[x] = q[x]
    OBVIOUS
<1> HIDE DEF r
<1>2. ASSUME NEW k, NEW m
      PROVE  m \in OfferedBy(r, k) <=> m \in OfferedBy(q, k)
    BY <1>1, IsOffered
<1>3. \A k : OfferedBy(r, k) = OfferedBy(q, k)
    BY <1>2
<1>4. Offers(r) = Offers(q)
    BY <1>3 DEF Offers
<1>5. QED
    BY <1>4 DEF r

\* A poll answered offers its page.
LEMMA OffersGrow ==
    ASSUME NEW q \in [Handlers -> PollState], NEW h \in Handlers, NEW p,
           q[h].stage # "answer", p.stage = "answer", p.key \in Keys
    PROVE  Offers([q EXCEPT ![h] = p]) = [Offers(q) EXCEPT ![p.key] = @ \cup p.rows]
<1> DEFINE r == [q EXCEPT ![h] = p]
<1>1. r[h] = p /\ \A x \in Handlers : x # h => r[x] = q[x]
    OBVIOUS
<1> HIDE DEF r
<1>2. ASSUME NEW k, NEW m
      PROVE  m \in OfferedBy(r, k) <=> m \in OfferedBy(q, k) \/ (k = p.key /\ m \in p.rows)
    BY <1>1, IsOffered
<1>3. OfferedBy(r, p.key) = OfferedBy(q, p.key) \cup p.rows
    BY <1>2
<1>4. ASSUME NEW k, k # p.key PROVE OfferedBy(r, k) = OfferedBy(q, k)
    BY <1>2, <1>4
<1>5. Offers(r) = [Offers(q) EXCEPT ![p.key] = @ \cup p.rows]
    BY <1>3, <1>4 DEF Offers
<1>6. QED
    BY <1>5 DEF r

\* A page that arrives or is lost was offered, and leaves other offers alone.
LEMMA OffersShrink ==
    ASSUME NEW q \in [Handlers -> PollState], NEW h \in Handlers,
           q[h].stage = "answer", q[h].key \in Keys
    PROVE  \E left \in SUBSET Offers(q)[q[h].key] :
              /\ q[h].rows \subseteq Offers(q)[q[h].key]
              /\ Offers([q EXCEPT ![h] = Idle]) = [Offers(q) EXCEPT ![q[h].key] = left]
<1> DEFINE p == q[h]
           r == [q EXCEPT ![h] = Idle]
<1>1. /\ p = q[h] /\ p.stage = "answer" /\ p.key \in Keys
      /\ r[h].stage # "answer" /\ \A x \in Handlers : x # h => r[x] = q[x]
    BY DEF Idle
<1> HIDE DEF r, p
<1>2. ASSUME NEW k, NEW m
      PROVE  /\ m \in OfferedBy(r, k) => m \in OfferedBy(q, k)
             /\ k # p.key => (m \in OfferedBy(q, k) => m \in OfferedBy(r, k))
    BY <1>1, IsOffered
<1>3. ASSUME NEW k, k # p.key PROVE OfferedBy(r, k) = OfferedBy(q, k)
  <2>1. \A m : m \in OfferedBy(r, k) <=> m \in OfferedBy(q, k)
      BY <1>2, <1>3
  <2>2. QED
      BY <2>1
<1>4. OfferedBy(r, p.key) \in SUBSET OfferedBy(q, p.key)
    BY <1>2
<1>5. p.rows \subseteq OfferedBy(q, p.key)
    BY <1>1, IsOffered
<1>6. Offers(r) = [Offers(q) EXCEPT ![p.key] = OfferedBy(r, p.key)]
    BY <1>3 DEF Offers
<1>7. Offers(q)[p.key] = OfferedBy(q, p.key)
    BY <1>1 DEF Offers
<1>8. QED
    BY <1>4, <1>5, <1>6, <1>7 DEF r, p

\* The mapping, spelt out.
LEMMA Mapping ==
    /\ [k \in Keys |-> Offered(k)] = Offers(polls)
    /\ [k \in Keys |-> Offered(k)]' = Offers(polls')
BY DEF Offered, Offers, OfferedBy

\* The mailbox begins as promised.
LEMMA InitPromise == Init => Promised!Init
<1> SUFFICES ASSUME Init PROVE Promised!Init
    OBVIOUS
<1>1. \A h \in Handlers : polls[h].stage # "answer"
    BY DEF Init, Idle
<1>2. \A k \in Keys : Offered(k) = {}
    BY <1>1 DEF Offered
<1>3. QED
    BY <1>2 DEF Init, Promised!Init

\* Mail counts as the mailbox does.
LEMMA SameCount == \A S : Promised!Cardinality(S) = Cardinality(S)
BY DEF Promised!Cardinality, Cardinality

\* A batch is a post.
LEMMA SendPromise ==
    ASSUME MailboxInv, NEW batch \in Batches, NEW t \in 1 .. clock, SendMessages(batch, t),
           Grew(messages, seq, messages', seq')
    PROVE  AbstractStep
<1>1. UNCHANGED <<clock, polls, cursor, taken>>
    BY DEF SendMessages
<1>2. /\ Stored(messages', seq')
      /\ \A m \in messages' \ messages : seq < m.receivedAt
      /\ \A d \in messages \ messages' : \A x \in For(messages', d.toKey) :
            d.receivedAt < x.receivedAt
      /\ \A d \in messages \ messages' :
            \/ Cardinality(For(messages', d.toKey)) >= MaxPerRecipient
            \/ Cardinality(messages') > MaxTotal
    BY DEF Grew
<1>3. /\ \A m \in messages' : m.receivedAt <= seq'
      /\ \A m, x \in messages' : m # x =>
            m.receivedAt # x.receivedAt /\ <<m.toKey, m.blob>> # <<x.toKey, x.blob>>
    BY <1>2 DEF Stored
<1>4. [k \in Keys |-> Offered(k)]' = [k \in Keys |-> Offered(k)]
    BY <1>1, Mapping
<1>5. Promised!Post
    BY <1>1, <1>2, <1>3, <1>4, SameCount DEF Promised!Post, Promised!For, For
<1>6. QED
    BY <1>5 DEF AbstractStep, Promised!Next

\* What a poll acks or the sweep drops was taken or is too old.
LEMMA ForgetPromise ==
    ASSUME NEW gone \in SUBSET messages, messages' = messages \ gone,
           \A m \in gone : m \in taken[m.toKey] \/ Expired(m, clock),
           UNCHANGED <<clock, seq, taken>>, Offers(polls') = Offers(polls)
    PROVE  AbstractStep
<1>1. [k \in Keys |-> Offered(k)]' = [k \in Keys |-> Offered(k)]
    BY Mapping
<1>2. Promised!Forget(gone)
    BY <1>1 DEF Promised!Forget, Promised!TooOld, Expired
<1>3. QED
    BY <1>2 DEF AbstractStep, Promised!Next

\* A step that neither offers nor moves a row.
LEMMA StutterPromise ==
    ASSUME UNCHANGED <<clock, seq, messages, taken>>, Offers(polls') = Offers(polls)
    PROVE  AbstractStep
<1>1. [k \in Keys |-> Offered(k)]' = [k \in Keys |-> Offered(k)]
    BY Mapping
<1>2. QED
    BY <1>1 DEF AbstractStep, Promised!vars

\* A page is an offer, with all older rows that are not too old.
LEMMA OfferPromise ==
    ASSUME MailboxInv, NEW h \in Handlers, Collecting(polls[h]), NEW t \in Nat, t <= clock,
           polls' = [polls EXCEPT ![h] = Answer(polls[h], Page(polls[h].key, polls[h].cursor, t))],
           UNCHANGED <<clock, seq, messages, taken>>
    PROVE  AbstractStep
<1> DEFINE p    == polls[h]
           page == Page(p.key, p.cursor, t)
           a    == Answer(p, page)
<1>1. p \in PollState /\ PollInv(p, messages, seq, clock) /\ Collecting(p)
      /\ polls \in [Handlers -> PollState] /\ polls' = [polls EXCEPT ![h] = a]
    BY DEF MailboxInv
<1>2. p.key \in Keys /\ p.cursor \in Nat /\ p.cursor <= seq /\ p.stage # "answer"
      /\ \A m \in For(messages, p.key) : p.cursor < m.receivedAt
    BY <1>1 DEF PollState, Idle, Collecting, PollInv
<1> HIDE DEF p
<1>3. /\ page \subseteq Fresh(p.key, p.cursor, t)
      /\ \A m \in page, x \in Fresh(p.key, p.cursor, t) \ page : m.receivedAt < x.receivedAt
    BY <1>2, PageIs
<1>4. a.stage = "answer" /\ a.key = p.key /\ a.rows = page
    BY DEF Answer
<1> HIDE DEF a, page
<1>5. Offers(polls') = [Offers(polls) EXCEPT ![p.key] = @ \cup page]
  <2>1. polls[h].stage # "answer"
      BY <1>2 DEF p
  <2>2. Offers(polls') = [Offers(polls) EXCEPT ![a.key] = @ \cup a.rows]
    <3>1. polls \in [Handlers -> PollState] /\ a.key \in Keys /\ a.stage = "answer"
        BY <1>1, <1>2, <1>4
    <3>2. Offers([polls EXCEPT ![h] = a]) = [Offers(polls) EXCEPT ![a.key] = @ \cup a.rows]
        BY <2>1, <3>1, OffersGrow
    <3>3. QED
        BY <1>1, <3>2
  <2>3. QED
      BY <1>4, <2>2
<1>6. page \in SUBSET For(messages, p.key)
    BY <1>3 DEF Fresh
<1>7. ASSUME NEW m \in page, NEW x \in For(messages, p.key) \ page
      PROVE  m.receivedAt < x.receivedAt \/ Expired(x, clock)
  <2>1. x \in messages /\ x.receivedAt \in Nat /\ clock \in Nat /\ p.cursor < x.receivedAt
      BY <1>2, InvTypes DEF For
  <2>2. CASE Expired(x, t)
      BY <2>1, <2>2, StaysExpired
  <2>3. CASE ~Expired(x, t)
    <3>1. x \in Fresh(p.key, p.cursor, t)
        BY <2>1, <2>3 DEF Fresh
    <3>2. QED
        BY <1>3, <3>1
  <2>4. QED
      BY <2>2, <2>3
<1>8. [k \in Keys |-> Offered(k)]' =
         [[k \in Keys |-> Offered(k)] EXCEPT ![p.key] = @ \cup page]
    BY <1>5, Mapping
<1>9. Promised!Offer(p.key, page)
    BY <1>7, <1>8 DEF Promised!Offer, Promised!For, Promised!TooOld, For, Expired
<1>10. page \in SUBSET Promised!For(p.key)
    BY <1>6 DEF Promised!For, For
<1>11. QED
    BY <1>2, <1>9, <1>10 DEF AbstractStep, Promised!Next

\* A poll that begins forgets what it acks.
LEMMA BeginsPromise ==
    ASSUME MailboxInv, NEW h \in Handlers, NEW k \in Pollers, PollBegins(h, k)
    PROVE  AbstractStep
<1> DEFINE c    == Clamped(cursor[k])
           gone == Acked(k, c)
           p    == [stage |-> "collect", key |-> k, at |-> clock, cursor |-> c]
<1>1. /\ polls[h] = Idle /\ messages' = messages \ gone
      /\ polls' = [polls EXCEPT ![h] = p]
      /\ UNCHANGED <<clock, seq, cursor, taken>>
    BY DEF PollBegins
<1>2. k \in Keys /\ cursor[k] \in Nat /\ clock \in Nat /\ seq \in Nat
    BY InvTypes, MailboxAssumption DEF MailboxInv
<1>3. c \in Nat /\ c <= cursor[k]
    BY <1>2 DEF Clamped, MinOf, MaxOf
<1>4. ASSUME NEW m \in gone PROVE m \in taken[m.toKey] \/ Expired(m, clock)
  <2>1. m \in messages /\ m.toKey = k /\ m.receivedAt <= c /\ m.receivedAt \in Nat
      BY InvTypes DEF Acked, For
  <2>2. m.receivedAt <= cursor[m.toKey]
      BY <1>2, <1>3, <2>1
  <2>3. QED
      BY <2>1, <2>2 DEF MailboxInv, NothingSkipped
<1>5. gone \in SUBSET messages
    BY DEF Acked, For
<1>6. polls \in [Handlers -> PollState] /\ polls[h].stage # "answer" /\ p.stage # "answer"
    BY <1>1 DEF MailboxInv, Idle
<1> HIDE DEF p, gone
<1>7. Offers(polls') = Offers(polls)
    BY <1>1, <1>6, OffersStay
<1>8. QED
    BY <1>1, <1>4, <1>5, <1>7, ForgetPromise

\* Collecting offers a page, or nothing.
LEMMA ServesPromise ==
    ASSUME MailboxInv, NEW h \in Handlers, Serve(h)
    PROVE  AbstractStep
<1> DEFINE p == polls[h]
<1>1. /\ p \in PollState /\ PollInv(p, messages, seq, clock)
      /\ polls \in [Handlers -> PollState] /\ clock \in Nat
      /\ UNCHANGED <<clock, seq, messages, taken>>
    BY DEF MailboxInv, Serve, PollCollects, PollWakes, PollTimesOut, PollRecollects
<1>2. Collecting(p) /\ p.stage # "answer"
    BY DEF Serve, PollCollects, PollWakes, PollTimesOut, PollRecollects, Collecting
<1>3. p.at \in Nat /\ p.at <= clock
      /\ p \in [stage: {"collect", "wait", "recollect"}, key: Keys, at: 0 .. MaxTime,
                cursor: 0 .. MaxSeq]
    BY <1>1, <1>2 DEF PollState, Idle, Collecting, PollInv
<1>4. ASSUME NEW w, w.stage # "answer", polls' = [polls EXCEPT ![h] = w]
      PROVE  AbstractStep
  <2>1. Offers(polls') = Offers(polls)
      BY <1>1, <1>2, <1>4, OffersStay
  <2>2. QED
      BY <1>1, <2>1, StutterPromise
<1>5. ASSUME NEW t \in Nat, t <= clock,
             polls' = [polls EXCEPT ![h] = Answer(p, Page(p.key, p.cursor, t))]
      PROVE  AbstractStep
    BY <1>1, <1>2, <1>5, OfferPromise
<1>6. CASE PollCollects(h)
  <2> DEFINE w == [p EXCEPT !.stage = "wait", !.at = clock]
  <2>1. \/ polls' = [polls EXCEPT ![h] = Answer(p, Page(p.key, p.cursor, p.at))]
        \/ polls' = [polls EXCEPT ![h] = w]
      BY <1>6 DEF PollCollects
  <2>2. w.stage # "answer"
      BY <1>3
  <2> HIDE DEF w
  <2>3. CASE polls' = [polls EXCEPT ![h] = w]
      BY <1>4, <2>2, <2>3
  <2>4. QED
      BY <1>3, <1>5, <2>1, <2>3
<1>7. CASE PollWakes(h) \/ PollTimesOut(h)
  <2> DEFINE w == [p EXCEPT !.stage = "recollect"]
  <2>1. polls' = [polls EXCEPT ![h] = w]
      BY <1>7 DEF PollWakes, PollTimesOut
  <2>2. w.stage # "answer"
      BY <1>3
  <2> HIDE DEF w
  <2>3. QED
      BY <1>4, <2>1, <2>2
<1>8. CASE PollRecollects(h)
  <2>1. polls' = [polls EXCEPT ![h] = Answer(p, Page(p.key, p.cursor, clock))]
      BY <1>8 DEF PollRecollects
  <2>2. clock \in Nat /\ clock <= clock
      BY <1>1
  <2>3. QED
      BY <1>5, <2>1, <2>2
<1>9. QED
    BY <1>6, <1>7, <1>8 DEF Serve

\* A page that arrives is taken; one that is lost is withdrawn.
LEMMA ArrivesPromise ==
    ASSUME MailboxInv, NEW h \in Handlers, PageArrives(h) \/ PageLost(h)
    PROVE  AbstractStep
<1> DEFINE p == polls[h]
<1>1. /\ p.stage = "answer" /\ p \in PollState /\ polls \in [Handlers -> PollState]
      /\ polls' = [polls EXCEPT ![h] = Idle]
      /\ UNCHANGED <<clock, seq, messages>>
    BY DEF MailboxInv, PageArrives, PageLost
<1>2. p.key \in Keys
    BY <1>1 DEF PollState, Idle
<1>3. PICK left \in SUBSET Offers(polls)[p.key] :
         /\ p.rows \subseteq Offers(polls)[p.key]
         /\ Offers(polls') = [Offers(polls) EXCEPT ![p.key] = left]
    BY <1>1, <1>2, OffersShrink
<1>4. /\ left \in SUBSET [k \in Keys |-> Offered(k)][p.key]
      /\ p.rows \in SUBSET [k \in Keys |-> Offered(k)][p.key]
      /\ [k \in Keys |-> Offered(k)]' = [[k \in Keys |-> Offered(k)] EXCEPT ![p.key] = left]
    BY <1>3, Mapping
<1>5. CASE PageArrives(h)
  <2>1. taken' = [taken EXCEPT ![p.key] = @ \cup p.rows]
      BY <1>5 DEF PageArrives
  <2>2. Promised!Take(p.key, p.rows, left)
      BY <1>1, <1>4, <2>1 DEF Promised!Take
  <2>3. QED
      BY <1>2, <1>4, <2>2 DEF AbstractStep, Promised!Next
<1>6. CASE PageLost(h)
  <2>1. taken' = taken
      BY <1>6 DEF PageLost
  <2>2. Promised!Lose(p.key, left)
      BY <1>1, <1>4, <2>1 DEF Promised!Lose
  <2>3. QED
      BY <1>2, <1>4, <2>2 DEF AbstractStep, Promised!Next
<1>7. QED
    BY <1>5, <1>6

LEMMA StepPromise == MailboxInv /\ [Next]_vars => AbstractStep
<1> SUFFICES ASSUME MailboxInv, [Next]_vars PROVE AbstractStep
    OBVIOUS
<1>1. ASSUME NEW batch \in Batches, NEW t \in 1 .. clock, SendMessages(batch, t)
      PROVE  AbstractStep
    BY <1>1, SendGrows, SendPromise
<1>2. ASSUME NEW h \in Handlers, NEW k \in Pollers, PollBegins(h, k)
      PROVE  AbstractStep
    BY <1>2, BeginsPromise
<1>3. ASSUME NEW h \in Handlers, Serve(h)
      PROVE  AbstractStep
    BY <1>3, ServesPromise
<1>4. ASSUME NEW h \in Handlers, PageArrives(h) \/ PageLost(h)
      PROVE  AbstractStep
    BY <1>4, ArrivesPromise
<1>5. ASSUME NEW k \in Pollers, NEW c \in 0 .. MaxSeq, Relaunch(k, c)
      PROVE  AbstractStep
    BY <1>5, StutterPromise DEF Relaunch, relayVars
<1>6. CASE Tick
  <2>1. [k \in Keys |-> Offered(k)]' = [k \in Keys |-> Offered(k)]
      BY <1>6, Mapping DEF Tick
  <2>2. Promised!Passes
      BY <1>6, <2>1 DEF Tick, Promised!Passes
  <2>3. QED
      BY <2>2 DEF AbstractStep, Promised!Next
<1>7. CASE Prune
  <2> DEFINE gone == {m \in messages : Expired(m, clock)}
  <2>1. gone \in SUBSET messages
      OBVIOUS
  <2>2. \A m \in gone : m \in taken[m.toKey] \/ Expired(m, clock)
      OBVIOUS
  <2>3. messages' = messages \ gone /\ UNCHANGED <<clock, seq, polls, taken>>
      BY <1>7 DEF Prune
  <2> HIDE DEF gone
  <2>4. Offers(polls') = Offers(polls)
      BY <2>3
  <2>5. QED
      BY <2>1, <2>2, <2>3, <2>4, ForgetPromise
<1>8. CASE UNCHANGED vars
  <2>1. UNCHANGED <<clock, seq, messages, taken>> /\ Offers(polls') = Offers(polls)
      BY <1>8 DEF vars
  <2>2. QED
      BY <2>1, StutterPromise
<1>9. QED
    BY <1>1, <1>2, <1>3, <1>4, <1>5, <1>6, <1>7, <1>8 DEF Next

\* The relay's cursors and acks do what Mail promises without them: a row that waits is
\* given up only when its recipient has taken it, when it is too old, or when newer rows
\* displace it, oldest first, in a full mailbox; and pages come oldest first.
THEOREM MailboxKeepsPromise == Spec => KeepsPromise
<1>1. Init => Promised!Init
    BY InitPromise
<1>2. MailboxInv /\ [Next]_vars => [Promised!Next]_(Promised!vars)
    BY StepPromise DEF AbstractStep
<1>3. Spec => []MailboxInv
    BY MailboxInvariant
<1>4. QED
    BY <1>1, <1>2, <1>3, PTL DEF Spec, KeepsPromise, Promised!Spec
=============================================================================
