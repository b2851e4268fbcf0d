-------------------------- MODULE ClientInboxProofs --------------------------
(***************************************************************************)
(* Proofs about ClientInbox, for every number of peers and own texts,      *)
(* mail of any length and any limits: conversations stay in order, the     *)
(* dedup sets cover them, and acks may come in any order.                  *)
(***************************************************************************)
EXTENDS ClientInbox, FiniteSetTheorems, SequenceTheorems, WellFoundedInduction, TLAPS

-----------------------------------------------------------------------------
(* Numbers *)

\* A set of natural numbers has a least element.
LEMMA LeastNumber ==
    ASSUME NEW S \in SUBSET Nat, S # {}
    PROVE  \E n \in S : \A m \in S : n <= m
<1>1. IsWellFoundedOn(OpToRel(<, Nat), Nat)
    BY NatLessThanWellFounded
<1>2. PICK n \in S : \A m \in S : ~(<<m, n>> \in OpToRel(<, Nat))
    BY <1>1, WFMin, Zenon
<1>3. ASSUME NEW m \in S PROVE n <= m
  <2>1. <<m, n>> \notin OpToRel(<, Nat)
      BY <1>2
  <2>2. ~(m < n)
      BY <2>1 DEF OpToRel
  <2>3. QED
      BY <2>2
<1>4. QED
    BY <1>3

\* Induction up to n, on the set of the numbers for which a claim holds.
LEMMA UpToInduction ==
    ASSUME NEW n \in Nat, NEW G \in SUBSET (0 .. n), 0 \in G,
           \A i \in 1 .. n : i - 1 \in G => i \in G
    PROVE  G = 0 .. n
<1>1. SUFFICES ASSUME (0 .. n) \ G # {} PROVE FALSE
    OBVIOUS
<1>2. (0 .. n) \ G \in SUBSET Nat
    OBVIOUS
<1>3. PICK i \in (0 .. n) \ G : \A m \in (0 .. n) \ G : i <= m
    BY <1>1, <1>2, LeastNumber
<1>4. i \in 1 .. n /\ i - 1 \in 0 .. n
    BY <1>3
<1>5. i - 1 \in G
    BY <1>3, <1>4
<1>6. QED
    BY <1>3, <1>4, <1>5

-----------------------------------------------------------------------------
(* Partial functions of the peers *)

Maps(S) == UNION {[D -> S] : D \in SUBSET Peers}

LEMMA MapIs ==
    ASSUME NEW S, NEW f \in Maps(S)
    PROVE  /\ DOMAIN f \subseteq Peers
           /\ f = [x \in DOMAIN f |-> f[x]]
           /\ \A p \in DOMAIN f : f[p] \in S
BY DEF Maps

LEMMA IsMap ==
    ASSUME NEW S, NEW f, DOMAIN f \subseteq Peers, f = [x \in DOMAIN f |-> f[x]],
           \A p \in DOMAIN f : f[p] \in S
    PROVE  f \in Maps(S)
<1>1. f \in [DOMAIN f -> S]
  OBVIOUS
<1> QED BY <1>1 DEF Maps

LEMMA NothingIsMap ==
    ASSUME NEW S
    PROVE  Nothing \in Maps(S) /\ DOMAIN Nothing = {}
<1>1. Nothing \in [{} -> S] /\ DOMAIN Nothing = {}
  BY DEF Nothing
<1> QED BY <1>1 DEF Maps

LEMMA WithIsMap ==
    ASSUME NEW S, NEW f \in Maps(S), NEW p \in Peers, NEW v \in S
    PROVE  With(f, p, v) \in Maps(S)
<1>1. DOMAIN f \subseteq Peers /\ \A x \in DOMAIN f : f[x] \in S
  BY MapIs
<1>2. With(f, p, v) \in [DOMAIN f \cup {p} -> S]
  BY <1>1 DEF With
<1>3. DOMAIN f \cup {p} \in SUBSET Peers
  BY <1>1
<1> QED BY <1>2, <1>3 DEF Maps

LEMMA WithoutIsMap ==
    ASSUME NEW S, NEW f \in Maps(S), NEW p
    PROVE  Without(f, p) \in Maps(S)
<1>1. DOMAIN f \subseteq Peers /\ \A x \in DOMAIN f : f[x] \in S
  BY MapIs
<1>2. Without(f, p) \in [DOMAIN f \ {p} -> S]
  BY <1>1 DEF Without
<1>3. DOMAIN f \ {p} \in SUBSET Peers
  BY <1>1
<1> QED BY <1>2, <1>3 DEF Maps

LEMMA MaybeIn ==
    ASSUME NEW S, NEW f \in Maps(S), NEW p, NEW v \in S
    PROVE  Maybe(f, p, v) \in S
BY MapIs DEF Maybe

LEMMA MapsGrow ==
    ASSUME NEW S, NEW T, S \subseteq T, NEW f \in Maps(S)
    PROVE  f \in Maps(T)
<1>1. /\ DOMAIN f \subseteq Peers
      /\ f = [x \in DOMAIN f |-> f[x]]
      /\ \A p \in DOMAIN f : f[p] \in T
  BY MapIs
<1> QED BY <1>1, IsMap

-----------------------------------------------------------------------------
(* Conversations *)

Ids == PeerIds \cup OwnIds

\* An outgoing message has an id we drew, any other the id a peer put in a text.
Honest(m, d) == IF m.outgoing THEN m.id \in OwnIds \cap d ELSE m.id \in PeerIds

\* The conversations there can be once the ids d are drawn.
Convos(d) == {c \in Seq(Message) : InOrder(c) /\ \A i \in DOMAIN c : Honest(c[i], d)}

LEMMA ConvoIs ==
    ASSUME NEW d, NEW c \in Convos(d)
    PROVE  /\ c \in Seq(Message) /\ Len(c) \in Nat /\ DOMAIN c = 1 .. Len(c)
           /\ Len(c) <= MaxMessages
           /\ \A i \in 1 .. Len(c) : c[i] \in Message /\ c[i].ts \in Nat /\ Honest(c[i], d)
           /\ \A i, j \in 1 .. Len(c) : i < j => c[i].ts <= c[j].ts /\ Apart(c[i], c[j])
<1>1. c \in Seq(Message) /\ InOrder(c) /\ \A i \in DOMAIN c : Honest(c[i], d)
  BY DEF Convos
<1>2. Len(c) \in Nat /\ DOMAIN c = 1 .. Len(c) /\ \A i \in 1 .. Len(c) : c[i] \in Message
  BY <1>1, LenProperties, ElementOfSeq
<1>3. \A i \in 1 .. Len(c) : c[i].ts \in Nat
  BY <1>2 DEF Message
<1> QED BY <1>1, <1>2, <1>3 DEF InOrder

\* The same of a list that need not fit.
Listed(c, d) ==
    /\ c \in Seq(Message)
    /\ \A i \in 1 .. Len(c) : c[i].ts \in Nat /\ Honest(c[i], d)
    /\ \A i, j \in 1 .. Len(c) : i < j => c[i].ts <= c[j].ts /\ Apart(c[i], c[j])

\* The message m is not in the conversation c.
Novel(c, m) == \A x \in ToSet(c) : Apart(x, m)

LEMMA ConvosGrow ==
    ASSUME NEW d, NEW e, d \subseteq e
    PROVE  Convos(d) \subseteq Convos(e)
BY DEF Convos, Honest

LEMMA EmptyConvo ==
    ASSUME NEW d
    PROVE  <<>> \in Convos(d) /\ ToSet(<<>>) = {} /\ IdsOf(<<>>) = {}
<1>1. InOrder(<<>>)
  BY InboxAssumption DEF InOrder
<1>2. ToSet(<<>>) = {}
  BY DEF ToSet
<1> QED BY <1>1, <1>2 DEF Convos, IdsOf

\* What trimming does: a conversation again, of the newest.
LEMMA TrimIsConvo ==
    ASSUME NEW d, NEW c, Listed(c, d)
    PROVE  /\ TrimHistory(c) \in Convos(d)
           /\ ToSet(TrimHistory(c)) \subseteq ToSet(c)
<1> DEFINE k == IF Len(c) > MaxMessages THEN Len(c) - MaxMessages ELSE 0
           t == TrimHistory(c)
<1>1. Len(c) \in Nat /\ MaxMessages \in Nat /\ k \in Nat /\ k <= Len(c)
  BY InboxAssumption, LenProperties DEF Listed
<1>2. t = SubSeq(c, k + 1, Len(c))
  BY DEF TrimHistory
<1>3. c \in Seq(Message)
  BY DEF Listed
<1>4. Len(c) - k <= MaxMessages
  BY <1>1
<1> HIDE DEF k, t
<1>5. /\ t \in Seq(Message) /\ Len(t) = Len(c) - k
      /\ \A i \in 1 .. Len(c) - k : t[i] = c[k + i]
  BY <1>1, <1>2, <1>3, SubSeqProperties
<1>6. DOMAIN t = 1 .. Len(c) - k
  BY <1>5, LenProperties
<1>7. \A i \in 1 .. Len(c) - k : k + i \in 1 .. Len(c)
  BY <1>1
<1>8. \A i, j \in 1 .. Len(c) - k : i < j => t[i].ts <= t[j].ts /\ Apart(t[i], t[j])
  <2> SUFFICES ASSUME NEW i \in 1 .. Len(c) - k, NEW j \in 1 .. Len(c) - k, i < j
               PROVE  t[i].ts <= t[j].ts /\ Apart(t[i], t[j])
    OBVIOUS
  <2>1. k + i < k + j
    BY <1>1
  <2> QED BY <1>5, <1>7, <2>1 DEF Listed
<1>9. InOrder(t)
  BY <1>4, <1>5, <1>6, <1>8 DEF InOrder
<1>10. \A i \in DOMAIN t : Honest(t[i], d)
  BY <1>5, <1>6, <1>7 DEF Listed
<1>11. ToSet(t) \subseteq ToSet(c)
  <2>1. DOMAIN c = 1 .. Len(c)
    BY <1>3, LenProperties
  <2> QED BY <1>5, <1>6, <1>7, <2>1 DEF ToSet
<1> QED BY <1>5, <1>9, <1>10, <1>11 DEF Convos, t

\* In a list in order the early messages are in front.
LEMMA PartitionPointIs ==
    ASSUME NEW d, NEW c \in Convos(d), NEW ts \in Nat
    PROVE  /\ PartitionPoint(c, ts) \in 0 .. Len(c)
           /\ \A i \in 1 .. Len(c) : c[i].ts <= ts <=> i <= PartitionPoint(c, ts)
<1> DEFINE n == Len(c)
           late == {i \in 0 .. n : \A j \in 1 .. n : j > i => c[j].ts > ts}
<1>1. /\ n \in Nat /\ DOMAIN c = 1 .. n
      /\ \A i \in 1 .. n : c[i].ts \in Nat
      /\ \A i, j \in 1 .. n : i < j => c[i].ts <= c[j].ts
  BY ConvoIs
<1> HIDE DEF n
<1>2. n \in late /\ late \in SUBSET Nat
  BY <1>1
<1>3. PICK k \in late : \A i \in late : k <= i
  BY <1>2, LeastNumber
<1>4. k \in 0 .. n /\ \A j \in 1 .. n : j > k => c[j].ts > ts
  BY <1>3
<1>5. ASSUME NEW i \in 1 .. n, i <= k PROVE c[i].ts <= ts
  <2>1. k - 1 \in 0 .. n /\ k \in 1 .. n
    BY <1>1, <1>4, <1>5
  <2>2. k - 1 \notin late
    BY <1>3, <1>4, <2>1
  <2>3. PICK j \in 1 .. n : j > k - 1 /\ ~(c[j].ts > ts)
    BY <2>1, <2>2
  <2>4. j = k
    BY <1>4, <2>1, <2>3
  <2>5. c[k].ts <= ts
    BY <1>1, <2>1, <2>3, <2>4
  <2>6. c[i].ts <= c[k].ts
    BY <1>1, <1>5, <2>1
  <2> QED BY <1>1, <2>1, <2>5, <2>6
<1>6. \A i \in DOMAIN c : c[i].ts <= ts <=> i <= k
  <2> SUFFICES ASSUME NEW i \in 1 .. n PROVE c[i].ts <= ts <=> i <= k
    BY <1>1
  <2>1. CASE i <= k
    BY <1>5, <2>1
  <2>2. CASE i > k
    BY <1>1, <1>4, <2>2
  <2> QED BY <1>4, <2>1, <2>2
<1>7. \E m \in 0 .. Len(c) : \A i \in DOMAIN c : c[i].ts <= ts <=> i <= m
  BY <1>4, <1>6 DEF n
<1> QED BY <1>1, <1>7 DEF PartitionPoint, n

\* A message that is not there goes where its time belongs.
LEMMA InsertIsListed ==
    ASSUME NEW d, NEW c \in Convos(d), NEW m \in Message, Honest(m, d), Novel(c, m)
    PROVE  /\ Listed(InsertSorted(c, m), d)
           /\ ToSet(InsertSorted(c, m)) = ToSet(c) \cup {m}
           /\ Len(InsertSorted(c, m)) = Len(c) + 1
<1> DEFINE n == Len(c)
           k == PartitionPoint(c, m.ts)
           q == InsertSorted(c, m)
<1>1. /\ n \in Nat /\ DOMAIN c = 1 .. n /\ c \in Seq(Message)
      /\ \A i \in 1 .. n : c[i].ts \in Nat /\ Honest(c[i], d)
      /\ \A i, j \in 1 .. n : i < j => c[i].ts <= c[j].ts /\ Apart(c[i], c[j])
  BY ConvoIs
<1>2. m.ts \in Nat
  BY DEF Message
<1>3. k \in 0 .. n /\ \A i \in 1 .. n : c[i].ts <= m.ts <=> i <= k
  BY <1>2, PartitionPointIs
<1>4. q = SubSeq(c, 1, (k + 1) - 1) \o <<m>> \o SubSeq(c, k + 1, Len(c))
  BY DEF InsertSorted, InsertAt
<1>5. \A i \in 1 .. n : Apart(c[i], m) /\ Apart(m, c[i])
  BY <1>1 DEF Novel, ToSet, Apart
<1> HIDE DEF n, k, q
<1> DEFINE a == SubSeq(c, 1, k)
           b == SubSeq(c, k + 1, n)
<1>6. a \in Seq(Message) /\ Len(a) = k /\ \A i \in 1 .. k : a[i] = c[i]
  <2>1. /\ a \in Seq(Message)
        /\ Len(a) = IF 1 <= k THEN k - 1 + 1 ELSE 0
        /\ \A i \in 1 .. k - 1 + 1 : a[i] = c[1 + i - 1]
    BY <1>1, <1>3, SubSeqProperties DEF n
  <2> QED BY <1>1, <1>3, <2>1
<1>7. b \in Seq(Message) /\ Len(b) = n - k /\ \A i \in 1 .. n - k : b[i] = c[k + i]
  <2>1. k + 1 \in 1 .. n + 1
    BY <1>1, <1>3
  <2>2. /\ b \in Seq(Message)
        /\ Len(b) = IF k + 1 <= n THEN n - (k + 1) + 1 ELSE 0
        /\ \A i \in 1 .. n - (k + 1) + 1 : b[i] = c[(k + 1) + i - 1]
    BY <1>1, <1>3, <2>1, SubSeqProperties DEF n
  <2> QED BY <1>1, <1>3, <2>2
<1>8. q = (a \o <<m>>) \o b
  <2>1. (k + 1) - 1 = k
    BY <1>1, <1>3
  <2> QED BY <1>4, <2>1 DEF n
<1> HIDE DEF a, b
<1>9. <<m>> \in Seq(Message) /\ Len(<<m>>) = 1 /\ <<m>>[1] = m
  OBVIOUS
<1>10. /\ a \o <<m>> \in Seq(Message) /\ Len(a \o <<m>>) = k + 1
       /\ \A i \in 1 .. k : (a \o <<m>>)[i] = c[i]
       /\ (a \o <<m>>)[k + 1] = m
  BY <1>3, <1>6, <1>9, ConcatProperties
<1>11. /\ q \in Seq(Message) /\ Len(q) = n + 1
       /\ \A i \in 1 .. n + 1 : q[i] = IF i <= k THEN c[i] ELSE IF i = k + 1 THEN m ELSE c[i - 1]
  <2>1. /\ q \in Seq(Message) /\ Len(q) = (k + 1) + (n - k)
        /\ \A i \in 1 .. (k + 1) + (n - k) :
              q[i] = IF i <= k + 1 THEN (a \o <<m>>)[i] ELSE b[i - (k + 1)]
    <3> DEFINE r == a \o <<m>>
    <3>1. r \in Seq(Message) /\ Len(r) = k + 1 /\ q = r \o b
      BY <1>8, <1>10
    <3> HIDE DEF r
    <3>2. /\ r \o b \in Seq(Message) /\ Len(r \o b) = Len(r) + Len(b)
          /\ \A i \in 1 .. Len(r) + Len(b) :
                (r \o b)[i] = IF i <= Len(r) THEN r[i] ELSE b[i - Len(r)]
      BY <1>7, <3>1, ConcatProperties
    <3>3. /\ q \in Seq(Message) /\ Len(q) = (k + 1) + (n - k)
          /\ \A i \in 1 .. (k + 1) + (n - k) : q[i] = IF i <= k + 1 THEN r[i] ELSE b[i - (k + 1)]
      BY <1>7, <3>1, <3>2
    <3> QED BY <3>3 DEF r
  <2>2. (k + 1) + (n - k) = n + 1
    BY <1>1, <1>3
  <2>3. ASSUME NEW i \in 1 .. n + 1
        PROVE  q[i] = IF i <= k THEN c[i] ELSE IF i = k + 1 THEN m ELSE c[i - 1]
    <3>1. CASE i <= k + 1
      BY <1>3, <1>10, <2>1, <2>2, <3>1
    <3>2. CASE i > k + 1
      <4>1. i - (k + 1) \in 1 .. n - k /\ k + (i - (k + 1)) = i - 1
        <5>1. k \in Nat /\ n \in Nat /\ i \in Nat /\ k <= n /\ i <= n + 1 /\ i > k + 1
          BY <1>1, <1>3, <3>2
        <5> QED BY <5>1
      <4> QED BY <1>1, <1>3, <1>7, <2>1, <2>2, <3>2, <4>1
    <3> QED BY <1>1, <1>3, <3>1, <3>2
  <2> QED BY <2>1, <2>2, <2>3
<1>12. DOMAIN q = 1 .. n + 1
  BY <1>11, LenProperties
<1>13. ASSUME NEW i \in 1 .. n + 1 PROVE q[i].ts \in Nat /\ Honest(q[i], d)
  <2>1. CASE i = k + 1
    BY <1>2, <1>3, <1>11, <2>1
  <2>2. CASE i <= k
    BY <1>1, <1>3, <1>11, <2>2
  <2>3. CASE i > k + 1
    <3>1. i - 1 \in 1 .. n
      BY <1>1, <1>3, <2>3
    <3> QED BY <1>1, <1>3, <1>11, <2>3, <3>1
  <2> QED BY <1>1, <1>3, <2>1, <2>2, <2>3
<1>14. ASSUME NEW i \in 1 .. n + 1, NEW j \in 1 .. n + 1, i < j
       PROVE  q[i].ts <= q[j].ts /\ Apart(q[i], q[j])
  <2> DEFINE x == IF i <= k THEN i ELSE i - 1
             y == IF j <= k THEN j ELSE j - 1
  <2>1. CASE i # k + 1 /\ j # k + 1
    <3>1. x \in 1 .. n /\ y \in 1 .. n /\ x < y
      BY <1>1, <1>3, <1>14, <2>1
    <3>2. q[i] = c[x] /\ q[j] = c[y]
      BY <1>1, <1>3, <1>11, <2>1
    <3> HIDE DEF x, y
    <3> QED BY <1>1, <3>1, <3>2
  <2>2. CASE i = k + 1
    <3>1. y \in 1 .. n /\ y > k /\ q[j] = c[y] /\ q[i] = m
      BY <1>1, <1>3, <1>11, <1>14, <2>2
    <3> HIDE DEF x, y
    <3>2. c[y].ts \in Nat /\ ~(c[y].ts <= m.ts) /\ Apart(m, c[y])
      BY <1>1, <1>3, <1>5, <3>1
    <3> QED BY <1>2, <3>1, <3>2
  <2>3. CASE j = k + 1
    <3>1. i \in 1 .. n /\ i <= k /\ q[i] = c[i] /\ q[j] = m
      BY <1>1, <1>3, <1>11, <1>14, <2>3
    <3> QED BY <1>1, <1>2, <1>3, <1>5, <3>1
  <2> QED BY <2>1, <2>2, <2>3
<1>15. Listed(q, d)
  BY <1>11, <1>13, <1>14 DEF Listed
<1>16. ToSet(q) \subseteq ToSet(c) \cup {m}
  <2> SUFFICES ASSUME NEW i \in 1 .. n + 1 PROVE q[i] \in ToSet(c) \cup {m}
    BY <1>12 DEF ToSet
  <2>1. CASE i = k + 1
    BY <1>3, <1>11, <2>1
  <2>2. CASE i <= k
    <3>1. i \in 1 .. n /\ q[i] = c[i]
      BY <1>1, <1>3, <1>11, <2>2
    <3> QED BY <1>1, <3>1 DEF ToSet
  <2>3. CASE i > k + 1
    <3>1. i - 1 \in 1 .. n
      BY <1>1, <1>3, <2>3
    <3>2. q[i] = c[i - 1]
      BY <1>1, <1>3, <1>11, <2>3
    <3> QED BY <1>1, <3>1, <3>2 DEF ToSet
  <2> QED BY <1>1, <1>3, <2>1, <2>2, <2>3
<1>17. ToSet(c) \cup {m} \subseteq ToSet(q)
  <2>1. m \in ToSet(q)
    <3>1. k + 1 \in 1 .. n + 1 /\ q[k + 1] = m
      BY <1>1, <1>3, <1>11
    <3> QED BY <1>12, <3>1 DEF ToSet
  <2>2. ASSUME NEW i \in 1 .. n PROVE c[i] \in ToSet(q)
    <3>1. CASE i <= k
      <4>1. i \in 1 .. n + 1 /\ q[i] = c[i]
        BY <1>1, <1>3, <1>11, <3>1
      <4> QED BY <1>12, <4>1 DEF ToSet
    <3>2. CASE i > k
      <4>1. i + 1 \in 1 .. n + 1 /\ q[i + 1] = c[i]
        BY <1>1, <1>3, <1>11, <3>2
      <4> QED BY <1>12, <4>1 DEF ToSet
    <3> QED BY <1>1, <1>3, <3>1, <3>2
  <2> QED BY <1>1, <2>1, <2>2 DEF ToSet
<1> QED BY <1>11, <1>15, <1>16, <1>17 DEF q, n

\* The places the merge of a late load keeps, and what is there in a given order.
KeptPlaces(known, list) ==
    {i \in DOMAIN (known \o list) :
        i <= Len(known) \/ (known \o list)[i].id \notin IdsOf(known)}

InPlaces(all, q) == [i \in DOMAIN q |-> all[q[i]]]

\* The merge of a late load is a conversation of what was known and what was loaded.
LEMMA MergeIsConvo ==
    ASSUME NEW d, NEW known \in Convos(d), NEW list \in Convos(d),
           NEW q \in ByTime(known \o list, KeptPlaces(known, list))
    PROVE  /\ TrimHistory(InPlaces(known \o list, q)) \in Convos(d)
           /\ ToSet(TrimHistory(InPlaces(known \o list, q))) \subseteq ToSet(known) \cup ToSet(list)
<1> DEFINE all  == known \o list
           kept == {i \in DOMAIN all : i <= Len(known) \/ all[i].id \notin IdsOf(known)}
           r    == [i \in DOMAIN q |-> all[q[i]]]
           k    == Len(known)
           n    == Len(list)
<1>1. /\ k \in Nat /\ DOMAIN known = 1 .. k /\ known \in Seq(Message)
      /\ \A i \in 1 .. k : known[i].ts \in Nat /\ Honest(known[i], d)
      /\ \A i, j \in 1 .. k : i < j => Apart(known[i], known[j])
  BY ConvoIs
<1>2. /\ n \in Nat /\ DOMAIN list = 1 .. n /\ list \in Seq(Message)
      /\ \A i \in 1 .. n : list[i].ts \in Nat /\ Honest(list[i], d)
      /\ \A i, j \in 1 .. n : i < j => Apart(list[i], list[j])
  BY ConvoIs
<1>3. /\ all \in Seq(Message) /\ Len(all) = k + n
      /\ \A i \in 1 .. k + n : all[i] = IF i <= k THEN known[i] ELSE list[i - k]
  BY <1>1, <1>2, ConcatProperties
<1>4. DOMAIN all = 1 .. k + n
  BY <1>3, LenProperties
<1>5. /\ q \in [1 .. Cardinality(kept) -> kept] /\ IsInjective(q)
      /\ \A i, j \in DOMAIN q : i < j => all[q[i]].ts < all[q[j]].ts
                                       \/ all[q[i]].ts = all[q[j]].ts
  BY DEF ByTime, Orders, KeptPlaces
<1> HIDE DEF all, k, n
<1>6. kept \subseteq 1 .. k + n
  BY <1>4
<1>7. Cardinality(kept) \in Nat
  <2>1. IsFiniteSet(1 .. k + n)
    BY <1>1, <1>2, FS_Interval
  <2>2. IsFiniteSet(kept)
    BY <1>6, <2>1, FS_Subset
  <2> QED BY <2>2, FS_CardinalityType
<1>8. ASSUME NEW x \in kept
      PROVE  all[x].ts \in Nat /\ Honest(all[x], d) /\ all[x] \in Message
             /\ all[x] \in ToSet(known) \cup ToSet(list)
  <2>1. x \in 1 .. k + n
    BY <1>6
  <2>2. all[x] \in Message
    BY <1>3, <1>4, <2>1, ElementOfSeq
  <2>3. CASE x <= k
    <3>1. x \in 1 .. k /\ all[x] = known[x]
      BY <1>1, <1>2, <1>3, <2>1, <2>3
    <3> QED BY <1>1, <2>2, <3>1 DEF ToSet
  <2>4. CASE x > k
    <3>1. x - k \in 1 .. n /\ all[x] = list[x - k]
      BY <1>1, <1>2, <1>3, <2>1, <2>4
    <3> QED BY <1>2, <2>2, <3>1 DEF ToSet
  <2> QED BY <1>1, <2>1, <2>3, <2>4
<1>9. ASSUME NEW x \in kept, NEW y \in kept, x < y PROVE Apart(all[x], all[y])
  <2>1. x \in 1 .. k + n /\ y \in 1 .. k + n
    BY <1>6
  <2>2. CASE y <= k
    BY <1>1, <1>2, <1>3, <1>9, <2>1, <2>2
  <2>3. CASE x > k
    <3>1. x - k \in 1 .. n /\ y - k \in 1 .. n /\ x - k < y - k
      BY <1>1, <1>2, <1>9, <2>1, <2>3
    <3>2. all[x] = list[x - k] /\ all[y] = list[y - k]
      BY <1>1, <1>2, <1>3, <1>9, <2>1, <2>3
    <3> QED BY <1>2, <3>1, <3>2
  <2>4. CASE x <= k /\ y > k
    <3>1. x \in 1 .. k /\ all[x] = known[x]
      BY <1>1, <1>2, <1>3, <2>1, <2>4
    <3>2. all[x].id \in IdsOf(known)
      BY <1>1, <3>1 DEF IdsOf, ToSet
    <3>3. all[y].id \notin IdsOf(known)
      BY <1>1, <2>1, <2>4 DEF k
    <3> QED BY <3>2, <3>3 DEF Apart
  <2> QED BY <1>1, <1>2, <2>1, <2>2, <2>3, <2>4
<1>10. ASSUME NEW x \in kept, NEW y \in kept, x # y PROVE Apart(all[x], all[y])
  <2>1. x \in Int /\ y \in Int
    BY <1>1, <1>2, <1>6
  <2>2. x < y \/ y < x
    BY <1>10, <2>1
  <2> QED BY <1>9, <2>2 DEF Apart
<1> DEFINE N == Cardinality(kept)
<1>11. N \in Nat /\ DOMAIN q = 1 .. N /\ \A i \in 1 .. N : q[i] \in kept
  BY <1>5, <1>7
<1>12. \A i, j \in 1 .. N : i # j => q[i] # q[j]
  BY <1>5, <1>11 DEF IsInjective
<1>12a. \A i, j \in 1 .. N : i < j => all[q[i]].ts < all[q[j]].ts \/ all[q[i]].ts = all[q[j]].ts
  BY <1>5, <1>11
<1> HIDE DEF kept, N
<1>13. r \in [1 .. N -> Message]
  BY <1>8, <1>11
<1>14. r \in Seq(Message) /\ Len(r) = N /\ DOMAIN r = 1 .. N
  <2>1. r \in Seq(Message)
    BY <1>11, <1>13, SeqDef
  <2> QED BY <1>11, <1>13, <2>1, LenProperties
<1>15. \A i \in 1 .. N : r[i] = all[q[i]]
  BY <1>11
<1> HIDE DEF r
<1>16. Listed(r, d)
  <2>1. \A i \in 1 .. N : r[i].ts \in Nat /\ Honest(r[i], d)
    BY <1>8, <1>11, <1>15
  <2>2. ASSUME NEW i \in 1 .. N, NEW j \in 1 .. N, i < j
        PROVE  r[i].ts <= r[j].ts /\ Apart(r[i], r[j])
    <3>1. r[i].ts < r[j].ts \/ r[i].ts = r[j].ts
      BY <1>12a, <1>15, <2>2
    <3>2. Apart(r[i], r[j])
      BY <1>10, <1>11, <1>12, <1>15, <2>2
    <3> QED BY <2>1, <3>1, <3>2
  <2> QED BY <1>14, <2>1, <2>2 DEF Listed
<1>17. ToSet(r) \subseteq ToSet(known) \cup ToSet(list)
  BY <1>8, <1>11, <1>14, <1>15 DEF ToSet
<1>18. TrimHistory(r) \in Convos(d) /\ ToSet(TrimHistory(r)) \subseteq ToSet(r)
  BY <1>16, TrimIsConvo
<1>19. TrimHistory(r) \in Convos(d) /\ ToSet(TrimHistory(r)) \subseteq ToSet(known) \cup ToSet(list)
  BY <1>17, <1>18
<1> QED BY <1>19 DEF r, all, InPlaces

\* Marking what was delivered changes nothing else.
LEMMA MarkedIsConvo ==
    ASSUME NEW d, NEW c \in Convos(d), NEW ids
    PROVE  /\ Marked(c, ids) \in Convos(d)
           /\ Incoming(Marked(c, ids)) \subseteq Incoming(c)
           /\ \A m \in ToSet(Marked(c, ids)) : m.outgoing /\ m.id \in ids => m.delivered
<1> DEFINE n == Len(c)
           t == Marked(c, ids)
<1>1. /\ n \in Nat /\ DOMAIN c = 1 .. n /\ n <= MaxMessages
      /\ \A i \in 1 .. n : c[i] \in Message /\ Honest(c[i], d)
      /\ \A i, j \in 1 .. n : i < j => c[i].ts <= c[j].ts /\ Apart(c[i], c[j])
  BY ConvoIs
<1>2. DOMAIN t = 1 .. n
  BY <1>1 DEF Marked
<1>3. ASSUME NEW i \in 1 .. n
      PROVE  /\ t[i] \in Message /\ t[i].id = c[i].id /\ t[i].ts = c[i].ts
             /\ t[i].outgoing = c[i].outgoing
             /\ t[i].outgoing /\ t[i].id \in ids => t[i].delivered
  <2>1. t[i] = IF c[i].outgoing /\ c[i].id \in ids THEN [c[i] EXCEPT !.delivered = TRUE] ELSE c[i]
    BY <1>1 DEF Marked
  <2>2. c[i] \in Message
    BY <1>1
  <2>3. CASE c[i].outgoing /\ c[i].id \in ids
    BY <2>1, <2>2, <2>3 DEF Message
  <2>4. CASE ~(c[i].outgoing /\ c[i].id \in ids)
    BY <2>1, <2>2, <2>4
  <2> QED BY <2>3, <2>4
<1>4. t = [i \in 1 .. n |-> t[i]]
  BY <1>1 DEF Marked
<1> HIDE DEF t, n
<1>5. t \in [1 .. n -> Message]
  BY <1>3, <1>4
<1>6. t \in Seq(Message) /\ Len(t) = n
  <2>1. t \in Seq(Message)
    BY <1>1, <1>5, SeqDef
  <2> QED BY <1>1, <1>2, <2>1, LenProperties
<1>7. InOrder(t)
  BY <1>1, <1>2, <1>3, <1>6 DEF InOrder, Apart
<1>8. \A i \in DOMAIN t : Honest(t[i], d)
  BY <1>1, <1>2, <1>3 DEF Honest
<1>9. t \in Convos(d)
  BY <1>6, <1>7, <1>8 DEF Convos
<1>10. Incoming(t) \subseteq Incoming(c)
  <2> SUFFICES ASSUME NEW i \in 1 .. n, ~t[i].outgoing PROVE t[i].id \in Incoming(c)
    BY <1>2 DEF Incoming, ToSet
  <2>1. c[i] \in ToSet(c) /\ ~c[i].outgoing /\ t[i].id = c[i].id
    BY <1>1, <1>3 DEF ToSet
  <2> QED BY <2>1 DEF Incoming
<1>11. \A m \in ToSet(t) : m.outgoing /\ m.id \in ids => m.delivered
  BY <1>2, <1>3 DEF ToSet
<1> QED BY <1>9, <1>10, <1>11 DEF t

-----------------------------------------------------------------------------
(* The inductive invariant *)

\* Contacts whose watermark is not ahead of the clock.
Person == {c \in Contact : c.last_ack_ts <= Now}

\* Dedup sets: a peer's set exists once an id is in it.
Seen == (SUBSET Ids) \ {{}}

\* What is queued once the ids d are drawn and the cursor has reached n.
Write(d, n) ==
    [key: {"messages"}, peer: Peers, value: Convos(d)]
      \cup [key: {"delete"}, peer: Peers]
      \cup [key: {"contacts"}, value: Maps(Person)]
      \cup [key: {"seen_ids"}, value: Maps(Seen)]
      \cup [key: {"cursor"}, value: 0 .. n]

Disk(d, n) ==
    [contacts: Maps(Person), messages: Maps(Convos(d)), seen_ids: Maps(Seen), cursor: 0 .. n]

\* What a peer sent that is in memory is in its dedup set, if it has one.
Covers(ms, ss) == \A p \in DOMAIN ms \cap DOMAIN ss : Incoming(ms[p]) \subseteq ss[p]

ModelInv ==
    /\ contacts \in Maps(Person)
    /\ messages \in Maps(Convos(drawn))
    /\ seen_ids \in Maps(Seen)
    /\ Covers(messages, seen_ids)
    /\ cursor \in 0 .. Len(mail)
    /\ kv_load_failed \in BOOLEAN

ShellInv ==
    /\ loading \in Maps(Convos(drawn))
    /\ writes \in Seq(Write(drawn, cursor)) /\ Len(writes) <= MaxWrites
    /\ disk \in Disk(drawn, cursor)
    /\ mail \in Mails

ObserverInv ==
    /\ drawn \subseteq OwnIds
    /\ excused \subseteq Events
    /\ torn \subseteq Peers
    /\ unsaved \subseteq Peers
    /\ failures \in 0 .. MaxFailures

InboxInv == ModelInv /\ ShellInv /\ ObserverInv

LEMMA Limits ==
    /\ Now \in Nat /\ Skew \in Nat /\ MaxMessages \in Nat /\ MaxWrites \in Nat
    /\ MaxPage \in Nat /\ MaxFailures \in Nat
BY InboxAssumption

LEMMA SeenIs ==
    ASSUME NEW ids
    PROVE  ids \in Seen <=> ids \subseteq Ids /\ ids # {}
BY Zenon DEF Seen

LEMMA StrangerIsPerson == Stranger \in Person
BY Limits DEF Stranger, Person, Contact

\* What an event from a peer carries.
LEMMA EventIs ==
    ASSUME NEW e \in Events
    PROVE  /\ e.kind \in PayloadKinds
           /\ e.kind \in {"text", "ack", "profile"} => e.from \in Peers /\ e.ts \in Nat
           /\ e.kind = "text" => e.id \in PeerIds
           /\ e.kind = "ack" => e.ids \in SUBSET OwnIds
BY InboxAssumption DEF PeerIds

LEMMA ClampedIs ==
    ASSUME NEW ts \in Nat
    PROVE  /\ Clamped(ts) \in Nat
           /\ ts >= Now => Clamped(ts) >= Now
           /\ Watermark(Clamped(ts)) \in Nat /\ Watermark(Clamped(ts)) <= Now
BY Limits DEF Clamped, Least, Watermark

-----------------------------------------------------------------------------
(* The loop of ingest_poll *)

Acks == [ts: Nat, ids: SUBSET OwnIds]

LoopState(d) ==
    [contacts: Maps(Person), messages: Maps(Convos(d)), seen_ids: Maps(Seen), acks: Maps(Acks),
     touched: SUBSET Peers, dirty: BOOLEAN, stored: BOOLEAN, excused: SUBSET Events]

LoopInv(s) ==
    /\ s \in LoopState(drawn)
    /\ Covers(s.messages, s.seen_ids)
    /\ s.touched \subseteq DOMAIN s.messages

LEMMA StateIs ==
    ASSUME NEW s, LoopInv(s)
    PROVE  /\ s.contacts \in Maps(Person) /\ s.messages \in Maps(Convos(drawn))
           /\ s.seen_ids \in Maps(Seen) /\ s.acks \in Maps(Acks)
           /\ s.touched \subseteq Peers /\ s.dirty \in BOOLEAN /\ s.stored \in BOOLEAN
           /\ s.excused \subseteq Events
BY DEF LoopInv, LoopState

LEMMA LoopBegins ==
    ASSUME InboxInv
    PROVE  LoopInv(Loop)
<1>1. Nothing \in Maps(Acks)
  BY NothingIsMap
<1> QED BY <1>1 DEF InboxInv, ModelInv, ObserverInv, LoopInv, LoopState, Loop

LEMMA IncomingPart ==
    ASSUME NEW a, NEW b, ToSet(a) \subseteq b
    PROVE  /\ Incoming(a) \subseteq {m.id : m \in {x \in b : ~x.outgoing}}
           /\ IdsOf(a) \subseteq {m.id : m \in b}
BY DEF Incoming, IdsOf

\* The dedup set a text is held against covers the conversation.
LEMMA IdSetCovers ==
    ASSUME NEW s, LoopInv(s), NEW p \in Peers
    PROVE  /\ Maybe(s.messages, p, <<>>) \in Convos(drawn)
           /\ IdSet(s, p) \subseteq Ids
           /\ Incoming(Maybe(s.messages, p, <<>>)) \subseteq IdSet(s, p)
<1> DEFINE convo == Maybe(s.messages, p, <<>>)
<1>1. convo \in Convos(drawn)
  BY StateIs, EmptyConvo, MaybeIn
<1>2. IdsOf(convo) \subseteq Ids
  <2>1. ASSUME NEW m \in ToSet(convo) PROVE m.id \in Ids
    <3>1. PICK i \in 1 .. Len(convo) : m = convo[i]
      BY <1>1, ConvoIs DEF ToSet
    <3>2. convo[i] \in Message
      BY <1>1, ConvoIs
    <3> QED BY <3>1, <3>2 DEF Message, Ids
  <2> QED BY <2>1 DEF IdsOf
<1>3. Incoming(convo) \subseteq IdsOf(convo)
  BY DEF Incoming, IdsOf
<1>4. CASE p \in DOMAIN s.seen_ids
  <2>1. s.seen_ids[p] \in Seen
    BY <1>4, StateIs, MapIs
  <2>2. IdSet(s, p) = s.seen_ids[p] /\ s.seen_ids[p] \subseteq Ids
    BY <1>4, <2>1, SeenIs DEF IdSet, Maybe
  <2>3. CASE p \in DOMAIN s.messages
    BY <1>1, <1>4, <2>2, <2>3 DEF LoopInv, Covers, Maybe
  <2>4. CASE p \notin DOMAIN s.messages
    <3>1. convo = <<>>
      BY <2>4 DEF Maybe
    <3>2. Incoming(convo) = {}
      BY <1>3, <3>1, EmptyConvo
    <3> QED BY <1>1, <2>2, <3>2
  <2> QED BY <2>3, <2>4
<1>5. CASE p \notin DOMAIN s.seen_ids
  <2>1. IdSet(s, p) = IdsOf(convo)
    BY <1>5 DEF IdSet, Maybe
  <2> QED BY <1>1, <1>2, <1>3, <2>1
<1> QED BY <1>4, <1>5

\* What is changed for one peer only.
LEMMA CoversWith ==
    ASSUME NEW s, LoopInv(s), NEW p \in Peers, NEW convo \in Convos(drawn), NEW ids \in Seen,
           Incoming(convo) \subseteq ids
    PROVE  Covers(With(s.messages, p, convo), With(s.seen_ids, p, ids))
<1> DEFINE M == With(s.messages, p, convo)
           G == With(s.seen_ids, p, ids)
<1>1. /\ DOMAIN M = DOMAIN s.messages \cup {p} /\ M[p] = convo
      /\ \A x \in DOMAIN s.messages : x # p => M[x] = s.messages[x]
  BY DEF With
<1>2. /\ DOMAIN G = DOMAIN s.seen_ids \cup {p} /\ G[p] = ids
      /\ \A x \in DOMAIN s.seen_ids : x # p => G[x] = s.seen_ids[x]
  BY DEF With
<1> HIDE DEF M, G
<1>3. Covers(M, G)
  BY <1>1, <1>2 DEF LoopInv, Covers
<1> QED BY <1>3 DEF M, G

LEMMA OldTextLoops ==
    ASSUME NEW s, LoopInv(s), NEW e \in Events, e.kind = "text", e.id \in IdSet(s, e.from),
           NEW u \in OldText(s, e)
    PROVE  LoopInv(u) /\ u.contacts = s.contacts /\ u.acks = s.acks /\ u.excused = s.excused
<1> DEFINE p == e.from
           convo == Maybe(s.messages, p, <<>>)
           M == With(s.messages, p, convo)
           G == With(s.seen_ids, p, IdSet(s, p))
<1>1. p \in Peers
  BY EventIs
<1>2. convo \in Convos(drawn) /\ IdSet(s, p) \in Seen /\ Incoming(convo) \subseteq IdSet(s, p)
  BY <1>1, IdSetCovers, SeenIs
<1>3. M \in Maps(Convos(drawn)) /\ DOMAIN M = DOMAIN s.messages \cup {p} /\ G \in Maps(Seen)
  <2>1. s.messages \in Maps(Convos(drawn)) /\ s.seen_ids \in Maps(Seen)
    BY StateIs
  <2>2. M \in Maps(Convos(drawn))
    BY <1>1, <1>2, <2>1, WithIsMap
  <2>3. G \in Maps(Seen)
    BY <1>1, <1>2, <2>1, WithIsMap
  <2>4. DOMAIN M = DOMAIN s.messages \cup {p}
    BY DEF With
  <2> QED BY <2>2, <2>3, <2>4
<1>4. Covers(M, G)
  BY <1>1, <1>2, CoversWith
<1>5. u = [s EXCEPT !.messages = M, !.seen_ids = G]
  BY DEF OldText
<1> HIDE DEF M, G
<1> QED BY <1>3, <1>4, <1>5 DEF LoopInv, LoopState

\* A text that is not in the dedup set is not in the conversation, though an id of ours may be.
LEMMA FreshText ==
    ASSUME NEW s, LoopInv(s), NEW e \in Events, e.kind = "text", e.id \notin IdSet(s, e.from),
           NEW m, m = [id |-> e.id, ts |-> Clamped(e.ts), outgoing |-> FALSE, delivered |-> FALSE]
    PROVE  m \in Message /\ Honest(m, drawn) /\ Novel(Maybe(s.messages, e.from, <<>>), m)
<1> DEFINE old == Maybe(s.messages, e.from, <<>>)
<1>1. e.from \in Peers /\ e.ts \in Nat /\ e.id \in PeerIds
  BY EventIs
<1>2. old \in Convos(drawn) /\ Incoming(old) \subseteq IdSet(s, e.from)
  BY <1>1, IdSetCovers
<1>3. m \in Message /\ Honest(m, drawn)
  BY <1>1, ClampedIs DEF Message, Honest
<1>4. Novel(old, m)
  <2> SUFFICES ASSUME NEW x \in ToSet(old), x.id = e.id PROVE x.outgoing # m.outgoing
    BY DEF Novel, Apart
  <2>1. PICK i \in 1 .. Len(old) : x = old[i]
    BY <1>2, ConvoIs DEF ToSet
  <2>2. x.outgoing \in BOOLEAN
    BY <1>2, <2>1, ConvoIs DEF Message
  <2>3. ASSUME ~x.outgoing PROVE FALSE
    <3>1. x.id \in Incoming(old)
      BY <2>3 DEF Incoming
    <3> QED BY <1>2, <3>1
  <2> QED BY <2>2, <2>3
<1> QED BY <1>3, <1>4

LEMMA NewTextLoops ==
    ASSUME NEW s, LoopInv(s), NEW e \in Events, e.kind = "text", e.id \notin IdSet(s, e.from),
           NEW u \in NewText(s, e)
    PROVE  LoopInv(u) /\ u.contacts = s.contacts /\ u.acks = s.acks /\ u.excused = s.excused
<1> DEFINE p   == e.from
           old == Maybe(s.messages, p, <<>>)
           m   == [id |-> e.id, ts |-> Clamped(e.ts), outgoing |-> FALSE, delivered |-> FALSE]
           convo == InsertSorted(old, m)
           ids == IdSet(s, p) \cup {e.id}
<1>1. p \in Peers /\ e.ts \in Nat /\ e.id \in PeerIds
  BY EventIs
<1>2. /\ old \in Convos(drawn) /\ IdSet(s, p) \subseteq Ids
      /\ Incoming(old) \subseteq IdSet(s, p)
  BY <1>1, IdSetCovers
<1>3. m \in Message /\ Honest(m, drawn) /\ Novel(old, m)
  BY FreshText
<1>5. PICK C \in Cuts(ids, convo) :
         u = [s EXCEPT !.messages = With(@, p, TrimHistory(convo)),
                       !.seen_ids = With(@, p, ids \ C),
                       !.touched  = @ \cup {p}]
  BY DEF NewText
<1>6. C \subseteq ids /\ C \cap IdsOf(convo) = {}
  BY <1>5 DEF Cuts
<1> HIDE DEF m
<1>7. Listed(convo, drawn) /\ ToSet(convo) = ToSet(old) \cup {m}
  BY <1>2, <1>3, InsertIsListed
<1>8. m.id = e.id /\ ~m.outgoing
  BY DEF m
<1> HIDE DEF convo, old
<1> DEFINE t == TrimHistory(convo)
           M == With(s.messages, p, t)
           G == With(s.seen_ids, p, ids \ C)
<1>9. t \in Convos(drawn) /\ ToSet(t) \subseteq ToSet(convo)
  BY <1>7, TrimIsConvo
<1>10. e.id \in IdsOf(convo)
  BY <1>7, <1>8 DEF IdsOf
<1>11. ids \ C \in Seen
  BY <1>1, <1>2, <1>6, <1>10, SeenIs DEF Ids
<1>12. Incoming(t) \subseteq ids \ C
  <2> SUFFICES ASSUME NEW x \in ToSet(t), ~x.outgoing PROVE x.id \in ids \ C
    BY DEF Incoming
  <2>1. x \in ToSet(convo) /\ x.id \in IdsOf(convo)
    BY <1>9 DEF IdsOf
  <2>2. CASE x = m
    BY <1>6, <1>8, <2>1, <2>2
  <2>3. CASE x \in ToSet(old)
    <3>1. x.id \in Incoming(old)
      BY <2>3 DEF Incoming
    <3> QED BY <1>2, <1>6, <2>1, <3>1
  <2> QED BY <1>7, <2>1, <2>2, <2>3
<1> HIDE DEF t, ids
<1>13. M \in Maps(Convos(drawn)) /\ DOMAIN M = DOMAIN s.messages \cup {p} /\ G \in Maps(Seen)
  <2>1. s.messages \in Maps(Convos(drawn)) /\ s.seen_ids \in Maps(Seen)
    BY StateIs
  <2>2. M \in Maps(Convos(drawn))
    BY <1>1, <1>9, <1>11, <2>1, WithIsMap
  <2>3. G \in Maps(Seen)
    BY <1>1, <1>9, <1>11, <2>1, WithIsMap
  <2>4. DOMAIN M = DOMAIN s.messages \cup {p}
    BY DEF With
  <2> QED BY <2>2, <2>3, <2>4
<1>14. Covers(M, G)
  BY <1>1, <1>9, <1>11, <1>12, CoversWith
<1>15. u = [s EXCEPT !.messages = M, !.seen_ids = G, !.touched = @ \cup {p}]
  BY <1>5 DEF t
<1> HIDE DEF M, G, p
<1> QED BY <1>1, <1>13, <1>14, <1>15 DEF LoopInv, LoopState

\* What a step of the loop leaves alone: a watermark; an ack set aside, or one that is no
\* older and says more; an event excused.
Onward(s, u) ==
    /\ \A p \in DOMAIN s.contacts :
          p \in DOMAIN u.contacts /\ u.contacts[p].last_ack_ts = s.contacts[p].last_ack_ts
    /\ \A p \in DOMAIN s.acks :
          /\ p \in DOMAIN u.acks
          /\ u.acks[p].ts >= s.acks[p].ts /\ s.acks[p].ids \subseteq u.acks[p].ids
    /\ s.excused \subseteq u.excused

\* An ack that was read is excused or set aside.
SetAside(s, e) ==
    e.kind = "ack" =>
        \/ e \in s.excused
        \/ /\ e.from \in DOMAIN s.acks
           /\ s.acks[e.from].ts >= Clamped(e.ts) /\ e.ids \subseteq s.acks[e.from].ids

LEMMA AckIs ==
    ASSUME NEW s, LoopInv(s), NEW p \in DOMAIN s.acks
    PROVE  s.acks[p].ts \in Nat /\ s.acks[p].ids \in SUBSET OwnIds
<1>1. s.acks[p] \in Acks
  BY StateIs, MapIs
<1> QED BY <1>1 DEF Acks

LEMMA OnwardSame ==
    ASSUME NEW s, LoopInv(s), NEW u, u.acks = s.acks, s.excused \subseteq u.excused,
           \A p \in DOMAIN s.contacts :
             p \in DOMAIN u.contacts /\ u.contacts[p].last_ack_ts = s.contacts[p].last_ack_ts
    PROVE  Onward(s, u)
<1>1. \A p \in DOMAIN s.acks : s.acks[p].ts >= s.acks[p].ts
  BY AckIs
<1> QED BY <1>1 DEF Onward

LEMMA OnwardOn ==
    ASSUME NEW r, LoopInv(r), NEW s, LoopInv(s), NEW u, LoopInv(u), Onward(r, s), Onward(s, u)
    PROVE  Onward(r, u)
<1>1. ASSUME NEW p \in DOMAIN r.acks
      PROVE  /\ p \in DOMAIN u.acks
             /\ u.acks[p].ts >= r.acks[p].ts /\ r.acks[p].ids \subseteq u.acks[p].ids
  <2>1. p \in DOMAIN s.acks /\ p \in DOMAIN u.acks
    BY DEF Onward
  <2>2. r.acks[p].ts \in Nat /\ s.acks[p].ts \in Nat /\ u.acks[p].ts \in Nat
    BY <2>1, AckIs
  <2>3. s.acks[p].ts >= r.acks[p].ts /\ r.acks[p].ids \subseteq s.acks[p].ids
    BY DEF Onward
  <2>4. u.acks[p].ts >= s.acks[p].ts /\ s.acks[p].ids \subseteq u.acks[p].ids
    BY <2>1 DEF Onward
  <2>5. u.acks[p].ts >= r.acks[p].ts
    BY <2>2, <2>3, <2>4
  <2> QED BY <2>1, <2>3, <2>4, <2>5
<1>2. \A p \in DOMAIN r.contacts :
         p \in DOMAIN u.contacts /\ u.contacts[p].last_ack_ts = r.contacts[p].last_ack_ts
  BY DEF Onward
<1>3. r.excused \subseteq u.excused
  BY DEF Onward
<1> QED BY <1>1, <1>2, <1>3 DEF Onward

LEMMA StaysAside ==
    ASSUME NEW s, LoopInv(s), NEW u, LoopInv(u), Onward(s, u), NEW e \in Events, SetAside(s, e)
    PROVE  SetAside(u, e)
<1> SUFFICES ASSUME e.kind = "ack", e \notin u.excused
             PROVE  /\ e.from \in DOMAIN u.acks
                    /\ u.acks[e.from].ts >= Clamped(e.ts) /\ e.ids \subseteq u.acks[e.from].ids
  BY DEF SetAside
<1> DEFINE p == e.from
<1>1. /\ p \in DOMAIN s.acks
      /\ s.acks[p].ts >= Clamped(e.ts) /\ e.ids \subseteq s.acks[p].ids
  BY DEF SetAside, Onward
<1>2. /\ p \in DOMAIN u.acks
      /\ u.acks[p].ts >= s.acks[p].ts /\ s.acks[p].ids \subseteq u.acks[p].ids
  BY <1>1 DEF Onward
<1>3. u.acks[p].ts \in Nat /\ s.acks[p].ts \in Nat
  BY <1>1, <1>2, AckIs
<1>4. Clamped(e.ts) \in Nat
  BY EventIs, ClampedIs
<1> HIDE DEF p
<1>5. u.acks[p].ts >= Clamped(e.ts)
  BY <1>1, <1>2, <1>3, <1>4
<1>6. e.ids \subseteq u.acks[p].ids
  BY <1>1, <1>2
<1> QED BY <1>2, <1>5, <1>6 DEF p

\* A stranger becomes a contact.
LEMMA StrangerLoops ==
    ASSUME NEW s, LoopInv(s), NEW p \in Peers, p \notin DOMAIN s.contacts,
           NEW u, u = [s EXCEPT !.contacts = With(@, p, Stranger), !.dirty = TRUE]
    PROVE  LoopInv(u) /\ Onward(s, u)
<1> DEFINE C == With(s.contacts, p, Stranger)
<1>1. s.contacts \in Maps(Person) /\ Stranger \in Person
  BY StateIs, StrangerIsPerson
<1>2. C \in Maps(Person)
  BY <1>1, WithIsMap
<1>3. DOMAIN C = DOMAIN s.contacts \cup {p} /\ \A x \in DOMAIN s.contacts : C[x] = s.contacts[x]
  BY DEF With
<1>4. u = [s EXCEPT !.contacts = C, !.dirty = TRUE]
  OBVIOUS
<1> HIDE DEF C
<1>5. LoopInv(u) /\ u.acks = s.acks /\ u.excused = s.excused /\ u.contacts = C
  BY <1>2, <1>4 DEF LoopInv, LoopState
<1>6. \A x \in DOMAIN s.contacts :
         x \in DOMAIN u.contacts /\ u.contacts[x].last_ack_ts = s.contacts[x].last_ack_ts
  BY <1>3, <1>5
<1> QED BY <1>5, <1>6, OnwardSame

LEMMA TextLoops ==
    ASSUME NEW s, LoopInv(s), NEW e \in Events, e.kind = "text", NEW u \in Text(s, e)
    PROVE  LoopInv(u) /\ Onward(s, u)
<1>1. CASE e.from \notin DOMAIN s.contacts /\ Cardinality(DOMAIN s.contacts) >= MaxContacts
  <2>1. u = [s EXCEPT !.excused = @ \cup {e}]
    BY <1>1 DEF Text
  <2>2. LoopInv(u) /\ u.acks = s.acks /\ u.excused = s.excused \cup {e} /\ u.contacts = s.contacts
    BY <2>1 DEF LoopInv, LoopState
  <2> QED BY <2>2, OnwardSame
<1>2. CASE ~(e.from \notin DOMAIN s.contacts /\ Cardinality(DOMAIN s.contacts) >= MaxContacts)
  <2> DEFINE t == IF e.from \in DOMAIN s.contacts THEN s
                  ELSE [s EXCEPT !.contacts = With(@, e.from, Stranger), !.dirty = TRUE]
  <2>1. u \in IF e.id \in IdSet(t, e.from) THEN OldText(t, e) ELSE NewText(t, e)
    BY <1>2 DEF Text
  <2>2. LoopInv(t) /\ Onward(s, t)
    <3>1. CASE e.from \in DOMAIN s.contacts
      <4>1. t = s
        BY <3>1
      <4> QED BY <4>1, OnwardSame
    <3>2. CASE e.from \notin DOMAIN s.contacts
      BY <3>2, EventIs, StrangerLoops
    <3> QED BY <3>1, <3>2
  <2> HIDE DEF t
  <2>3. LoopInv(u) /\ u.contacts = t.contacts /\ u.acks = t.acks /\ u.excused = t.excused
    BY <2>1, <2>2, OldTextLoops, NewTextLoops
  <2>4. Onward(t, u)
    BY <2>2, <2>3, OnwardSame
  <2> QED BY <2>2, <2>3, <2>4, OnwardOn
<1> QED BY <1>1, <1>2

LEMMA DeliveryAckLoops ==
    ASSUME NEW s, LoopInv(s), NEW e \in Events, e.kind = "ack", NEW u \in DeliveryAck(s, e)
    PROVE  LoopInv(u) /\ Onward(s, u) /\ SetAside(u, e)
<1> DEFINE p  == e.from
           ts == Clamped(e.ts)
           a  == Maybe(s.acks, p, [ts |-> 0, ids |-> {}])
           b  == [ts |-> IF ts > a.ts THEN ts ELSE a.ts, ids |-> a.ids \cup e.ids]
           A  == With(s.acks, p, b)
<1>1. p \in Peers /\ e.ts \in Nat /\ e.ids \in SUBSET OwnIds /\ ts \in Nat
  BY EventIs, ClampedIs
<1>2. a \in Acks
  <2>1. [ts |-> 0, ids |-> {}] \in Acks
    BY DEF Acks
  <2> QED BY <2>1, StateIs, MaybeIn
<1>3. a.ts \in Nat /\ a.ids \in SUBSET OwnIds
  BY <1>2 DEF Acks
<1>4. p \in DOMAIN s.acks => a = s.acks[p]
  BY DEF Maybe
<1>5. u = [s EXCEPT !.acks = A]
  BY DEF DeliveryAck
<1> HIDE DEF ts, a
<1>6. b \in Acks /\ b.ts >= ts /\ b.ts >= a.ts /\ a.ids \subseteq b.ids /\ e.ids \subseteq b.ids
  BY <1>1, <1>3 DEF Acks
<1> HIDE DEF b
<1>7. A \in Maps(Acks)
  BY <1>1, <1>6, StateIs, WithIsMap
<1>8. DOMAIN A = DOMAIN s.acks \cup {p} /\ A[p] = b /\ \A x \in DOMAIN s.acks : x # p => A[x] = s.acks[x]
  BY DEF With
<1> HIDE DEF A, p
<1>9. LoopInv(u) /\ u.acks = A /\ u.contacts = s.contacts /\ u.excused = s.excused
  BY <1>5, <1>7 DEF LoopInv, LoopState
<1>10. ASSUME NEW x \in DOMAIN s.acks
       PROVE  /\ x \in DOMAIN A
              /\ A[x].ts >= s.acks[x].ts /\ s.acks[x].ids \subseteq A[x].ids
  <2>1. CASE x = p
    BY <1>4, <1>6, <1>8, <2>1
  <2>2. CASE x # p
    <3>1. A[x] = s.acks[x] /\ s.acks[x].ts \in Nat
      BY <1>8, <2>2, AckIs
    <3> QED BY <1>8, <3>1
  <2> QED BY <2>1, <2>2
<1>11. Onward(s, u)
  BY <1>9, <1>10 DEF Onward
<1>12. SetAside(u, e)
  BY <1>6, <1>8, <1>9 DEF SetAside, p, ts
<1> QED BY <1>9, <1>11, <1>12

LEMMA ProfileLoops ==
    ASSUME NEW s, LoopInv(s), NEW e \in Events, e.kind = "profile", NEW u \in Profile(s, e)
    PROVE  LoopInv(u) /\ Onward(s, u)
<1> DEFINE p == e.from
           v == Least(Clamped(e.ts), Now)
           C == [s.contacts EXCEPT ![p].last_profile_ts = v]
<1>1. CASE u = s
  BY <1>1, OnwardSame
<1>2. CASE p \in DOMAIN s.contacts /\ u = [s EXCEPT !.contacts[p].last_profile_ts = v, !.dirty = TRUE]
  <2>1. e.ts \in Nat
    BY EventIs
  <2>2. v \in Nat
    BY <2>1, ClampedIs DEF Watermark
  <2>3. u = [s EXCEPT !.contacts = C, !.dirty = TRUE]
    BY <1>2
  <2> HIDE DEF v, p
  <2>4. s.contacts \in Maps(Person)
    BY StateIs
  <2>5. /\ DOMAIN s.contacts \subseteq Peers /\ \A x \in DOMAIN s.contacts : s.contacts[x] \in Person
    BY <2>4, MapIs
  <2>6. DOMAIN C = DOMAIN s.contacts /\ C = [x \in DOMAIN C |-> C[x]]
    OBVIOUS
  <2>7. ASSUME NEW x \in DOMAIN s.contacts
        PROVE  C[x] \in Person /\ C[x].last_ack_ts = s.contacts[x].last_ack_ts
    <3>1. s.contacts[x] \in Contact /\ s.contacts[x].last_ack_ts <= Now
      BY <2>5 DEF Person
    <3>2. C[x] = IF x = p THEN [s.contacts[x] EXCEPT !.last_profile_ts = v] ELSE s.contacts[x]
      OBVIOUS
    <3>3. C[x] \in Contact /\ C[x].last_ack_ts = s.contacts[x].last_ack_ts
      BY <2>2, <3>1, <3>2 DEF Contact
    <3> QED BY <3>1, <3>3 DEF Person
  <2> HIDE DEF C
  <2>8. C \in Maps(Person)
    BY <2>5, <2>6, <2>7, IsMap
  <2>9. LoopInv(u) /\ u.contacts = C /\ u.acks = s.acks /\ u.excused = s.excused
    BY <2>3, <2>8 DEF LoopInv, LoopState
  <2> QED BY <2>6, <2>7, <2>9, OnwardSame
<1> QED BY <1>1, <1>2 DEF Profile

\* One event of the page.
LEMMA IngestLoops ==
    ASSUME NEW s, LoopInv(s), NEW e \in Events, NEW u \in Ingest(s, e)
    PROVE  LoopInv(u) /\ Onward(s, u) /\ SetAside(u, e)
<1> DEFINE t == [s EXCEPT !.stored = TRUE]
<1>1. LoopInv(t) /\ t.acks = s.acks /\ t.excused = s.excused /\ t.contacts = s.contacts
  BY DEF LoopInv, LoopState
<1>2. Onward(s, t)
  BY <1>1, OnwardSame
<1>3. /\ e.kind = "junk" => u = s
      /\ e.kind = "echo" => u = t
      /\ e.kind \notin {"junk", "echo"} =>
           IF Blocked(s, e.from) THEN u = [t EXCEPT !.excused = @ \cup {e}]
           ELSE /\ e.kind = "text" => u \in Text(t, e)
                /\ e.kind = "ack" => u \in DeliveryAck(t, e)
                /\ e.kind = "profile" => u \in Profile(t, e)
  BY DEF Ingest
<1> HIDE DEF t
<1>4. CASE e.kind = "junk"
  BY <1>3, <1>4, OnwardSame DEF SetAside
<1>5. CASE e.kind = "echo"
  BY <1>1, <1>2, <1>3, <1>5 DEF SetAside
<1>6. CASE e.kind \notin {"junk", "echo"} /\ Blocked(s, e.from)
  <2>1. u = [t EXCEPT !.excused = @ \cup {e}]
    BY <1>3, <1>6
  <2>2. LoopInv(u) /\ u.acks = t.acks /\ u.excused = t.excused \cup {e} /\ u.contacts = t.contacts
    BY <1>1, <2>1 DEF LoopInv, LoopState
  <2>3. Onward(s, u)
    BY <1>1, <2>2, OnwardSame
  <2> QED BY <2>2, <2>3 DEF SetAside
<1>7. CASE e.kind \notin {"junk", "echo"} /\ ~Blocked(s, e.from)
  <2>1. LoopInv(u) /\ Onward(t, u) /\ SetAside(u, e)
    <3>1. CASE e.kind = "text"
      BY <1>1, <1>3, <1>7, <3>1, TextLoops DEF SetAside
    <3>2. CASE e.kind = "ack"
      BY <1>1, <1>3, <1>7, <3>2, DeliveryAckLoops
    <3>3. CASE e.kind = "profile"
      BY <1>1, <1>3, <1>7, <3>3, ProfileLoops DEF SetAside
    <3> QED BY <1>7, <3>1, <3>2, <3>3, EventIs DEF PayloadKinds
  <2> QED BY <1>1, <1>2, <2>1, OnwardOn
<1> QED BY <1>4, <1>5, <1>6, <1>7

-----------------------------------------------------------------------------
(* A page: induction over its length *)

\* The outcomes after each event, up to the n-th.
Outcomes(f, n, s, events) ==
    f = [i \in 0 .. n |->
            IF i = 0 THEN {s} ELSE UNION {Ingest(t, events[i]) : t \in f[i - 1]}]

LEMMA OutcomesExist ==
    ASSUME NEW n \in Nat, NEW s, NEW events
    PROVE  \E f : Outcomes(f, n, s, events)
<1> DEFINE G == {i \in 0 .. n : \E f : Outcomes(f, i, s, events)}
           Next1(S, i) == UNION {Ingest(t, events[i]) : t \in S}
<1>1. 0 \in G
  <2>1. Outcomes([i \in 0 .. 0 |-> {s}], 0, s, events)
    BY DEF Outcomes
  <2> QED BY <2>1
<1>2. ASSUME NEW i \in 1 .. n, i - 1 \in G PROVE i \in G
  <2>1. PICK f : Outcomes(f, i - 1, s, events)
    BY <1>2
  <2> DEFINE g == [j \in 0 .. i |-> IF j = i THEN Next1(f[i - 1], i) ELSE f[j]]
  <2>2. f = [j \in 0 .. i - 1 |-> IF j = 0 THEN {s} ELSE Next1(f[j - 1], j)]
    BY <2>1 DEF Outcomes
  <2> HIDE DEF Next1
  <2>3. \A j \in 0 .. i : g[j] = IF j = 0 THEN {s} ELSE Next1(g[j - 1], j)
    <3> SUFFICES ASSUME NEW j \in 0 .. i
                 PROVE  g[j] = IF j = 0 THEN {s} ELSE Next1(g[j - 1], j)
      OBVIOUS
    <3>1. CASE j = i
      <4>1. j - 1 \in 0 .. i /\ j - 1 # i /\ j # 0
        BY <3>1
      <4>2. g[j - 1] = f[j - 1] /\ g[j] = Next1(f[j - 1], j)
        BY <3>1, <4>1
      <4> QED BY <4>1, <4>2
    <3>2. CASE j # i /\ j # 0
      <4>1. j - 1 \in 0 .. i /\ j - 1 # i /\ j \in 0 .. i - 1
        BY <3>2
      <4>2. g[j - 1] = f[j - 1] /\ g[j] = f[j]
        BY <3>2, <4>1
      <4>3. f[j] = Next1(f[j - 1], j)
        BY <2>2, <3>2, <4>1
      <4> QED BY <3>2, <4>2, <4>3
    <3>3. CASE j # i /\ j = 0
      <4>1. j \in 0 .. i - 1 /\ g[j] = f[j]
        BY <3>3
      <4> QED BY <2>2, <3>3, <4>1
    <3> QED BY <3>1, <3>2, <3>3
  <2>4. g = [j \in 0 .. i |-> g[j]]
    OBVIOUS
  <2> HIDE DEF g
  <2>5. Outcomes(g, i, s, events)
    BY <2>3, <2>4 DEF Outcomes, Next1
  <2> QED BY <2>5
<1> HIDE DEF G
<1>3. G = 0 .. n
  <2>1. G \in SUBSET (0 .. n)
    BY DEF G
  <2> QED BY <1>1, <1>2, <2>1, UpToInduction
<1> QED BY <1>3 DEF G

\* The recursion of Looped is what it says.
LEMMA LoopedIsLast ==
    ASSUME NEW s, NEW events, Len(events) \in Nat
    PROVE  \E f : Outcomes(f, Len(events), s, events) /\ Looped(s, events) = f[Len(events)]
<1> DEFINE after[i \in 0 .. Len(events)] ==
          IF i = 0 THEN {s} ELSE UNION {Ingest(t, events[i]) : t \in after[i - 1]}
<1>1. \E f : Outcomes(f, Len(events), s, events)
  BY OutcomesExist
<1>2. Outcomes(after, Len(events), s, events)
  BY <1>1 DEF Outcomes
<1>3. Looped(s, events) = after[Len(events)]
  BY DEF Looped
<1> QED BY <1>2, <1>3

\* The whole loop keeps what each event keeps, and loses no ack.
LEMMA LoopedKeeps ==
    ASSUME NEW s, LoopInv(s), NEW events \in Seq(Events), NEW u \in Looped(s, events)
    PROVE  /\ LoopInv(u) /\ Onward(s, u)
           /\ \A i \in 1 .. Len(events) : SetAside(u, events[i])
<1> DEFINE n == Len(events)
           Good(t, i) == /\ LoopInv(t) /\ Onward(s, t)
                         /\ \A j \in 1 .. i : SetAside(t, events[j])
<1>1. n \in Nat /\ \A i \in 1 .. n : events[i] \in Events
  BY LenProperties, ElementOfSeq
<1>2. PICK f : Outcomes(f, n, s, events) /\ Looped(s, events) = f[n]
  BY <1>1, LoopedIsLast
<1> HIDE DEF n
<1>3. /\ f[0] = {s}
      /\ \A i \in 1 .. n : f[i] = UNION {Ingest(t, events[i]) : t \in f[i - 1]}
  <2>1. f = [i \in 0 .. n |-> IF i = 0 THEN {s}
                              ELSE UNION {Ingest(t, events[i]) : t \in f[i - 1]}]
    BY <1>2 DEF Outcomes
  <2>2. 0 \in 0 .. n /\ \A i \in 1 .. n : i \in 0 .. n /\ i # 0
    BY <1>1
  <2>3. f[0] = {s}
    BY <2>1, <2>2
  <2>4. ASSUME NEW i \in 1 .. n PROVE f[i] = UNION {Ingest(t, events[i]) : t \in f[i - 1]}
    BY <2>1, <2>2
  <2> QED BY <2>3, <2>4
<1> DEFINE G == {i \in 0 .. n : \A t \in f[i] : Good(t, i)}
<1>4. 0 \in G
  <2>1. Onward(s, s)
    BY OnwardSame
  <2>2. Good(s, 0)
    BY <2>1
  <2> QED BY <1>1, <1>3, <2>2
<1>5. ASSUME NEW i \in 1 .. n, i - 1 \in G PROVE i \in G
  <2> SUFFICES ASSUME NEW t \in f[i] PROVE Good(t, i)
    BY <1>1
  <2>1. PICK r \in f[i - 1] : t \in Ingest(r, events[i])
    BY <1>3
  <2>2. Good(r, i - 1)
    BY <1>5
  <2>3. events[i] \in Events
    BY <1>1
  <2>4. LoopInv(t) /\ Onward(r, t) /\ SetAside(t, events[i])
    BY <2>1, <2>2, <2>3, IngestLoops
  <2>5. Onward(s, t)
    BY <2>2, <2>4, OnwardOn
  <2>6. ASSUME NEW j \in 1 .. i PROVE SetAside(t, events[j])
    <3>1. CASE j = i
      BY <2>4, <3>1
    <3>2. CASE j # i
      <4>1. j \in 1 .. i - 1 /\ events[j] \in Events
        BY <1>1, <3>2
      <4> QED BY <2>2, <2>4, <4>1, StaysAside
    <3> QED BY <3>1, <3>2
  <2> QED BY <2>4, <2>5, <2>6
<1>6. G \in SUBSET (0 .. n)
  OBVIOUS
<1> HIDE DEF G
<1>7. G = 0 .. n
  BY <1>1, <1>4, <1>5, <1>6, UpToInduction
<1>8. n \in G
  BY <1>1, <1>7
<1> QED BY <1>2, <1>8 DEF G, n

\* The deferred acks: fresh ones mark what they name, and nothing else changes.
LEMMA AckedKeeps ==
    ASSUME NEW s, LoopInv(s)
    PROVE  /\ LoopInv(Acked(s))
           /\ Acked(s).seen_ids = s.seen_ids /\ Acked(s).excused = s.excused
           /\ Acked(s).stored = s.stored
           /\ DOMAIN Acked(s).messages = DOMAIN s.messages
           /\ \A p \in DOMAIN s.acks \cap DOMAIN s.messages : Fresh(s, p) =>
                 \A m \in ToSet(Acked(s).messages[p]) :
                    m.outgoing /\ m.id \in s.acks[p].ids => m.delivered
<1> DEFINE heard == {p \in DOMAIN s.acks : Fresh(s, p)}
           M == [p \in DOMAIN s.messages |->
                    IF p \in heard THEN Marked(s.messages[p], s.acks[p].ids) ELSE s.messages[p]]
           C == [p \in DOMAIN s.contacts |->
                    IF p \in heard
                    THEN [s.contacts[p] EXCEPT !.last_ack_ts = Watermark(s.acks[p].ts)]
                    ELSE s.contacts[p]]
           T == s.touched \cup {p \in DOMAIN M : M[p] # s.messages[p]}
           b == s.dirty \/ heard \cap DOMAIN s.contacts # {}
<1>1. Acked(s) = [s EXCEPT !.contacts = C, !.messages = M, !.touched = T, !.dirty = b]
  BY DEF Acked
<1>2. /\ s.contacts \in Maps(Person) /\ s.messages \in Maps(Convos(drawn))
      /\ s.touched \subseteq DOMAIN s.messages
  BY StateIs DEF LoopInv
<1>3. /\ DOMAIN s.messages \subseteq Peers /\ DOMAIN s.contacts \subseteq Peers
      /\ \A p \in DOMAIN s.messages : s.messages[p] \in Convos(drawn)
      /\ \A p \in DOMAIN s.contacts : s.contacts[p] \in Person
  BY <1>2, MapIs
<1>4. DOMAIN M = DOMAIN s.messages /\ M = [p \in DOMAIN M |-> M[p]]
  OBVIOUS
<1>5. ASSUME NEW p \in DOMAIN s.messages
      PROVE  /\ M[p] \in Convos(drawn) /\ Incoming(M[p]) \subseteq Incoming(s.messages[p])
             /\ p \in heard => \A m \in ToSet(M[p]) : m.outgoing /\ m.id \in s.acks[p].ids => m.delivered
  <2>1. M[p] = IF p \in heard THEN Marked(s.messages[p], s.acks[p].ids) ELSE s.messages[p]
    OBVIOUS
  <2> HIDE DEF M, heard
  <2> QED BY <1>3, <2>1, MarkedIsConvo
<1>6. DOMAIN C = DOMAIN s.contacts /\ C = [p \in DOMAIN C |-> C[p]]
  OBVIOUS
<1>7. ASSUME NEW p \in DOMAIN s.contacts PROVE C[p] \in Person
  <2>1. s.contacts[p] \in Contact /\ s.contacts[p].last_ack_ts <= Now
    BY <1>3 DEF Person
  <2>2. CASE p \in heard
    <3> DEFINE w == Watermark(s.acks[p].ts)
    <3>1. s.acks[p].ts \in Nat
      BY <2>2, AckIs
    <3>2. w \in Nat /\ w <= Now
      BY <3>1, Limits DEF Watermark, Least
    <3>3. C[p] = [s.contacts[p] EXCEPT !.last_ack_ts = w]
      BY <2>2
    <3> HIDE DEF w, C
    <3> QED BY <2>1, <3>2, <3>3 DEF Person, Contact
  <2>3. CASE p \notin heard
    BY <1>3, <2>3
  <2> QED BY <2>2, <2>3
<1>8. T \subseteq DOMAIN M /\ T \subseteq Peers
  BY <1>2, <1>3, <1>4
<1>9. b \in BOOLEAN
  BY StateIs
<1> HIDE DEF M, C, T, b
<1>10. M \in Maps(Convos(drawn)) /\ C \in Maps(Person)
  <2>1. M \in Maps(Convos(drawn))
    BY <1>3, <1>4, <1>5, IsMap
  <2>2. C \in Maps(Person)
    BY <1>3, <1>6, <1>7, IsMap
  <2> QED BY <2>1, <2>2
<1>11. Covers(M, s.seen_ids)
  BY <1>4, <1>5 DEF LoopInv, Covers
<1>12. /\ Acked(s).messages = M /\ Acked(s).seen_ids = s.seen_ids
       /\ Acked(s).excused = s.excused /\ Acked(s).touched = T
       /\ Acked(s).stored = s.stored
  BY <1>1 DEF LoopInv, LoopState
<1>13. Acked(s) \in LoopState(drawn)
  BY <1>1, <1>8, <1>9, <1>10 DEF LoopInv, LoopState
<1>14. LoopInv(Acked(s))
  BY <1>8, <1>11, <1>12, <1>13 DEF LoopInv
<1> QED BY <1>4, <1>5, <1>12, <1>14

-----------------------------------------------------------------------------
(* The storage queue *)

LEMMA WritesAre ==
    ASSUME NEW d, NEW n
    PROVE  /\ \A p \in Peers, c \in Convos(d) : SetMessages(p, c) \in Write(d, n)
           /\ \A p \in Peers : Delete(p) \in Write(d, n)
           /\ \A v \in Maps(Person) : Set("contacts", v) \in Write(d, n)
           /\ \A v \in Maps(Seen) : Set("seen_ids", v) \in Write(d, n)
           /\ \A v \in 0 .. n : Set("cursor", v) \in Write(d, n)
<1>1. \A p \in Peers, c \in Convos(d) : SetMessages(p, c) \in Write(d, n)
  BY DEF Write, SetMessages
<1>2. \A p \in Peers : Delete(p) \in Write(d, n)
  BY DEF Write, Delete
<1>3. \A v \in Maps(Person) : Set("contacts", v) \in Write(d, n)
  BY DEF Write, Set
<1>4. \A v \in Maps(Seen) : Set("seen_ids", v) \in Write(d, n)
  BY DEF Write, Set
<1>5. \A v \in 0 .. n : Set("cursor", v) \in Write(d, n)
  BY DEF Write, Set
<1> QED BY <1>1, <1>2, <1>3, <1>4, <1>5

\* More ids drawn and a later cursor admit more.
LEMMA WritesGrow ==
    ASSUME NEW d, NEW e, d \subseteq e, NEW n \in Nat, NEW m \in Nat, n <= m
    PROVE  /\ \A q \in Seq(Write(d, n)) : q \in Seq(Write(e, m))
           /\ \A x \in Disk(d, n) : x \in Disk(e, m)
           /\ \A f \in Maps(Convos(d)) : f \in Maps(Convos(e))
<1>1. \A f \in Maps(Convos(d)) : f \in Maps(Convos(e))
  BY ConvosGrow, MapsGrow
<1>2. 0 .. n \subseteq 0 .. m
  OBVIOUS
<1>3. Write(d, n) \subseteq Write(e, m)
  <2>1. [key: {"messages"}, peer: Peers, value: Convos(d)]
          \subseteq [key: {"messages"}, peer: Peers, value: Convos(e)]
    BY ConvosGrow
  <2>2. [key: {"cursor"}, value: 0 .. n] \subseteq [key: {"cursor"}, value: 0 .. m]
    BY <1>2
  <2> QED BY <2>1, <2>2 DEF Write
<1>4. \A q \in Seq(Write(d, n)) : q \in Seq(Write(e, m))
  BY <1>3, SeqMonotonic
<1>5. \A x \in Disk(d, n) : x \in Disk(e, m)
  <2> DEFINE A == Maps(Person)
             B == Maps(Convos(d))
             C == Maps(Convos(e))
             S == Maps(Seen)
             I == 0 .. n
             J == 0 .. m
  <2>1. B \subseteq C /\ I \subseteq J
    BY <1>1, <1>2
  <2> HIDE DEF A, B, C, S, I, J
  <2>2. [contacts: A, messages: B, seen_ids: S, cursor: I]
          \subseteq [contacts: A, messages: C, seen_ids: S, cursor: J]
    BY <2>1
  <2> QED BY <2>2 DEF Disk, A, B, C, S, I, J
<1> QED BY <1>1, <1>4, <1>5

LEMMA QueuedKeeps ==
    ASSUME NEW W, NEW ws \in Seq(W), writes \in Seq(W), Queued(ws)
    PROVE  writes' \in Seq(W) /\ Len(writes') <= MaxWrites
<1>1. writes' = writes \o ws /\ Len(writes) + Len(ws) <= MaxWrites
  BY DEF Queued
<1>2. writes \o ws \in Seq(W) /\ Len(writes \o ws) = Len(writes) + Len(ws)
  BY ConcatProperties
<1> QED BY <1>1, <1>2

LEMMA GuardedIs ==
    ASSUME NEW W, NEW ws \in Seq(W)
    PROVE  Guarded(ws) \in Seq(W)
BY DEF Guarded

LEMMA OneWrite ==
    ASSUME NEW W, NEW w \in W
    PROVE  <<w>> \in Seq(W)
OBVIOUS

\* What a page writes.
LEMMA PageWritesAre ==
    ASSUME NEW s, LoopInv(s), NEW order \in Orders(s.touched), NEW c \in Nat
    PROVE  PageWrites(s, order, c) \in Seq(Write(drawn, c))
<1> DEFINE W == Write(drawn, c)
           a == [i \in DOMAIN order |-> SetMessages(order[i], s.messages[order[i]])]
           b == IF order # <<>> THEN <<Set("seen_ids", s.seen_ids)>> ELSE <<>>
           e == IF s.dirty THEN <<Set("contacts", s.contacts)>> ELSE <<>>
           f == IF c # cursor THEN <<Set("cursor", c)>> ELSE <<>>
<1>1. /\ s.contacts \in Maps(Person) /\ s.messages \in Maps(Convos(drawn))
      /\ s.seen_ids \in Maps(Seen) /\ s.touched \subseteq Peers
      /\ s.touched \subseteq DOMAIN s.messages
  BY StateIs DEF LoopInv
<1>2. order \in [1 .. Cardinality(s.touched) -> s.touched]
  BY DEF Orders
<1>3. Cardinality(s.touched) \in Nat
  <2>1. IsFiniteSet(s.touched)
    BY <1>1, InboxAssumption, FS_Subset
  <2> QED BY <2>1, FS_CardinalityType
<1>4. \A p \in s.touched : p \in Peers /\ s.messages[p] \in Convos(drawn)
  BY <1>1, MapIs
<1>5. \A p \in s.touched : SetMessages(p, s.messages[p]) \in W
  BY <1>4, WritesAre
<1>6. Set("seen_ids", s.seen_ids) \in W /\ Set("contacts", s.contacts) \in W
  BY <1>1, WritesAre
<1>7. Set("cursor", c) \in W
  <2>1. c \in 0 .. c
    OBVIOUS
  <2> QED BY <2>1, WritesAre
<1> DEFINE N == Cardinality(s.touched)
<1> HIDE DEF W, N
<1>8. a \in [1 .. N -> W]
  BY <1>2, <1>5 DEF N
<1>9. a \in Seq(W)
  BY <1>3, <1>8, SeqDef DEF N
<1>10. b \in Seq(W) /\ e \in Seq(W) /\ f \in Seq(W)
  BY <1>6, <1>7, OneWrite
<1> HIDE DEF a, b, e, f
<1>11. ((a \o b) \o e) \o f \in Seq(W)
  <2>1. a \o b \in Seq(W)
    BY <1>9, <1>10, ConcatProperties
  <2>2. (a \o b) \o e \in Seq(W)
    BY <1>10, <2>1, ConcatProperties
  <2> QED BY <1>10, <2>2, ConcatProperties
<1>12. PageWrites(s, order, c) = ((a \o b) \o e) \o f
  BY DEF PageWrites, a, b, e, f
<1> QED BY <1>11, <1>12 DEF W

\* What landing does to the disk.
LEMMA AfterIs ==
    ASSUME NEW d, NEW n \in Nat, NEW w \in Write(d, n), NEW x \in Disk(d, n)
    PROVE  After(w, x) \in Disk(d, n) /\ FileOf(w) \subseteq Peers
<1> DEFINE A == Maps(Person)
           B == Maps(Convos(d))
           S == Maps(Seen)
           I == 0 .. n
<1>1. x \in [contacts: A, messages: B, seen_ids: S, cursor: I]
  BY DEF Disk
<1>2. CASE w \in [key: {"messages"}, peer: Peers, value: Convos(d)]
  <2>1. w.key = "messages" /\ w.peer \in Peers /\ w.value \in Convos(d)
    BY <1>2
  <2>2. After(w, x) = [x EXCEPT !.messages = With(x.messages, w.peer, w.value)]
    BY <2>1 DEF After
  <2>3. With(x.messages, w.peer, w.value) \in B
    BY <1>1, <2>1, WithIsMap
  <2>4. FileOf(w) \subseteq Peers
    BY <2>1 DEF FileOf
  <2> HIDE DEF A, B, S, I
  <2> QED BY <1>1, <2>2, <2>3, <2>4 DEF Disk, A, B, S, I
<1>3. CASE w \in [key: {"delete"}, peer: Peers]
  <2>1. w.key = "delete" /\ w.peer \in Peers
    BY <1>3
  <2>2. After(w, x) = [x EXCEPT !.messages = Without(x.messages, w.peer)]
    BY <2>1 DEF After
  <2>3. Without(x.messages, w.peer) \in B
    BY <1>1, <2>1, WithoutIsMap
  <2>4. FileOf(w) \subseteq Peers
    BY <2>1 DEF FileOf
  <2> HIDE DEF A, B, S, I
  <2> QED BY <1>1, <2>2, <2>3, <2>4 DEF Disk, A, B, S, I
<1>4. CASE w \in [key: {"contacts"}, value: A]
  <2>1. w.key = "contacts" /\ w.value \in A
    BY <1>4
  <2>2. After(w, x) = [x EXCEPT !.contacts = w.value]
    BY <2>1 DEF After
  <2>4. FileOf(w) \subseteq Peers
    BY <2>1 DEF FileOf
  <2> HIDE DEF A, B, S, I
  <2> QED BY <1>1, <2>1, <2>2, <2>4 DEF Disk, A, B, S, I
<1>5. CASE w \in [key: {"seen_ids"}, value: S]
  <2>1. w.key = "seen_ids" /\ w.value \in S
    BY <1>5
  <2>2. After(w, x) = [x EXCEPT !.seen_ids = w.value]
    BY <2>1 DEF After
  <2>4. FileOf(w) \subseteq Peers
    BY <2>1 DEF FileOf
  <2> HIDE DEF A, B, S, I
  <2> QED BY <1>1, <2>1, <2>2, <2>4 DEF Disk, A, B, S, I
<1>6. CASE w \in [key: {"cursor"}, value: I]
  <2>1. w.key = "cursor" /\ w.value \in I
    BY <1>6
  <2>2. After(w, x) = [x EXCEPT !.cursor = w.value]
    BY <2>1 DEF After
  <2>4. FileOf(w) \subseteq Peers
    BY <2>1 DEF FileOf
  <2> HIDE DEF A, B, S, I
  <2> QED BY <1>1, <2>1, <2>2, <2>4 DEF Disk, A, B, S, I
<1> QED BY <1>2, <1>3, <1>4, <1>5, <1>6 DEF Write

LEMMA MailIs ==
    ASSUME mail \in Mails
    PROVE  /\ mail \in Seq(Events) /\ Len(mail) \in Nat /\ ToSet(mail) \subseteq Events
           /\ \A i \in Int, j \in Int :
                i >= 1 /\ j <= Len(mail) =>
                  SubSeq(mail, i, j) \in Seq(Events) /\ ToSet(SubSeq(mail, i, j)) \subseteq Events
<1>1. mail \in Seq(Events)
  BY InboxAssumption
<1>2. Len(mail) \in Nat /\ DOMAIN mail = 1 .. Len(mail) /\ \A i \in 1 .. Len(mail) : mail[i] \in Events
  BY <1>1, LenProperties, ElementOfSeq
<1>3. ToSet(mail) \subseteq Events
  BY <1>2 DEF ToSet
<1>4. ASSUME NEW i \in Int, NEW j \in Int, i >= 1, j <= Len(mail)
      PROVE  SubSeq(mail, i, j) \in Seq(Events) /\ ToSet(SubSeq(mail, i, j)) \subseteq Events
  <2>1. \A k \in i .. j : mail[k] \in Events
    BY <1>2, <1>4
  <2>2. SubSeq(mail, i, j) \in Seq(Events)
    BY <2>1, SubSeqProperties
  <2> DEFINE t == SubSeq(mail, i, j)
  <2> HIDE DEF t
  <2>3. DOMAIN t = 1 .. Len(t) /\ \A k \in 1 .. Len(t) : t[k] \in Events
    BY <2>2, LenProperties, ElementOfSeq DEF t
  <2>4. ToSet(t) \subseteq Events
    BY <2>3 DEF ToSet
  <2> QED BY <2>2, <2>4 DEF t
<1> QED BY <1>1, <1>2, <1>3, <1>4

-----------------------------------------------------------------------------
(* Each action *)

\* A page moves the cursor only forward, and not past the mail.
LEMMA PageForward ==
    ASSUME InboxInv, NEW n \in Nat, NEW k \in Nat, k <= n, cursor + n <= Len(mail),
           NEW s, NEW c, c = NextCursor(s, n, k)
    PROVE  /\ c \in Nat /\ cursor \in Nat /\ cursor <= c /\ c <= cursor + n /\ c \in 0 .. Len(mail)
           /\ SubSeq(mail, cursor + 1, cursor + k) \in Seq(Events)
           /\ ToSet(SubSeq(mail, cursor + k + 1, c)) \subseteq Events
<1>1. cursor \in Nat /\ Len(mail) \in Nat /\ mail \in Mails
  BY MailIs DEF InboxInv, ModelInv, ShellInv
<1>2. c \in Nat /\ cursor <= c /\ c <= cursor + n /\ c \in 0 .. Len(mail)
  BY <1>1 DEF NextCursor
<1>3. SubSeq(mail, cursor + 1, cursor + k) \in Seq(Events)
  BY <1>1, MailIs
<1>4. ToSet(SubSeq(mail, cursor + k + 1, c)) \subseteq Events
  BY <1>1, <1>2, MailIs
<1> QED BY <1>1, <1>2, <1>3, <1>4

LEMMA IngestPollKeeps ==
    ASSUME InboxInv, NEW n \in Nat, NEW k \in Nat, k <= n, IngestPoll(n, k)
    PROVE  InboxInv'
<1>1. PICK t \in Looped(Loop, SubSeq(mail, cursor + 1, cursor + k)) :
        LET s == Acked(t)
        IN  \E order \in Orders(s.touched) :
              /\ contacts' = s.contacts
              /\ messages' = s.messages
              /\ seen_ids' = s.seen_ids
              /\ cursor' = NextCursor(s, n, k)
              /\ Queued(PageWrites(s, order, cursor'))
              /\ excused' = s.excused \cup ToSet(SubSeq(mail, cursor + k + 1, cursor'))
              /\ torn' = torn \cup (s.touched \cap DOMAIN loading)
  BY DEF IngestPoll
<1> DEFINE s == Acked(t)
<1>2. cursor + n <= Len(mail)
      /\ UNCHANGED <<kv_load_failed, loading, disk, mail, drawn, unsaved, failures>>
  BY DEF IngestPoll
<1>3. PICK order \in Orders(s.touched) :
        /\ contacts' = s.contacts
        /\ messages' = s.messages
        /\ seen_ids' = s.seen_ids
        /\ cursor' = NextCursor(s, n, k)
        /\ Queued(PageWrites(s, order, cursor'))
        /\ excused' = s.excused \cup ToSet(SubSeq(mail, cursor + k + 1, cursor'))
        /\ torn' = torn \cup (s.touched \cap DOMAIN loading)
  BY <1>1
<1>4. /\ cursor' \in Nat /\ cursor \in Nat /\ cursor <= cursor' /\ cursor' \in 0 .. Len(mail)
      /\ SubSeq(mail, cursor + 1, cursor + k) \in Seq(Events)
      /\ ToSet(SubSeq(mail, cursor + k + 1, cursor')) \subseteq Events
  BY <1>2, <1>3, PageForward
<1>5. LoopInv(t)
  BY <1>1, <1>4, LoopBegins, LoopedKeeps
<1>6. LoopInv(s)
  BY <1>5, AckedKeeps
<1> HIDE DEF s
<1>7. ModelInv'
  BY <1>2, <1>3, <1>4, <1>6, StateIs DEF LoopInv, ModelInv, InboxInv
<1>8. ShellInv'
  <2>1. drawn \subseteq drawn
    OBVIOUS
  <2>2. writes \in Seq(Write(drawn, cursor')) /\ disk \in Disk(drawn, cursor')
    BY <1>4, <2>1, WritesGrow DEF InboxInv, ShellInv
  <2>3. PageWrites(s, order, cursor') \in Seq(Write(drawn, cursor'))
    BY <1>3, <1>4, <1>6, PageWritesAre
  <2>4. writes' \in Seq(Write(drawn, cursor')) /\ Len(writes') <= MaxWrites
    BY <1>3, <2>2, <2>3, QueuedKeeps
  <2> QED BY <1>2, <2>2, <2>4 DEF InboxInv, ShellInv
<1>9. ObserverInv'
  BY <1>2, <1>3, <1>4, <1>6, StateIs DEF InboxInv, ObserverInv
<1> QED BY <1>7, <1>8, <1>9 DEF InboxInv

LEMMA WriteKeeps ==
    ASSUME InboxInv, WriteLands \/ WriteFails
    PROVE  InboxInv'
<1> DEFINE W == Write(drawn, cursor)
<1>1. writes \in Seq(W) /\ writes # <<>> /\ Len(writes) <= MaxWrites
      /\ disk \in Disk(drawn, cursor) /\ cursor \in Nat
  <2>1. Len(mail) \in Nat
    BY MailIs DEF InboxInv, ShellInv
  <2> QED BY <2>1 DEF InboxInv, ModelInv, ShellInv, WriteLands, WriteFails
<1> HIDE DEF W
<1>2. Head(writes) \in W /\ Tail(writes) \in Seq(W) /\ Len(Tail(writes)) = Len(writes) - 1
      /\ Len(writes) \in Nat
  BY <1>1, HeadTailProperties, LenProperties
<1>3. After(Head(writes), disk) \in Disk(drawn, cursor) /\ FileOf(Head(writes)) \subseteq Peers
  BY <1>1, <1>2, AfterIs DEF W
<1>4. /\ writes' = Tail(writes) /\ disk' \in {disk, After(Head(writes), disk)}
      /\ unsaved' \in {unsaved \ FileOf(Head(writes)), unsaved \cup FileOf(Head(writes))}
      /\ UNCHANGED <<model, loading, mail, drawn, excused, torn>>
      /\ failures' = failures \/ (failures' = failures + 1 /\ failures < MaxFailures)
  BY DEF WriteLands, WriteFails
<1>5. ModelInv'
  BY <1>4 DEF InboxInv, ModelInv, model
<1>6. ShellInv'
  <2>1. Len(writes') <= MaxWrites
    BY <1>1, <1>2, <1>4, Limits
  <2>2. cursor' = cursor
    BY <1>4 DEF model
  <2> QED BY <1>1, <1>2, <1>3, <1>4, <2>1, <2>2 DEF InboxInv, ShellInv, W
<1>7. ObserverInv'
  BY <1>3, <1>4, Limits DEF InboxInv, ObserverInv
<1> QED BY <1>5, <1>6, <1>7 DEF InboxInv

\* An edit of the contacts.
LEMMA ContactsKeep ==
    ASSUME InboxInv, contacts' \in Maps(Person),
           Queued(Guarded(<<Set("contacts", contacts')>>)),
           UNCHANGED <<messages, seen_ids, cursor, kv_load_failed, loading, disk, mail, drawn,
                       excused, torn, unsaved, failures>>
    PROVE  InboxInv'
<1>1. Set("contacts", contacts') \in Write(drawn, cursor)
  BY WritesAre
<1>2. Guarded(<<Set("contacts", contacts')>>) \in Seq(Write(drawn, cursor))
  BY <1>1, OneWrite, GuardedIs
<1>3. writes' \in Seq(Write(drawn, cursor)) /\ Len(writes') <= MaxWrites
  BY <1>2, QueuedKeeps DEF InboxInv, ShellInv
<1> QED BY <1>3 DEF InboxInv, ModelInv, ShellInv, ObserverInv

LEMMA AddContactKeeps ==
    ASSUME InboxInv, NEW p \in Peers, AddContact(p)
    PROVE  InboxInv'
<1>1. contacts \in Maps(Person)
  BY DEF InboxInv, ModelInv
<1>2. Maybe(contacts, p, Stranger) \in Person
  BY <1>1, StrangerIsPerson, MaybeIn
<1>3. With(contacts, p, Maybe(contacts, p, Stranger)) \in Maps(Person)
  BY <1>1, <1>2, WithIsMap
<1> QED BY <1>3, ContactsKeep DEF AddContact

LEMMA SetBlockedKeeps ==
    ASSUME InboxInv, NEW p \in Peers, NEW blocked \in BOOLEAN, SetBlocked(p, blocked)
    PROVE  InboxInv'
<1> DEFINE C == [contacts EXCEPT ![p].blocked = blocked]
<1>1. contacts \in Maps(Person)
  BY DEF InboxInv, ModelInv
<1>2. DOMAIN contacts \subseteq Peers /\ \A x \in DOMAIN contacts : contacts[x] \in Person
  BY <1>1, MapIs
<1>3. DOMAIN C = DOMAIN contacts /\ C = [x \in DOMAIN C |-> C[x]]
  OBVIOUS
<1>4. ASSUME NEW x \in DOMAIN contacts PROVE C[x] \in Person
  <2>1. contacts[x] \in Contact /\ contacts[x].last_ack_ts <= Now
    BY <1>2 DEF Person
  <2>2. C[x] = IF x = p THEN [contacts[x] EXCEPT !.blocked = blocked] ELSE contacts[x]
    OBVIOUS
  <2> QED BY <2>1, <2>2 DEF Person, Contact
<1> HIDE DEF C
<1>5. C \in Maps(Person)
  BY <1>2, <1>3, <1>4, IsMap
<1>6. contacts' = C
  BY DEF SetBlocked, C
<1> QED BY <1>5, <1>6, ContactsKeep DEF SetBlocked

LEMMA DeleteContactKeeps ==
    ASSUME InboxInv, NEW p \in Peers, DeleteContact(p)
    PROVE  InboxInv'
<1> DEFINE W == Write(drawn, cursor)
           a == Guarded(<<Set("contacts", contacts')>>)
           b == <<Delete(p)>>
           c == Guarded(<<Set("seen_ids", seen_ids')>>)
<1>1. /\ contacts' = Without(contacts, p)
      /\ messages' = Without(messages, p)
      /\ seen_ids' = Without(seen_ids, p)
      /\ Queued((a \o b) \o c)
      /\ excused' = excused \cup Forgotten(p)
      /\ torn' = torn \cup ({p} \cap DOMAIN loading)
      /\ UNCHANGED <<cursor, kv_load_failed, loading, disk, mail, drawn, unsaved, failures>>
  BY DEF DeleteContact
<1>2. contacts \in Maps(Person) /\ messages \in Maps(Convos(drawn)) /\ seen_ids \in Maps(Seen)
  BY DEF InboxInv, ModelInv
<1>3. contacts' \in Maps(Person) /\ messages' \in Maps(Convos(drawn)) /\ seen_ids' \in Maps(Seen)
  BY <1>1, <1>2, WithoutIsMap
<1>4. Covers(messages', seen_ids')
  <2>1. /\ DOMAIN messages' = DOMAIN messages \ {p}
        /\ \A x \in DOMAIN messages' : messages'[x] = messages[x]
    BY <1>1 DEF Without
  <2>2. /\ DOMAIN seen_ids' = DOMAIN seen_ids \ {p}
        /\ \A x \in DOMAIN seen_ids' : seen_ids'[x] = seen_ids[x]
    BY <1>1 DEF Without
  <2> QED BY <2>1, <2>2 DEF InboxInv, ModelInv, Covers
<1>5. /\ Set("contacts", contacts') \in W /\ Delete(p) \in W
      /\ Set("seen_ids", seen_ids') \in W
  BY <1>3, WritesAre
<1> HIDE DEF W
<1>6. a \in Seq(W) /\ b \in Seq(W) /\ c \in Seq(W)
  BY <1>5, OneWrite, GuardedIs
<1> HIDE DEF a, b, c
<1>7. (a \o b) \o c \in Seq(W)
  <2>1. a \o b \in Seq(W)
    BY <1>6, ConcatProperties
  <2> QED BY <1>6, <2>1, ConcatProperties
<1>8. writes' \in Seq(W) /\ Len(writes') <= MaxWrites
  BY <1>1, <1>7, QueuedKeeps DEF InboxInv, ShellInv, W
<1>9. ModelInv'
  BY <1>1, <1>3, <1>4 DEF InboxInv, ModelInv
<1>10. ShellInv'
  BY <1>1, <1>8 DEF InboxInv, ShellInv, W
<1>11. Forgotten(p) \subseteq Events
  BY MailIs DEF Forgotten, InboxInv, ShellInv
<1>12. ObserverInv'
  BY <1>1, <1>11 DEF InboxInv, ObserverInv
<1> QED BY <1>9, <1>10, <1>12 DEF InboxInv

\* The text we send, once its id is drawn.
LEMMA OwnText ==
    ASSUME InboxInv, NEW p \in Peers, NEW id \in OwnIds, id \notin drawn,
           NEW m, m = [id |-> id, ts |-> Now, outgoing |-> TRUE, delivered |-> FALSE]
    PROVE  /\ Maybe(messages, p, <<>>) \in Convos(drawn \cup {id})
           /\ m \in Message /\ Honest(m, drawn \cup {id})
           /\ Novel(Maybe(messages, p, <<>>), m)
<1> DEFINE d == drawn \cup {id}
           old == Maybe(messages, p, <<>>)
<1>1. old \in Convos(drawn)
  BY EmptyConvo, MaybeIn DEF InboxInv, ModelInv
<1>2. drawn \subseteq d
  OBVIOUS
<1>3. m \in Message /\ Honest(m, d)
  BY Limits DEF Message, Honest
<1> HIDE DEF d, old
<1>4. old \in Convos(d)
  BY <1>1, <1>2, ConvosGrow
<1>5. Novel(old, m)
  <2> SUFFICES ASSUME NEW x \in ToSet(old), x.id = id PROVE x.outgoing # m.outgoing
    BY DEF Novel, Apart
  <2>1. PICK i \in 1 .. Len(old) : x = old[i]
    BY <1>1, ConvoIs DEF ToSet
  <2>2. Honest(x, drawn) /\ x.outgoing \in BOOLEAN
    BY <1>1, <2>1, ConvoIs DEF Message
  <2>3. ~x.outgoing
    BY <2>2 DEF Honest
  <2> QED BY <2>2, <2>3
<1> QED BY <1>3, <1>4, <1>5 DEF d, old

LEMMA SendTextKeeps ==
    ASSUME InboxInv, NEW p \in Peers, NEW id \in OwnIds, SendText(p, id)
    PROVE  InboxInv'
<1> DEFINE d == drawn \cup {id}
           W == Write(d, cursor)
           old == Maybe(messages, p, <<>>)
           m == [id |-> id, ts |-> Now, outgoing |-> TRUE, delivered |-> FALSE]
           convo == InsertSorted(old, m)
           t == TrimHistory(convo)
<1>1. /\ id \notin drawn
      /\ drawn' = d
      /\ messages' = With(messages, p, t)
      /\ contacts' = With(contacts, p, Maybe(contacts, p, Stranger))
      /\ Queued(Guarded(<<SetMessages(p, messages'[p]), Set("contacts", contacts')>>))
      /\ torn' = torn \cup ({p} \cap DOMAIN loading)
      /\ UNCHANGED <<seen_ids, cursor, kv_load_failed, loading, disk, mail, excused, unsaved, failures>>
  BY DEF SendText
<1>2. contacts \in Maps(Person) /\ messages \in Maps(Convos(drawn)) /\ cursor \in Nat
  <2>1. Len(mail) \in Nat
    BY MailIs DEF InboxInv, ShellInv
  <2> QED BY <2>1 DEF InboxInv, ModelInv
<1>3. contacts' \in Maps(Person)
  <2>1. Maybe(contacts, p, Stranger) \in Person
    BY <1>2, StrangerIsPerson, MaybeIn
  <2> QED BY <1>1, <1>2, <2>1, WithIsMap
<1>5. drawn \subseteq d
  OBVIOUS
<1>6. /\ old \in Convos(d) /\ m \in Message /\ Honest(m, d) /\ Novel(old, m)
  BY <1>1, OwnText
<1> HIDE DEF d, old
<1>9. m.outgoing
  OBVIOUS
<1> HIDE DEF m
<1>10. Listed(convo, d) /\ ToSet(convo) = ToSet(old) \cup {m}
  BY <1>6, InsertIsListed
<1> HIDE DEF convo
<1>11. t \in Convos(d) /\ ToSet(t) \subseteq ToSet(convo)
  BY <1>10, TrimIsConvo
<1>12. Incoming(t) \subseteq Incoming(old)
  BY <1>9, <1>10, <1>11 DEF Incoming
<1> HIDE DEF t
<1>13. cursor <= cursor
  BY <1>2
<1>14. /\ messages \in Maps(Convos(d)) /\ loading \in Maps(Convos(d))
       /\ writes \in Seq(W) /\ disk \in Disk(d, cursor)
  BY <1>2, <1>5, <1>13, WritesGrow DEF InboxInv, ShellInv
<1>15. messages' \in Maps(Convos(d))
  BY <1>1, <1>11, <1>14, WithIsMap
<1>16. /\ DOMAIN messages' = DOMAIN messages \cup {p} /\ messages'[p] = t
       /\ \A x \in DOMAIN messages : x # p => messages'[x] = messages[x]
  BY <1>1 DEF With
<1>17. Covers(messages', seen_ids)
  <2> SUFFICES ASSUME NEW x \in DOMAIN messages' \cap DOMAIN seen_ids
               PROVE  Incoming(messages'[x]) \subseteq seen_ids[x]
    BY DEF Covers
  <2>1. \A y \in DOMAIN messages \cap DOMAIN seen_ids : Incoming(messages[y]) \subseteq seen_ids[y]
    BY DEF InboxInv, ModelInv, Covers
  <2>2. CASE x # p
    BY <1>16, <2>1, <2>2
  <2>3. CASE x = p /\ p \in DOMAIN messages
    <3>1. old = messages[p]
      BY <2>3 DEF old, Maybe
    <3> QED BY <1>12, <1>16, <2>1, <2>3, <3>1
  <2>4. CASE x = p /\ p \notin DOMAIN messages
    <3>1. old = <<>>
      BY <2>4 DEF old, Maybe
    <3>2. Incoming(old) = {}
      BY <3>1, EmptyConvo DEF Incoming
    <3> QED BY <1>12, <1>16, <2>4, <3>2
  <2> QED BY <2>2, <2>3, <2>4
<1>18. writes' \in Seq(W) /\ Len(writes') <= MaxWrites
  <2>1. SetMessages(p, messages'[p]) \in W /\ Set("contacts", contacts') \in W
    BY <1>3, <1>11, <1>16, WritesAre
  <2> HIDE DEF W
  <2>2. <<SetMessages(p, messages'[p]), Set("contacts", contacts')>> \in Seq(W)
    BY <2>1
  <2>3. Guarded(<<SetMessages(p, messages'[p]), Set("contacts", contacts')>>) \in Seq(W)
    BY <2>2, GuardedIs
  <2> QED BY <1>1, <1>14, <2>3, QueuedKeeps
<1>19. ModelInv'
  BY <1>1, <1>3, <1>15, <1>17 DEF InboxInv, ModelInv
<1>20. ShellInv'
  BY <1>1, <1>14, <1>18 DEF InboxInv, ShellInv
<1>21. ObserverInv'
  BY <1>1 DEF InboxInv, ObserverInv, d
<1> QED BY <1>19, <1>20, <1>21 DEF InboxInv

\* A late load leaves a conversation of what was known and what was read.
LEMMA MergedIs ==
    ASSUME InboxInv, NEW p \in DOMAIN loading, NEW convo \in Merged(p, loading[p])
    PROVE  /\ loading[p] \in Convos(drawn) /\ Maybe(messages, p, <<>>) \in Convos(drawn)
           /\ convo \in Convos(drawn)
           /\ ToSet(convo) \subseteq ToSet(Maybe(messages, p, <<>>)) \cup ToSet(loading[p])
<1> DEFINE list == loading[p]
           known == Maybe(messages, p, <<>>)
<1>1. messages \in Maps(Convos(drawn)) /\ loading \in Maps(Convos(drawn))
  BY DEF InboxInv, ModelInv, ShellInv
<1>2. list \in Convos(drawn)
  BY <1>1, MapIs
<1>3. known \in Convos(drawn)
  BY <1>1, EmptyConvo, MaybeIn
<1>4. convo \in Convos(drawn) /\ ToSet(convo) \subseteq ToSet(known) \cup ToSet(list)
  <2>1. CASE p \notin DOMAIN messages
    BY <1>2, <2>1 DEF Merged
  <2>2. CASE p \in DOMAIN messages
    <3>1. PICK q \in ByTime(known \o list, KeptPlaces(known, list)) :
             convo = TrimHistory(InPlaces(known \o list, q))
      BY <2>2 DEF Merged, KeptPlaces, InPlaces
    <3> HIDE DEF known, list
    <3>2. /\ TrimHistory(InPlaces(known \o list, q)) \in Convos(drawn)
          /\ ToSet(TrimHistory(InPlaces(known \o list, q))) \subseteq ToSet(known) \cup ToSet(list)
      BY <1>2, <1>3, <3>1, MergeIsConvo
    <3> QED BY <3>1, <3>2
  <2> QED BY <2>1, <2>2
<1> QED BY <1>2, <1>3, <1>4

LEMMA LoadedMessagesKeeps ==
    ASSUME InboxInv, NEW p \in Peers, LoadedMessages(p)
    PROVE  InboxInv'
<1> DEFINE list == loading[p]
           known == Maybe(messages, p, <<>>)
<1>1. PICK convo \in Merged(p, list) : messages' = With(messages, p, convo)
  BY DEF LoadedMessages
<1>2. /\ p \in DOMAIN loading
      /\ loading' = Without(loading, p)
      /\ seen_ids' = IF p \in DOMAIN seen_ids
                     THEN [seen_ids EXCEPT ![p] = @ \cup IdsOf(list)] ELSE seen_ids
      /\ UNCHANGED <<contacts, cursor, kv_load_failed, writes, disk, mail, drawn, excused, torn,
                     unsaved, failures>>
  BY DEF LoadedMessages
<1>3. /\ messages \in Maps(Convos(drawn)) /\ loading \in Maps(Convos(drawn))
      /\ seen_ids \in Maps(Seen) /\ Covers(messages, seen_ids)
  BY DEF InboxInv, ModelInv, ShellInv
<1>4. list \in Convos(drawn) /\ known \in Convos(drawn)
  BY <1>1, <1>2, MergedIs
<1>6. convo \in Convos(drawn) /\ ToSet(convo) \subseteq ToSet(known) \cup ToSet(list)
  BY <1>1, <1>2, MergedIs
<1>7. messages' \in Maps(Convos(drawn)) /\ loading' \in Maps(Convos(drawn))
  <2>1. messages' \in Maps(Convos(drawn))
    BY <1>1, <1>3, <1>6, WithIsMap
  <2> QED BY <1>2, <1>3, <2>1, WithoutIsMap
<1>8. IdsOf(list) \subseteq Ids
  <2>1. ASSUME NEW m \in ToSet(list) PROVE m.id \in Ids
    <3>1. PICK i \in 1 .. Len(list) : m = list[i]
      BY <1>4, ConvoIs DEF ToSet
    <3>2. list[i] \in Message
      BY <1>4, ConvoIs
    <3> QED BY <3>1, <3>2 DEF Message, Ids
  <2> QED BY <2>1 DEF IdsOf
<1> HIDE DEF list
<1>9. /\ DOMAIN seen_ids' = DOMAIN seen_ids
      /\ seen_ids' = [x \in DOMAIN seen_ids' |-> seen_ids'[x]]
      /\ \A x \in DOMAIN seen_ids :
            seen_ids'[x] = IF x = p THEN seen_ids[x] \cup IdsOf(list) ELSE seen_ids[x]
  <2>1. seen_ids = [x \in DOMAIN seen_ids |-> seen_ids[x]]
    BY <1>3, MapIs
  <2>2. CASE p \in DOMAIN seen_ids
    BY <1>2, <2>2
  <2>3. CASE p \notin DOMAIN seen_ids
    BY <1>2, <2>1, <2>3
  <2> QED BY <2>2, <2>3
<1>10. DOMAIN seen_ids \subseteq Peers /\ \A x \in DOMAIN seen_ids : seen_ids[x] \in Seen
  BY <1>3, MapIs
<1>11. \A x \in DOMAIN seen_ids : seen_ids[x] \subseteq Ids /\ seen_ids[x] # {}
  BY <1>10, SeenIs
<1>12. ASSUME NEW x \in DOMAIN seen_ids PROVE seen_ids'[x] \in Seen
  <2>1. seen_ids'[x] \subseteq Ids /\ seen_ids'[x] # {}
    BY <1>8, <1>9, <1>11
  <2> QED BY <2>1, SeenIs
<1>13. seen_ids' \in Maps(Seen)
  BY <1>9, <1>10, <1>12, IsMap
<1>14. /\ DOMAIN messages' = DOMAIN messages \cup {p} /\ messages'[p] = convo
       /\ \A x \in DOMAIN messages : x # p => messages'[x] = messages[x]
  BY <1>1 DEF With
<1>15. Covers(messages', seen_ids')
  <2> SUFFICES ASSUME NEW x \in DOMAIN messages' \cap DOMAIN seen_ids'
               PROVE  Incoming(messages'[x]) \subseteq seen_ids'[x]
    BY DEF Covers
  <2>1. \A y \in DOMAIN messages \cap DOMAIN seen_ids : Incoming(messages[y]) \subseteq seen_ids[y]
    BY <1>3 DEF Covers
  <2>2. CASE x # p
    BY <1>9, <1>14, <2>1, <2>2
  <2>3. CASE x = p
    <3>1. Incoming(known) \subseteq seen_ids[p]
      <4>1. CASE p \in DOMAIN messages
        BY <1>9, <2>1, <2>3, <4>1 DEF Maybe
      <4>2. CASE p \notin DOMAIN messages
        <5>1. known = <<>>
          BY <4>2 DEF Maybe
        <5> QED BY <5>1, EmptyConvo DEF Incoming
      <4> QED BY <4>1, <4>2
    <3>2. Incoming(convo) \subseteq Incoming(known) \cup IdsOf(list)
      BY <1>6 DEF Incoming, IdsOf
    <3> QED BY <1>9, <1>14, <2>3, <3>1, <3>2
  <2> QED BY <2>2, <2>3
<1>16. ModelInv'
  BY <1>2, <1>7, <1>13, <1>15 DEF InboxInv, ModelInv
<1>17. ShellInv'
  BY <1>2, <1>7 DEF InboxInv, ShellInv
<1>18. ObserverInv'
  BY <1>2 DEF InboxInv, ObserverInv
<1> QED BY <1>16, <1>17, <1>18 DEF InboxInv

LEMMA LoadFailsKeeps ==
    ASSUME InboxInv, NEW p \in Peers, LoadFails(p)
    PROVE  InboxInv'
<1>1. Without(loading, p) \in Maps(Convos(drawn))
  BY WithoutIsMap DEF InboxInv, ShellInv
<1>2. ModelInv'
  BY DEF LoadFails, InboxInv, ModelInv
<1>3. ShellInv'
  BY <1>1 DEF LoadFails, InboxInv, ShellInv
<1>4. ObserverInv'
  BY Limits DEF LoadFails, InboxInv, ObserverInv
<1> QED BY <1>2, <1>3, <1>4 DEF InboxInv

LEMMA RelaunchKeeps ==
    ASSUME InboxInv, NEW failed \in SUBSET {"contacts", "seen_ids"}, Relaunch(failed)
    PROVE  InboxInv'
<1>1. /\ disk.contacts \in Maps(Person) /\ disk.messages \in Maps(Convos(drawn))
      /\ disk.seen_ids \in Maps(Seen) /\ disk.cursor \in 0 .. cursor
      /\ disk = [contacts |-> disk.contacts, messages |-> disk.messages,
                 seen_ids |-> disk.seen_ids, cursor |-> disk.cursor]
  <2> DEFINE A == Maps(Person)
             B == Maps(Convos(drawn))
             S == Maps(Seen)
             I == 0 .. cursor
  <2>1. disk \in [contacts: A, messages: B, seen_ids: S, cursor: I]
    BY DEF InboxInv, ShellInv, Disk
  <2> HIDE DEF A, B, S, I
  <2>2. /\ disk.contacts \in A /\ disk.messages \in B /\ disk.seen_ids \in S /\ disk.cursor \in I
        /\ disk = [contacts |-> disk.contacts, messages |-> disk.messages,
                   seen_ids |-> disk.seen_ids, cursor |-> disk.cursor]
    BY <2>1
  <2> QED BY <2>2 DEF A, B, S, I
<1>2. cursor \in Nat /\ Len(mail) \in Nat /\ cursor <= Len(mail)
  <2>1. Len(mail) \in Nat
    BY MailIs DEF InboxInv, ShellInv
  <2> QED BY <2>1 DEF InboxInv, ModelInv
<1>3. contacts' \in Maps(Person) /\ seen_ids' \in Maps(Seen)
  BY <1>1, NothingIsMap DEF Relaunch
<1>4. messages' \in Maps(Convos(drawn)) /\ DOMAIN messages' = {}
  BY NothingIsMap DEF Relaunch
<1>5. loading' \in Maps(Convos(drawn))
  <2> DEFINE L == [p \in DOMAIN contacts' \cap DOMAIN disk.messages |-> disk.messages[p]]
  <2>1. /\ DOMAIN disk.messages \subseteq Peers
        /\ \A p \in DOMAIN disk.messages : disk.messages[p] \in Convos(drawn)
    BY <1>1, MapIs
  <2>2. /\ DOMAIN L \subseteq Peers /\ L = [p \in DOMAIN L |-> L[p]]
        /\ \A p \in DOMAIN L : L[p] \in Convos(drawn)
    BY <2>1
  <2>3. loading' = L
    BY DEF Relaunch
  <2> HIDE DEF L
  <2> QED BY <2>2, <2>3, IsMap
<1>6. cursor' = disk.cursor /\ cursor' \in Nat /\ cursor' \in 0 .. Len(mail)
  BY <1>1, <1>2 DEF Relaunch
<1>7. ModelInv'
  <2>1. Covers(messages', seen_ids')
    BY <1>4 DEF Covers
  <2> QED BY <1>3, <1>4, <1>6, <2>1 DEF ModelInv, Relaunch
<1>8. ShellInv'
  <2>1. disk \in Disk(drawn, cursor')
    <3>1. disk.cursor \in 0 .. cursor'
      BY <1>6
    <3> QED BY <1>1, <3>1 DEF Disk
  <2>2. writes' = <<>> /\ UNCHANGED <<disk, mail, drawn>>
    BY DEF Relaunch
  <2>3. <<>> \in Seq(Write(drawn, cursor')) /\ Len(<<>>) = 0
    BY EmptySeq
  <2> QED BY <1>5, <2>1, <2>2, <2>3, Limits DEF ShellInv, InboxInv
<1>9. ObserverInv'
  <2>1. Cardinality(failed) \in Nat
    <3>1. IsFiniteSet({"contacts", "seen_ids"})
      <4>1. IsFiniteSet({"seen_ids"})
        BY FS_Singleton
      <4>2. {"contacts", "seen_ids"} = {"seen_ids"} \cup {"contacts"}
        OBVIOUS
      <4>3. IsFiniteSet({"seen_ids"} \cup {"contacts"})
        BY <4>1, FS_AddElement
      <4> QED BY <4>2, <4>3
    <3>2. IsFiniteSet(failed)
      BY <3>1, FS_Subset
    <3> QED BY <3>2, FS_CardinalityType
  <2>2. DOMAIN disk.messages \subseteq Peers
    BY <1>1, MapIs
  <2>3. failures' \in 0 .. MaxFailures
    BY <2>1, Limits DEF Relaunch, InboxInv, ObserverInv
  <2> QED BY <2>2, <2>3 DEF Relaunch, InboxInv, ObserverInv
<1> QED BY <1>7, <1>8, <1>9 DEF InboxInv

-----------------------------------------------------------------------------
(* Every step *)

LEMMA InitInbox == Init => InboxInv
<1> SUFFICES ASSUME Init PROVE InboxInv
  OBVIOUS
<1>1. /\ Nothing \in Maps(Person) /\ Nothing \in Maps(Convos(drawn)) /\ Nothing \in Maps(Seen)
      /\ DOMAIN Nothing = {}
  BY NothingIsMap
<1>2. mail \in Mails /\ Len(mail) \in Nat
  BY MailIs DEF Init
<1>3. ModelInv
  <2>1. Covers(messages, seen_ids)
    BY <1>1 DEF Init, Covers
  <2>2. cursor \in 0 .. Len(mail)
    BY <1>2 DEF Init
  <2> QED BY <1>1, <2>1, <2>2 DEF Init, ModelInv
<1>4. ShellInv
  <2>1. disk \in Disk(drawn, cursor)
    <3>1. 0 \in 0 .. cursor
      BY DEF Init
    <3> QED BY <1>1, <3>1 DEF Init, Disk
  <2>2. <<>> \in Seq(Write(drawn, cursor)) /\ Len(<<>>) = 0
    BY EmptySeq
  <2> QED BY <1>1, <1>2, <2>1, <2>2, Limits DEF Init, ShellInv
<1>5. ObserverInv
  BY Limits DEF Init, ObserverInv
<1> QED BY <1>3, <1>4, <1>5 DEF InboxInv

LEMMA StutterInbox ==
    ASSUME InboxInv, UNCHANGED vars
    PROVE  InboxInv'
<1>1. ModelInv'
  BY DEF InboxInv, ModelInv, vars, model
<1>2. ShellInv'
  BY DEF InboxInv, ShellInv, vars, model
<1>3. ObserverInv'
  BY DEF InboxInv, ObserverInv, vars
<1> QED BY <1>1, <1>2, <1>3 DEF InboxInv

LEMMA StepInbox == InboxInv /\ [Next]_vars => InboxInv'
<1> SUFFICES ASSUME InboxInv, [Next]_vars PROVE InboxInv'
  OBVIOUS
<1>1. ASSUME NEW n \in 1 .. MaxPage, NEW k \in 1 .. n, IngestPoll(n, k) PROVE InboxInv'
  <2>1. n \in Nat /\ k \in Nat /\ k <= n
    BY Limits
  <2> QED BY <1>1, <2>1, IngestPollKeeps
<1>2. CASE WriteLands \/ WriteFails
  BY <1>2, WriteKeeps
<1>3. ASSUME NEW failed \in SUBSET {"contacts", "seen_ids"}, Relaunch(failed) PROVE InboxInv'
  BY <1>3, RelaunchKeeps
<1>4. ASSUME NEW p \in Peers, AddContact(p) PROVE InboxInv'
  BY <1>4, AddContactKeeps
<1>5. ASSUME NEW p \in Peers, NEW blocked \in BOOLEAN, SetBlocked(p, blocked) PROVE InboxInv'
  BY <1>5, SetBlockedKeeps
<1>6. ASSUME NEW p \in Peers, DeleteContact(p) PROVE InboxInv'
  BY <1>6, DeleteContactKeeps
<1>7. ASSUME NEW p \in Peers, NEW id \in OwnIds, SendText(p, id) PROVE InboxInv'
  BY <1>7, SendTextKeeps
<1>8. ASSUME NEW p \in Peers, LoadedMessages(p) PROVE InboxInv'
  BY <1>8, LoadedMessagesKeeps
<1>9. ASSUME NEW p \in Peers, LoadFails(p) PROVE InboxInv'
  BY <1>9, LoadFailsKeeps
<1>10. CASE UNCHANGED vars
  BY <1>10, StutterInbox
<1> QED BY <1>1, <1>2, <1>3, <1>4, <1>5, <1>6, <1>7, <1>8, <1>9, <1>10 DEF Next

\* Every handler of the mail, the user's four actions, both outcomes of a lazy load, a
\* storage write that lands or fails and a relaunch keep the inductive invariant.
THEOREM InboxInvariant == Spec => []InboxInv
<1>1. QED
  BY InitInbox, StepInbox, PTL DEF Spec

-----------------------------------------------------------------------------
(* What follows from it *)

LEMMA InvTyped == InboxInv => TypeOK
<1> SUFFICES ASSUME InboxInv PROVE TypeOK
  OBVIOUS
<1>1. DOMAIN contacts \subseteq Peers /\ \A p \in DOMAIN contacts : contacts[p] \in Contact
  BY MapIs DEF InboxInv, ModelInv, Person
<1>2. DOMAIN messages \subseteq Peers /\ \A p \in DOMAIN messages : messages[p] \in Seq(Message)
  BY MapIs, ConvoIs DEF InboxInv, ModelInv
<1>3. DOMAIN loading \subseteq Peers /\ \A p \in DOMAIN loading : loading[p] \in Seq(Message)
  BY MapIs, ConvoIs DEF InboxInv, ShellInv
<1>4. /\ DOMAIN seen_ids \subseteq Peers
      /\ \A p \in DOMAIN seen_ids : seen_ids[p] \subseteq PeerIds \cup OwnIds
  <2>1. DOMAIN seen_ids \subseteq Peers /\ \A p \in DOMAIN seen_ids : seen_ids[p] \in Seen
    BY MapIs DEF InboxInv, ModelInv
  <2> QED BY <2>1, SeenIs DEF Ids
<1>5. disk.cursor \in 0 .. cursor
  <2> DEFINE A == Maps(Person)
             B == Maps(Convos(drawn))
             S == Maps(Seen)
             I == 0 .. cursor
  <2>1. disk \in [contacts: A, messages: B, seen_ids: S, cursor: I]
    BY DEF InboxInv, ShellInv, Disk
  <2> HIDE DEF A, B, S, I
  <2>2. disk.cursor \in I
    BY <2>1
  <2> QED BY <2>2 DEF I
<1> QED BY <1>1, <1>2, <1>3, <1>4, <1>5 DEF InboxInv, ModelInv, ShellInv, ObserverInv, TypeOK

\* The client's model, the storage queue's length, the disk's cursor and the observers
\* keep their types, whatever the relay delivers and whatever fails.
THEOREM InboxTyped == Spec => []TypeOK
<1>1. QED
  BY InboxInvariant, InvTyped, PTL

LEMMA InvInOrder == InboxInv => ConversationsInOrder
<1> SUFFICES ASSUME InboxInv PROVE ConversationsInOrder
  OBVIOUS
<1>1. ASSUME NEW f \in Maps(Convos(drawn)), NEW p \in DOMAIN f PROVE InOrder(f[p])
  <2>1. f[p] \in Convos(drawn)
    BY MapIs
  <2> QED BY <2>1 DEF Convos
<1>2. disk.messages \in Maps(Convos(drawn))
  <2> DEFINE A == Maps(Person)
             B == Maps(Convos(drawn))
             S == Maps(Seen)
             I == 0 .. cursor
  <2>1. disk \in [contacts: A, messages: B, seen_ids: S, cursor: I]
    BY DEF InboxInv, ShellInv, Disk
  <2> HIDE DEF A, B, S, I
  <2>2. disk.messages \in B
    BY <2>1
  <2> QED BY <2>2 DEF B
<1>3. messages \in Maps(Convos(drawn)) /\ loading \in Maps(Convos(drawn))
  BY DEF InboxInv, ModelInv, ShellInv
<1> QED BY <1>1, <1>2, <1>3 DEF ConversationsInOrder

\* However a poll, a send, a lazy load, a delete and a relaunch interleave, every
\* conversation insert_sorted, trim_history and the merge of LoadedMessages produce is in
\* order of time, shows no message of ours and no text of the peer's twice and stays within
\* MAX_MESSAGES_PER_PEER, in memory, on its way in and on disk.
THEOREM ConversationsStayInOrder == Spec => []ConversationsInOrder
<1>1. QED
  BY InboxInvariant, InvInOrder, PTL

LEMMA InvCovers == InboxInv => DedupCovers
<1> SUFFICES ASSUME InboxInv, NEW p \in DOMAIN messages, Maybe(seen_ids, p, {}) # {}
             PROVE  Incoming(messages[p]) \subseteq seen_ids[p]
  BY DEF DedupCovers
<1>1. p \in DOMAIN seen_ids
  BY DEF Maybe
<1> QED BY <1>1 DEF InboxInv, ModelInv, Covers

\* The cap of MAX_SEEN_IDS_PER_PEER, the merge of a late load and a seen_ids file that was
\* lost or could not be read leave no message in memory whose id its dedup set lacks: a
\* text the relay delivers again is not shown twice.
THEOREM DedupStaysCovering == Spec => []DedupCovers
<1>1. QED
  BY InboxInvariant, InvCovers, PTL

-----------------------------------------------------------------------------
(* Acks in any order *)

\* Where the page's events are.
LEMMA PageEvents ==
    ASSUME InboxInv, NEW n \in Nat, NEW k \in Nat, k <= n, cursor + n <= Len(mail),
           NEW c \in Nat, c <= cursor + n, NEW i \in cursor + 1 .. c
    PROVE  /\ mail[i] \in Events
           /\ \/ \E j \in 1 .. Len(SubSeq(mail, cursor + 1, cursor + k)) :
                    SubSeq(mail, cursor + 1, cursor + k)[j] = mail[i]
              \/ mail[i] \in ToSet(SubSeq(mail, cursor + k + 1, c))
<1>1. cursor \in Nat /\ Len(mail) \in Nat /\ mail \in Seq(Events)
  BY MailIs DEF InboxInv, ModelInv, ShellInv
<1>2. \A x \in 1 .. Len(mail) : mail[x] \in Events
  BY <1>1, ElementOfSeq
<1>3. mail[i] \in Events
  BY <1>1, <1>2
<1>4. ASSUME i <= cursor + k
      PROVE  \E j \in 1 .. Len(SubSeq(mail, cursor + 1, cursor + k)) :
                SubSeq(mail, cursor + 1, cursor + k)[j] = mail[i]
  <2> DEFINE a == cursor + 1
             b == cursor + k
             p == SubSeq(mail, a, b)
  <2>1. a \in Int /\ b \in Int /\ a <= b + 1 /\ i - cursor \in 1 .. k
    BY <1>1, <1>4
  <2>2. \A x \in a .. b : mail[x] \in Events
    BY <1>1, <1>2
  <2>3. Len(p) = k /\ \A x \in 1 .. k : p[x] = mail[cursor + x]
    <3>1. Len(p) = (IF a <= b THEN b - a + 1 ELSE 0)
          /\ \A x \in 1 .. b - a + 1 : p[x] = mail[a + x - 1]
      <4> HIDE DEF a, b
      <4> QED BY <2>1, <2>2, SubSeqProperties
    <3>2. b - a + 1 = k /\ \A x \in 1 .. k : a + x - 1 = cursor + x
      BY <1>1
    <3> QED BY <1>1, <2>1, <3>1, <3>2
  <2>4. p[i - cursor] = mail[i]
    BY <1>1, <2>1, <2>3
  <2> HIDE DEF p
  <2>5. \E j \in 1 .. Len(p) : p[j] = mail[i]
    BY <2>1, <2>3, <2>4
  <2> QED BY <2>5 DEF p, a, b
<1>5. ASSUME i > cursor + k
      PROVE  mail[i] \in ToSet(SubSeq(mail, cursor + k + 1, c))
  <2> DEFINE a == cursor + k + 1
             p == SubSeq(mail, a, c)
  <2>1. a \in Int /\ c \in Int /\ a <= c /\ i - cursor - k \in 1 .. c - a + 1
    BY <1>1, <1>5
  <2>2. \A x \in a .. c : mail[x] \in Events
    BY <1>1, <1>2
  <2>3. /\ Len(p) = c - a + 1 /\ p \in Seq(Events)
        /\ \A x \in 1 .. c - a + 1 : p[x] = mail[a + x - 1]
    <3> HIDE DEF a
    <3> QED BY <2>1, <2>2, SubSeqProperties
  <2>4. p[i - cursor - k] = mail[i]
    <3>1. a + (i - cursor - k) - 1 = i
      BY <1>1
    <3> HIDE DEF a, p
    <3> QED BY <2>1, <2>3, <3>1
  <2> HIDE DEF p, a
  <2>5. i - cursor - k \in DOMAIN p
    BY <2>1, <2>3, LenProperties
  <2>6. mail[i] \in ToSet(p)
    BY <2>4, <2>5 DEF ToSet
  <2> QED BY <2>6 DEF p, a
<1>6. i <= cursor + k \/ i > cursor + k
  BY <1>1
<1> QED BY <1>3, <1>4, <1>5, <1>6

\* What an ack that is neither stale nor excused must do.
Heard(e) ==
    /\ e.kind = "ack" /\ e \notin excused'
    /\ e.from \in DOMAIN contacts \cap DOMAIN messages'
    /\ Clamped(e.ts) >= contacts[e.from].last_ack_ts \/ e.ts >= Now
    => \A m \in ToSet(messages'[e.from]) : m.outgoing /\ m.id \in e.ids => m.delivered

LEMMA PageHearsAcks ==
    ASSUME InboxInv, NEW n \in Nat, NEW k \in Nat, k <= n, IngestPoll(n, k),
           NEW i \in cursor + 1 .. cursor'
    PROVE  Heard(mail[i])
<1> DEFINE e == mail[i]
           p == e.from
           page == SubSeq(mail, cursor + 1, cursor + k)
<1>1. PICK t \in Looped(Loop, page) :
        /\ messages' = Acked(t).messages
        /\ cursor' = NextCursor(Acked(t), n, k)
        /\ excused' = Acked(t).excused \cup ToSet(SubSeq(mail, cursor + k + 1, cursor'))
  BY DEF IngestPoll
<1>2. cursor + n <= Len(mail)
  BY DEF IngestPoll
<1>3. cursor' \in Nat /\ cursor' <= cursor + n /\ page \in Seq(Events)
  BY <1>1, <1>2, PageForward
<1>4. LoopInv(t) /\ Onward(Loop, t) /\ \A j \in 1 .. Len(page) : SetAside(t, page[j])
  BY <1>1, <1>3, LoopBegins, LoopedKeeps
<1>5. /\ e \in Events
      /\ (\E j \in 1 .. Len(page) : page[j] = e)
           \/ e \in ToSet(SubSeq(mail, cursor + k + 1, cursor'))
  BY <1>2, <1>3, PageEvents
<1> HIDE DEF page, e
<1> SUFFICES ASSUME e.kind = "ack", e \notin excused',
                    p \in DOMAIN contacts \cap DOMAIN messages',
                    Clamped(e.ts) >= contacts[p].last_ack_ts \/ e.ts >= Now,
                    NEW m \in ToSet(messages'[p]), m.outgoing, m.id \in e.ids
             PROVE  m.delivered
  BY DEF Heard, e
<1>6. /\ Acked(t).excused = t.excused /\ DOMAIN Acked(t).messages = DOMAIN t.messages
      /\ \A x \in DOMAIN t.acks \cap DOMAIN t.messages : Fresh(t, x) =>
            \A y \in ToSet(Acked(t).messages[x]) :
               y.outgoing /\ y.id \in t.acks[x].ids => y.delivered
  BY <1>4, AckedKeeps
<1>7. e \notin t.excused /\ \E j \in 1 .. Len(page) : page[j] = e
  BY <1>1, <1>5, <1>6
<1>8. SetAside(t, e)
  BY <1>4, <1>7
<1>9. p \in DOMAIN t.acks /\ t.acks[p].ts >= Clamped(e.ts) /\ e.ids \subseteq t.acks[p].ids
  BY <1>7, <1>8 DEF SetAside
<1>10. p \in DOMAIN t.contacts /\ t.contacts[p].last_ack_ts = contacts[p].last_ack_ts
  BY <1>4 DEF Onward, Loop
<1>11. contacts[p].last_ack_ts \in Nat /\ contacts[p].last_ack_ts <= Now
  <2>1. contacts[p] \in Person
    BY MapIs DEF InboxInv, ModelInv
  <2> QED BY <2>1 DEF Person, Contact
<1>12. Clamped(e.ts) >= contacts[p].last_ack_ts
  <2>1. e.ts \in Nat
    BY <1>5, EventIs
  <2>2. Clamped(e.ts) \in Nat /\ (e.ts >= Now => Clamped(e.ts) >= Now)
    BY <2>1, ClampedIs
  <2> QED BY <1>11, <2>2, Limits
<1>13. t.acks[p].ts \in Nat /\ Clamped(e.ts) \in Nat
  <2>1. e.ts \in Nat
    BY <1>5, EventIs
  <2> QED BY <1>4, <1>9, <2>1, AckIs, ClampedIs
<1>14. Fresh(t, p)
  <2>1. t.acks[p].ts >= contacts[p].last_ack_ts
    BY <1>9, <1>11, <1>12, <1>13
  <2> QED BY <1>10, <2>1 DEF Fresh
<1>15. p \in DOMAIN t.messages
  BY <1>1, <1>6
<1> QED BY <1>1, <1>6, <1>9, <1>14, <1>15

\* Only a page moves the cursor forward.
LEMMA OthersStay ==
    ASSUME InboxInv, [Next]_vars, ~\E n \in 1 .. MaxPage : \E k \in 1 .. n : IngestPoll(n, k)
    PROVE  cursor' \in Nat /\ cursor' <= cursor
<1>1. cursor \in Nat /\ disk.cursor \in 0 .. cursor
  <2>1. Len(mail) \in Nat
    BY MailIs DEF InboxInv, ShellInv
  <2>2. cursor \in 0 .. Len(mail) /\ disk.cursor \in 0 .. cursor
    BY InvTyped DEF TypeOK
  <2> QED BY <2>1, <2>2
<1>2. CASE WriteLands \/ WriteFails
  BY <1>1, <1>2 DEF WriteLands, WriteFails, model
<1>3. ASSUME NEW failed \in SUBSET {"contacts", "seen_ids"}, Relaunch(failed)
      PROVE  cursor' \in Nat /\ cursor' <= cursor
  <2>1. cursor' = disk.cursor
    BY <1>3 DEF Relaunch
  <2> QED BY <1>1, <2>1
<1>4. ASSUME NEW p \in Peers,
             \/ AddContact(p)
             \/ \E blocked \in BOOLEAN : SetBlocked(p, blocked)
             \/ DeleteContact(p)
             \/ \E id \in OwnIds : SendText(p, id)
             \/ LoadedMessages(p)
             \/ LoadFails(p)
      PROVE  cursor' \in Nat /\ cursor' <= cursor
  <2>1. cursor' = cursor
    BY <1>4 DEF AddContact, SetBlocked, DeleteContact, SendText, LoadedMessages, LoadFails
  <2> QED BY <1>1, <2>1
<1>5. CASE UNCHANGED vars
  BY <1>1, <1>5 DEF vars, model
<1> QED BY <1>2, <1>3, <1>4, <1>5 DEF Next

\* Q17 of ingest_poll: wherever in the page an ack comes, and whatever its sender's clock
\* said before, it marks what it names delivered unless it was stale before the page or the
\* code means not to read it.
THEOREM AcksHeardInAnyOrder == Spec => AcksInAnyOrder
<1>1. ASSUME InboxInv, [Next]_vars
      PROVE  [\A n \in cursor + 1 .. cursor' : Heard(mail[n])]_vars
  <2> SUFFICES ASSUME NEW i \in cursor + 1 .. cursor' PROVE Heard(mail[i])
    OBVIOUS
  <2>1. cursor \in Nat
    BY <1>1, MailIs DEF InboxInv, ModelInv, ShellInv
  <2>2. \E n \in 1 .. MaxPage : \E k \in 1 .. n : IngestPoll(n, k)
    <3> SUFFICES ASSUME ~\E n \in 1 .. MaxPage : \E k \in 1 .. n : IngestPoll(n, k) PROVE FALSE
      OBVIOUS
    <3>1. cursor' \in Nat /\ cursor' <= cursor
      BY <1>1, OthersStay
    <3> QED BY <2>1, <3>1
  <2>3. PICK n \in 1 .. MaxPage : \E k \in 1 .. n : IngestPoll(n, k)
    BY <2>2
  <2>4. PICK k \in 1 .. n : IngestPoll(n, k)
    BY <2>3
  <2>5. n \in Nat /\ k \in Nat /\ k <= n
    BY Limits
  <2> QED BY <1>1, <2>4, <2>5, PageHearsAcks
<1>2. [\A n \in cursor + 1 .. cursor' : Heard(mail[n])]_vars
        => [\A n \in cursor + 1 .. cursor' :
              LET e == mail[n]
              IN  /\ e.kind = "ack" /\ e \notin excused'
                  /\ e.from \in DOMAIN contacts \cap DOMAIN messages'
                  /\ Clamped(e.ts) >= contacts[e.from].last_ack_ts \/ e.ts >= Now
                  => \A m \in ToSet(messages'[e.from]) : m.outgoing /\ m.id \in e.ids => m.delivered
           ]_vars
  BY DEF Heard
<1> QED BY <1>1, <1>2, InboxInvariant, PTL DEF Spec, AcksInAnyOrder
=============================================================================
