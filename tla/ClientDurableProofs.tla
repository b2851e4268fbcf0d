------------------------- MODULE ClientDurableProofs -------------------------
(***************************************************************************)
(* DurableUnlessTorn of ClientInbox, for every number of peers, mail of    *)
(* any length and any limits: what the saved cursor lets the relay delete  *)
(* is on disk.  The disk and the writes queued behind it are one history:  *)
(* place 0 is the disk, place i the i-th write.  Some places are versions  *)
(* of a peer's file, some claim that a text of the peer was taken.         *)
(***************************************************************************)
EXTENDS ClientInboxProofs

-----------------------------------------------------------------------------
(* The inductive invariant *)

\* Conversation c has text e, or has no room for one so old.
Holds(c, e) == e.id \in IdsOf(c) \/ AgedOut(c, Clamped(e.ts))

\* Text e is among the first n of mail m.
Taken(m, n, e) == \E i \in 1 .. n : m[i] = e

\* A cursor n or dedup sets s after which e is not taken again.
Claimed(m, n, s, e) == Taken(m, n, e) \/ e.id \in Maybe(s, e.from, {})

ClaimedBy(m, w, e) ==
    \/ w.key = "cursor" /\ Taken(m, w.value, e)
    \/ w.key = "seen_ids" /\ e.id \in Maybe(w.value, e.from, {})

\* What a write leaves in the file it is for.
Contents(w) == IF w.key = "messages" THEN w.value ELSE <<>>

\* The places of queue q on disk d that are versions of p's file, that claim e, and that
\* would hold e.  The disk is no version while the last write of the file is lost (u).
Versions(q, u, p) == {i \in 0 .. Len(q) : IF i = 0 THEN p \notin u ELSE p \in FileOf(q[i])}

Claims(m, q, d, e) ==
    {i \in 0 .. Len(q) : IF i = 0 THEN Claimed(m, d.cursor, d.seen_ids, e) ELSE ClaimedBy(m, q[i], e)}

Holding(q, d, e) ==
    {i \in 0 .. Len(q) :
        Holds(IF i = 0 THEN Maybe(d.messages, e.from, <<>>) ELSE Contents(q[i]), e)}

\* The version a claim finds on disk holds what is claimed, and so do all after it.
Sound(V, C, H) ==
    \A i \in V, j \in C : (\A k \in V : ~(i < k /\ k <= j)) => i \in H

\* Memory, which holds the text if h, stands behind every claim, and the last version
\* holds what memory holds.
Backed(V, C, H, h) ==
    /\ C # {} => h
    /\ \A i \in V : (\A k \in V : k <= i) /\ h => i \in H

Stored(m, q, d, u, e) == Sound(Versions(q, u, e.from), Claims(m, q, d, e), Holding(q, d, e))

BackedBy(m, q, d, u, e, c) ==
    Backed(Versions(q, u, e.from), Claims(m, q, d, e), Holding(q, d, e), Holds(c, e))

\* The conversation as the client will have it once what was read has arrived.
Mind(ld, ms, p) == IF p \in DOMAIN ld THEN ld[p] ELSE Maybe(ms, p, <<>>)

InMind(e) ==
    /\ Claimed(mail, cursor, seen_ids, e) => Holds(Mind(loading, messages, e.from), e)
    /\ BackedBy(mail, writes, disk, unsaved, e, Mind(loading, messages, e.from))
    /\ e.from \in DOMAIN loading => Maybe(messages, e.from, <<>>) = <<>>

\* What is on disk and in memory of a text the observers do not except.
Durable(e) ==
    e \notin excused /\ e.from \notin torn =>
        Stored(mail, writes, disk, unsaved, e) /\ (~kv_load_failed => InMind(e))

\* If e is in conversation c, it is there under its time.
Dated(c, e) == \A x \in ToSet(c) : x.id = e.id => x.ts = Clamped(e.ts)

QueueDated(q, e) == \A i \in 1 .. Len(q) : e.from \in FileOf(q[i]) => Dated(Contents(q[i]), e)

DatedAll(e) ==
    /\ Dated(Maybe(messages, e.from, <<>>), e)
    /\ Dated(Maybe(loading, e.from, <<>>), e)
    /\ Dated(Maybe(disk.messages, e.from, <<>>), e)
    /\ QueueDated(writes, e)

Arrivals == {e \in ToSet(mail) : e.kind = "text"}

\* One under an id of ours may pass for a text already taken: the claim leaves it out.
Texts == {e \in Arrivals : e.id \notin OwnIds}

DurableInv == \A e \in Texts : DatedAll(e) /\ Durable(e)

-----------------------------------------------------------------------------
(* The history of a file *)

\* The first write leaves the queue: place 1 is folded into place 0.
Pops(N, V, C, H, W, D, G) ==
    /\ N \in Nat
    /\ V \subseteq 0 .. N + 1 /\ C \subseteq 0 .. N + 1 /\ H \subseteq 0 .. N + 1
    /\ W \subseteq 0 .. N /\ D \subseteq 0 .. N /\ G \subseteq 0 .. N
    /\ \A i \in 1 .. N : /\ i \in W <=> i + 1 \in V
                         /\ i \in D <=> i + 1 \in C
                         /\ i \in G <=> i + 1 \in H
    /\ 0 \in W => \/ 1 \in V /\ (1 \in H => 0 \in G)
                  \/ 1 \notin V /\ 0 \in V /\ (0 \in H => 0 \in G)
    /\ 0 \in D => 0 \in C \/ 1 \in C

LEMMA PopSound ==
    ASSUME NEW N, NEW V, NEW C, NEW H, NEW W, NEW D, NEW G, Pops(N, V, C, H, W, D, G),
           Sound(V, C, H)
    PROVE  /\ Sound(W, D, G)
           /\ \A h \in BOOLEAN : Backed(V, C, H, h) => Backed(W, D, G, h)
<1> USE DEF Pops
<1>1. ASSUME NEW i \in W PROVE i \in 0 .. N /\ (i # 0 => i \in 1 .. N /\ i + 1 \in V)
  OBVIOUS
<1>2. ASSUME NEW j \in D PROVE \E c \in C : c = j + 1 \/ (j = 0 /\ c = 0)
  <2>1. CASE j = 0
    BY <2>1
  <2>2. CASE j # 0
    <3>1. j \in 1 .. N
      BY <2>2
    <3> QED BY <3>1
  <2> QED BY <2>1, <2>2
\* The old place of a version.
<1>3. ASSUME NEW i \in W
      PROVE  \E x \in V : /\ x = i + 1 \/ (i = 0 /\ x = 0 /\ 1 \notin V)
                          /\ x \in H => i \in G
  <2>1. CASE i = 0
    BY <2>1
  <2>2. CASE i # 0
    BY <1>1, <2>2
  <2> QED BY <2>1, <2>2
<1>4. ASSUME NEW k \in V PROVE k \in 0 .. N + 1 /\ (k > 1 => k - 1 \in W)
  <2>1. k \in 0 .. N + 1
    OBVIOUS
  <2>2. ASSUME k > 1 PROVE k - 1 \in W
    <3>1. k - 1 \in 1 .. N /\ (k - 1) + 1 = k
      BY <2>1, <2>2
    <3> QED BY <3>1
  <2> QED BY <2>1, <2>2
<1>5. ASSUME NEW i \in W, NEW j \in D, \A k \in W : ~(i < k /\ k <= j) PROVE i \in G
  <2>1. PICK x \in V : /\ x = i + 1 \/ (i = 0 /\ x = 0 /\ 1 \notin V)
                       /\ x \in H => i \in G
    BY <1>3
  <2>2. PICK c \in C : c = j + 1 \/ (j = 0 /\ c = 0)
    BY <1>2
  <2>3. i \in 0 .. N /\ j \in 0 .. N
    OBVIOUS
  <2>4. ASSUME NEW k \in V, x < k, k <= c PROVE FALSE
    <3>1. CASE k > 1
      <4>1. k - 1 \in W
        BY <1>4, <3>1
      <4>2. i < k - 1 /\ k - 1 <= j
        BY <2>1, <2>2, <2>3, <2>4, <1>4, <3>1
      <4> QED BY <1>5, <4>1, <4>2
    <3>2. CASE k = 1
      BY <2>1, <2>3, <2>4, <3>2
    <3>3. CASE k = 0
      BY <2>1, <2>3, <2>4, <3>3
    <3> QED BY <1>4, <3>1, <3>2, <3>3
  <2>5. x \in H
    BY <2>1, <2>2, <2>4 DEF Sound
  <2> QED BY <2>1, <2>5
<1>6. Sound(W, D, G)
  BY <1>5 DEF Sound
<1>7. ASSUME NEW h \in BOOLEAN, Backed(V, C, H, h) PROVE Backed(W, D, G, h)
  <2>1. D # {} => h
    BY <1>2, <1>7 DEF Backed
  <2>2. ASSUME NEW i \in W, \A k \in W : k <= i, h PROVE i \in G
    <3>1. PICK x \in V : /\ x = i + 1 \/ (i = 0 /\ x = 0 /\ 1 \notin V)
                         /\ x \in H => i \in G
      BY <1>3
    <3>2. i \in 0 .. N
      OBVIOUS
    <3>3. ASSUME NEW k \in V PROVE k <= x
      <4>1. CASE k > 1
        <5>1. k - 1 <= i
          BY <1>4, <2>2, <4>1
        <5>2. k - 1 \in W /\ k \in 0 .. N + 1
          BY <1>4, <4>1
        <5>3. i # 0
          BY <3>2, <4>1, <5>1, <5>2
        <5> QED BY <3>1, <3>2, <5>1, <5>2, <5>3
      <4>2. CASE ~(k > 1)
        <5>1. k = 0 \/ k = 1
          BY <1>4, <4>2
        <5> QED BY <3>1, <3>2, <5>1
      <4> QED BY <4>1, <4>2
    <3>4. x \in H
      BY <1>7, <2>2, <3>1, <3>3 DEF Backed
    <3> QED BY <3>1, <3>4
  <2> QED BY <2>1, <2>2 DEF Backed
<1> QED BY <1>6, <1>7

\* Writes come behind the others: their versions hold what memory now holds, h, and come
\* before their claims.  Without one, memory has nothing new.
Grows(N, L, V, C, H, W, D, G, g, h) ==
    /\ N \in Nat /\ L \in Nat
    /\ V \subseteq 0 .. N /\ C \subseteq 0 .. N /\ H \subseteq 0 .. N
    /\ W \subseteq 0 .. N + L /\ D \subseteq 0 .. N + L /\ G \subseteq 0 .. N + L
    /\ \A i \in 0 .. N : (i \in W <=> i \in V) /\ (i \in D <=> i \in C) /\ (i \in G <=> i \in H)
    /\ g => h
    /\ \A i \in W : i > N /\ h => i \in G
    /\ \A j \in D : j > N => h
    /\ \A i \in W, j \in D : i > N /\ j > N => i < j
    /\ (\A i \in W : i <= N) => (h => g)

LEMMA AppendSound ==
    ASSUME NEW N, NEW L, NEW V, NEW C, NEW H, NEW W, NEW D, NEW G, NEW g \in BOOLEAN, NEW h \in BOOLEAN,
           Grows(N, L, V, C, H, W, D, G, g, h), Sound(V, C, H), Backed(V, C, H, g)
    PROVE  Sound(W, D, G) /\ Backed(W, D, G, h)
<1> USE DEF Grows
<1>1. ASSUME NEW j \in D PROVE h
  <2>1. CASE j > N
    BY <2>1
  <2>2. CASE ~(j > N)
    <3>1. j \in C
      BY <2>2
    <3> QED BY <3>1 DEF Backed
  <2> QED BY <2>1, <2>2
<1>2. ASSUME NEW i \in W, i <= N, \A k \in W : k <= N, h,
             \A k \in W : k <= i
      PROVE  i \in G
  <2>1. i \in V /\ \A k \in V : k <= i
    BY <1>2
  <2>2. i \in H
    BY <1>2, <2>1 DEF Backed
  <2> QED BY <1>2, <2>2
<1>3. ASSUME NEW i \in W, NEW j \in D, \A k \in W : ~(i < k /\ k <= j) PROVE i \in G
  <2>1. CASE i > N
    BY <1>1, <2>1
  <2>2. CASE i <= N /\ j <= N
    <3>1. i \in V /\ j \in C /\ \A k \in V : ~(i < k /\ k <= j)
      BY <1>3, <2>2
    <3>2. i \in H
      BY <3>1 DEF Sound
    <3> QED BY <2>2, <3>2
  <2>3. CASE i <= N /\ j > N
    <3>1. ASSUME NEW k \in W PROVE k <= N
      <4>1. ASSUME k > N PROVE FALSE
        <5>1. k < j
          BY <2>3, <4>1
        <5>2. i < k
          BY <2>3, <4>1
        <5> QED BY <1>3, <5>1, <5>2
      <4> QED BY <4>1
    <3>2. \A k \in W : k <= i
      BY <1>3, <2>3, <3>1
    <3> QED BY <1>1, <1>2, <2>3, <3>1, <3>2
  <2> QED BY <2>1, <2>2, <2>3
<1>4. ASSUME NEW i \in W, \A k \in W : k <= i, h PROVE i \in G
  <2>1. CASE i > N
    BY <1>4, <2>1
  <2>2. CASE i <= N
    <3>1. \A k \in W : k <= N
      BY <1>4, <2>2
    <3> QED BY <1>2, <1>4, <2>2, <3>1
  <2> QED BY <2>1, <2>2
<1> QED BY <1>1, <1>3, <1>4 DEF Sound, Backed

-----------------------------------------------------------------------------
(* The storage queue *)

\* The sets of places, and the truth of Holds.
LEMMA PlacesAre ==
    ASSUME NEW m, NEW q, NEW d, NEW u, NEW e, NEW c, NEW p
    PROVE  /\ Versions(q, u, p) \in SUBSET (0 .. Len(q))
           /\ Claims(m, q, d, e) \in SUBSET (0 .. Len(q))
           /\ Holding(q, d, e) \in SUBSET (0 .. Len(q))
           /\ Holds(c, e) \in BOOLEAN
<1>1. Versions(q, u, p) \in SUBSET (0 .. Len(q))
  BY DEF Versions
<1>2. Claims(m, q, d, e) \in SUBSET (0 .. Len(q))
  BY DEF Claims
<1>3. Holding(q, d, e) \in SUBSET (0 .. Len(q))
  BY DEF Holding
<1>4. Holds(c, e) \in BOOLEAN
  BY DEF Holds
<1> QED BY <1>1, <1>2, <1>3, <1>4

\* What is at a place of the queue, and at place 0.
LEMMA AtPlace ==
    ASSUME NEW m, NEW q, NEW d, NEW u, NEW e, Len(q) \in Nat
    PROVE  /\ \A i \in 1 .. Len(q) : /\ i \in Versions(q, u, e.from) <=> e.from \in FileOf(q[i])
                                     /\ i \in Claims(m, q, d, e) <=> ClaimedBy(m, q[i], e)
                                     /\ i \in Holding(q, d, e) <=> Holds(Contents(q[i]), e)
           /\ 0 \in Versions(q, u, e.from) <=> e.from \notin u
           /\ 0 \in Claims(m, q, d, e) <=> Claimed(m, d.cursor, d.seen_ids, e)
           /\ 0 \in Holding(q, d, e) <=> Holds(Maybe(d.messages, e.from, <<>>), e)
<1>1. 0 \in 0 .. Len(q) /\ \A i \in 1 .. Len(q) : i \in 0 .. Len(q) /\ i # 0
  OBVIOUS
<1>2. /\ \A i \in 1 .. Len(q) : i \in Versions(q, u, e.from) <=> e.from \in FileOf(q[i])
      /\ 0 \in Versions(q, u, e.from) <=> e.from \notin u
  BY <1>1 DEF Versions
<1>3. /\ \A i \in 1 .. Len(q) : i \in Claims(m, q, d, e) <=> ClaimedBy(m, q[i], e)
      /\ 0 \in Claims(m, q, d, e) <=> Claimed(m, d.cursor, d.seen_ids, e)
  BY <1>1 DEF Claims
<1>4. /\ \A i \in 1 .. Len(q) : i \in Holding(q, d, e) <=> Holds(Contents(q[i]), e)
      /\ 0 \in Holding(q, d, e) <=> Holds(Maybe(d.messages, e.from, <<>>), e)
  BY <1>1 DEF Holding
<1> QED BY <1>2, <1>3, <1>4

\* What a write that lands leaves on disk.
LEMMA AfterHas ==
    ASSUME NEW b, NEW n \in Nat, NEW w \in Write(b, n), NEW d \in Disk(b, n), NEW m, NEW e
    PROVE  /\ e.from \in FileOf(w) => Maybe(After(w, d).messages, e.from, <<>>) = Contents(w)
           /\ e.from \notin FileOf(w) =>
                Maybe(After(w, d).messages, e.from, <<>>) = Maybe(d.messages, e.from, <<>>)
           /\ Claimed(m, After(w, d).cursor, After(w, d).seen_ids, e) =>
                Claimed(m, d.cursor, d.seen_ids, e) \/ ClaimedBy(m, w, e)
<1> DEFINE A == Maps(Person)
           B == Maps(Convos(b))
           S == Maps(Seen)
           I == 0 .. n
           x == After(w, d)
           p == e.from
<1>1. d \in [contacts: A, messages: B, seen_ids: S, cursor: I]
  BY DEF Disk
<1>2. CASE w \in [key: {"messages"}, peer: Peers, value: Convos(b)]
  <2>1. w.key = "messages"
    BY <1>2
  <2>2. x = [d EXCEPT !.messages = With(d.messages, w.peer, w.value)]
    BY <2>1 DEF After
  <2>3. FileOf(w) = {w.peer} /\ Contents(w) = w.value
    BY <2>1 DEF FileOf, Contents
  <2> HIDE DEF A, B, S, I, x, p
  <2>4. x.messages = With(d.messages, w.peer, w.value) /\ x.cursor = d.cursor /\ x.seen_ids = d.seen_ids
    BY <1>1, <2>2
  <2>5. /\ Maybe(x.messages, w.peer, <<>>) = w.value
        /\ p # w.peer => Maybe(x.messages, p, <<>>) = Maybe(d.messages, p, <<>>)
    BY <2>4 DEF With, Maybe
  <2> QED BY <2>3, <2>4, <2>5 DEF x, p
<1>3. CASE w \in [key: {"delete"}, peer: Peers]
  <2>1. w.key = "delete"
    BY <1>3
  <2>2. x = [d EXCEPT !.messages = Without(d.messages, w.peer)]
    BY <2>1 DEF After
  <2>3. FileOf(w) = {w.peer} /\ Contents(w) = <<>>
    BY <2>1 DEF FileOf, Contents
  <2> HIDE DEF A, B, S, I, x, p
  <2>4. x.messages = Without(d.messages, w.peer) /\ x.cursor = d.cursor /\ x.seen_ids = d.seen_ids
    BY <1>1, <2>2
  <2>5. /\ Maybe(x.messages, w.peer, <<>>) = <<>>
        /\ p # w.peer => Maybe(x.messages, p, <<>>) = Maybe(d.messages, p, <<>>)
    BY <2>4 DEF Without, Maybe
  <2> QED BY <2>3, <2>4, <2>5 DEF x, p
<1>4. CASE w \in [key: {"contacts"}, value: A]
  <2>1. w.key = "contacts"
    BY <1>4
  <2>2. x = [d EXCEPT !.contacts = w.value] /\ FileOf(w) = {}
    BY <2>1 DEF After, FileOf
  <2> HIDE DEF A, B, S, I, x, p
  <2>3. x.messages = d.messages /\ x.cursor = d.cursor /\ x.seen_ids = d.seen_ids
    BY <1>1, <2>2
  <2> QED BY <2>2, <2>3 DEF x, p
<1>5. CASE w \in [key: {"seen_ids"}, value: S]
  <2>1. w.key = "seen_ids"
    BY <1>5
  <2>2. x = [d EXCEPT !.seen_ids = w.value] /\ FileOf(w) = {}
    BY <2>1 DEF After, FileOf
  <2> HIDE DEF A, B, S, I, x, p
  <2>3. x.messages = d.messages /\ x.cursor = d.cursor /\ x.seen_ids = w.value
    BY <1>1, <2>2
  <2>4. Claimed(m, x.cursor, x.seen_ids, e) => Claimed(m, d.cursor, d.seen_ids, e) \/ ClaimedBy(m, w, e)
    BY <2>1, <2>3 DEF Claimed, ClaimedBy
  <2> QED BY <2>2, <2>3, <2>4 DEF x, p
<1>6. CASE w \in [key: {"cursor"}, value: I]
  <2>1. w.key = "cursor"
    BY <1>6
  <2>2. x = [d EXCEPT !.cursor = w.value] /\ FileOf(w) = {}
    BY <2>1 DEF After, FileOf
  <2> HIDE DEF A, B, S, I, x, p
  <2>3. x.messages = d.messages /\ x.cursor = w.value /\ x.seen_ids = d.seen_ids
    BY <1>1, <2>2
  <2>4. Claimed(m, x.cursor, x.seen_ids, e) => Claimed(m, d.cursor, d.seen_ids, e) \/ ClaimedBy(m, w, e)
    BY <2>1, <2>3 DEF Claimed, ClaimedBy
  <2> QED BY <2>2, <2>3, <2>4 DEF x, p
<1> QED BY <1>2, <1>3, <1>4, <1>5, <1>6 DEF Write

\* The first write leaves the queue: it lands and is no longer lost, or it is lost.
LEMMA PopKeeps ==
    ASSUME NEW b, NEW n \in Nat, NEW q \in Seq(Write(b, n)), q # <<>>, NEW d \in Disk(b, n),
           NEW m, NEW u, NEW e, NEW x, NEW y,
           \/ x = After(Head(q), d) /\ y = u \ FileOf(Head(q))
           \/ x = d /\ y = u \cup FileOf(Head(q)),
           Stored(m, q, d, u, e)
    PROVE  /\ Stored(m, Tail(q), x, y, e)
           /\ \A c : BackedBy(m, q, d, u, e, c) => BackedBy(m, Tail(q), x, y, e, c)
<1> DEFINE N == Len(Tail(q))
           t == Tail(q)
           w == Head(q)
           V == Versions(q, u, e.from)
           C == Claims(m, q, d, e)
           H == Holding(q, d, e)
           W == Versions(t, y, e.from)
           D == Claims(m, t, x, e)
           G == Holding(t, x, e)
<1>1. /\ Len(q) \in Nat /\ N \in Nat /\ Len(q) = N + 1 /\ w \in Write(b, n) /\ w = q[1]
      /\ \A i \in 1 .. N : t[i] = q[i + 1]
  <2> DEFINE X == Write(b, n)
  <2> HIDE DEF X
  <2>1. q \in Seq(X)
    BY DEF X
  <2>2. Len(q) \in Nat /\ t \in Seq(X) /\ w \in X /\ N = Len(q) - 1
    BY <2>1, HeadTailProperties, LenProperties
  <2>3. N \in Nat /\ w = q[1]
    BY <2>1, <2>2, LenProperties
  <2>4. \A i \in 1 .. N : t[i] = q[i + 1]
    BY <2>1, <2>2, HeadTailProperties
  <2> QED BY <2>2, <2>3, <2>4 DEF X
<1>1a. w \in Write(b, n)
  BY <1>1
<1> HIDE DEF N, t, w
<1>2. /\ V \in SUBSET (0 .. N + 1) /\ C \in SUBSET (0 .. N + 1) /\ H \in SUBSET (0 .. N + 1)
  BY <1>1, PlacesAre
<1>3. /\ W \in SUBSET (0 .. N) /\ D \in SUBSET (0 .. N) /\ G \in SUBSET (0 .. N)
  BY PlacesAre DEF N, t
<1>4. /\ \A i \in 1 .. N + 1 : /\ i \in V <=> e.from \in FileOf(q[i])
                               /\ i \in C <=> ClaimedBy(m, q[i], e)
                               /\ i \in H <=> Holds(Contents(q[i]), e)
      /\ 0 \in V <=> e.from \notin u
      /\ 0 \in C <=> Claimed(m, d.cursor, d.seen_ids, e)
      /\ 0 \in H <=> Holds(Maybe(d.messages, e.from, <<>>), e)
  BY <1>1, AtPlace
<1>5. /\ \A i \in 1 .. N : /\ i \in W <=> e.from \in FileOf(t[i])
                           /\ i \in D <=> ClaimedBy(m, t[i], e)
                           /\ i \in G <=> Holds(Contents(t[i]), e)
      /\ 0 \in W <=> e.from \notin y
      /\ 0 \in D <=> Claimed(m, x.cursor, x.seen_ids, e)
      /\ 0 \in G <=> Holds(Maybe(x.messages, e.from, <<>>), e)
  BY <1>1, AtPlace DEF N, t
<1>6. Sound(V, C, H)
  BY DEF Stored
<1> HIDE DEF V, C, H, W, D, G
<1>7. \A i \in 1 .. N : (i \in W <=> i + 1 \in V) /\ (i \in D <=> i + 1 \in C) /\ (i \in G <=> i + 1 \in H)
  <2> SUFFICES ASSUME NEW i \in 1 .. N
               PROVE  (i \in W <=> i + 1 \in V) /\ (i \in D <=> i + 1 \in C) /\ (i \in G <=> i + 1 \in H)
    OBVIOUS
  <2>1. i + 1 \in 1 .. N + 1 /\ t[i] = q[i + 1]
    BY <1>1
  <2> QED BY <1>4, <1>5, <2>1
<1>8. /\ 1 \in V <=> e.from \in FileOf(w)
      /\ 1 \in C <=> ClaimedBy(m, w, e)
      /\ 1 \in H <=> Holds(Contents(w), e)
  <2>1. 1 \in 1 .. N + 1
    BY <1>1
  <2> QED BY <1>1, <1>4, <2>1
<1>9. /\ 0 \in W => \/ 1 \in V /\ (1 \in H => 0 \in G)
                    \/ 1 \notin V /\ 0 \in V /\ (0 \in H => 0 \in G)
      /\ 0 \in D => 0 \in C \/ 1 \in C
  <2>1. CASE x = After(w, d) /\ y = u \ FileOf(w)
    <3>1. /\ e.from \in FileOf(w) => Maybe(x.messages, e.from, <<>>) = Contents(w)
          /\ e.from \notin FileOf(w) => Maybe(x.messages, e.from, <<>>) = Maybe(d.messages, e.from, <<>>)
          /\ Claimed(m, x.cursor, x.seen_ids, e) =>
               Claimed(m, d.cursor, d.seen_ids, e) \/ ClaimedBy(m, w, e)
      <4>1. /\ e.from \in FileOf(w) => Maybe(After(w, d).messages, e.from, <<>>) = Contents(w)
            /\ e.from \notin FileOf(w) =>
                 Maybe(After(w, d).messages, e.from, <<>>) = Maybe(d.messages, e.from, <<>>)
            /\ Claimed(m, After(w, d).cursor, After(w, d).seen_ids, e) =>
                 Claimed(m, d.cursor, d.seen_ids, e) \/ ClaimedBy(m, w, e)
        BY <1>1a, AfterHas
      <4> QED BY <2>1, <4>1
    <3> QED BY <1>4, <1>5, <1>8, <2>1, <3>1
  <2>2. CASE x = d /\ y = u \cup FileOf(w)
    BY <1>4, <1>5, <1>8, <2>2
  <2> QED BY <2>1, <2>2 DEF w
<1>10. /\ Sound(W, D, G)
       /\ \A h \in BOOLEAN : Backed(V, C, H, h) => Backed(W, D, G, h)
  <2>1. Pops(N, V, C, H, W, D, G)
    BY <1>1, <1>2, <1>3, <1>7, <1>9 DEF Pops
  <2> QED BY <1>6, <2>1, PopSound
<1>11. ASSUME NEW c, BackedBy(m, q, d, u, e, c) PROVE BackedBy(m, t, x, y, e, c)
  <2>1. Holds(c, e) \in BOOLEAN
    BY PlacesAre
  <2>2. Backed(V, C, H, Holds(c, e))
    BY <1>11 DEF BackedBy, V, C, H
  <2>3. Backed(W, D, G, Holds(c, e))
    BY <1>10, <2>1, <2>2
  <2> QED BY <2>3 DEF BackedBy, W, D, G
<1> QED BY <1>10, <1>11 DEF Stored, W, D, G, t

\* Where the writes of a longer queue are.
LEMMA AppendPlaces ==
    ASSUME NEW X, NEW q \in Seq(X), NEW ws \in Seq(X), NEW m, NEW d, NEW u, NEW e
    PROVE  /\ Len(q) \in Nat /\ Len(ws) \in Nat /\ Len(q \o ws) = Len(q) + Len(ws)
           /\ \A i \in 0 .. Len(q) :
                /\ i \in Versions(q \o ws, u, e.from) <=> i \in Versions(q, u, e.from)
                /\ i \in Claims(m, q \o ws, d, e) <=> i \in Claims(m, q, d, e)
                /\ i \in Holding(q \o ws, d, e) <=> i \in Holding(q, d, e)
           /\ \A i \in 0 .. Len(q) + Len(ws) : i > Len(q) =>
                /\ i - Len(q) \in 1 .. Len(ws)
                /\ i \in Versions(q \o ws, u, e.from) <=> e.from \in FileOf(ws[i - Len(q)])
                /\ i \in Claims(m, q \o ws, d, e) <=> ClaimedBy(m, ws[i - Len(q)], e)
                /\ i \in Holding(q \o ws, d, e) <=> Holds(Contents(ws[i - Len(q)]), e)
<1> DEFINE t == q \o ws
           N == Len(q)
           L == Len(ws)
<1>1. /\ N \in Nat /\ L \in Nat /\ Len(t) = N + L
      /\ \A i \in 1 .. N + L : t[i] = IF i <= N THEN q[i] ELSE ws[i - N]
  BY ConcatProperties, LenProperties
<1> HIDE DEF t, N, L
<1>2. /\ \A i \in 1 .. N : /\ i \in Versions(q, u, e.from) <=> e.from \in FileOf(q[i])
                           /\ i \in Claims(m, q, d, e) <=> ClaimedBy(m, q[i], e)
                           /\ i \in Holding(q, d, e) <=> Holds(Contents(q[i]), e)
      /\ 0 \in Versions(q, u, e.from) <=> e.from \notin u
      /\ 0 \in Claims(m, q, d, e) <=> Claimed(m, d.cursor, d.seen_ids, e)
      /\ 0 \in Holding(q, d, e) <=> Holds(Maybe(d.messages, e.from, <<>>), e)
  BY <1>1, AtPlace DEF N
<1>3. /\ \A i \in 1 .. N + L : /\ i \in Versions(t, u, e.from) <=> e.from \in FileOf(t[i])
                               /\ i \in Claims(m, t, d, e) <=> ClaimedBy(m, t[i], e)
                               /\ i \in Holding(t, d, e) <=> Holds(Contents(t[i]), e)
      /\ 0 \in Versions(t, u, e.from) <=> e.from \notin u
      /\ 0 \in Claims(m, t, d, e) <=> Claimed(m, d.cursor, d.seen_ids, e)
      /\ 0 \in Holding(t, d, e) <=> Holds(Maybe(d.messages, e.from, <<>>), e)
  <2>1. Len(t) \in Nat /\ Len(t) = N + L
    BY <1>1
  <2> QED BY <2>1, AtPlace
<1>4. ASSUME NEW i \in 0 .. N
      PROVE  /\ i \in Versions(t, u, e.from) <=> i \in Versions(q, u, e.from)
             /\ i \in Claims(m, t, d, e) <=> i \in Claims(m, q, d, e)
             /\ i \in Holding(t, d, e) <=> i \in Holding(q, d, e)
  <2>1. CASE i = 0
    BY <1>2, <1>3, <2>1
  <2>2. CASE i # 0
    <3>1. i \in 1 .. N /\ i \in 1 .. N + L /\ t[i] = q[i]
      BY <1>1, <2>2
    <3> QED BY <1>2, <1>3, <3>1
  <2> QED BY <2>1, <2>2
<1>5. ASSUME NEW i \in 0 .. N + L, i > N
      PROVE  /\ i - N \in 1 .. L
             /\ i \in Versions(t, u, e.from) <=> e.from \in FileOf(ws[i - N])
             /\ i \in Claims(m, t, d, e) <=> ClaimedBy(m, ws[i - N], e)
             /\ i \in Holding(t, d, e) <=> Holds(Contents(ws[i - N]), e)
  <2>1. i \in 1 .. N + L /\ i - N \in 1 .. L /\ t[i] = ws[i - N]
    BY <1>1, <1>5
  <2> QED BY <1>3, <2>1
<1> QED BY <1>1, <1>4, <1>5 DEF t, N, L

\* Writes that are neither versions nor claims.
LEMMA AppendAside ==
    ASSUME NEW X, NEW q \in Seq(X), NEW ws \in Seq(X), NEW m, NEW d, NEW u, NEW e,
           \A i \in 1 .. Len(ws) : e.from \notin FileOf(ws[i]) /\ ~ClaimedBy(m, ws[i], e)
    PROVE  /\ Stored(m, q, d, u, e) => Stored(m, q \o ws, d, u, e)
           /\ \A c : BackedBy(m, q, d, u, e, c) => BackedBy(m, q \o ws, d, u, e, c)
<1> DEFINE N == Len(q)
           L == Len(ws)
           V == Versions(q, u, e.from)
           C == Claims(m, q, d, e)
           H == Holding(q, d, e)
           W == Versions(q \o ws, u, e.from)
           D == Claims(m, q \o ws, d, e)
           G == Holding(q \o ws, d, e)
<1>1. /\ N \in Nat /\ L \in Nat /\ Len(q \o ws) = N + L
      /\ \A i \in 0 .. N : (i \in W <=> i \in V) /\ (i \in D <=> i \in C) /\ (i \in G <=> i \in H)
      /\ \A i \in 0 .. N + L : i > N =>
           /\ i - N \in 1 .. L
           /\ i \in W <=> e.from \in FileOf(ws[i - N])
           /\ i \in D <=> ClaimedBy(m, ws[i - N], e)
  BY AppendPlaces
<1>2. V \subseteq 0 .. N /\ C \subseteq 0 .. N /\ W \subseteq 0 .. N + L /\ D \subseteq 0 .. N + L
  BY <1>1, PlacesAre
<1> HIDE DEF N, V, C, H, W, D, G
<1>3. ASSUME NEW i \in 0 .. N + L, i > N PROVE i \notin W /\ i \notin D
  BY <1>1, <1>3 DEF L
<1> HIDE DEF L
<1>4. W = V /\ D = C
  <2>1. ASSUME NEW i \in W PROVE i \in V
    BY <1>1, <1>2, <1>3
  <2>2. ASSUME NEW i \in D PROVE i \in C
    BY <1>1, <1>2, <1>3
  <2>3. V \subseteq W /\ C \subseteq D
    BY <1>1, <1>2
  <2> QED BY <2>1, <2>2, <2>3
<1>5. \A i \in V : i \in G <=> i \in H
  BY <1>1, <1>2
<1>6. Sound(V, C, H) => Sound(W, D, G)
  BY <1>4, <1>5 DEF Sound
<1>7. ASSUME NEW c, BackedBy(m, q, d, u, e, c) PROVE BackedBy(m, q \o ws, d, u, e, c)
  <2>1. Backed(V, C, H, Holds(c, e))
    BY <1>7 DEF BackedBy, V, C, H
  <2>2. Backed(W, D, G, Holds(c, e))
    BY <1>4, <1>5, <2>1 DEF Backed
  <2> QED BY <2>2 DEF BackedBy, W, D, G
<1> QED BY <1>6, <1>7 DEF Stored, V, C, H, W, D, G

\* Writes ws that make up for each other: when memory goes from conversation c to x, a
\* version among them holds what x holds, comes before the claims among them, and is there
\* if x holds more than c.
Adds(m, ws, e, c, x) ==
    /\ Holds(c, e) => Holds(x, e)
    /\ \A i \in 1 .. Len(ws) : e.from \in FileOf(ws[i]) /\ Holds(x, e) => Holds(Contents(ws[i]), e)
    /\ \A i \in 1 .. Len(ws) : ClaimedBy(m, ws[i], e) => Holds(x, e)
    /\ \A i, j \in 1 .. Len(ws) : e.from \in FileOf(ws[i]) /\ ClaimedBy(m, ws[j], e) => i < j
    /\ (\A i \in 1 .. Len(ws) : e.from \notin FileOf(ws[i])) => (Holds(x, e) => Holds(c, e))

LEMMA AppendKeeps ==
    ASSUME NEW X, NEW q \in Seq(X), NEW ws \in Seq(X), NEW m, NEW d, NEW u, NEW e, NEW c, NEW x,
           Adds(m, ws, e, c, x), Stored(m, q, d, u, e), BackedBy(m, q, d, u, e, c)
    PROVE  Stored(m, q \o ws, d, u, e) /\ BackedBy(m, q \o ws, d, u, e, x)
<1> DEFINE N == Len(q)
           L == Len(ws)
           V == Versions(q, u, e.from)
           C == Claims(m, q, d, e)
           H == Holding(q, d, e)
           W == Versions(q \o ws, u, e.from)
           D == Claims(m, q \o ws, d, e)
           G == Holding(q \o ws, d, e)
           g == Holds(c, e)
           h == Holds(x, e)
<1>1. /\ N \in Nat /\ L \in Nat /\ Len(q \o ws) = N + L
      /\ \A i \in 0 .. N : (i \in W <=> i \in V) /\ (i \in D <=> i \in C) /\ (i \in G <=> i \in H)
      /\ \A i \in 0 .. N + L : i > N =>
           /\ i - N \in 1 .. L
           /\ i \in W <=> e.from \in FileOf(ws[i - N])
           /\ i \in D <=> ClaimedBy(m, ws[i - N], e)
           /\ i \in G <=> Holds(Contents(ws[i - N]), e)
  BY AppendPlaces
<1>2. /\ V \subseteq 0 .. N /\ C \subseteq 0 .. N /\ H \subseteq 0 .. N
      /\ W \subseteq 0 .. N + L /\ D \subseteq 0 .. N + L /\ G \subseteq 0 .. N + L
  BY <1>1, PlacesAre
<1>3. g \in BOOLEAN /\ h \in BOOLEAN
  BY PlacesAre
<1>4. Sound(V, C, H) /\ Backed(V, C, H, g)
  BY DEF Stored, BackedBy
<1>5. /\ g => h
      /\ \A i \in 1 .. L : e.from \in FileOf(ws[i]) /\ h => Holds(Contents(ws[i]), e)
      /\ \A i \in 1 .. L : ClaimedBy(m, ws[i], e) => h
      /\ \A i, j \in 1 .. L : e.from \in FileOf(ws[i]) /\ ClaimedBy(m, ws[j], e) => i < j
      /\ (\A i \in 1 .. L : e.from \notin FileOf(ws[i])) => (h => g)
  BY DEF Adds
<1> HIDE DEF N, L, V, C, H, W, D, G, g, h
<1>6. \A i \in W : i > N /\ h => i \in G
  BY <1>1, <1>2, <1>5
<1>7. \A j \in D : j > N => h
  BY <1>1, <1>2, <1>5
<1>8. ASSUME NEW i \in W, NEW j \in D, i > N, j > N PROVE i < j
  <2>1. i \in 0 .. N + L /\ j \in 0 .. N + L
    BY <1>2
  <2>2. i - N < j - N
    BY <1>1, <1>5, <1>8, <2>1
  <2> QED BY <1>1, <2>1, <2>2
<1>9. ASSUME \A i \in W : i <= N, h PROVE g
  <2>1. ASSUME NEW i \in 1 .. L PROVE e.from \notin FileOf(ws[i])
    <3>1. N + i \in 0 .. N + L /\ N + i > N /\ (N + i) - N = i
      BY <1>1
    <3>2. N + i \notin W
      BY <1>1, <1>9, <3>1
    <3> QED BY <1>1, <3>1, <3>2
  <2> QED BY <1>5, <1>9, <2>1
<1>10. Grows(N, L, V, C, H, W, D, G, g, h)
  BY <1>1, <1>2, <1>5, <1>6, <1>7, <1>8, <1>9 DEF Grows
<1>11. Sound(W, D, G) /\ Backed(W, D, G, h)
  BY <1>3, <1>4, <1>10, AppendSound
<1> QED BY <1>11 DEF Stored, BackedBy, W, D, G, h

-----------------------------------------------------------------------------
(* Conversations *)

LEMMA EmptyHolds ==
    ASSUME NEW e
    PROVE  ~Holds(<<>>, e) /\ Dated(<<>>, e)
<1>1. ToSet(<<>>) = {} /\ IdsOf(<<>>) = {}
  BY EmptyConvo
<1>2. Len(<<>>) # MaxMessages
  BY InboxAssumption
<1> QED BY <1>1, <1>2 DEF Holds, AgedOut, Dated

\* The same ids under the same times.
Alike(a, b) ==
    /\ Len(a) = Len(b)
    /\ \A x \in ToSet(a) : \E y \in ToSet(b) : x.id = y.id /\ x.ts = y.ts
    /\ \A y \in ToSet(b) : \E x \in ToSet(a) : x.id = y.id /\ x.ts = y.ts

LEMMA AlikeHolds ==
    ASSUME NEW a, NEW b, Alike(a, b), NEW e
    PROVE  (Holds(a, e) <=> Holds(b, e)) /\ (Dated(a, e) <=> Dated(b, e))
<1>1. e.id \in IdsOf(a) <=> e.id \in IdsOf(b)
  BY DEF Alike, IdsOf
<1>2. AgedOut(a, Clamped(e.ts)) <=> AgedOut(b, Clamped(e.ts))
  BY DEF Alike, AgedOut
<1>3. Dated(a, e) <=> Dated(b, e)
  BY DEF Alike, Dated
<1> QED BY <1>1, <1>2, <1>3 DEF Holds

LEMMA MarkedAlike ==
    ASSUME NEW d, NEW c \in Convos(d), NEW ids
    PROVE  Alike(Marked(c, ids), c)
<1> DEFINE t == Marked(c, ids)
           n == Len(c)
<1>1. n \in Nat /\ DOMAIN c = 1 .. n /\ \A i \in 1 .. n : c[i] \in Message
  BY ConvoIs
<1>2. t \in Seq(Message) /\ DOMAIN t = 1 .. n
  <2>1. t \in Convos(d)
    BY MarkedIsConvo
  <2>2. DOMAIN t = 1 .. n
    BY <1>1 DEF Marked
  <2> QED BY <2>1, <2>2, ConvoIs
<1>3. Len(t) = n
  BY <1>1, <1>2, LenProperties
<1>4. ASSUME NEW i \in 1 .. n PROVE t[i].id = c[i].id /\ t[i].ts = c[i].ts
  <2>1. t[i] = IF c[i].outgoing /\ c[i].id \in ids THEN [c[i] EXCEPT !.delivered = TRUE] ELSE c[i]
    BY <1>1 DEF Marked
  <2>2. c[i] \in Message
    BY <1>1
  <2> QED BY <2>1, <2>2 DEF Message
<1> HIDE DEF t, n
<1>5. Alike(t, c)
  BY <1>1, <1>2, <1>3, <1>4 DEF Alike, ToSet, n
<1> QED BY <1>5 DEF t

\* What trimming takes away is older than all it leaves.
LEMMA TrimLeaves ==
    ASSUME NEW d, NEW c, Listed(c, d), NEW t, t = TrimHistory(c)
    PROVE  /\ Len(t) = IF Len(c) > MaxMessages THEN MaxMessages ELSE Len(c)
           /\ \A i \in 1 .. Len(c) :
                \/ c[i] \in ToSet(t)
                \/ Len(t) = MaxMessages /\ \A x \in ToSet(t) : c[i].ts <= x.ts
           /\ Len(c) > MaxMessages => \A x \in ToSet(t) : c[1].ts <= x.ts /\ Apart(c[1], x)
<1> DEFINE k == IF Len(c) > MaxMessages THEN Len(c) - MaxMessages ELSE 0
           n == Len(c)
<1>1. n \in Nat /\ MaxMessages \in Nat /\ k \in Nat /\ k <= n
  BY InboxAssumption, LenProperties DEF Listed
<1>2. t = SubSeq(c, k + 1, n)
  BY DEF TrimHistory
<1>3. c \in Seq(Message) /\ DOMAIN c = 1 .. n
      /\ \A i, j \in 1 .. n : i < j => c[i].ts <= c[j].ts /\ Apart(c[i], c[j])
  BY LenProperties DEF Listed
<1>4. n - k = IF n > MaxMessages THEN MaxMessages ELSE n
  BY <1>1
<1>5. (k > 0 => n > MaxMessages) /\ (n > MaxMessages => k > 0)
  BY <1>1
<1> HIDE DEF k, n
<1>6. t \in Seq(Message) /\ Len(t) = n - k /\ \A i \in 1 .. n - k : t[i] = c[k + i]
  <2>1. k + 1 \in 1 .. n + 1
    BY <1>1
  <2>2. /\ t \in Seq(Message)
        /\ Len(t) = IF k + 1 <= n THEN n - (k + 1) + 1 ELSE 0
        /\ \A i \in 1 .. n - (k + 1) + 1 : t[i] = c[(k + 1) + i - 1]
    BY <1>1, <1>2, <1>3, <2>1, SubSeqProperties DEF n
  <2> QED BY <1>1, <2>2
<1>7. DOMAIN t = 1 .. n - k
  BY <1>6, LenProperties
<1>8. ASSUME NEW i \in 1 .. n, i <= k, NEW x \in ToSet(t) PROVE c[i].ts <= x.ts /\ Apart(c[i], x)
  <2>1. PICK j \in 1 .. n - k : x = t[j]
    BY <1>7 DEF ToSet
  <2>2. k + j \in 1 .. n /\ i < k + j
    BY <1>1, <1>8, <2>1
  <2> QED BY <1>3, <1>6, <2>1, <2>2
<1>9. ASSUME NEW i \in 1 .. n, i > k PROVE c[i] \in ToSet(t)
  <2>1. i - k \in 1 .. n - k /\ k + (i - k) = i
    BY <1>1, <1>9
  <2> QED BY <1>6, <1>7, <2>1 DEF ToSet
<1>10. ASSUME NEW i \in 1 .. n
       PROVE  \/ c[i] \in ToSet(t)
              \/ Len(t) = MaxMessages /\ \A x \in ToSet(t) : c[i].ts <= x.ts
  <2>1. CASE i <= k
    <3>1. n > MaxMessages
      BY <1>1, <1>5, <2>1
    <3> QED BY <1>4, <1>6, <1>8, <2>1, <3>1
  <2>2. CASE i > k
    BY <1>9, <2>2
  <2> QED BY <1>1, <2>1, <2>2
<1>11. ASSUME n > MaxMessages, NEW x \in ToSet(t) PROVE c[1].ts <= x.ts /\ Apart(c[1], x)
  <2>1. 1 \in 1 .. n /\ 1 <= k
    BY <1>1, <1>5, <1>11
  <2> QED BY <1>8, <2>1
<1> QED BY <1>4, <1>6, <1>10, <1>11 DEF n

\* A message goes in and the oldest goes out: the texts a conversation holds it still
\* holds, the new one included.
LEMMA InsertHolds ==
    ASSUME NEW d, NEW old \in Convos(d), NEW m \in Message, Honest(m, d), Novel(old, m),
           NEW t, t = TrimHistory(InsertSorted(old, m)),
           NEW e, Clamped(e.ts) \in Nat, Dated(old, e), m.id = e.id => m.ts = Clamped(e.ts)
    PROVE  /\ Dated(t, e)
           /\ Holds(old, e) => Holds(t, e)
           /\ m.id = e.id => Holds(t, e)
<1> DEFINE c == InsertSorted(old, m)
           ts == Clamped(e.ts)
<1>1. Listed(c, d) /\ ToSet(c) = ToSet(old) \cup {m} /\ Len(c) = Len(old) + 1
  BY InsertIsListed
<1>2. Len(old) \in Nat /\ Len(old) <= MaxMessages /\ MaxMessages \in Nat
  BY ConvoIs, Limits
<1> HIDE DEF c, ts
<1>3. /\ c \in Seq(Message) /\ DOMAIN c = 1 .. Len(c) /\ Len(c) \in Nat
      /\ \A i \in 1 .. Len(c) : c[i].ts \in Nat
  BY <1>1, LenProperties DEF Listed
<1>4. t \in Convos(d) /\ ToSet(t) \subseteq ToSet(c)
  BY <1>1, TrimIsConvo DEF c
<1>5. /\ Len(t) = IF Len(c) > MaxMessages THEN MaxMessages ELSE Len(c)
      /\ \A i \in 1 .. Len(c) :
           \/ c[i] \in ToSet(t)
           \/ Len(t) = MaxMessages /\ \A x \in ToSet(t) : c[i].ts <= x.ts
      /\ Len(c) > MaxMessages => \A x \in ToSet(t) : c[1].ts <= x.ts /\ Apart(c[1], x)
  BY <1>1, TrimLeaves DEF c
<1>6. \A x \in ToSet(c) : x.ts \in Nat /\ \E i \in 1 .. Len(c) : x = c[i]
  BY <1>3 DEF ToSet
<1>7. Dated(c, e)
  BY <1>1 DEF Dated
<1>8. Dated(t, e)
  BY <1>4, <1>7 DEF Dated
<1>9. ASSUME NEW x \in ToSet(c), x.id = e.id PROVE Holds(t, e)
  <2>1. x.ts = ts
    BY <1>7, <1>9 DEF Dated, ts
  <2>2. PICK i \in 1 .. Len(c) : x = c[i]
    BY <1>6
  <2>3. CASE x \in ToSet(t)
    BY <1>9, <2>3 DEF Holds, IdsOf
  <2>4. CASE Len(t) = MaxMessages /\ \A y \in ToSet(t) : x.ts <= y.ts
    <3>1. \A y \in ToSet(t) : y.ts >= ts
      BY <1>4, <1>6, <2>1, <2>4
    <3> QED BY <2>4, <3>1 DEF Holds, AgedOut, ts
  <2> QED BY <1>5, <2>2, <2>3, <2>4
<1>10. ASSUME AgedOut(old, ts) PROVE Holds(t, e)
  <2>1. Len(old) = MaxMessages /\ \A x \in ToSet(old) : x.ts >= ts
    BY <1>10 DEF AgedOut
  <2>2. Len(c) > MaxMessages /\ Len(t) = MaxMessages /\ 1 \in 1 .. Len(c)
    BY <1>1, <1>2, <1>5, <2>1
  <2>3. ts \in Nat
    BY DEF ts
  <2>4. ASSUME NEW x \in ToSet(t) PROVE x.ts >= ts
    <3>1. CASE x \in ToSet(old)
      BY <2>1, <3>1
    <3>2. CASE x = m
      <4>1. c[1] \in ToSet(c) /\ Apart(c[1], x) /\ c[1].ts <= x.ts
        BY <1>3, <1>5, <2>2 DEF ToSet
      <4>2. c[1] \in ToSet(old)
        BY <1>1, <3>2, <4>1 DEF Apart
      <4>3. c[1].ts >= ts /\ c[1].ts \in Nat /\ x.ts \in Nat
        BY <1>3, <1>4, <1>6, <2>1, <2>2, <4>2
      <4> QED BY <2>3, <4>1, <4>3
    <3> QED BY <1>1, <1>4, <3>1, <3>2
  <2> QED BY <2>2, <2>4 DEF Holds, AgedOut, ts
<1>11. Holds(old, e) => Holds(t, e)
  <2>1. ASSUME e.id \in IdsOf(old) PROVE Holds(t, e)
    <3>1. PICK x \in ToSet(old) : x.id = e.id
      BY <2>1 DEF IdsOf
    <3> QED BY <1>1, <1>9, <3>1
  <2> QED BY <1>10, <2>1 DEF Holds, ts
<1>12. m.id = e.id => Holds(t, e)
  BY <1>1, <1>9
<1> QED BY <1>8, <1>11, <1>12

\* An order of a finite set leaves none of it out.
LEMMA OrderIsOnto ==
    ASSUME NEW S, IsFiniteSet(S), NEW q \in Orders(S), NEW x \in S
    PROVE  Cardinality(S) \in Nat /\ \E i \in 1 .. Cardinality(S) : q[i] = x
<1> DEFINE n == Cardinality(S)
<1>1. n \in Nat
  BY FS_CardinalityType
<1>2. IsFiniteSet(1 .. n) /\ Cardinality(1 .. n) = n
  BY <1>1, FS_Interval
<1>3. q \in [1 .. n -> S] /\ IsInjective(q)
  BY DEF Orders
<1> HIDE DEF n
<1>4. q \in Injection(1 .. n, S)
  BY <1>3 DEF Injection, IsInjective
<1>5. Cardinality(1 .. n) = Cardinality(S)
  BY <1>2 DEF n
<1>6. q \in Surjection(1 .. n, S)
  BY <1>2, <1>4, <1>5, FS_Injection
<1>7. \E i \in 1 .. n : q[i] = x
  BY <1>6 DEF Surjection
<1> QED BY <1>1, <1>7 DEF n

\* A load that finds nothing in memory changes nothing of what was read.
LEMMA MergeAlike ==
    ASSUME NEW d, NEW list \in Convos(d), NEW q \in ByTime(<<>> \o list, KeptPlaces(<<>>, list))
    PROVE  Alike(TrimHistory(InPlaces(<<>> \o list, q)), list)
<1> DEFINE n == Len(list)
           S == KeptPlaces(<<>>, list)
           r == InPlaces(list, q)
           t == TrimHistory(r)
<1>1. n \in Nat /\ DOMAIN list = 1 .. n /\ list \in Seq(Message) /\ n <= MaxMessages
      /\ \A i \in 1 .. n : list[i] \in Message
  BY ConvoIs
<1>2. <<>> \o list = list
  BY <1>1, ConcatEmptySeq
<1>3. S = 1 .. n
  BY <1>1, <1>2, EmptyConvo DEF KeptPlaces
<1>4. IsFiniteSet(S) /\ Cardinality(S) = n
  BY <1>1, <1>3, FS_Interval
<1>5. q \in Orders(S)
  BY DEF ByTime
<1>6. q \in [1 .. n -> 1 .. n]
  BY <1>3, <1>4, <1>5 DEF Orders
<1>7. \A x \in 1 .. n : \E i \in 1 .. n : q[i] = x
  <2> SUFFICES ASSUME NEW x \in 1 .. n PROVE \E i \in 1 .. n : q[i] = x
    OBVIOUS
  <2>1. x \in S
    BY <1>3
  <2> HIDE DEF S
  <2>2. \E i \in 1 .. Cardinality(S) : q[i] = x
    BY <1>4, <1>5, <2>1, OrderIsOnto
  <2> QED BY <1>4, <2>2
<1> HIDE DEF S, n
<1>8. r \in [1 .. n -> Message] /\ \A i \in 1 .. n : r[i] = list[q[i]]
  BY <1>1, <1>6 DEF InPlaces
<1> HIDE DEF r
<1>9. r \in Seq(Message) /\ Len(r) = n /\ DOMAIN r = 1 .. n
  <2>1. r \in Seq(Message)
    BY <1>1, <1>8, SeqDef
  <2> QED BY <1>1, <1>8, <2>1, LenProperties
<1>10. t = SubSeq(r, 1, n)
  <2>1. ~(Len(r) > MaxMessages)
    BY <1>1, <1>9, Limits
  <2> QED BY <1>9, <2>1 DEF TrimHistory
<1>11. Len(t) = n /\ DOMAIN t = 1 .. n /\ \A i \in 1 .. n : t[i] = r[i]
  <2> HIDE DEF t
  <2>1. /\ t \in Seq(Message)
        /\ Len(t) = IF 1 <= n THEN n - 1 + 1 ELSE 0
        /\ \A i \in 1 .. n - 1 + 1 : t[i] = r[1 + i - 1]
    BY <1>1, <1>9, <1>10, SubSeqProperties
  <2>2. Len(t) = n /\ \A i \in 1 .. n : t[i] = r[i]
    BY <1>1, <2>1
  <2> QED BY <2>1, <2>2, LenProperties
<1> HIDE DEF t
<1>12. ASSUME NEW x \in ToSet(t) PROVE x \in ToSet(list)
  <2>1. PICK i \in 1 .. n : x = list[q[i]]
    BY <1>8, <1>11 DEF ToSet
  <2> QED BY <1>1, <1>6, <2>1 DEF ToSet
<1>13. ASSUME NEW x \in ToSet(list) PROVE x \in ToSet(t)
  <2>1. PICK j \in 1 .. n : x = list[j]
    BY <1>1 DEF ToSet
  <2>2. PICK i \in 1 .. n : q[i] = j
    BY <1>7
  <2>3. x = t[i]
    BY <1>8, <1>11, <2>1, <2>2
  <2> QED BY <1>11, <2>3 DEF ToSet
<1>14. Alike(t, list)
  BY <1>11, <1>12, <1>13 DEF Alike, n
<1> QED BY <1>2, <1>14 DEF t, r

-----------------------------------------------------------------------------
(* The loop of ingest_poll *)

\* Conversation of p in mind while the page is read.
InLoop(s, p) == Mind(loading, s.messages, p)

\* What a page that has come to s knows of text e: an id in the dedup set means that the
\* text is held, and what is on its way in finds nothing in memory.
Knows(s, e) ==
    /\ e.id \in Maybe(s.seen_ids, e.from, {}) => Holds(InLoop(s, e.from), e)
    /\ e.from \in DOMAIN loading => Maybe(s.messages, e.from, <<>>) = <<>>

\* No file is touched before it was read.
Waits(s, p) == p \in DOMAIN loading => p \notin s.touched

\* From s to u a page loses nothing of e, and changes only what it touches.
Follows(s, u, e) ==
    /\ Holds(InLoop(s, e.from), e) => Holds(InLoop(u, e.from), e)
    /\ e.from \notin u.touched => InLoop(u, e.from) = InLoop(s, e.from)

\* What a text carries; its id is drawn once.
LEMMA TextIs ==
    ASSUME mail \in Mails, NEW e \in Arrivals
    PROVE  /\ e \in Events /\ e.kind = "text" /\ e.from \in Peers /\ e.id \in PeerIds
           /\ e.ts \in Nat /\ Clamped(e.ts) \in Nat
           /\ \A f \in Arrivals : f.from = e.from /\ f.id = e.id => f.ts = e.ts
<1>1. e \in Events /\ e.kind = "text"
  BY MailIs DEF Arrivals
<1>2. e.from \in Peers /\ e.id \in PeerIds /\ e.ts \in Nat
  BY <1>1, EventIs
<1>3. Clamped(e.ts) \in Nat
  BY <1>2, ClampedIs
<1>4. \A f \in Arrivals : f.from = e.from /\ f.id = e.id => f.ts = e.ts
  BY IdAssumption DEF Arrivals
<1> QED BY <1>1, <1>2, <1>3, <1>4

\* Steps of the loop, for text e.
Steps(s, u, e) ==
    /\ s.touched \subseteq u.touched
    /\ Dated(Maybe(s.messages, e.from, <<>>), e) => Dated(Maybe(u.messages, e.from, <<>>), e)
    /\ Knows(s, e) /\ Waits(u, e.from) /\ Dated(Maybe(s.messages, e.from, <<>>), e) =>
         Knows(u, e) /\ Follows(s, u, e)

\* One step, which reads event x.
StepsFor(s, u, e, x) ==
    /\ Steps(s, u, e)
    /\ Knows(s, e) /\ Waits(u, e.from) /\ Dated(Maybe(s.messages, e.from, <<>>), e) =>
         (x = e /\ e \notin u.excused => Holds(InLoop(u, e.from), e))

\* A step that leaves the conversation and the dedup set of e's sender alone.
LEMMA StepsAside ==
    ASSUME NEW s, NEW u, NEW e, NEW x,
           Maybe(u.messages, e.from, <<>>) = Maybe(s.messages, e.from, <<>>),
           Maybe(u.seen_ids, e.from, {}) = Maybe(s.seen_ids, e.from, {}),
           s.touched \subseteq u.touched, x = e => e \in u.excused
    PROVE  StepsFor(s, u, e, x)
<1>1. InLoop(u, e.from) = InLoop(s, e.from)
  BY DEF InLoop, Mind
<1> QED BY <1>1 DEF StepsFor, Steps, Knows, Follows

\* The dedup set a text is held against tells the truth, seeded or not.
LEMMA IdSetKnows ==
    ASSUME NEW s, NEW e, Knows(s, e), e.id \in IdSet(s, e.from)
    PROVE  Holds(InLoop(s, e.from), e)
<1> DEFINE p == e.from
           ids == Maybe(s.seen_ids, p, {})
           c == Maybe(s.messages, p, <<>>)
<1>1. IdSet(s, p) = IF ids = {} THEN IdsOf(c) ELSE ids
  BY DEF IdSet
<1>2. CASE e.id \in ids
  BY <1>2 DEF Knows
<1>3. CASE e.id \in IdsOf(c)
  <2>1. c # <<>>
    BY <1>3, EmptyConvo
  <2>2. InLoop(s, p) = c
    BY <2>1 DEF Knows, InLoop, Mind
  <2> QED BY <1>3, <2>2 DEF Holds
<1> QED BY <1>1, <1>2, <1>3

LEMMA OldTextSteps ==
    ASSUME NEW s, LoopInv(s), mail \in Mails, NEW e \in Texts, NEW x \in Arrivals,
           x.id \in IdSet(s, x.from), NEW u \in OldText(s, x)
    PROVE  StepsFor(s, u, e, x)
<1> DEFINE p == e.from
           y == x.from
           M == With(s.messages, y, Maybe(s.messages, y, <<>>))
           G == With(s.seen_ids, y, IdSet(s, y))
<1>1. u = [s EXCEPT !.messages = M, !.seen_ids = G]
  BY DEF OldText
<1>2. /\ Maybe(M, p, <<>>) = Maybe(s.messages, p, <<>>)
      /\ p # y => Maybe(G, p, {}) = Maybe(s.seen_ids, p, {})
      /\ p = y => Maybe(G, p, {}) = IdSet(s, p)
  <2>1. Maybe(M, p, <<>>) = Maybe(s.messages, p, <<>>)
    BY DEF With, Maybe
  <2>2. p # y => Maybe(G, p, {}) = Maybe(s.seen_ids, p, {})
    BY DEF With, Maybe
  <2>3. p = y => Maybe(G, p, {}) = IdSet(s, p)
    BY DEF With, Maybe
  <2> QED BY <2>1, <2>2, <2>3
<1> HIDE DEF M, G
<1>3. u.messages = M /\ u.seen_ids = G /\ u.touched = s.touched
  BY <1>1 DEF LoopInv, LoopState
<1>4. CASE p # y
  BY <1>2, <1>3, <1>4, StepsAside
<1>5. CASE p = y
  <2>1. InLoop(u, p) = InLoop(s, p)
    BY <1>2, <1>3 DEF InLoop, Mind
  <2>2. Dated(Maybe(s.messages, p, <<>>), e) => Dated(Maybe(u.messages, p, <<>>), e)
    BY <1>2, <1>3
  <2>3. ASSUME Knows(s, e), e.id \in IdSet(s, p) PROVE Holds(InLoop(u, p), e)
    BY <2>1, <2>3, IdSetKnows
  <2>4. ASSUME Knows(s, e) PROVE Knows(u, e)
    BY <1>2, <1>3, <1>5, <2>3, <2>4 DEF Knows
  <2>5. Follows(s, u, e)
    BY <1>3, <2>1 DEF Follows
  <2>6. ASSUME Knows(s, e), x = e PROVE Holds(InLoop(u, p), e)
    BY <1>5, <2>3, <2>6
  <2> QED BY <1>3, <2>2, <2>4, <2>5, <2>6 DEF StepsFor, Steps
<1> QED BY <1>4, <1>5

LEMMA NewTextSteps ==
    ASSUME NEW s, LoopInv(s), mail \in Mails, NEW e \in Texts, NEW x \in Arrivals,
           x.id \notin IdSet(s, x.from), NEW u \in NewText(s, x)
    PROVE  StepsFor(s, u, e, x)
<1> DEFINE p   == e.from
           y   == x.from
           old == Maybe(s.messages, y, <<>>)
           m   == [id |-> x.id, ts |-> Clamped(x.ts), outgoing |-> FALSE, delivered |-> FALSE]
           convo == InsertSorted(old, m)
           ids == IdSet(s, y) \cup {x.id}
           t   == TrimHistory(convo)
<1>1. PICK C \in Cuts(ids, convo) :
         u = [s EXCEPT !.messages = With(@, y, t),
                       !.seen_ids = With(@, y, ids \ C),
                       !.touched  = @ \cup {y}]
  BY DEF NewText
<1> DEFINE M == With(s.messages, y, t)
           G == With(s.seen_ids, y, ids \ C)
<1>2. u = [s EXCEPT !.messages = M, !.seen_ids = G, !.touched = @ \cup {y}]
  BY <1>1
<1> HIDE DEF t, ids, m
<1>3. /\ p # y => Maybe(M, p, <<>>) = Maybe(s.messages, p, <<>>)
      /\ p = y => Maybe(M, p, <<>>) = t
  BY DEF With, Maybe
<1>4. /\ p # y => Maybe(G, p, {}) = Maybe(s.seen_ids, p, {})
      /\ p = y => Maybe(G, p, {}) = ids \ C
  BY DEF With, Maybe
<1> HIDE DEF M, G
<1>5. u.messages = M /\ u.seen_ids = G /\ u.touched = s.touched \cup {y}
  BY <1>2 DEF LoopInv, LoopState
<1>6. CASE p # y
  <2>1. x # e
    BY <1>6
  <2> QED BY <1>3, <1>4, <1>5, <1>6, <2>1, StepsAside
<1>7. CASE p = y
  <2>1. x \in Events /\ x.kind = "text" /\ Clamped(e.ts) \in Nat /\ y \in Peers
        /\ (x.id = e.id => x.ts = e.ts)
    BY <1>7, TextIs DEF Texts
  <2>2. old \in Convos(drawn)
    BY <2>1, IdSetCovers
  <2>3. m \in Message /\ Honest(m, drawn) /\ Novel(old, m)
    BY <2>1, FreshText DEF m
  <2>4. m.id = x.id /\ (m.id = e.id => m.ts = Clamped(e.ts))
    BY <2>1 DEF m
  <2>5. ASSUME Dated(old, e)
        PROVE  Dated(t, e) /\ (Holds(old, e) => Holds(t, e)) /\ (m.id = e.id => Holds(t, e))
    <3> HIDE DEF old
    <3> QED BY <2>1, <2>2, <2>3, <2>4, <2>5, InsertHolds DEF t
  <2>6. Dated(Maybe(s.messages, p, <<>>), e) => Dated(Maybe(u.messages, p, <<>>), e)
    BY <1>3, <1>5, <1>7, <2>5
  <2>7. ASSUME Knows(s, e), Waits(u, p), Dated(Maybe(s.messages, p, <<>>), e)
        PROVE  /\ Knows(u, e) /\ Follows(s, u, e)
               /\ x = e /\ e \notin u.excused => Holds(InLoop(u, p), e)
    <3>1. p \in u.touched /\ p \notin DOMAIN loading
      BY <1>5, <1>7, <2>7 DEF Waits
    <3>2. InLoop(s, p) = old /\ InLoop(u, p) = t
      BY <1>3, <1>5, <1>7, <3>1 DEF InLoop, Mind
    <3>3. (Holds(old, e) => Holds(t, e)) /\ (x.id = e.id => Holds(t, e))
      BY <1>7, <2>4, <2>5, <2>7
    <3>4. Follows(s, u, e)
      BY <1>5, <3>1, <3>2, <3>3 DEF Follows
    <3>5. ASSUME e.id \in IdSet(s, p) PROVE Holds(t, e)
      BY <2>7, <3>2, <3>3, <3>5, IdSetKnows
    <3>6. Knows(u, e)
      BY <1>4, <1>5, <1>7, <3>1, <3>2, <3>3, <3>5 DEF Knows, ids
    <3> QED BY <3>2, <3>3, <3>4, <3>6
  <2> QED BY <1>5, <2>6, <2>7 DEF StepsFor, Steps
<1> QED BY <1>6, <1>7

\* A state that agrees on all this.
LEMMA StepsSame ==
    ASSUME NEW s, NEW t, NEW u, NEW e, NEW x, t.messages = s.messages, t.seen_ids = s.seen_ids,
           t.touched = s.touched, StepsFor(t, u, e, x)
    PROVE  StepsFor(s, u, e, x)
<1>1. InLoop(t, e.from) = InLoop(s, e.from)
  BY DEF InLoop
<1>2. Knows(s, e) <=> Knows(t, e)
  BY <1>1 DEF Knows
<1>3. Follows(s, u, e) <=> Follows(t, u, e)
  BY <1>1 DEF Follows
<1> QED BY <1>2, <1>3 DEF StepsFor, Steps

LEMMA StepsOn ==
    ASSUME NEW r, NEW s, NEW u, NEW e, Steps(r, s, e), Steps(s, u, e)
    PROVE  Steps(r, u, e)
<1>1. /\ r.touched \subseteq u.touched
      /\ Dated(Maybe(r.messages, e.from, <<>>), e) => Dated(Maybe(u.messages, e.from, <<>>), e)
  BY DEF Steps
<1>2. ASSUME Knows(r, e), Waits(u, e.from), Dated(Maybe(r.messages, e.from, <<>>), e)
      PROVE  Knows(u, e) /\ Follows(r, u, e)
  <2>1. s.touched \subseteq u.touched
    BY DEF Steps
  <2>2. Waits(s, e.from)
    BY <1>2, <2>1 DEF Waits
  <2>3. Knows(s, e) /\ Follows(r, s, e) /\ Dated(Maybe(s.messages, e.from, <<>>), e)
    BY <1>2, <2>2 DEF Steps
  <2>4. Knows(u, e) /\ Follows(s, u, e)
    BY <1>2, <2>3 DEF Steps
  <2>5. Follows(r, u, e)
    BY <2>1, <2>3, <2>4 DEF Follows
  <2> QED BY <2>4, <2>5
<1> QED BY <1>1, <1>2 DEF Steps

LEMMA TextSteps ==
    ASSUME NEW s, LoopInv(s), mail \in Mails, NEW e \in Texts, NEW x \in Arrivals, NEW u \in Text(s, x)
    PROVE  StepsFor(s, u, e, x)
<1>0. x.from \in Peers
  BY TextIs
<1>1. CASE x.from \notin DOMAIN s.contacts /\ Cardinality(DOMAIN s.contacts) >= MaxContacts
  <2>1. u = [s EXCEPT !.excused = @ \cup {x}]
    BY <1>1 DEF Text
  <2>2. u.messages = s.messages /\ u.seen_ids = s.seen_ids /\ u.touched = s.touched /\ x \in u.excused
    BY <2>1 DEF LoopInv, LoopState
  <2> QED BY <2>2, StepsAside
<1>2. CASE ~(x.from \notin DOMAIN s.contacts /\ Cardinality(DOMAIN s.contacts) >= MaxContacts)
  <2> DEFINE t == IF x.from \in DOMAIN s.contacts THEN s
                  ELSE [s EXCEPT !.contacts = With(@, x.from, Stranger), !.dirty = TRUE]
  <2>1. u \in IF x.id \in IdSet(t, x.from) THEN OldText(t, x) ELSE NewText(t, x)
    BY <1>2 DEF Text
  <2>2. LoopInv(t)
    BY <1>0, StrangerLoops
  <2>3. t.messages = s.messages /\ t.seen_ids = s.seen_ids /\ t.touched = s.touched
    BY DEF LoopInv, LoopState
  <2> HIDE DEF t
  <2>4. StepsFor(t, u, e, x)
    BY <2>1, <2>2, OldTextSteps, NewTextSteps
  <2> QED BY <2>3, <2>4, StepsSame
<1> QED BY <1>1, <1>2

LEMMA IngestSteps ==
    ASSUME NEW s, LoopInv(s), mail \in Mails, NEW e \in Texts, NEW x \in ToSet(mail), NEW u \in Ingest(s, x)
    PROVE  StepsFor(s, u, e, x)
<1> DEFINE t == [s EXCEPT !.stored = TRUE]
<1>1. LoopInv(t) /\ t.messages = s.messages /\ t.seen_ids = s.seen_ids /\ t.touched = s.touched
  BY DEF LoopInv, LoopState
<1>2. /\ x.kind = "junk" => u = s
      /\ x.kind = "echo" => u = t
      /\ x.kind \notin {"junk", "echo"} =>
           IF Blocked(s, x.from) THEN u = [t EXCEPT !.excused = @ \cup {x}]
           ELSE /\ x.kind = "text" => u \in Text(t, x)
                /\ x.kind = "ack" => u \in DeliveryAck(t, x)
                /\ x.kind = "profile" => u \in Profile(t, x)
  BY DEF Ingest
<1>3. e.kind = "text" /\ x.kind \in PayloadKinds
  BY TextIs, MailIs, EventIs DEF Texts
<1> HIDE DEF t
<1>4. CASE x.kind \in {"junk", "echo"}
  <2>1. u.messages = s.messages /\ u.seen_ids = s.seen_ids /\ u.touched = s.touched /\ x # e
    BY <1>1, <1>2, <1>3, <1>4
  <2> QED BY <2>1, StepsAside
<1>5. CASE x.kind \notin {"junk", "echo"} /\ Blocked(s, x.from)
  <2>1. u.messages = s.messages /\ u.seen_ids = s.seen_ids /\ u.touched = s.touched /\ x \in u.excused
    BY <1>1, <1>2, <1>5 DEF LoopInv, LoopState
  <2> QED BY <2>1, StepsAside
<1>6. CASE x.kind = "text" /\ ~Blocked(s, x.from)
  <2>1. x \in Arrivals /\ u \in Text(t, x)
    BY <1>2, <1>6 DEF Arrivals
  <2>2. StepsFor(t, u, e, x)
    BY <1>1, <2>1, TextSteps
  <2> QED BY <1>1, <2>2, StepsSame
<1>7. CASE x.kind = "ack" /\ ~Blocked(s, x.from)
  <2>1. u \in DeliveryAck(t, x)
    BY <1>2, <1>7
  <2>2. u.messages = t.messages /\ u.seen_ids = t.seen_ids /\ u.touched = t.touched
    BY <1>1, <2>1 DEF DeliveryAck, LoopInv, LoopState
  <2>3. x # e
    BY <1>3, <1>7
  <2> QED BY <1>1, <2>2, <2>3, StepsAside
<1>8. CASE x.kind = "profile" /\ ~Blocked(s, x.from)
  <2>1. u \in Profile(t, x)
    BY <1>2, <1>8
  <2>2. u.messages = t.messages /\ u.seen_ids = t.seen_ids /\ u.touched = t.touched
    BY <1>1, <2>1 DEF Profile, LoopInv, LoopState
  <2>3. x # e
    BY <1>3, <1>8
  <2> QED BY <1>1, <2>2, <2>3, StepsAside
<1> QED BY <1>3, <1>4, <1>5, <1>6, <1>7, <1>8 DEF PayloadKinds

\* The whole loop: every text it reads is held at the end or excused.
LEMMA LoopedSteps ==
    ASSUME NEW s, LoopInv(s), mail \in Mails, NEW e \in Texts, NEW events \in Seq(Events),
           \A i \in 1 .. Len(events) : events[i] \in ToSet(mail), NEW u \in Looped(s, events)
    PROVE  /\ Steps(s, u, e)
           /\ Knows(s, e) /\ Waits(u, e.from) /\ Dated(Maybe(s.messages, e.from, <<>>), e) =>
                \A i \in 1 .. Len(events) :
                   events[i] = e /\ e \notin u.excused => Holds(InLoop(u, e.from), e)
<1> DEFINE n == Len(events)
           Got(t, i) == Knows(s, e) /\ Waits(t, e.from) /\ Dated(Maybe(s.messages, e.from, <<>>), e) =>
                          \A j \in 1 .. i :
                            events[j] = e /\ e \notin t.excused => Holds(InLoop(t, e.from), e)
           Good(t, i) == LoopInv(t) /\ Steps(s, t, e) /\ Got(t, i)
<1>1. n \in Nat /\ \A i \in 1 .. n : events[i] \in ToSet(mail) /\ events[i] \in Events
  BY LenProperties, ElementOfSeq
<1>2. PICK f : Outcomes(f, n, s, events) /\ Looped(s, events) = f[n]
  BY <1>1, LoopedIsLast
<1> HIDE DEF n
<1>3. /\ f[0] = {s}
      /\ \A i \in 1 .. n : f[i] = UNION {Ingest(t, events[i]) : t \in f[i - 1]}
  <2>1. f = [i \in 0 .. n |-> IF i = 0 THEN {s}
                              ELSE UNION {Ingest(t, events[i]) : t \in f[i - 1]}]
    BY <1>2 DEF Outcomes
  <2>2. 0 \in 0 .. n /\ \A i \in 1 .. n : i \in 0 .. n /\ i # 0
    BY <1>1
  <2>3. f[0] = {s}
    BY <2>1, <2>2
  <2>4. ASSUME NEW i \in 1 .. n PROVE f[i] = UNION {Ingest(t, events[i]) : t \in f[i - 1]}
    BY <2>1, <2>2
  <2> QED BY <2>3, <2>4
<1> DEFINE G == {i \in 0 .. n : \A t \in f[i] : Good(t, i)}
<1>4. 0 \in G
  <2>1. Steps(s, s, e)
    BY DEF Steps, Follows
  <2>2. Good(s, 0)
    BY <2>1
  <2> QED BY <1>1, <1>3, <2>2
<1>5. ASSUME NEW i \in 1 .. n, i - 1 \in G PROVE i \in G
  <2> SUFFICES ASSUME NEW t \in f[i] PROVE Good(t, i)
    BY <1>1
  <2>1. PICK r \in f[i - 1] : t \in Ingest(r, events[i])
    BY <1>3
  <2>2. Good(r, i - 1)
    BY <1>5
  <2>3. events[i] \in Events /\ events[i] \in ToSet(mail)
    BY <1>1
  <2>4. LoopInv(t) /\ r.excused \subseteq t.excused
    BY <2>1, <2>2, <2>3, IngestLoops DEF Onward
  <2>5. StepsFor(r, t, e, events[i])
    BY <2>1, <2>2, <2>3, IngestSteps
  <2>6. Steps(r, t, e) /\ Steps(s, t, e)
    BY <2>2, <2>5, StepsOn DEF StepsFor
  <2>7. ASSUME Knows(s, e), Waits(t, e.from), Dated(Maybe(s.messages, e.from, <<>>), e),
               NEW j \in 1 .. i, events[j] = e, e \notin t.excused
        PROVE  Holds(InLoop(t, e.from), e)
    <3>1. Waits(r, e.from)
      BY <2>6, <2>7 DEF Steps, Waits
    <3>2. Knows(r, e) /\ Dated(Maybe(r.messages, e.from, <<>>), e)
      BY <2>2, <2>7, <3>1 DEF Steps
    <3>3. CASE j = i
      BY <2>5, <2>7, <3>2, <3>3 DEF StepsFor
    <3>4. CASE j # i
      <4>1. j \in 1 .. i - 1 /\ e \notin r.excused
        BY <2>4, <2>7, <3>4
      <4>2. Holds(InLoop(r, e.from), e)
        BY <2>2, <2>7, <3>1, <4>1
      <4>3. Follows(r, t, e)
        BY <2>6, <2>7, <3>2 DEF Steps
      <4> QED BY <4>2, <4>3 DEF Follows
    <3> QED BY <3>3, <3>4
  <2>8. Got(t, i)
    BY <2>7
  <2> QED BY <2>4, <2>6, <2>8
<1>6. G \in SUBSET (0 .. n)
  OBVIOUS
<1> HIDE DEF G
<1>7. G = 0 .. n
  BY <1>1, <1>4, <1>5, <1>6, UpToInduction
<1>8. n \in G
  BY <1>1, <1>7
<1> QED BY <1>2, <1>8 DEF G, n

LEMMA AckedSteps ==
    ASSUME NEW s, LoopInv(s), NEW e
    PROVE  Steps(s, Acked(s), e)
<1> DEFINE p == e.from
           u == Acked(s)
           heard == {x \in DOMAIN s.acks : Fresh(s, x)}
           M == [x \in DOMAIN s.messages |->
                    IF x \in heard THEN Marked(s.messages[x], s.acks[x].ids) ELSE s.messages[x]]
           T == s.touched \cup {x \in DOMAIN M : M[x] # s.messages[x]}
<1>1. u.messages = M /\ u.touched = T /\ u.seen_ids = s.seen_ids
  BY DEF Acked, LoopInv, LoopState
<1>2. DOMAIN M = DOMAIN s.messages
  OBVIOUS
<1>3. ASSUME p \in DOMAIN s.messages PROVE M[p] = s.messages[p] \/ Alike(M[p], s.messages[p])
  <2>1. s.messages[p] \in Convos(drawn)
    BY <1>3, StateIs, MapIs
  <2>2. M[p] = s.messages[p] \/ M[p] = Marked(s.messages[p], s.acks[p].ids)
    BY <1>3
  <2> QED BY <2>1, <2>2, MarkedAlike
<1>4. p \notin T => Maybe(M, p, <<>>) = Maybe(s.messages, p, <<>>)
  BY <1>2 DEF Maybe
<1>5. \/ Maybe(M, p, <<>>) = Maybe(s.messages, p, <<>>)
      \/ Alike(Maybe(M, p, <<>>), Maybe(s.messages, p, <<>>))
  BY <1>2, <1>3 DEF Maybe
<1>6. s.touched \subseteq T
  OBVIOUS
<1> HIDE DEF M, T
<1>7. /\ Holds(Maybe(M, p, <<>>), e) <=> Holds(Maybe(s.messages, p, <<>>), e)
      /\ Dated(Maybe(M, p, <<>>), e) <=> Dated(Maybe(s.messages, p, <<>>), e)
  BY <1>5, AlikeHolds
<1>8. Holds(InLoop(u, p), e) <=> Holds(InLoop(s, p), e)
  BY <1>1, <1>7 DEF InLoop, Mind
<1>9. p \notin T => InLoop(u, p) = InLoop(s, p)
  BY <1>1, <1>4 DEF InLoop, Mind
<1>10. Follows(s, u, e)
  BY <1>1, <1>8, <1>9 DEF Follows
<1>11. ASSUME Knows(s, e), Waits(u, p) PROVE Knows(u, e)
  <2>1. p \in DOMAIN loading => Maybe(M, p, <<>>) = Maybe(s.messages, p, <<>>)
    BY <1>1, <1>4, <1>11 DEF Waits
  <2> QED BY <1>1, <1>8, <1>11, <2>1 DEF Knows
<1> QED BY <1>1, <1>6, <1>7, <1>10, <1>11 DEF Steps

-----------------------------------------------------------------------------
(* What a page writes *)

LEMMA QueueDatedOn ==
    ASSUME NEW X, NEW q \in Seq(X), NEW ws \in Seq(X), NEW e, QueueDated(q, e), QueueDated(ws, e)
    PROVE  QueueDated(q \o ws, e)
<1> DEFINE t == q \o ws
           N == Len(q)
           L == Len(ws)
<1>1. /\ N \in Nat /\ L \in Nat /\ Len(t) = N + L
      /\ \A i \in 1 .. N + L : t[i] = IF i <= N THEN q[i] ELSE ws[i - N]
  BY ConcatProperties, LenProperties
<1>2. /\ \A i \in 1 .. N : e.from \in FileOf(q[i]) => Dated(Contents(q[i]), e)
      /\ \A i \in 1 .. L : e.from \in FileOf(ws[i]) => Dated(Contents(ws[i]), e)
  BY DEF QueueDated
<1> HIDE DEF t, N, L
<1>3. ASSUME NEW i \in 1 .. N + L, e.from \in FileOf(t[i]) PROVE Dated(Contents(t[i]), e)
  <2>1. CASE i <= N
    BY <1>1, <1>2, <1>3, <2>1
  <2>2. CASE i > N
    <3>1. i - N \in 1 .. L /\ t[i] = ws[i - N]
      BY <1>1, <2>2
    <3> QED BY <1>2, <1>3, <3>1
  <2> QED BY <1>1, <2>1, <2>2
<1>4. QueueDated(t, e)
  BY <1>1, <1>3 DEF QueueDated
<1> QED BY <1>4 DEF t

\* Queue x is a with members of S behind it.
Behind(x, a, S) ==
    /\ Len(a) <= Len(x)
    /\ \A i \in 1 .. Len(x) : IF i <= Len(a) THEN x[i] = a[i] ELSE x[i] \in S

LEMMA BehindOn ==
    ASSUME NEW X, NEW S, NEW a \in Seq(X), NEW x \in Seq(X), NEW b \in Seq(X), Behind(x, a, S),
           \A i \in 1 .. Len(b) : b[i] \in S
    PROVE  x \o b \in Seq(X) /\ Behind(x \o b, a, S)
<1> DEFINE t == x \o b
           N == Len(x)
           L == Len(b)
<1>1. /\ t \in Seq(X) /\ N \in Nat /\ L \in Nat /\ Len(t) = N + L /\ Len(a) \in Nat
      /\ \A i \in 1 .. N + L : t[i] = IF i <= N THEN x[i] ELSE b[i - N]
  BY ConcatProperties, LenProperties
<1>2. Len(a) <= N /\ \A i \in 1 .. N : IF i <= Len(a) THEN x[i] = a[i] ELSE x[i] \in S
  BY DEF Behind
<1>3. \A i \in 1 .. L : b[i] \in S
  OBVIOUS
<1> HIDE DEF t, N, L
<1>4. ASSUME NEW i \in 1 .. N + L PROVE IF i <= Len(a) THEN t[i] = a[i] ELSE t[i] \in S
  <2>1. CASE i <= N
    BY <1>1, <1>2, <2>1
  <2>2. CASE i > N
    <3>1. i - N \in 1 .. L /\ t[i] = b[i - N] /\ ~(i <= Len(a))
      BY <1>1, <1>2, <2>2
    <3> QED BY <1>3, <3>1
  <2> QED BY <1>1, <2>1, <2>2
<1>5. Behind(t, a, S)
  BY <1>1, <1>2, <1>4 DEF Behind
<1> QED BY <1>1, <1>5 DEF t

\* The file of every peer that was touched, and of no other, before the dedup sets and the
\* cursor.
PageFiles(s, c, p, ws) ==
    /\ \A i \in 1 .. Len(ws) :
          p \in FileOf(ws[i]) => p \in s.touched /\ Contents(ws[i]) = s.messages[p]
    /\ p \in s.touched => \E i \in 1 .. Len(ws) : p \in FileOf(ws[i])
    /\ \A i \in 1 .. Len(ws) : ws[i].key = "cursor" => ws[i].value = c
    /\ \A i \in 1 .. Len(ws) : ws[i].key = "seen_ids" => ws[i].value = s.seen_ids
    /\ \A i, j \in 1 .. Len(ws) :
          p \in FileOf(ws[i]) /\ ws[j].key \in {"cursor", "seen_ids"} => i < j

LEMMA PageWritesFor ==
    ASSUME NEW s, LoopInv(s), NEW order \in Orders(s.touched), NEW c, NEW p, NEW ws,
           ws = PageWrites(s, order, c)
    PROVE  PageFiles(s, c, p, ws)
<1> DEFINE F == {SetMessages(x, s.messages[x]) : x \in s.touched}
           S == {Set("seen_ids", s.seen_ids), Set("contacts", s.contacts), Set("cursor", c)}
           X == F \cup S
           N == Cardinality(s.touched)
           a == [i \in DOMAIN order |-> SetMessages(order[i], s.messages[order[i]])]
           b == IF order # <<>> THEN <<Set("seen_ids", s.seen_ids)>> ELSE <<>>
           e == IF s.dirty THEN <<Set("contacts", s.contacts)>> ELSE <<>>
           f == IF c # cursor THEN <<Set("cursor", c)>> ELSE <<>>
<1>1. IsFiniteSet(s.touched) /\ N \in Nat
  <2>1. s.touched \subseteq Peers
    BY StateIs
  <2>2. IsFiniteSet(s.touched)
    BY <2>1, InboxAssumption, FS_Subset
  <2> QED BY <2>2, FS_CardinalityType
<1>2. order \in [1 .. N -> s.touched]
  BY DEF Orders
<1>3. p \in s.touched => \E i \in 1 .. N : order[i] = p
  BY <1>1, OrderIsOnto
<1> HIDE DEF N
<1>4. a \in [1 .. N -> X] /\ \A i \in 1 .. N : a[i] = SetMessages(order[i], s.messages[order[i]])
  BY <1>2
<1> HIDE DEF a
<1>5. a \in Seq(X) /\ Len(a) = N
  <2> HIDE DEF X
  <2>1. a \in Seq(X)
    BY <1>1, <1>4, SeqDef
  <2> QED BY <1>1, <1>4, <2>1, LenProperties
<1>6. /\ b \in Seq(X) /\ \A i \in 1 .. Len(b) : b[i] \in S
      /\ e \in Seq(X) /\ \A i \in 1 .. Len(e) : e[i] \in S
      /\ f \in Seq(X) /\ \A i \in 1 .. Len(f) : f[i] \in S
  <2>1. ASSUME NEW w \in S, NEW q, q = <<w>> \/ q = <<>>
        PROVE  q \in Seq(X) /\ \A i \in 1 .. Len(q) : q[i] \in S
    <3>1. w \in X
      OBVIOUS
    <3> HIDE DEF S, X
    <3>2. CASE q = <<w>>
      <4>1. q \in Seq(X) /\ Len(q) = 1 /\ q[1] = w
        BY <3>1, <3>2
      <4> QED BY <4>1
    <3>3. CASE q = <<>>
      <4>1. q \in Seq(X) /\ Len(q) = 0
        BY <3>3
      <4> QED BY <4>1
    <3> QED BY <2>1, <3>2, <3>3
  <2>2. Set("seen_ids", s.seen_ids) \in S /\ Set("contacts", s.contacts) \in S /\ Set("cursor", c) \in S
    OBVIOUS
  <2>3. (b = <<Set("seen_ids", s.seen_ids)>> \/ b = <<>>) /\ (e = <<Set("contacts", s.contacts)>> \/ e = <<>>)
        /\ (f = <<Set("cursor", c)>> \/ f = <<>>)
    OBVIOUS
  <2> HIDE DEF S, X, b, e, f
  <2> QED BY <2>1, <2>2, <2>3
<1>7. ws = ((a \o b) \o e) \o f
  BY DEF PageWrites, a
<1>8. \A w \in S : FileOf(w) = {} /\ (w.key = "cursor" => w.value = c)
                                /\ (w.key = "seen_ids" => w.value = s.seen_ids)
  BY DEF FileOf, Set
<1>9. ASSUME NEW i \in 1 .. N
      PROVE  /\ a[i].key \notin {"cursor", "seen_ids"}
             /\ FileOf(a[i]) = {order[i]} /\ Contents(a[i]) = s.messages[order[i]]
  BY <1>4 DEF SetMessages, FileOf, Contents
<1> HIDE DEF X, S, b, e, f, F
<1>10. Behind(ws, a, S) /\ Len(ws) \in Nat
  <2>1. Behind(a, a, S)
    BY <1>1, <1>5 DEF Behind
  <2>2. a \o b \in Seq(X) /\ Behind(a \o b, a, S)
    BY <1>5, <1>6, <2>1, BehindOn
  <2>3. (a \o b) \o e \in Seq(X) /\ Behind((a \o b) \o e, a, S)
    BY <1>5, <1>6, <2>2, BehindOn
  <2>4. ((a \o b) \o e) \o f \in Seq(X) /\ Behind(((a \o b) \o e) \o f, a, S)
    BY <1>5, <1>6, <2>3, BehindOn
  <2>5. Len(((a \o b) \o e) \o f) \in Nat
    BY <2>4, LenProperties
  <2> QED BY <1>7, <2>4, <2>5
<1>11. N <= Len(ws) /\ \A i \in 1 .. Len(ws) : IF i <= N THEN ws[i] = a[i] ELSE ws[i] \in S
  BY <1>5, <1>10 DEF Behind
<1> DEFINE L == Len(ws)
<1> HIDE DEF L
<1>12. ASSUME NEW i \in 1 .. L
       PROVE  \/ /\ i <= N /\ i \in 1 .. N
                 /\ ws[i].key \notin {"cursor", "seen_ids"}
                 /\ FileOf(ws[i]) = {order[i]} /\ Contents(ws[i]) = s.messages[order[i]]
                 /\ order[i] \in s.touched
              \/ /\ i > N /\ FileOf(ws[i]) = {}
                 /\ ws[i].key = "cursor" => ws[i].value = c
                 /\ ws[i].key = "seen_ids" => ws[i].value = s.seen_ids
  <2>1. CASE i <= N
    <3>1. i \in 1 .. N /\ ws[i] = a[i]
      BY <1>1, <1>11, <2>1 DEF L
    <3> QED BY <1>2, <1>9, <2>1, <3>1
  <2>2. CASE i > N
    <3>1. ws[i] \in S
      BY <1>1, <1>11, <2>2 DEF L
    <3> QED BY <1>8, <2>2, <3>1
  <2> QED BY <1>1, <2>1, <2>2
<1>13. \A i \in 1 .. L : p \in FileOf(ws[i]) => p \in s.touched /\ Contents(ws[i]) = s.messages[p]
  BY <1>12
<1>14. ASSUME p \in s.touched PROVE \E i \in 1 .. L : p \in FileOf(ws[i])
  <2>1. PICK i \in 1 .. N : order[i] = p
    BY <1>3, <1>14
  <2>2. i \in 1 .. L /\ ~(i > N)
    BY <1>1, <1>10, <1>11 DEF L
  <2> QED BY <1>12, <2>1, <2>2
<1>15. /\ \A i \in 1 .. L : ws[i].key = "cursor" => ws[i].value = c
       /\ \A i \in 1 .. L : ws[i].key = "seen_ids" => ws[i].value = s.seen_ids
  BY <1>12
<1>16. ASSUME NEW i \in 1 .. L, NEW j \in 1 .. L, p \in FileOf(ws[i]), ws[j].key \in {"cursor", "seen_ids"}
       PROVE  i < j
  <2>1. i <= N
    BY <1>12, <1>16
  <2>2. j > N
    BY <1>12, <1>16
  <2> QED BY <1>1, <2>1, <2>2
<1> QED BY <1>13, <1>14, <1>15, <1>16 DEF PageFiles, L

-----------------------------------------------------------------------------
(* Each action *)

\* Every event of a page is one of the mail's.
LEMMA PageInMail ==
    ASSUME mail \in Mails, NEW a \in Nat, NEW b \in Nat, a + b <= Len(mail),
           NEW i \in 1 .. Len(SubSeq(mail, a + 1, a + b))
    PROVE  SubSeq(mail, a + 1, a + b)[i] \in ToSet(mail)
<1> DEFINE x == a + 1
           y == a + b
           t == SubSeq(mail, x, y)
<1>1. mail \in Seq(Events) /\ Len(mail) \in Nat
  BY MailIs
<1>2. DOMAIN mail = 1 .. Len(mail) /\ \A k \in 1 .. Len(mail) : mail[k] \in Events
  BY <1>1, LenProperties, ElementOfSeq
<1>3. x \in Int /\ y \in Int /\ \A k \in x .. y : mail[k] \in Events
  BY <1>1, <1>2
<1>4. y - x + 1 = b /\ (x <= y => b > 0) /\ (~(x <= y) => b = 0)
  OBVIOUS
<1> HIDE DEF x, y
<1>5. Len(t) = (IF x <= y THEN y - x + 1 ELSE 0) /\ \A k \in 1 .. y - x + 1 : t[k] = mail[x + k - 1]
  BY <1>3, SubSeqProperties
<1>6. i \in 1 .. b
  BY <1>4, <1>5 DEF x, y
<1>7. t[i] = mail[x + i - 1]
  BY <1>4, <1>5, <1>6
<1>8. x + i - 1 \in 1 .. Len(mail)
  BY <1>1, <1>6 DEF x
<1>9. t[i] \in ToSet(mail)
  BY <1>2, <1>7, <1>8 DEF ToSet
<1> QED BY <1>9 DEF t, x, y

\* A page that ends in s, of which the mail up to cursor c is acked.
LEMMA PageAdds ==
    ASSUME NEW m, NEW s, LoopInv(s), NEW order \in Orders(s.touched), NEW c, NEW ws,
           ws = PageWrites(s, order, c), NEW e, NEW g, NEW h,
           Claimed(m, c, s.seen_ids, e) => Holds(h, e),
           e.from \in s.touched => h = s.messages[e.from],
           e.from \notin s.touched => h = g,
           Holds(g, e) => Holds(h, e)
    PROVE  Adds(m, ws, e, g, h)
<1> DEFINE L == Len(ws)
<1>1. /\ \A i \in 1 .. L :
           e.from \in FileOf(ws[i]) => e.from \in s.touched /\ Contents(ws[i]) = s.messages[e.from]
      /\ e.from \in s.touched => \E i \in 1 .. L : e.from \in FileOf(ws[i])
      /\ \A i \in 1 .. L : ws[i].key = "cursor" => ws[i].value = c
      /\ \A i \in 1 .. L : ws[i].key = "seen_ids" => ws[i].value = s.seen_ids
      /\ \A i, j \in 1 .. L :
           e.from \in FileOf(ws[i]) /\ ws[j].key \in {"cursor", "seen_ids"} => i < j
  <2>1. PageFiles(s, c, e.from, ws)
    BY PageWritesFor
  <2> QED BY <2>1 DEF PageFiles
<1> HIDE DEF L
<1>2. \A i \in 1 .. L : e.from \in FileOf(ws[i]) /\ Holds(h, e) => Holds(Contents(ws[i]), e)
  BY <1>1
<1>3. ASSUME NEW i \in 1 .. L, ClaimedBy(m, ws[i], e) PROVE Holds(h, e)
  <2>1. Claimed(m, c, s.seen_ids, e)
    BY <1>1, <1>3 DEF ClaimedBy, Claimed
  <2> QED BY <2>1
<1>4. \A i, j \in 1 .. L : e.from \in FileOf(ws[i]) /\ ClaimedBy(m, ws[j], e) => i < j
  BY <1>1 DEF ClaimedBy
<1>5. (\A i \in 1 .. L : e.from \notin FileOf(ws[i])) => (Holds(h, e) => Holds(g, e))
  BY <1>1
<1> QED BY <1>2, <1>3, <1>4, <1>5 DEF Adds, L

LEMMA IngestPollDurable ==
    ASSUME InboxInv, DurableInv, NEW n \in Nat, NEW k \in Nat, k <= n, IngestPoll(n, k)
    PROVE  DurableInv'
<1> DEFINE page == SubSeq(mail, cursor + 1, cursor + k)
<1>1. PICK t \in Looped(Loop, page) :
        LET s == Acked(t)
        IN  \E order \in Orders(s.touched) :
              /\ contacts' = s.contacts
              /\ messages' = s.messages
              /\ seen_ids' = s.seen_ids
              /\ cursor' = NextCursor(s, n, k)
              /\ Queued(PageWrites(s, order, cursor'))
              /\ excused' = s.excused \cup ToSet(SubSeq(mail, cursor + k + 1, cursor'))
              /\ torn' = torn \cup (s.touched \cap DOMAIN loading)
  BY DEF IngestPoll
<1> DEFINE s == Acked(t)
<1>2. ~kv_load_failed /\ cursor + n <= Len(mail)
      /\ UNCHANGED <<kv_load_failed, loading, disk, mail, drawn, unsaved, failures>>
  BY DEF IngestPoll
<1>3. PICK order \in Orders(s.touched) :
        /\ contacts' = s.contacts
        /\ messages' = s.messages
        /\ seen_ids' = s.seen_ids
        /\ cursor' = NextCursor(s, n, k)
        /\ Queued(PageWrites(s, order, cursor'))
        /\ excused' = s.excused \cup ToSet(SubSeq(mail, cursor + k + 1, cursor'))
        /\ torn' = torn \cup (s.touched \cap DOMAIN loading)
  BY <1>1
<1>4. /\ cursor' \in Nat /\ cursor \in Nat /\ cursor <= cursor' /\ cursor' <= cursor + n
      /\ page \in Seq(Events) /\ mail \in Mails /\ Len(mail) \in Nat
  BY <1>2, <1>3, PageForward, MailIs DEF InboxInv, ShellInv
<1>5. LoopInv(t) /\ Onward(Loop, t) /\ LoopInv(Loop)
  BY <1>1, <1>4, LoopBegins, LoopedKeeps
<1>6. LoopInv(s) /\ s.excused = t.excused
  BY <1>5, AckedKeeps
<1>7. Loop.messages = messages /\ Loop.seen_ids = seen_ids /\ Loop.excused = excused
  BY DEF Loop
<1> DEFINE ws == PageWrites(s, order, cursor')
           X  == Write(drawn, cursor')
<1>8. writes \in Seq(X) /\ ws \in Seq(X) /\ writes' = writes \o ws
  <2>1. drawn \subseteq drawn
    OBVIOUS
  <2>2. writes \in Seq(X)
    BY <1>4, <2>1, WritesGrow DEF InboxInv, ShellInv
  <2>3. ws \in Seq(X)
    BY <1>3, <1>4, <1>6, PageWritesAre
  <2> QED BY <1>3, <2>2, <2>3 DEF Queued
<1>9. \A i \in 1 .. Len(page) : page[i] \in ToSet(mail)
  BY <1>2, <1>4, PageInMail
<1>10. \A p \in s.touched : Maybe(s.messages, p, <<>>) = s.messages[p]
  BY <1>6 DEF LoopInv, Maybe
<1> HIDE DEF s, page, ws, X
<1> SUFFICES ASSUME NEW e \in Texts PROVE DatedAll(e)' /\ Durable(e)'
  BY <1>2 DEF DurableInv, Texts, Arrivals
<1> DEFINE p == e.from
<1>11. DatedAll(e) /\ Durable(e)
  BY DEF DurableInv
<1>12. Steps(t, s, e)
  BY <1>5, AckedSteps DEF s
<1>13. /\ Steps(Loop, t, e)
       /\ Knows(Loop, e) /\ Waits(t, p) /\ Dated(Maybe(messages, p, <<>>), e) =>
            \A i \in 1 .. Len(page) :
               page[i] = e /\ e \notin t.excused => Holds(InLoop(t, p), e)
  <2>1. /\ Steps(Loop, t, e)
        /\ Knows(Loop, e) /\ Waits(t, p) /\ Dated(Maybe(Loop.messages, p, <<>>), e) =>
             \A i \in 1 .. Len(page) :
                page[i] = e /\ e \notin t.excused => Holds(InLoop(t, p), e)
    BY <1>1, <1>4, <1>5, <1>9, LoopedSteps
  <2> QED BY <1>7, <2>1
<1>14. Steps(Loop, s, e)
  BY <1>12, <1>13, StepsOn
<1>15. Dated(Maybe(messages, p, <<>>), e) /\ Dated(Maybe(t.messages, p, <<>>), e)
       /\ Dated(Maybe(s.messages, p, <<>>), e)
  BY <1>7, <1>11, <1>12, <1>13 DEF DatedAll, Steps
<1>16. DatedAll(e)'
  <2>1. QueueDated(ws, e)
    <3>1. \A i \in 1 .. Len(ws) : p \in FileOf(ws[i]) => p \in s.touched /\ Contents(ws[i]) = s.messages[p]
      <4>1. PageFiles(s, cursor', p, ws)
        BY <1>3, <1>6, PageWritesFor DEF ws
      <4> QED BY <4>1 DEF PageFiles
    <3> QED BY <1>10, <1>15, <3>1 DEF QueueDated
  <2>2. QueueDated(writes \o ws, e)
    BY <1>8, <1>11, <2>1, QueueDatedOn DEF DatedAll
  <2>3. messages' = s.messages /\ loading' = loading /\ disk' = disk
    BY <1>2, <1>3
  <2> QED BY <1>8, <1>11, <1>15, <2>2, <2>3 DEF DatedAll
<1>17. ASSUME e \notin excused', p \notin torn'
       PROVE  Stored(mail, writes', disk, unsaved, e) /\ InMind(e)'
  <2>1. e \notin t.excused /\ e \notin excused /\ p \notin torn
        /\ e \notin ToSet(SubSeq(mail, cursor + k + 1, cursor'))
    BY <1>3, <1>5, <1>6, <1>7, <1>17 DEF Onward
  <2>2. Stored(mail, writes, disk, unsaved, e) /\ InMind(e)
    BY <1>2, <1>11, <2>1 DEF Durable
  <2>3. Waits(s, p) /\ Waits(t, p)
    BY <1>3, <1>12, <1>17 DEF Waits, Steps
  <2> DEFINE g == Mind(loading, messages, p)
             h == InLoop(s, p)
  <2>4. InLoop(Loop, p) = g
    BY <1>7 DEF InLoop
  <2> HIDE DEF g
  <2>5. /\ Claimed(mail, cursor, seen_ids, e) => Holds(g, e)
        /\ BackedBy(mail, writes, disk, unsaved, e, g)
        /\ p \in DOMAIN loading => Maybe(messages, p, <<>>) = <<>>
    BY <2>2 DEF InMind, g
  <2>6. Knows(Loop, e)
    BY <1>7, <2>4, <2>5 DEF Knows, Claimed
  <2>7. /\ Knows(s, e) /\ Follows(Loop, s, e)
        /\ Knows(t, e) /\ Follows(t, s, e)
    <3>1. Dated(Maybe(Loop.messages, p, <<>>), e)
      BY <1>7, <1>15
    <3>2. Knows(s, e) /\ Follows(Loop, s, e)
      BY <1>14, <2>3, <2>6, <3>1 DEF Steps
    <3>3. Knows(t, e)
      BY <1>13, <2>3, <2>6, <3>1 DEF Steps
    <3>4. Follows(t, s, e)
      BY <1>12, <1>15, <2>3, <3>3 DEF Steps
    <3> QED BY <3>2, <3>3, <3>4
  <2>8. ASSUME NEW i \in 1 .. cursor', mail[i] = e PROVE Holds(h, e)
    <3>1. CASE i <= cursor
      <4>1. Claimed(mail, cursor, seen_ids, e)
        BY <1>4, <2>8, <3>1 DEF Claimed, Taken
      <4> QED BY <2>4, <2>5, <2>7, <4>1 DEF Follows
    <3>2. CASE i > cursor
      <4>1. i \in cursor + 1 .. cursor'
        BY <1>4, <3>2
      <4>2. \/ \E j \in 1 .. Len(page) : page[j] = mail[i]
            \/ mail[i] \in ToSet(SubSeq(mail, cursor + k + 1, cursor'))
        BY <1>2, <1>4, <4>1, PageEvents DEF page
      <4>3. \E j \in 1 .. Len(page) : page[j] = e
        BY <2>1, <2>8, <4>2
      <4>4. Holds(InLoop(t, p), e)
        BY <1>13, <1>15, <2>1, <2>3, <2>6, <4>3
      <4> QED BY <2>7, <4>4 DEF Follows
    <3> QED BY <1>4, <3>1, <3>2
  <2>9. Claimed(mail, cursor', s.seen_ids, e) => Holds(h, e)
    BY <2>7, <2>8 DEF Claimed, Taken, Knows
  <2>10. /\ p \in s.touched => h = s.messages[p]
         /\ p \notin s.touched => h = g
         /\ Holds(g, e) => Holds(h, e)
    <3>1. p \in s.touched => h = s.messages[p]
      BY <1>10, <2>3 DEF Waits, InLoop, Mind
    <3> QED BY <2>4, <2>7, <3>1 DEF Follows
  <2> HIDE DEF h
  <2>11. Adds(mail, ws, e, g, h)
    BY <1>3, <1>6, <2>9, <2>10, PageAdds DEF ws
  <2>12. Stored(mail, writes', disk, unsaved, e) /\ BackedBy(mail, writes', disk, unsaved, e, h)
    BY <1>8, <2>2, <2>5, <2>11, AppendKeeps
  <2>13. InMind(e)'
    <3>1. Mind(loading', messages', p) = h
      BY <1>2, <1>3 DEF h, InLoop
    <3>2. p \in DOMAIN loading => Maybe(s.messages, p, <<>>) = <<>>
      BY <2>7 DEF Knows
    <3> QED BY <1>2, <1>3, <2>9, <2>12, <3>1, <3>2 DEF InMind
  <2> QED BY <2>12, <2>13
<1>18. Durable(e)'
  BY <1>2, <1>17 DEF Durable
<1> QED BY <1>16, <1>18

LEMMA WriteDurable ==
    ASSUME InboxInv, DurableInv, WriteLands \/ WriteFails
    PROVE  DurableInv'
<1> DEFINE w == Head(writes)
           X == Write(drawn, cursor)
<1>1. /\ writes' = Tail(writes) /\ writes # <<>>
      /\ \/ disk' = After(w, disk) /\ unsaved' = unsaved \ FileOf(w)
         \/ disk' = disk /\ unsaved' = unsaved \cup FileOf(w)
      /\ UNCHANGED <<model, loading, mail, excused, torn>>
  BY DEF WriteLands, WriteFails
<1>2. writes \in Seq(X) /\ disk \in Disk(drawn, cursor) /\ cursor \in Nat
  <2>1. Len(mail) \in Nat
    BY MailIs DEF InboxInv, ShellInv
  <2> QED BY <2>1 DEF InboxInv, ModelInv, ShellInv
<1>3. /\ w \in X /\ w = writes[1] /\ Len(writes) \in Nat /\ 1 \in 1 .. Len(writes)
      /\ Len(Tail(writes)) = Len(writes) - 1
      /\ \A i \in 1 .. Len(writes) - 1 : Tail(writes)[i] = writes[i + 1]
  <2> HIDE DEF X
  <2>1. w \in X /\ Len(writes) \in Nat /\ Len(Tail(writes)) = Len(writes) - 1
    BY <1>1, <1>2, HeadTailProperties, LenProperties
  <2>2. w = writes[1] /\ 1 \in 1 .. Len(writes)
    BY <1>1, <1>2, <2>1, EmptySeq, LenProperties
  <2>3. \A i \in 1 .. Len(writes) - 1 : Tail(writes)[i] = writes[i + 1]
    BY <1>1, <1>2, <2>1, HeadTailProperties
  <2> QED BY <2>1, <2>2, <2>3
<1>4. w \in Write(drawn, cursor)
  BY <1>3
<1>5. writes \in Seq(Write(drawn, cursor))
  BY <1>2
<1> HIDE DEF w, X
<1> SUFFICES ASSUME NEW e \in Texts PROVE DatedAll(e)' /\ Durable(e)'
  BY <1>1 DEF DurableInv, Texts, Arrivals
<1>6. DatedAll(e) /\ Durable(e)
  BY DEF DurableInv
<1>7. DatedAll(e)'
  <2>1. Dated(Maybe(disk'.messages, e.from, <<>>), e)
    <3>1. CASE disk' = disk
      BY <1>6, <3>1 DEF DatedAll
    <3>2. CASE disk' = After(w, disk)
      <4>1. /\ e.from \in FileOf(w) => Maybe(After(w, disk).messages, e.from, <<>>) = Contents(w)
            /\ e.from \notin FileOf(w) =>
                 Maybe(After(w, disk).messages, e.from, <<>>) = Maybe(disk.messages, e.from, <<>>)
        BY <1>2, <1>4, AfterHas
      <4>2. e.from \in FileOf(w) => Dated(Contents(w), e)
        BY <1>3, <1>6 DEF DatedAll, QueueDated
      <4>3. Dated(Maybe(disk.messages, e.from, <<>>), e)
        BY <1>6 DEF DatedAll
      <4> QED BY <3>2, <4>1, <4>2, <4>3
    <3> QED BY <1>1, <3>1, <3>2
  <2>2. QueueDated(Tail(writes), e)
    <3> SUFFICES ASSUME NEW i \in 1 .. Len(Tail(writes)), e.from \in FileOf(Tail(writes)[i])
                 PROVE  Dated(Contents(Tail(writes)[i]), e)
      BY DEF QueueDated
    <3>1. i + 1 \in 1 .. Len(writes) /\ Tail(writes)[i] = writes[i + 1]
      BY <1>3
    <3> QED BY <1>6, <3>1 DEF DatedAll, QueueDated
  <2> QED BY <1>1, <1>6, <2>1, <2>2 DEF DatedAll, model
<1>8. ASSUME Stored(mail, writes, disk, unsaved, e)
      PROVE  /\ Stored(mail, writes', disk', unsaved', e)
             /\ \A c : BackedBy(mail, writes, disk, unsaved, e, c)
                         => BackedBy(mail, writes', disk', unsaved', e, c)
  BY <1>1, <1>2, <1>5, <1>8, PopKeeps DEF w
<1>9. Durable(e)'
  <2> SUFFICES ASSUME e \notin excused, e.from \notin torn
               PROVE  Stored(mail, writes', disk', unsaved', e) /\ (~kv_load_failed => InMind(e)')
    BY <1>1 DEF Durable, model
  <2>1. Stored(mail, writes, disk, unsaved, e) /\ (~kv_load_failed => InMind(e))
    BY <1>6 DEF Durable
  <2>2. ASSUME ~kv_load_failed PROVE InMind(e)'
    BY <1>1, <1>8, <2>1, <2>2 DEF InMind, model
  <2> QED BY <1>8, <2>1, <2>2
<1> QED BY <1>7, <1>9

\* A write of the contacts.
LEMMA ContactsAside ==
    ASSUME NEW v, NEW m, NEW e
    PROVE  LET w == Set("contacts", v) IN FileOf(w) = {} /\ ~ClaimedBy(m, w, e)
BY DEF Set, FileOf, ClaimedBy

LEMMA ContactsDurable ==
    ASSUME InboxInv, DurableInv, contacts' \in Maps(Person),
           Queued(Guarded(<<Set("contacts", contacts')>>)),
           UNCHANGED <<messages, seen_ids, cursor, kv_load_failed, loading, disk, mail, drawn,
                       excused, torn, unsaved, failures>>
    PROVE  DurableInv'
<1> DEFINE X == Write(drawn, cursor)
           w == Set("contacts", contacts')
           ws == Guarded(<<w>>)
<1>1. writes \in Seq(X) /\ ws \in Seq(X) /\ writes' = writes \o ws
  <2>1. w \in X
    BY WritesAre
  <2>2. ws \in Seq(X)
    BY <2>1, OneWrite, GuardedIs
  <2> QED BY <2>2 DEF Queued, InboxInv, ShellInv
<1>2. ws = <<w>> \/ ws = <<>>
  BY DEF Guarded
<1> HIDE DEF ws, X
<1> SUFFICES ASSUME NEW e \in Texts PROVE DatedAll(e)' /\ Durable(e)'
  BY DEF DurableInv, Texts, Arrivals
<1>3. DatedAll(e) /\ Durable(e)
  BY DEF DurableInv
<1>4. FileOf(w) = {} /\ ~ClaimedBy(mail, w, e)
  BY ContactsAside
<1> HIDE DEF w
<1>5. \A i \in 1 .. Len(ws) : ws[i] = w
  <2>1. CASE ws = <<>>
    BY <2>1
  <2>2. CASE ws = <<w>>
    BY <2>2
  <2> QED BY <1>2, <2>1, <2>2
<1>6. \A i \in 1 .. Len(ws) : e.from \notin FileOf(ws[i]) /\ ~ClaimedBy(mail, ws[i], e)
  BY <1>4, <1>5
<1>7. /\ Stored(mail, writes, disk, unsaved, e) => Stored(mail, writes', disk, unsaved, e)
      /\ \A c : BackedBy(mail, writes, disk, unsaved, e, c) => BackedBy(mail, writes', disk, unsaved, e, c)
  BY <1>1, <1>6, AppendAside
<1>8. DatedAll(e)'
  <2>1. QueueDated(ws, e)
    BY <1>6 DEF QueueDated
  <2>2. QueueDated(writes', e)
    BY <1>1, <1>3, <2>1, QueueDatedOn DEF DatedAll
  <2> QED BY <1>3, <2>2 DEF DatedAll
<1>9. InMind(e) => InMind(e)'
  BY <1>7 DEF InMind
<1>10. Durable(e)'
  BY <1>3, <1>7, <1>9 DEF Durable
<1> QED BY <1>8, <1>10

LEMMA AddContactDurable ==
    ASSUME InboxInv, DurableInv, NEW p \in Peers, AddContact(p)
    PROVE  DurableInv'
<1>1. contacts' \in Maps(Person)
  BY AddContactKeeps DEF InboxInv, ModelInv
<1> QED BY <1>1, ContactsDurable DEF AddContact

LEMMA SetBlockedDurable ==
    ASSUME InboxInv, DurableInv, NEW p \in Peers, NEW blocked \in BOOLEAN, SetBlocked(p, blocked)
    PROVE  DurableInv'
<1>1. contacts' \in Maps(Person)
  BY SetBlockedKeeps DEF InboxInv, ModelInv
<1> QED BY <1>1, ContactsDurable DEF SetBlocked

\* Nothing on disk or queued claims a text that a delete of its sender does not forget.
LEMMA UnforgottenUnclaimed ==
    ASSUME InboxInv, NEW e \in Texts, e \notin Forgotten(e.from)
    PROVE  /\ ~Taken(mail, cursor, e)
           /\ ~Claimed(mail, disk.cursor, disk.seen_ids, e)
           /\ \A i \in 1 .. Len(writes) : ~ClaimedBy(mail, writes[i], e)
<1> DEFINE p == e.from
           stored == {disk.seen_ids} \cup {w.value : w \in {x \in ToSet(writes) : x.key = "seen_ids"}}
<1>1. /\ \A n \in 1 .. cursor : mail[n] # e
      /\ \A s \in stored : e.id \notin Maybe(s, p, {})
  BY DEF Forgotten, Texts, Arrivals
<1>2. ~Taken(mail, cursor, e)
  BY <1>1 DEF Taken
<1>3. cursor \in Nat /\ disk.cursor \in 0 .. cursor
  <2>1. Len(mail) \in Nat
    BY MailIs DEF InboxInv, ShellInv
  <2> QED BY <2>1, InvTyped DEF InboxInv, ModelInv, TypeOK
<1>4. \A n \in 0 .. cursor : ~Taken(mail, n, e)
  BY <1>1, <1>3 DEF Taken
<1>5. ~Claimed(mail, disk.cursor, disk.seen_ids, e)
  BY <1>1, <1>3, <1>4 DEF Claimed
<1>6. ASSUME NEW i \in 1 .. Len(writes) PROVE ~ClaimedBy(mail, writes[i], e)
  <2>1. writes \in Seq(Write(drawn, cursor))
    BY DEF InboxInv, ShellInv
  <2>2. writes[i] \in Write(drawn, cursor) /\ writes[i] \in ToSet(writes)
    <3> HIDE DEF p, stored
    <3> DEFINE X == Write(drawn, cursor)
    <3> HIDE DEF X
    <3>1. writes \in Seq(X)
      BY <2>1 DEF X
    <3>2. writes[i] \in X /\ DOMAIN writes = 1 .. Len(writes)
      BY <3>1, ElementOfSeq, LenProperties
    <3> QED BY <3>2 DEF X, ToSet
  <2>3. writes[i].key = "seen_ids" => writes[i].value \in stored
    BY <2>2
  <2>4. writes[i].key = "cursor" => writes[i].value \in 0 .. cursor
    BY <2>2 DEF Write
  <2> QED BY <1>1, <1>4, <2>3, <2>4 DEF ClaimedBy
<1> QED BY <1>2, <1>5, <1>6

LEMMA DeleteContactDurable ==
    ASSUME InboxInv, DurableInv, NEW p \in Peers, DeleteContact(p)
    PROVE  DurableInv'
<1> DEFINE X == Write(drawn, cursor)
           v == Set("contacts", contacts')
           w == Set("seen_ids", seen_ids')
           a == Guarded(<<v>>)
           b == <<Delete(p)>>
           c == Guarded(<<w>>)
           ws == (a \o b) \o c
<1>1. /\ messages' = Without(messages, p)
      /\ seen_ids' = Without(seen_ids, p)
      /\ Queued(ws)
      /\ excused' = excused \cup Forgotten(p)
      /\ torn' = torn \cup ({p} \cap DOMAIN loading)
      /\ UNCHANGED <<cursor, kv_load_failed, loading, disk, mail, drawn, unsaved, failures>>
  BY DEF DeleteContact
<1>2. v \in X /\ Delete(p) \in X /\ w \in X
  <2>1. contacts' \in Maps(Person) /\ seen_ids' \in Maps(Seen)
    BY DeleteContactKeeps DEF InboxInv, ModelInv
  <2> QED BY <2>1, WritesAre
<1> DEFINE S == {x \in X : \/ x = v \/ x = Delete(p)
                           \/ x = w /\ ~kv_load_failed}
<1>3. ws \in Seq(S)
  <2>1. Delete(p) \in S /\ v \in S /\ (~kv_load_failed => w \in S)
    BY <1>2
  <2> HIDE DEF S, v, w
  <2>2. a \in Seq(S) /\ b \in Seq(S)
    BY <2>1, OneWrite, GuardedIs
  <2>3. c \in Seq(S)
    BY <2>1, EmptySeq DEF Guarded
  <2>4. a \o b \in Seq(S)
    BY <2>2, ConcatProperties
  <2> QED BY <2>3, <2>4, ConcatProperties
<1>4. writes \in Seq(X) /\ ws \in Seq(X) /\ writes' = writes \o ws
  <2>1. S \subseteq X
    OBVIOUS
  <2> HIDE DEF S
  <2>2. ws \in Seq(X)
    BY <1>3, <2>1, SeqMonotonic
  <2> QED BY <1>1, <2>2 DEF Queued, InboxInv, ShellInv
<1>5. \A i \in 1 .. Len(ws) : ws[i] \in S
  BY <1>3, ElementOfSeq
<1>6. \A i \in 1 .. Len(ws) : ws[i] = v \/ ws[i] = Delete(p) \/ (ws[i] = w /\ ~kv_load_failed)
  BY <1>5
<1> HIDE DEF ws, S, X
<1> SUFFICES ASSUME NEW e \in Texts PROVE DatedAll(e)' /\ Durable(e)'
  BY <1>1 DEF DurableInv, Texts, Arrivals
<1>7. DatedAll(e) /\ Durable(e)
  BY DEF DurableInv
<1>8. FileOf(v) = {} /\ ~ClaimedBy(mail, v, e)
  BY ContactsAside
<1>9. FileOf(Delete(p)) = {p} /\ ~ClaimedBy(mail, Delete(p), e) /\ Contents(Delete(p)) = <<>>
  BY DEF Delete, FileOf, ClaimedBy, Contents
<1>10. FileOf(w) = {} /\ (ClaimedBy(mail, w, e) => e.id \in Maybe(seen_ids', e.from, {}))
  BY DEF Set, FileOf, ClaimedBy
<1>11. /\ \A i \in 1 .. Len(ws) : e.from \in FileOf(ws[i]) => e.from = p /\ Contents(ws[i]) = <<>>
       /\ \A i \in 1 .. Len(ws) : ClaimedBy(mail, ws[i], e) =>
            ~kv_load_failed /\ e.id \in Maybe(seen_ids', e.from, {})
  <2> HIDE DEF v, w
  <2> QED BY <1>6, <1>8, <1>9, <1>10
<1> HIDE DEF v, w
<1>12. /\ e.from = p => /\ Maybe(messages', e.from, <<>>) = <<>>
                        /\ Maybe(seen_ids', e.from, {}) = {}
       /\ e.from # p => /\ Maybe(messages', e.from, <<>>) = Maybe(messages, e.from, <<>>)
                        /\ Maybe(seen_ids', e.from, {}) = Maybe(seen_ids, e.from, {})
  BY <1>1 DEF Maybe, Without
<1>13. DatedAll(e)'
  <2>1. QueueDated(ws, e)
    BY <1>11, EmptyHolds DEF QueueDated
  <2>2. QueueDated(writes', e)
    BY <1>4, <1>7, <2>1, QueueDatedOn DEF DatedAll
  <2>3. Dated(Maybe(messages', e.from, <<>>), e)
    BY <1>7, <1>12, EmptyHolds DEF DatedAll
  <2> QED BY <1>1, <1>7, <2>2, <2>3 DEF DatedAll
<1>14. CASE e.from # p
  <2>1. \A i \in 1 .. Len(ws) : e.from \notin FileOf(ws[i])
    BY <1>11, <1>14
  <2> SUFFICES ASSUME e \notin excused, e.from \notin torn
               PROVE  Stored(mail, writes', disk, unsaved, e) /\ (~kv_load_failed => InMind(e)')
    BY <1>1, <1>13 DEF Durable
  <2>2. Stored(mail, writes, disk, unsaved, e)
    BY <1>7 DEF Durable
  <2>3. CASE kv_load_failed
    <3>1. \A i \in 1 .. Len(ws) : e.from \notin FileOf(ws[i]) /\ ~ClaimedBy(mail, ws[i], e)
      BY <1>11, <2>1, <2>3
    <3>2. Stored(mail, writes', disk, unsaved, e)
      BY <1>4, <2>2, <3>1, AppendAside
    <3> QED BY <2>3, <3>2
  <2>4. CASE ~kv_load_failed
    <3> DEFINE g == Mind(loading, messages, e.from)
    <3>1. InMind(e)
      BY <1>7, <2>4 DEF Durable
    <3>2. /\ Claimed(mail, cursor, seen_ids, e) => Holds(g, e)
          /\ BackedBy(mail, writes, disk, unsaved, e, g)
          /\ e.from \in DOMAIN loading => Maybe(messages, e.from, <<>>) = <<>>
      BY <3>1 DEF InMind
    <3>3. Mind(loading, messages', e.from) = g
      BY <1>12, <1>14 DEF Mind
    <3> HIDE DEF g
    <3>4. \A i \in 1 .. Len(ws) : ClaimedBy(mail, ws[i], e) => Holds(g, e)
      BY <1>11, <1>12, <1>14, <3>2 DEF Claimed
    <3>5. Adds(mail, ws, e, g, g)
      BY <2>1, <3>4 DEF Adds
    <3>6. Stored(mail, writes', disk, unsaved, e) /\ BackedBy(mail, writes', disk, unsaved, e, g)
      BY <1>4, <2>2, <3>2, <3>5, AppendKeeps
    <3>7. InMind(e)'
      <4>1. Claimed(mail, cursor, seen_ids', e) => Holds(g, e)
        BY <1>12, <1>14, <3>2 DEF Claimed
      <4> QED BY <1>1, <1>12, <1>14, <3>2, <3>3, <3>6, <4>1 DEF InMind
    <3> QED BY <3>6, <3>7
  <2> QED BY <2>3, <2>4
<1>15. CASE e.from = p
  <2> SUFFICES ASSUME e \notin Forgotten(p), p \notin DOMAIN loading
               PROVE  Stored(mail, writes', disk, unsaved, e) /\ InMind(e)'
    BY <1>1, <1>13, <1>15 DEF Durable
  <2>1. /\ ~Taken(mail, cursor, e)
        /\ ~Claimed(mail, disk.cursor, disk.seen_ids, e)
        /\ \A i \in 1 .. Len(writes) : ~ClaimedBy(mail, writes[i], e)
    BY <1>15, UnforgottenUnclaimed
  <2>2. \A i \in 1 .. Len(ws) : ~ClaimedBy(mail, ws[i], e)
    BY <1>11, <1>12, <1>15
  <2>3. Claims(mail, writes', disk, e) = {}
    <3>1. Claims(mail, writes, disk, e) = {}
      BY <2>1 DEF Claims
    <3>2. /\ Len(writes) \in Nat /\ Len(ws) \in Nat /\ Len(writes') = Len(writes) + Len(ws)
          /\ \A i \in 0 .. Len(writes) :
                i \in Claims(mail, writes', disk, e) <=> i \in Claims(mail, writes, disk, e)
          /\ \A i \in 0 .. Len(writes) + Len(ws) : i > Len(writes) =>
                /\ i - Len(writes) \in 1 .. Len(ws)
                /\ i \in Claims(mail, writes', disk, e) <=> ClaimedBy(mail, ws[i - Len(writes)], e)
      BY <1>4, AppendPlaces
    <3>3. Claims(mail, writes', disk, e) \in SUBSET (0 .. Len(writes'))
      BY PlacesAre
    <3>4. ASSUME NEW i \in Claims(mail, writes', disk, e) PROVE FALSE
      <4>1. i \in 0 .. Len(writes) + Len(ws)
        BY <3>2, <3>3
      <4>2. CASE i > Len(writes)
        BY <2>2, <3>2, <4>1, <4>2
      <4>3. CASE ~(i > Len(writes))
        <5>1. i \in 0 .. Len(writes)
          BY <3>2, <4>1, <4>3
        <5> QED BY <3>1, <3>2, <5>1
      <4> QED BY <4>2, <4>3
    <3> QED BY <3>4
  <2>4. Stored(mail, writes', disk, unsaved, e)
    BY <2>3 DEF Stored, Sound
  <2>5. Mind(loading, messages', e.from) = <<>>
    BY <1>12, <1>15 DEF Mind
  <2>6. BackedBy(mail, writes', disk, unsaved, e, <<>>)
    BY <2>3, EmptyHolds DEF BackedBy, Backed
  <2>7. ~Claimed(mail, cursor, seen_ids', e)
    BY <1>12, <1>15, <2>1 DEF Claimed
  <2>8. InMind(e)'
    BY <1>1, <1>15, <2>5, <2>6, <2>7 DEF InMind
  <2> QED BY <2>4, <2>8
<1> QED BY <1>14, <1>15

LEMMA SendTextDurable ==
    ASSUME InboxInv, DurableInv, NEW p \in Peers, NEW id \in OwnIds, SendText(p, id)
    PROVE  DurableInv'
<1> DEFINE d == drawn \cup {id}
           X == Write(d, cursor)
           old == Maybe(messages, p, <<>>)
           m == [id |-> id, ts |-> Now, outgoing |-> TRUE, delivered |-> FALSE]
           t == TrimHistory(InsertSorted(old, m))
           v == SetMessages(p, messages'[p])
           w == Set("contacts", contacts')
           ws == Guarded(<<v, w>>)
<1>1. /\ id \notin drawn
      /\ messages' = With(messages, p, t)
      /\ Queued(ws)
      /\ torn' = torn \cup ({p} \cap DOMAIN loading)
      /\ UNCHANGED <<seen_ids, cursor, kv_load_failed, loading, disk, mail, excused, unsaved, failures>>
  BY DEF SendText
<1>2. /\ old \in Convos(d) /\ m \in Message /\ Honest(m, d) /\ Novel(old, m)
  BY <1>1, OwnText
<1>3. m.id = id
  OBVIOUS
<1>4. contacts' \in Maps(Person) /\ messages' \in Maps(Convos(d)) /\ p \in DOMAIN messages'
  <2>1. drawn' = d
    BY DEF SendText
  <2>2. contacts' \in Maps(Person) /\ messages' \in Maps(Convos(d))
    BY <2>1, SendTextKeeps DEF InboxInv, ModelInv
  <2> QED BY <1>1, <2>2 DEF With
<1>5. cursor \in Nat /\ cursor <= cursor
  <2>1. Len(mail) \in Nat
    BY MailIs DEF InboxInv, ShellInv
  <2> QED BY <2>1 DEF InboxInv, ModelInv
<1>6. writes \in Seq(X) /\ ws \in Seq(X) /\ writes' = writes \o ws
  <2>1. drawn \subseteq d
    OBVIOUS
  <2>2. writes \in Seq(X)
    BY <1>5, <2>1, WritesGrow DEF InboxInv, ShellInv
  <2>3. messages'[p] \in Convos(d)
    BY <1>4, MapIs
  <2>4. v \in X /\ w \in X
    BY <1>4, <2>3, WritesAre
  <2> HIDE DEF X, v, w, d
  <2>5. <<v, w>> \in Seq(X)
    BY <2>4
  <2> QED BY <1>1, <2>2, <2>5, GuardedIs DEF Queued
<1>7. ws = IF kv_load_failed THEN <<>> ELSE <<v, w>>
  BY DEF Guarded
<1> HIDE DEF ws, X, d, old, m
<1> SUFFICES ASSUME NEW e \in Texts PROVE DatedAll(e)' /\ Durable(e)'
  BY <1>1 DEF DurableInv, Texts, Arrivals
<1>8. DatedAll(e) /\ Durable(e)
  BY DEF DurableInv
<1>9. FileOf(w) = {} /\ ~ClaimedBy(mail, w, e)
  BY ContactsAside
<1>10. FileOf(v) = {p} /\ ~ClaimedBy(mail, v, e) /\ Contents(v) = messages'[p]
  BY DEF SetMessages, FileOf, ClaimedBy, Contents
<1> HIDE DEF v, w
<1>11. /\ \A i \in 1 .. Len(ws) :
            /\ e.from \in FileOf(ws[i]) => e.from = p /\ Contents(ws[i]) = messages'[p]
            /\ ~ClaimedBy(mail, ws[i], e)
       /\ ~kv_load_failed => \E i \in 1 .. Len(ws) : p \in FileOf(ws[i])
       /\ kv_load_failed => Len(ws) = 0
  <2>1. CASE kv_load_failed
    BY <1>7, <2>1
  <2>2. CASE ~kv_load_failed
    <3>1. Len(ws) = 2 /\ ws[1] = v /\ ws[2] = w
      BY <1>7, <2>2
    <3>2. 1 \in 1 .. Len(ws) /\ \A i \in 1 .. Len(ws) : i = 1 \/ i = 2
      BY <3>1
    <3>3. \A i \in 1 .. Len(ws) : ws[i] = v \/ ws[i] = w
      BY <3>1, <3>2
    <3> QED BY <1>9, <1>10, <2>2, <3>1, <3>2, <3>3
  <2> QED BY <2>1, <2>2
<1>12. messages'[p] = t /\ Maybe(messages', p, <<>>) = t
  BY <1>1 DEF With, Maybe
<1>13. e.from # p => Maybe(messages', e.from, <<>>) = Maybe(messages, e.from, <<>>)
  BY <1>1 DEF With, Maybe
<1>14. e.from = p => /\ Dated(t, e)
                     /\ Holds(old, e) => Holds(t, e)
  <2>1. e \in Events /\ e.kind = "text"
    BY MailIs DEF Texts, Arrivals, InboxInv, ShellInv
  <2>2. Clamped(e.ts) \in Nat
    BY <2>1, EventIs, ClampedIs
  <2>3. m.id # e.id
    BY <1>3 DEF Texts
  <2>4. e.from = p => Dated(old, e)
    BY <1>8 DEF DatedAll, old
  <2> QED BY <1>2, <2>2, <2>3, <2>4, InsertHolds
<1> HIDE DEF t
<1>15. DatedAll(e)'
  <2>1. QueueDated(ws, e)
    BY <1>11, <1>12, <1>14 DEF QueueDated
  <2>2. QueueDated(writes', e)
    BY <1>6, <1>8, <2>1, QueueDatedOn DEF DatedAll
  <2>3. Dated(Maybe(messages', e.from, <<>>), e)
    BY <1>8, <1>12, <1>13, <1>14 DEF DatedAll
  <2> QED BY <1>1, <1>8, <2>2, <2>3 DEF DatedAll
<1>16. ASSUME e \notin excused', e.from \notin torn'
       PROVE  Stored(mail, writes', disk, unsaved, e) /\ (~kv_load_failed => InMind(e)')
  <2>1. Stored(mail, writes, disk, unsaved, e) /\ (~kv_load_failed => InMind(e))
    BY <1>1, <1>8, <1>16 DEF Durable
  <2>2. CASE kv_load_failed \/ e.from # p
    <3>1. \A i \in 1 .. Len(ws) : e.from \notin FileOf(ws[i]) /\ ~ClaimedBy(mail, ws[i], e)
      BY <1>11, <2>2
    <3>2. /\ Stored(mail, writes', disk, unsaved, e)
          /\ \A c : BackedBy(mail, writes, disk, unsaved, e, c)
                      => BackedBy(mail, writes', disk, unsaved, e, c)
      BY <1>6, <2>1, <3>1, AppendAside
    <3>3. ASSUME ~kv_load_failed PROVE InMind(e)'
      <4>1. Mind(loading, messages', e.from) = Mind(loading, messages, e.from)
        BY <1>13, <2>2, <3>3 DEF Mind
      <4> QED BY <1>1, <1>13, <2>1, <2>2, <3>2, <3>3, <4>1 DEF InMind
    <3> QED BY <3>2, <3>3
  <2>3. CASE ~kv_load_failed /\ e.from = p
    <3>1. p \notin DOMAIN loading
      BY <1>1, <1>16, <2>3
    <3>2. Mind(loading, messages, p) = old /\ Mind(loading, messages', p) = t
      BY <1>12, <3>1 DEF Mind, old
    <3>3. /\ Claimed(mail, cursor, seen_ids, e) => Holds(old, e)
          /\ BackedBy(mail, writes, disk, unsaved, e, old)
      BY <2>1, <2>3, <3>2 DEF InMind
    <3>4. Adds(mail, ws, e, old, t)
      BY <1>11, <1>12, <1>14, <2>3 DEF Adds
    <3>5. Stored(mail, writes', disk, unsaved, e) /\ BackedBy(mail, writes', disk, unsaved, e, t)
      BY <1>6, <2>1, <3>3, <3>4, AppendKeeps
    <3>6. InMind(e)'
      BY <1>1, <1>14, <2>3, <3>1, <3>2, <3>3, <3>5 DEF InMind
    <3> QED BY <3>5, <3>6
  <2> QED BY <2>2, <2>3
<1>17. Durable(e)'
  BY <1>1, <1>16 DEF Durable
<1> QED BY <1>15, <1>17

LEMMA LoadedMessagesDurable ==
    ASSUME InboxInv, DurableInv, NEW p \in Peers, LoadedMessages(p)
    PROVE  DurableInv'
<1> DEFINE list == loading[p]
           known == Maybe(messages, p, <<>>)
<1>1. PICK convo \in Merged(p, list) : messages' = With(messages, p, convo)
  BY DEF LoadedMessages
<1>2. /\ p \in DOMAIN loading
      /\ loading' = Without(loading, p)
      /\ seen_ids' = IF p \in DOMAIN seen_ids
                     THEN [seen_ids EXCEPT ![p] = @ \cup IdsOf(list)] ELSE seen_ids
      /\ UNCHANGED <<contacts, cursor, kv_load_failed, writes, disk, mail, drawn, excused, torn,
                     unsaved, failures>>
  BY DEF LoadedMessages
<1>3. /\ list \in Convos(drawn) /\ known \in Convos(drawn)
      /\ ToSet(convo) \subseteq ToSet(known) \cup ToSet(list)
  BY <1>1, <1>2, MergedIs
<1>4. ASSUME known = <<>> PROVE Alike(convo, list)
  <2>1. CASE p \notin DOMAIN messages
    <3>1. convo = list
      BY <1>1, <2>1 DEF Merged
    <3> QED BY <3>1 DEF Alike
  <2>2. CASE p \in DOMAIN messages
    <3>1. PICK q \in ByTime(known \o list, KeptPlaces(known, list)) :
             convo = TrimHistory(InPlaces(known \o list, q))
      BY <1>1, <2>2 DEF Merged, KeptPlaces, InPlaces
    <3> HIDE DEF known, list
    <3>2. q \in ByTime(<<>> \o list, KeptPlaces(<<>>, list))
      BY <1>4, <3>1
    <3>3. convo = TrimHistory(InPlaces(<<>> \o list, q))
      BY <1>4, <3>1
    <3> QED BY <1>3, <3>2, <3>3, MergeAlike
  <2> QED BY <2>1, <2>2
<1> SUFFICES ASSUME NEW e \in Texts PROVE DatedAll(e)' /\ Durable(e)'
  BY <1>2 DEF DurableInv, Texts, Arrivals
<1>5. DatedAll(e) /\ Durable(e)
  BY DEF DurableInv
<1>6. /\ e.from # p => /\ Maybe(messages', e.from, <<>>) = Maybe(messages, e.from, <<>>)
                       /\ Maybe(loading', e.from, <<>>) = Maybe(loading, e.from, <<>>)
                       /\ e.from \in DOMAIN loading' <=> e.from \in DOMAIN loading
                       /\ e.from \in DOMAIN loading => loading'[e.from] = loading[e.from]
      /\ e.from = p => /\ Maybe(messages', e.from, <<>>) = convo
                       /\ Maybe(loading', e.from, <<>>) = <<>>
                       /\ e.from \notin DOMAIN loading'
  BY <1>1, <1>2 DEF Maybe, With, Without
<1>7. /\ e.from # p => Maybe(seen_ids', e.from, {}) = Maybe(seen_ids, e.from, {})
      /\ e.from = p => Maybe(seen_ids', e.from, {}) \subseteq Maybe(seen_ids, e.from, {}) \cup IdsOf(list)
  <2> HIDE DEF list
  <2>1. CASE p \in DOMAIN seen_ids
    BY <1>2, <2>1 DEF Maybe
  <2>2. CASE p \notin DOMAIN seen_ids
    BY <1>2, <2>2 DEF Maybe
  <2> QED BY <2>1, <2>2
<1>8. DatedAll(e)'
  <2>1. CASE e.from # p
    BY <1>2, <1>5, <1>6, <2>1 DEF DatedAll
  <2>2. CASE e.from = p
    <3>1. Dated(known, e) /\ Dated(list, e)
      BY <1>2, <1>5, <2>2 DEF DatedAll, Maybe
    <3>2. Dated(convo, e)
      BY <1>3, <3>1 DEF Dated
    <3> QED BY <1>2, <1>5, <1>6, <2>2, <3>2, EmptyHolds DEF DatedAll
  <2> QED BY <2>1, <2>2
<1>9. ASSUME InMind(e) PROVE InMind(e)'
  <2>1. CASE e.from # p
    <3>1. Mind(loading', messages', e.from) = Mind(loading, messages, e.from)
      BY <1>6, <2>1 DEF Mind
    <3>2. Claimed(mail, cursor, seen_ids', e) <=> Claimed(mail, cursor, seen_ids, e)
      BY <1>7, <2>1 DEF Claimed
    <3> QED BY <1>2, <1>6, <1>9, <2>1, <3>1, <3>2 DEF InMind
  <2>2. CASE e.from = p
    <3>1. /\ Claimed(mail, cursor, seen_ids, e) => Holds(list, e)
          /\ BackedBy(mail, writes, disk, unsaved, e, list)
          /\ known = <<>>
      BY <1>2, <1>9, <2>2 DEF InMind, Mind
    <3>2. Holds(convo, e) <=> Holds(list, e)
      BY <1>4, <3>1, AlikeHolds
    <3>3. Mind(loading', messages', e.from) = convo
      BY <1>6, <2>2 DEF Mind
    <3> HIDE DEF list
    <3>4. Claimed(mail, cursor, seen_ids', e) => Holds(convo, e)
      BY <1>7, <2>2, <3>1, <3>2 DEF Claimed, Holds
    <3>5. Holds(convo, e) \in BOOLEAN /\ Holds(list, e) \in BOOLEAN
      BY PlacesAre
    <3>6. BackedBy(mail, writes, disk, unsaved, e, convo)
      BY <3>1, <3>2 DEF BackedBy, Backed
    <3> QED BY <1>2, <1>6, <2>2, <3>3, <3>4, <3>6 DEF InMind
  <2> QED BY <2>1, <2>2
<1>10. Durable(e)'
  BY <1>2, <1>5, <1>9 DEF Durable
<1> QED BY <1>8, <1>10

LEMMA LoadFailsDurable ==
    ASSUME InboxInv, DurableInv, NEW p \in Peers, LoadFails(p)
    PROVE  DurableInv'
<1>1. /\ loading' = Without(loading, p) /\ kv_load_failed'
      /\ UNCHANGED <<messages, seen_ids, cursor, writes, disk, mail, excused, torn, unsaved>>
  BY DEF LoadFails
<1> SUFFICES ASSUME NEW e \in Texts PROVE DatedAll(e)' /\ Durable(e)'
  BY <1>1 DEF DurableInv, Texts, Arrivals
<1>2. DatedAll(e) /\ Durable(e)
  BY DEF DurableInv
<1>3. Maybe(loading', e.from, <<>>) = <<>> \/ Maybe(loading', e.from, <<>>) = Maybe(loading, e.from, <<>>)
  BY <1>1 DEF Maybe, Without
<1>4. Dated(Maybe(loading', e.from, <<>>), e)
  BY <1>2, <1>3, EmptyHolds DEF DatedAll
<1>5. DatedAll(e)'
  BY <1>1, <1>2, <1>4 DEF DatedAll
<1>6. Durable(e)'
  BY <1>1, <1>2 DEF Durable
<1> QED BY <1>5, <1>6

\* With nothing queued and nothing lost, the disk is the one version.
LEMMA DiskIsAll ==
    ASSUME NEW m, NEW d, NEW e,
           Claimed(m, d.cursor, d.seen_ids, e) => Holds(Maybe(d.messages, e.from, <<>>), e)
    PROVE  /\ Stored(m, <<>>, d, {}, e)
           /\ BackedBy(m, <<>>, d, {}, e, Maybe(d.messages, e.from, <<>>))
<1> DEFINE V == Versions(<<>>, {}, e.from)
           C == Claims(m, <<>>, d, e)
           H == Holding(<<>>, d, e)
           f == Maybe(d.messages, e.from, <<>>)
<1>1. Len(<<>>) = 0
  OBVIOUS
<1>2. V \in SUBSET (0 .. 0) /\ C \in SUBSET (0 .. 0)
  BY <1>1, PlacesAre
<1>3. \A i \in 0 .. 0 : i = 0
  OBVIOUS
<1>4. \A i \in V : i = 0
  BY <1>2, <1>3
<1>5. \A i \in C : i = 0
  BY <1>2, <1>3
<1>6. (0 \in C <=> Claimed(m, d.cursor, d.seen_ids, e)) /\ (0 \in H <=> Holds(f, e))
  BY <1>1, AtPlace
<1> HIDE DEF V, C, H, f
<1>7. C # {} => 0 \in H
  BY <1>5, <1>6 DEF f
<1>8. Sound(V, C, H)
  BY <1>4, <1>7 DEF Sound
<1>9. Backed(V, C, H, Holds(f, e))
  BY <1>4, <1>6, <1>7 DEF Backed
<1> QED BY <1>8, <1>9 DEF Stored, BackedBy, V, C, H, f

LEMMA RelaunchDurable ==
    ASSUME InboxInv, DurableInv, NEW failed \in SUBSET {"contacts", "seen_ids"}, Relaunch(failed)
    PROVE  DurableInv'
<1>1. /\ seen_ids' = Nothing \/ seen_ids' = disk.seen_ids
      /\ cursor' = disk.cursor
      /\ messages' = Nothing
      /\ loading' = [p \in DOMAIN contacts' \cap DOMAIN disk.messages |-> disk.messages[p]]
      /\ writes' = <<>>
      /\ torn' = torn \cup unsaved
                    \cup (IF kv_load_failed' THEN {} ELSE DOMAIN disk.messages \ DOMAIN contacts')
      /\ unsaved' = {}
      /\ UNCHANGED <<disk, mail, drawn, excused>>
  BY DEF Relaunch
<1> SUFFICES ASSUME NEW e \in Texts PROVE DatedAll(e)' /\ Durable(e)'
  BY <1>1 DEF DurableInv, Texts, Arrivals
<1> DEFINE p == e.from
           f == Maybe(disk.messages, p, <<>>)
<1>2. DatedAll(e) /\ Durable(e)
  BY DEF DurableInv
<1>3. /\ Maybe(messages', p, <<>>) = <<>>
      /\ Maybe(loading', p, <<>>) = f \/ Maybe(loading', p, <<>>) = <<>>
  BY <1>1, NothingIsMap DEF Maybe
<1>4. Len(<<>>) = 0 /\ 1 .. 0 = {}
  OBVIOUS
<1>5. DatedAll(e)'
  <2>1. QueueDated(<<>>, e)
    BY <1>4 DEF QueueDated
  <2>2. Dated(f, e)
    BY <1>2 DEF DatedAll
  <2> HIDE DEF f
  <2>3. Dated(Maybe(messages', p, <<>>), e) /\ Dated(Maybe(loading', p, <<>>), e)
    BY <1>3, <2>2, EmptyHolds
  <2> QED BY <1>1, <2>1, <2>2, <2>3 DEF DatedAll, f
<1>6. ASSUME e \notin excused', p \notin torn'
      PROVE  Stored(mail, <<>>, disk, {}, e) /\ (~kv_load_failed' => InMind(e)')
  <2>1. p \notin unsaved /\ Stored(mail, writes, disk, unsaved, e)
    BY <1>1, <1>2, <1>6 DEF Durable
  <2>2. Claimed(mail, disk.cursor, disk.seen_ids, e) => Holds(f, e)
    <3> DEFINE V == Versions(writes, unsaved, p)
               C == Claims(mail, writes, disk, e)
               H == Holding(writes, disk, e)
    <3>1. Sound(V, C, H)
      BY <2>1 DEF Stored
    <3>2. Len(writes) \in Nat
      BY LenProperties DEF InboxInv, ShellInv
    <3>3. /\ 0 \in V
          /\ 0 \in C <=> Claimed(mail, disk.cursor, disk.seen_ids, e)
          /\ 0 \in H <=> Holds(f, e)
      BY <2>1, <3>2, AtPlace
    <3>4. V \in SUBSET (0 .. Len(writes))
      BY PlacesAre
    <3> HIDE DEF V, C, H
    <3>5. \A k \in V : ~(0 < k /\ k <= 0)
      BY <3>2, <3>4
    <3> QED BY <3>1, <3>3, <3>5 DEF Sound
  <2>3. Stored(mail, <<>>, disk, {}, e) /\ BackedBy(mail, <<>>, disk, {}, e, f)
    BY <2>2, DiskIsAll
  <2>4. ASSUME ~kv_load_failed' PROVE InMind(e)'
    <3>1. p \in DOMAIN disk.messages => p \in DOMAIN contacts'
      BY <1>1, <1>6, <2>4
    <3>2. Mind(loading', messages', p) = f
      BY <1>1, <1>3, <3>1 DEF Mind, Maybe
    <3>3. Claimed(mail, cursor', seen_ids', e) => Claimed(mail, disk.cursor, disk.seen_ids, e)
      <4>1. Maybe(Nothing, p, {}) = {}
        BY NothingIsMap DEF Maybe
      <4> QED BY <1>1, <4>1 DEF Claimed
    <3> HIDE DEF f
    <3> QED BY <1>1, <1>3, <2>2, <2>3, <3>2, <3>3 DEF InMind
  <2> QED BY <2>3, <2>4
<1>7. Durable(e)'
  BY <1>1, <1>6 DEF Durable
<1> QED BY <1>5, <1>7

-----------------------------------------------------------------------------
(* Every step *)

LEMMA InitDurable == Init => DurableInv
<1> SUFFICES ASSUME Init, NEW e \in Texts PROVE DatedAll(e) /\ Durable(e)
  BY DEF DurableInv
<1>1. /\ messages = Nothing /\ seen_ids = Nothing /\ loading = Nothing /\ cursor = 0 /\ writes = <<>>
      /\ disk.messages = Nothing /\ disk.seen_ids = Nothing /\ disk.cursor = 0 /\ unsaved = {}
  BY DEF Init
<1>2. /\ DOMAIN Nothing = {} /\ Maybe(Nothing, e.from, <<>>) = <<>> /\ Maybe(Nothing, e.from, {}) = {}
  BY NothingIsMap DEF Maybe
<1>3. Len(<<>>) = 0 /\ 1 .. 0 = {}
  OBVIOUS
<1>4. DatedAll(e)
  <2>1. QueueDated(<<>>, e)
    BY <1>3 DEF QueueDated
  <2> QED BY <1>1, <1>2, <2>1, EmptyHolds DEF DatedAll
<1>5. ~Claimed(mail, 0, Nothing, e)
  BY <1>2, <1>3 DEF Claimed, Taken
<1>6. Stored(mail, <<>>, disk, {}, e) /\ BackedBy(mail, <<>>, disk, {}, e, <<>>)
  <2>1. Maybe(disk.messages, e.from, <<>>) = <<>> /\ ~Claimed(mail, disk.cursor, disk.seen_ids, e)
    BY <1>1, <1>2, <1>5
  <2>2. /\ Stored(mail, <<>>, disk, {}, e)
        /\ BackedBy(mail, <<>>, disk, {}, e, Maybe(disk.messages, e.from, <<>>))
    BY <2>1, DiskIsAll
  <2> QED BY <2>1, <2>2
<1>7. InMind(e)
  <2>1. Mind(loading, messages, e.from) = <<>>
    BY <1>1, <1>2 DEF Mind
  <2> QED BY <1>1, <1>2, <1>5, <1>6, <2>1 DEF InMind
<1> QED BY <1>1, <1>4, <1>6, <1>7 DEF Durable

LEMMA StutterDurable ==
    ASSUME DurableInv, UNCHANGED vars
    PROVE  DurableInv'
<1>1. UNCHANGED <<messages, seen_ids, cursor, kv_load_failed, loading, writes, disk, mail, excused,
                  torn, unsaved>>
  BY DEF vars, model
<1> SUFFICES ASSUME NEW e \in Texts PROVE DatedAll(e)' /\ Durable(e)'
  BY <1>1 DEF DurableInv, Texts, Arrivals
<1>2. DatedAll(e) /\ Durable(e)
  BY DEF DurableInv
<1>3. DatedAll(e)'
  BY <1>1, <1>2 DEF DatedAll
<1>4. InMind(e)' <=> InMind(e)
  BY <1>1 DEF InMind
<1>5. Durable(e)'
  BY <1>1, <1>2, <1>4 DEF Durable
<1> QED BY <1>3, <1>5

LEMMA StepDurable == InboxInv /\ DurableInv /\ [Next]_vars => DurableInv'
<1> SUFFICES ASSUME InboxInv, DurableInv, [Next]_vars PROVE DurableInv'
  OBVIOUS
<1>1. ASSUME NEW n \in 1 .. MaxPage, NEW k \in 1 .. n, IngestPoll(n, k) PROVE DurableInv'
  <2>1. n \in Nat /\ k \in Nat /\ k <= n
    BY Limits
  <2> QED BY <1>1, <2>1, IngestPollDurable
<1>2. CASE WriteLands \/ WriteFails
  BY <1>2, WriteDurable
<1>3. ASSUME NEW failed \in SUBSET {"contacts", "seen_ids"}, Relaunch(failed) PROVE DurableInv'
  BY <1>3, RelaunchDurable
<1>4. ASSUME NEW p \in Peers, AddContact(p) PROVE DurableInv'
  BY <1>4, AddContactDurable
<1>5. ASSUME NEW p \in Peers, NEW blocked \in BOOLEAN, SetBlocked(p, blocked) PROVE DurableInv'
  BY <1>5, SetBlockedDurable
<1>6. ASSUME NEW p \in Peers, DeleteContact(p) PROVE DurableInv'
  BY <1>6, DeleteContactDurable
<1>7. ASSUME NEW p \in Peers, NEW id \in OwnIds, SendText(p, id) PROVE DurableInv'
  BY <1>7, SendTextDurable
<1>8. ASSUME NEW p \in Peers, LoadedMessages(p) PROVE DurableInv'
  BY <1>8, LoadedMessagesDurable
<1>9. ASSUME NEW p \in Peers, LoadFails(p) PROVE DurableInv'
  BY <1>9, LoadFailsDurable
<1>10. CASE UNCHANGED vars
  BY <1>10, StutterDurable
<1> QED BY <1>1, <1>2, <1>3, <1>4, <1>5, <1>6, <1>7, <1>8, <1>9, <1>10 DEF Next

\* However pages, the user, lazy loads, storage writes that land or fail and relaunches
\* interleave: whatever of the disk or the storage queue says that a text was taken finds
\* the text in the version of its conversation's file that is on disk by then, and a
\* client that may write has the text in memory or on its way there.
THEOREM DurableInvariant == Spec => []DurableInv
<1>1. QED
  BY InboxInvariant, InitDurable, StepDurable, PTL DEF Spec

LEMMA InvDurable == InboxInv /\ DurableInv => DurableUnlessTorn
<1> SUFFICES ASSUME InboxInv, DurableInv, NEW n \in 1 .. disk.cursor, mail[n].kind = "text",
                    mail[n].from \notin torn, mail[n].from \notin unsaved
             PROVE  Kept(n, disk)
  BY DEF DurableUnlessTorn
<1> DEFINE e == mail[n]
           V == Versions(writes, unsaved, e.from)
           C == Claims(mail, writes, disk, e)
           H == Holding(writes, disk, e)
           f == Maybe(disk.messages, e.from, <<>>)
<1>1. n \in 1 .. Len(mail)
  <2>1. Len(mail) \in Nat
    BY MailIs DEF InboxInv, ShellInv
  <2>2. disk.cursor \in 0 .. cursor /\ cursor \in 0 .. Len(mail)
    BY InvTyped DEF TypeOK
  <2> QED BY <2>1, <2>2
<1>2. e \in Arrivals
  <2>1. mail \in Seq(Events)
    BY MailIs DEF InboxInv, ShellInv
  <2>2. DOMAIN mail = 1 .. Len(mail)
    BY <2>1, LenProperties
  <2> QED BY <1>1, <2>2 DEF Arrivals, ToSet
<1>3. Claimed(mail, disk.cursor, disk.seen_ids, e)
  BY DEF Claimed, Taken
<1>4. Len(writes) \in Nat
  BY LenProperties DEF InboxInv, ShellInv
<1>5. 0 \in V /\ 0 \in C /\ (0 \in H <=> Holds(f, e))
  BY <1>3, <1>4, AtPlace
<1>6. V \in SUBSET (0 .. Len(writes))
  BY PlacesAre
<1>7. ASSUME e.id \notin OwnIds, e \notin excused PROVE Holds(f, e)
  <2>1. Sound(V, C, H)
    BY <1>2, <1>7 DEF DurableInv, Durable, Stored, Texts
  <2> HIDE DEF V, C, H, f, e
  <2>2. \A k \in V : ~(0 < k /\ k <= 0)
    BY <1>4, <1>6
  <2> QED BY <1>5, <2>1, <2>2 DEF Sound
<1> QED BY <1>7 DEF Kept, Holds

\* "It must not happen until the batch is durable on our side": for every number of peers,
\* whatever mail the relay has and whatever limits the client runs with, each text (but
\* one that carries an id of ours) that the saved cursor lets the relay delete is in the file of its conversation, unless it is
\* older than all a full file has room for, the code means not to keep it, the file was
\* torn, or the last write of the file failed.
THEOREM MailStaysDurable == Spec => []DurableUnlessTorn
<1>1. QED
  BY InboxInvariant, DurableInvariant, InvDurable, PTL
=============================================================================
