------------------------- MODULE ClientOutboxProofs -------------------------
(***************************************************************************)
(* Proofs about ClientOutbox: the guard of the send loop is always owned,  *)
(* and what an honoured result pops is what its request carried; what a    *)
(* relay has answered for is never queued again, nothing is queued for or  *)
(* sent to a peer who is blocked or no contact, and no item leaves without *)
(* a reason.                                                               *)
(***************************************************************************)
EXTENDS ClientOutbox, FiniteSetTheorems, TLAPS

-----------------------------------------------------------------------------
(* The queue and its head *)

\* A queue whose n arrivals so far are numbered 0 .. n - 1.
IsQueue(q, n) ==
    /\ q \in [DOMAIN q -> Item]
    /\ DOMAIN q \subseteq 0 .. n - 1
    /\ \A i \in DOMAIN q : q[i].retries < MaxRetries

\* An initial segment of q: whatever is outside comes later.
IsSegment(q, F) == F \subseteq DOMAIN q /\ \A i \in DOMAIN q \ F, j \in F : j < i

\* A queue is a finite set of natural numbers.
LEMMA QueueFinite ==
    ASSUME NEW q, NEW n \in Nat, IsQueue(q, n)
    PROVE  IsFiniteSet(DOMAIN q) /\ DOMAIN q \subseteq Nat
<1>1. IsFiniteSet(0 .. n - 1)
    BY FS_Interval
<1>2. QED
    BY <1>1, FS_Subset DEF IsQueue

\* Front(q, n) is an initial segment of q.
LEMMA FrontIsSegment ==
    ASSUME NEW q, IsFiniteSet(DOMAIN q), DOMAIN q \subseteq Nat, NEW n \in Nat
    PROVE  IsSegment(q, Front(q, n))
<1>1. SUFFICES ASSUME NEW i \in DOMAIN q \ Front(q, n), NEW j \in Front(q, n), ~(j < i)
               PROVE  FALSE
    BY DEF IsSegment, Front
<1>2. i \in Nat /\ j \in Nat /\ i < j
    BY <1>1 DEF Front
<1>3. Before(q, i) \subseteq Before(q, j) /\ Before(q, j) \subseteq DOMAIN q
    BY <1>2 DEF Before
<1>4. IsFiniteSet(Before(q, i)) /\ IsFiniteSet(Before(q, j))
    BY <1>3, FS_Subset
<1>5. /\ Cardinality(Before(q, i)) <= Cardinality(Before(q, j))
      /\ Cardinality(Before(q, i)) \in Nat
      /\ Cardinality(Before(q, j)) \in Nat
    BY <1>3, <1>4, FS_Subset, FS_CardinalityType
<1>6. Cardinality(Before(q, j)) < n
    BY DEF Front
<1>7. QED
    BY <1>5, <1>6 DEF Front

\* An initial segment F is the front of its own length.
LEMMA SegmentIsFront ==
    ASSUME NEW q, IsFiniteSet(DOMAIN q), DOMAIN q \subseteq Nat,
           NEW F, IsSegment(q, F)
    PROVE  Front(q, Cardinality(F)) = F
<1>1. IsFiniteSet(F) /\ Cardinality(F) \in Nat
    BY FS_Subset, FS_CardinalityType DEF IsSegment
<1>2. ASSUME NEW i \in F PROVE i \in Front(q, Cardinality(F))
  <2>1. Before(q, i) \subseteq F \ {i}
      BY <1>2 DEF Before, IsSegment
  <2>2. IsFiniteSet(F \ {i}) /\ Cardinality(F \ {i}) = Cardinality(F) - 1
      BY <1>1, <1>2, FS_RemoveElement
  <2>3. Cardinality(Before(q, i)) <= Cardinality(F) - 1 /\ Cardinality(Before(q, i)) \in Nat
      BY <2>1, <2>2, FS_Subset, FS_CardinalityType
  <2>4. QED
      BY <2>3, <1>1, <1>2 DEF Front, IsSegment
<1>3. ASSUME NEW i \in Front(q, Cardinality(F)), i \notin F PROVE FALSE
  <2>1. i \in DOMAIN q /\ Cardinality(Before(q, i)) < Cardinality(F)
      BY <1>3 DEF Front
  <2>2. F \subseteq Before(q, i) /\ Before(q, i) \subseteq DOMAIN q
      BY <1>3, <2>1 DEF Before, IsSegment
  <2>3. IsFiniteSet(Before(q, i))
      BY <2>2, FS_Subset
  <2>4. Cardinality(F) <= Cardinality(Before(q, i)) /\ Cardinality(Before(q, i)) \in Nat
      BY <2>2, <2>3, FS_Subset, FS_CardinalityType
  <2>5. QED
      BY <2>1, <2>4, <1>1
<1>4. QED
    BY <1>2, <1>3

\* The head of n items is the head of every queue that keeps those items and
\* otherwise holds only later ones.
LEMMA SameFront ==
    ASSUME NEW q, IsFiniteSet(DOMAIN q), DOMAIN q \subseteq Nat,
           NEW r, IsFiniteSet(DOMAIN r), DOMAIN r \subseteq Nat,
           NEW n \in Nat, Cardinality(Front(q, n)) = n,
           Front(q, n) \subseteq DOMAIN r,
           \A i \in DOMAIN r \ DOMAIN q, j \in DOMAIN q : j < i
    PROVE  Front(r, n) = Front(q, n)
<1>1. IsSegment(q, Front(q, n))
    BY FrontIsSegment
<1>2. IsSegment(r, Front(q, n))
    BY <1>1 DEF IsSegment
<1>3. QED
    BY <1>2, SegmentIsFront

-----------------------------------------------------------------------------
(* The batch flush_next builds *)

\* The weight of a part of the queue is a number, and grows with the part.
LEMMA BytesType ==
    ASSUME NEW q, NEW S, IsFiniteSet(S)
    PROVE  Bytes(q, S) \in Nat /\ Cardinality(S) \in Nat
<1>1. IsFiniteSet({i \in S : q[i].kind = "profile"})
    BY FS_Subset
<1>2. QED
    BY <1>1, FS_CardinalityType DEF Bytes

LEMMA BytesMonotonic ==
    ASSUME NEW q, NEW T, IsFiniteSet(T), NEW S \in SUBSET T
    PROVE  /\ IsFiniteSet(S)
           /\ Cardinality(S) <= Cardinality(T)
           /\ Bytes(q, S) <= Bytes(q, T)
<1>1. IsFiniteSet(S) /\ Cardinality(S) <= Cardinality(T)
    BY FS_Subset
<1> DEFINE P(U) == {i \in U : q[i].kind = "profile"}
<1>2. IsFiniteSet(P(T)) /\ P(S) \subseteq P(T)
    BY FS_Subset
<1>3. Cardinality(P(S)) <= Cardinality(P(T)) /\ IsFiniteSet(P(S))
    BY <1>2, FS_Subset
<1>4. Cardinality(S) \in Nat /\ Cardinality(T) \in Nat
      /\ Cardinality(P(S)) \in Nat /\ Cardinality(P(T)) \in Nat
    BY <1>1, <1>2, <1>3, FS_CardinalityType
<1>5. QED
    BY <1>1, <1>3, <1>4 DEF Bytes

\* The batch is at the head of the queue and has one recipient.
LEMMA BatchIsSegment ==
    ASSUME NEW q, IsFiniteSet(DOMAIN q), DOMAIN q \subseteq Nat, NEW budget \in Nat
    PROVE  /\ IsSegment(q, Batch(q, budget))
           /\ \A i, j \in Batch(q, budget) : q[i].to = q[j].to
<1> DEFINE B == Batch(q, budget)
<1>1. ASSUME NEW i \in DOMAIN q, NEW j \in B, i <= j PROVE i \in B /\ q[i].to = q[j].to
  <2>1. j \in DOMAIN q /\ Fits(q, UpTo(q, j), budget) /\ j \in Nat /\ i \in Nat
      BY <1>1 DEF Batch
  <2>2. UpTo(q, i) \in SUBSET UpTo(q, j) /\ IsFiniteSet(UpTo(q, j))
      BY <1>1, <2>1, FS_Subset DEF UpTo
  <2>3. /\ IsFiniteSet(UpTo(q, i))
        /\ Cardinality(UpTo(q, i)) <= Cardinality(UpTo(q, j))
        /\ Bytes(q, UpTo(q, i)) <= Bytes(q, UpTo(q, j))
      BY <2>2, BytesMonotonic
  <2>4. /\ Cardinality(UpTo(q, i)) \in Nat /\ Cardinality(UpTo(q, j)) \in Nat
        /\ Bytes(q, UpTo(q, i)) \in Nat /\ Bytes(q, UpTo(q, j)) \in Nat
      BY <2>2, <2>3, BytesType
  <2>5. Fits(q, UpTo(q, i), budget)
    <3>1. \A k, l \in UpTo(q, i) : q[k].to = q[l].to
        BY <2>1, <2>2 DEF Fits
    <3>2. Cardinality(UpTo(q, i)) <= MaxBatch
        BY <2>1, <2>3, <2>4, OutboxAssumption DEF Fits
    <3>3. Cardinality(UpTo(q, i)) > 1 => Bytes(q, UpTo(q, i)) <= budget
        BY <2>1, <2>3, <2>4 DEF Fits
    <3>4. QED
        BY <3>1, <3>2, <3>3 DEF Fits
  <2>6. i \in UpTo(q, j) /\ j \in UpTo(q, j)
      BY <1>1, <2>1 DEF UpTo
  <2>7. QED
      BY <2>1, <2>5, <2>6 DEF Batch, Fits
<1>2. B \subseteq DOMAIN q
    BY DEF Batch
<1>3. \A i \in DOMAIN q \ B, j \in B : j < i
    BY <1>1, <1>2
<1>4. \A i, j \in B : q[i].to = q[j].to
    BY <1>1, <1>2
<1>5. QED
    BY <1>2, <1>3, <1>4 DEF IsSegment

-----------------------------------------------------------------------------
(* The loop: what every way of ending or starting a send establishes *)

LoopInv ==
    /\ IsQueue(outbox, arrivals)
    /\ flushing \in BOOLEAN
    /\ flush_gen \in Gens
    /\ in_flight = None \/ in_flight \in InFlight
    /\ pending \subseteq Pending
    /\ GuardOwned
    /\ InFlightIsHead

\* Nothing unanswered is of generation g.
NoSend(g, ps) == \A x \in ps : x.what = "send" => x.gen # g

\* Arrival numbers stay in their bound.
LEMMA NumbersBounded ==
    ASSUME NEW n \in 0 .. MaxItems, NEW i \in 0 .. n - 1
    PROVE  i \in 0 .. MaxItems
BY OutboxAssumption

\* None is not a batch.
LEMMA NoneIsNot == \A f \in InFlight : f # None
BY DEF InFlight, None

\* Dropping items, stamping them and charging them leave a queue.
LEMMA WithoutIsQueue ==
    ASSUME NEW q, NEW n, IsQueue(q, n), NEW S
    PROVE  IsQueue(Without(q, S), n)
BY DEF IsQueue, Without

LEMMA StampedIsQueue ==
    ASSUME NEW q, NEW n, IsQueue(q, n), NEW S
    PROVE  /\ IsQueue(Stamped(q, S), n)
           /\ DOMAIN Stamped(q, S) = DOMAIN q
           /\ \A i \in DOMAIN q : /\ Stamped(q, S)[i].payload = q[i].payload
                                  /\ Stamped(q, S)[i].to = q[i].to
<1>1. DOMAIN Stamped(q, S) = DOMAIN q
    BY DEF Stamped
<1>2. ASSUME NEW i \in DOMAIN q
      PROVE  /\ Stamped(q, S)[i] \in Item
             /\ Stamped(q, S)[i].retries = q[i].retries
             /\ Stamped(q, S)[i].payload = q[i].payload
             /\ Stamped(q, S)[i].to = q[i].to
  <2>1. q[i] \in Item
      BY DEF IsQueue
  <2>2. /\ Stamp(q[i]) \in Item
        /\ Stamp(q[i]).retries = q[i].retries
        /\ Stamp(q[i]).payload = q[i].payload
        /\ Stamp(q[i]).to = q[i].to
      BY <2>1 DEF Stamp, Item, Ages
  <2>3. QED
      BY <2>1, <2>2 DEF Stamped
<1>3. QED
    BY <1>1, <1>2 DEF IsQueue, Stamped

\* Leaving the loop idle, when nothing unanswered has the current generation.
LEMMA RestKeeps ==
    ASSUME NEW q, NEW g \in Gens, NEW ps \in SUBSET Pending,
           IsQueue(q, arrivals'), NoSend(g, ps), Rest(q, g, ps)
    PROVE  LoopInv'
BY DEF Rest, LoopInv, NoSend, GuardOwned, InFlightIsHead, Live

\* Starting a send on a queue that yields a batch.
LEMMA SendKeeps ==
    ASSUME NEW q, NEW g \in Gens, NEW ps \in SUBSET Pending, NEW budget \in Nat,
           arrivals' \in 0 .. MaxItems, IsQueue(q, arrivals'),
           Batch(q, budget) # {}, Send(q, g, ps, budget)
    PROVE  LoopInv'
<1> DEFINE B    == Batch(q, budget)
           gen  == NextGen(g)
           peer == CHOOSE p \in Peers : \E i \in B : q[i].to = p
           req  == [what |-> "send", gen |-> gen, to |-> peer, batch |-> Carried(q, B)]
           dog  == [what |-> "watchdog", gen |-> gen]
<1>1. IsFiniteSet(DOMAIN q) /\ DOMAIN q \subseteq Nat
  <2>1. arrivals' \in Nat
      BY OutboxAssumption
  <2>2. QED
      BY <2>1, QueueFinite
<1>2. IsSegment(q, B) /\ \A i, j \in B : q[i].to = q[j].to
    BY <1>1, BatchIsSegment
<1>3. B \subseteq DOMAIN q /\ IsFiniteSet(B)
    BY <1>1, <1>2, FS_Subset DEF IsSegment
<1>4. Cardinality(B) \in Nat \ {0} /\ Bytes(q, B) \in Nat
    BY <1>3, BytesType, FS_EmptySet
<1>5. peer \in Peers /\ \A i \in B : q[i].to = peer
  <2>1. \A i \in B : q[i].to \in Peers
      BY <1>3 DEF IsQueue, Item
  <2>2. \E p \in Peers : \E i \in B : q[i].to = p
      BY <2>1
  <2>3. peer \in Peers /\ \E i \in B : q[i].to = peer
      BY <2>2
  <2>4. QED
      BY <2>3, <1>2
<1>6. gen \in Gens
    BY OutboxAssumption DEF NextGen, Gens
<1>7. Carried(q, B) \subseteq (0 .. MaxItems) \X (0 .. MaxProfile)
  <2>1. ASSUME NEW i \in B PROVE i \in 0 .. MaxItems /\ q[i].payload \in 0 .. MaxProfile
    <3>1. i \in 0 .. arrivals' - 1 /\ q[i] \in Item
        BY <1>3 DEF IsQueue
    <3>2. q[i].payload \in 0 .. MaxProfile
        BY <3>1 DEF Item
    <3>3. i \in 0 .. MaxItems
        BY <3>1, NumbersBounded
    <3>4. QED
        BY <3>2, <3>3
  <2>2. QED
      BY <2>1 DEF Carried
<1>8. req \in Pending /\ dog \in Pending
    BY <1>5, <1>6, <1>7 DEF Pending
<1>9. /\ outbox' = Stamped(q, B)
      /\ flushing' = TRUE
      /\ flush_gen' = gen
      /\ in_flight' = [recipient |-> peer, count |-> Cardinality(B), bytes |-> Bytes(q, B)]
      /\ pending' = ps \cup {req, dog}
      /\ Retired(gen, ps)
    BY DEF Send
<1>10. /\ IsQueue(outbox', arrivals')
       /\ DOMAIN outbox' = DOMAIN q
       /\ \A i \in DOMAIN q : outbox'[i].payload = q[i].payload /\ outbox'[i].to = q[i].to
    BY <1>9, StampedIsQueue
<1>11. Front(outbox', Cardinality(B)) = B
  <2>1. IsSegment(outbox', B)
      BY <1>2, <1>10 DEF IsSegment
  <2>2. QED
      BY <2>1, <1>1, <1>10, SegmentIsFront
<1>12. in_flight' \in InFlight
    BY <1>4, <1>5, <1>9 DEF InFlight
<1>13. \A x \in pending' : Live(x)' <=> x = req
    BY <1>9 DEF Retired, Live
<1>14. GuardOwned'
  <2>1. /\ req \in pending' /\ dog \in pending'
        /\ dog.what = "watchdog" /\ dog.gen = flush_gen'
      BY <1>9
  <2>2. {x \in pending' : Live(x)'} = {req}
      BY <1>13, <2>1
  <2> HIDE DEF req, dog
  <2>3. QED
      BY <1>9, <2>1, <2>2 DEF GuardOwned
<1>15. InFlightIsHead'
  <2>1. in_flight'.count = Cardinality(B) /\ in_flight'.recipient = peer
      BY <1>9
  <2>2. Carried(outbox', B) = Carried(q, B)
      BY <1>3, <1>10 DEF Carried
  <2>3. \A i \in B : outbox'[i].to = peer
      BY <1>3, <1>5, <1>10
  <2>4. req.to = peer /\ req.batch = Carried(q, B) /\ IsFiniteSet(B)
      BY <1>3
  <2> HIDE DEF req, dog, B, peer
  <2>5. QED
      BY <2>1, <2>2, <2>3, <2>4, <1>9, <1>11, <1>13 DEF InFlightIsHead
<1>16. QED
    BY <1>6, <1>8, <1>9, <1>10, <1>12, <1>14, <1>15 DEF LoopInv

\* flush_next past its guard.
LEMMA FlushIdleKeeps ==
    ASSUME NEW q, NEW g \in Gens, NEW ps \in SUBSET Pending, NEW budget \in Nat,
           NEW m \in BOOLEAN, arrivals' \in 0 .. MaxItems, IsQueue(q, arrivals'),
           NoSend(g, ps), FlushIdle(q, g, ps, budget, m)
    PROVE  LoopInv'
<1> DEFINE usable == Without(q, BadHead(q))
<1>1. IsQueue(usable, arrivals')
    BY WithoutIsQueue
<1>2. CASE m = FALSE
    BY <1>2, RestKeeps DEF FlushIdle
<1>3. CASE m = TRUE /\ Batch(usable, budget) = {}
  <2>1. Rest(usable, g, ps)
      BY <1>3 DEF FlushIdle
  <2>2. QED
      BY <1>1, <2>1, RestKeeps
<1>4. CASE m = TRUE /\ Batch(usable, budget) # {}
  <2>1. Send(usable, g, ps, budget)
      BY <1>4 DEF FlushIdle
  <2>2. QED
      BY <1>1, <1>4, <2>1, SendKeeps
<1>5. QED
    BY <1>2, <1>3, <1>4

\* The queue q still begins with the batch that is in flight.
HeadKept(q) ==
    in_flight # None =>
        /\ Front(q, in_flight.count) = Front(outbox, in_flight.count)
        /\ \A i \in Front(outbox, in_flight.count) :
              i \in DOMAIN q /\ q[i].payload = outbox[i].payload /\ q[i].to = outbox[i].to

\* It does if it keeps those items and is otherwise extended at the back.
LEMMA HeadKeptIf ==
    ASSUME LoopInv, arrivals \in Nat,
           NEW q, NEW n \in Nat, IsQueue(q, n),
           in_flight # None =>
              \A i \in Front(outbox, in_flight.count) :
                 i \in DOMAIN q /\ q[i].payload = outbox[i].payload /\ q[i].to = outbox[i].to,
           \A i \in DOMAIN q \ DOMAIN outbox : i >= arrivals
    PROVE  HeadKept(q)
<1> SUFFICES ASSUME in_flight # None PROVE HeadKept(q)
    BY DEF HeadKept
<1>1. in_flight.count \in Nat /\ Cardinality(Front(outbox, in_flight.count)) = in_flight.count
    BY DEF LoopInv, InFlight, InFlightIsHead
<1>2. /\ IsFiniteSet(DOMAIN outbox) /\ DOMAIN outbox \subseteq Nat
      /\ IsFiniteSet(DOMAIN q) /\ DOMAIN q \subseteq Nat
    BY QueueFinite DEF LoopInv
<1>3. \A i \in DOMAIN q \ DOMAIN outbox, j \in DOMAIN outbox : j < i
  <2>1. \A j \in DOMAIN outbox : j < arrivals
      BY <1>2 DEF LoopInv, IsQueue
  <2>2. QED
      BY <2>1, <1>2
<1>4. Front(outbox, in_flight.count) \subseteq DOMAIN q
    OBVIOUS
<1>5. Front(q, in_flight.count) = Front(outbox, in_flight.count)
    BY <1>1, <1>2, <1>3, <1>4, SameFront
<1>6. QED
    BY <1>5 DEF HeadKept

\* Editing the queue behind the batch in flight.
LEMMA EditKeeps ==
    ASSUME LoopInv, NEW q, IsQueue(q, arrivals'), HeadKept(q), outbox' = q,
           UNCHANGED <<flushing, flush_gen, in_flight, pending>>
    PROVE  LoopInv'
<1>1. GuardOwned'
    BY DEF LoopInv, GuardOwned, Live
<1>2. InFlightIsHead'
  <2> SUFFICES ASSUME in_flight # None
               PROVE  InFlightIsHead'
      BY DEF InFlightIsHead
  <2> DEFINE F == Front(outbox, in_flight.count)
  <2>1. Front(outbox', in_flight'.count) = F /\ in_flight' = in_flight
      BY DEF HeadKept
  <2>2. Carried(outbox', F) = Carried(outbox, F)
      BY DEF Carried, HeadKept
  <2>3. \A i \in F : outbox'[i].to = outbox[i].to
      BY DEF HeadKept
  <2>4. \A r : Live(r)' <=> Live(r)
      BY DEF Live
  <2>5. /\ flushing
        /\ Cardinality(F) = in_flight.count
        /\ \A r \in pending : Live(r) =>
              /\ r.to = in_flight.recipient
              /\ r.batch = Carried(outbox, F)
              /\ \A i \in F : outbox[i].to = r.to
      BY DEF LoopInv, InFlightIsHead
  <2> HIDE DEF F
  <2>6. QED
      BY <2>1, <2>2, <2>3, <2>4, <2>5 DEF InFlightIsHead
<1>3. QED
    BY <1>1, <1>2 DEF LoopInv

\* flush_next as other events call it.
LEMMA FlushNextKeeps ==
    ASSUME LoopInv, arrivals' \in 0 .. MaxItems, send_batch_budget \in Nat,
           NEW q, IsQueue(q, arrivals'), HeadKept(q),
           NEW m \in BOOLEAN, FlushNext(q, m)
    PROVE  LoopInv'
<1>1. CASE flushing
    BY <1>1, EditKeeps DEF FlushNext
<1>2. CASE ~flushing
  <2>1. NoSend(flush_gen, pending) /\ flush_gen \in Gens /\ pending \in SUBSET Pending
      BY <1>2 DEF LoopInv, GuardOwned, Live, NoSend
  <2>2. FlushIdle(q, flush_gen, pending, send_batch_budget, m)
      BY <1>2 DEF FlushNext
  <2>3. QED
      BY <2>1, <2>2, FlushIdleKeeps
<1>3. QED
    BY <1>1, <1>2

-----------------------------------------------------------------------------
(* Pushing at the back *)

\* A record fresh from a constructor.
IsFresh(item) == item \in Item /\ item.retries < MaxRetries

LEMMA NewItemsFresh ==
    ASSUME NEW p \in Peers, NEW v \in 0 .. MaxProfile
    PROVE  IsFresh(NewItem(p)) /\ IsFresh(ProfileItem(p, v))
<1>1. 0 \in 0 .. MaxProfile /\ 0 \in 0 .. MaxRetries /\ 0 < MaxRetries
    BY OutboxAssumption
<1>2. QED
    BY <1>1 DEF IsFresh, NewItem, ProfileItem, Item, Ages

\* q2 extends q at the back, with mail to members of C: n arrivals become m.
Extends(q, n, q2, m, C) ==
    /\ IsQueue(q2, m)
    /\ DOMAIN q \subseteq DOMAIN q2
    /\ \A i \in DOMAIN q : q2[i] = q[i]
    /\ \A i \in DOMAIN q2 \ DOMAIN q : i >= n /\ q2[i].to \in C

LEMMA PushExtends ==
    ASSUME NEW q, NEW n \in Nat, IsQueue(q, n), NEW item, IsFresh(item),
           NEW C, item.to \in C
    PROVE  Extends(q, n, Push(q, n, item), n + 1, C)
BY DEF Extends, IsQueue, IsFresh, Push

LEMMA PushAllExtends ==
    ASSUME NEW q, NEW n \in Nat, NEW m \in Nat, n <= m, IsQueue(q, n),
           NEW S, NEW at \in [S -> n .. m - 1],
           NEW C, NEW items, \A p \in S : IsFresh(items[p]) /\ items[p].to \in C
    PROVE  Extends(q, n, PushAll(q, at, items), m, C)
<1> DEFINE q2 == PushAll(q, at, items)
<1>1. DOMAIN q2 = DOMAIN q \cup {at[p] : p \in S}
    BY DEF PushAll
<1>2. \A i \in DOMAIN q : q2[i] = q[i]
    BY DEF PushAll
<1>3. ASSUME NEW i \in DOMAIN q2 \ DOMAIN q
      PROVE  IsFresh(q2[i]) /\ q2[i].to \in C /\ i \in n .. m - 1
  <2>1. \E p \in S : at[p] = i
      BY <1>1, <1>3
  <2> DEFINE p0 == CHOOSE p \in DOMAIN at : at[p] = i
  <2>2. p0 \in S /\ at[p0] = i
      BY <2>1
  <2>3. q2[i] = items[p0]
      BY <1>3 DEF PushAll
  <2> HIDE DEF p0, q2
  <2>4. QED
      BY <2>2, <2>3
<1>4. DOMAIN q2 \subseteq 0 .. m - 1
    BY <1>1, <1>3 DEF IsQueue
<1>5. \A i \in DOMAIN q2 : q2[i] \in Item /\ q2[i].retries < MaxRetries
    BY <1>2, <1>3 DEF IsQueue, IsFresh
<1>6. q2 = [i \in DOMAIN q2 |-> q2[i]]
    BY DEF PushAll
<1> HIDE DEF q2
<1>7. Extends(q, n, q2, m, C)
    BY <1>1, <1>2, <1>3, <1>4, <1>5, <1>6 DEF Extends, IsQueue
<1>8. QED
    BY <1>7 DEF q2

\* Numbering a set of peers in key order takes consecutive numbers.
LEMMA InKeyOrderType ==
    ASSUME NEW S \in SUBSET Peers, NEW n \in Nat
    PROVE  /\ IsFiniteSet(S) /\ Cardinality(S) \in Nat
           /\ InKeyOrder(S, n) \in [S -> n .. n + Cardinality(S) - 1]
<1>1. IsFiniteSet(S) /\ Cardinality(S) \in Nat
    BY FS_Subset, FS_CardinalityType, OutboxAssumption
<1>2. ASSUME NEW p \in S
      PROVE  n + Cardinality({r \in S : r < p}) \in n .. n + Cardinality(S) - 1
  <2> DEFINE T == {r \in S : r < p}
  <2>1. p \in Nat
      BY OutboxAssumption
  <2>2. T \subseteq S /\ p \notin T
      BY <2>1
  <2>3. IsFiniteSet(T) /\ Cardinality(T) <= Cardinality(S) /\ Cardinality(T) # Cardinality(S)
      BY <1>1, <2>2, FS_Subset
  <2>4. Cardinality(T) \in Nat
      BY <2>3, FS_CardinalityType
  <2> HIDE DEF T
  <2>5. n + Cardinality(T) \in n .. n + Cardinality(S) - 1
      BY <1>1, <2>3, <2>4
  <2>6. QED
      BY <2>5 DEF T
<1>3. QED
    BY <1>1, <1>2 DEF InKeyOrder

\* An extension of the outbox keeps the batch in flight at its head.
LEMMA ExtendsKeepsHead ==
    ASSUME LoopInv, arrivals \in Nat, NEW q, NEW m \in Nat,
           NEW C, Extends(outbox, arrivals, q, m, C)
    PROVE  HeadKept(q)
<1>1. \A i \in Front(outbox, in_flight.count) : i \in DOMAIN outbox
    BY DEF Front
<1>2. QED
    BY <1>1, HeadKeptIf DEF Extends

-----------------------------------------------------------------------------
(* The inductive invariant, and each action *)

\* The variables outside the loop.
AroundInv ==
    /\ contacts \subseteq Peers
    /\ blocked \subseteq contacts
    /\ profile \in 0 .. MaxProfile
    /\ arrivals \in 0 .. MaxItems
    /\ send_batch_budget \in Nat
    /\ flush_paused \in BOOLEAN
    /\ token \in BOOLEAN
    /\ kv_load_failed \in BOOLEAN
    /\ answered \subseteq (0 .. MaxItems) \X (0 .. MaxProfile)

OutboxInv == AroundInv /\ LoopInv

\* The bounds of a run are numbers, and MaySend is a truth value.
LEMMA AroundTypes ==
    ASSUME AroundInv
    PROVE  arrivals \in Nat /\ profile \in Nat /\ MaySend \in BOOLEAN
BY OutboxAssumption DEF AroundInv, MaySend

\* An event that touches nothing of the loop.
LEMMA LoopUnchanged ==
    ASSUME LoopInv, UNCHANGED loop, UNCHANGED arrivals
    PROVE  LoopInv'
<1>1. /\ outbox' = outbox /\ flushing' = flushing /\ flush_gen' = flush_gen
      /\ in_flight' = in_flight /\ pending' = pending /\ arrivals' = arrivals
    BY DEF loop
<1>2. QED
    BY <1>1 DEF LoopInv, GuardOwned, InFlightIsHead, Live

\* An unedited queue keeps its head.
LEMMA SameKeepsHead ==
    ASSUME LoopInv PROVE HeadKept(outbox) /\ IsQueue(outbox, arrivals)
BY DEF HeadKept, Front, LoopInv

\* Once the live request is out of the shell, nothing has its generation.
LEMMA AnsweredNoSend ==
    ASSUME LoopInv, NEW r \in pending, Live(r)
    PROVE  NoSend(flush_gen, pending \ {r}) /\ pending \ {r} \in SUBSET Pending
           /\ flush_gen \in Gens
BY DEF LoopInv, GuardOwned, NoSend, Live

LEMMA InitInv == Init => OutboxInv
<1> SUFFICES ASSUME Init PROVE OutboxInv
    OBVIOUS
<1>1. AroundInv
  <2>1. 0 \in 0 .. MaxProfile /\ 0 \in 0 .. MaxItems /\ MaxBatchBytes \in Nat
      BY OutboxAssumption
  <2>2. FALSE \in BOOLEAN
      OBVIOUS
  <2>3. QED
      BY <2>1, <2>2, Zenon DEF Init, AroundInv
<1>2. IsQueue(outbox, arrivals)
    BY DEF Init, IsQueue
<1>3. flush_gen \in Gens
    BY OutboxAssumption DEF Init, Gens
<1>4. GuardOwned /\ InFlightIsHead
    BY DEF Init, GuardOwned, InFlightIsHead
<1>5. QED
    BY <1>1, <1>2, <1>3, <1>4 DEF Init, OutboxInv, LoopInv

\* Extending twice is extending.
LEMMA ExtendsTransitive ==
    ASSUME NEW q, NEW n \in Nat, NEW q2, NEW m \in Nat, n <= m, NEW q3, NEW l \in Nat,
           NEW C, Extends(q, n, q2, m, C), Extends(q2, m, q3, l, C)
    PROVE  Extends(q, n, q3, l, C)
<1>1. \A i \in DOMAIN q3 \ DOMAIN q : i >= n /\ q3[i].to \in C
  <2>1. ASSUME NEW i \in DOMAIN q3 \ DOMAIN q, i \in DOMAIN q2
        PROVE  i >= n /\ q3[i].to \in C
      BY <2>1 DEF Extends
  <2>2. ASSUME NEW i \in DOMAIN q3 \ DOMAIN q, i \notin DOMAIN q2
        PROVE  i >= n /\ q3[i].to \in C
    <3>1. i >= m /\ q3[i].to \in C /\ i \in 0 .. l - 1
        BY <2>2 DEF Extends, IsQueue
    <3>2. QED
        BY <3>1
  <2>3. QED
      BY <2>1, <2>2
<1>2. QED
    BY <1>1 DEF Extends

\* What flush_next finds when an event has added mail: the batch in flight is
\* still at the head, nothing is gone or readdressed, and what is new goes to
\* members of C.
Grown(q, C) ==
    /\ IsQueue(q, arrivals')
    /\ HeadKept(q)
    /\ DOMAIN outbox \subseteq DOMAIN q
    /\ \A i \in DOMAIN outbox : q[i].to = outbox[i].to
    /\ \A i \in DOMAIN q \ DOMAIN outbox : i >= arrivals /\ q[i].to \in C

\* Such an event: flush_next runs, if nothing is in flight, on a grown queue.
Grows(C) ==
    /\ arrivals' \in 0 .. MaxItems
    /\ arrivals <= arrivals'
    /\ \E q : Grown(q, C) /\ FlushNext(q, MaySend)

LEMMA ExtendsGrows ==
    ASSUME LoopInv, arrivals \in Nat, arrivals' \in Nat, NEW C, NEW q,
           Extends(outbox, arrivals, q, arrivals', C)
    PROVE  Grown(q, C)
<1>1. HeadKept(q)
    BY ExtendsKeepsHead
<1>2. QED
    BY <1>1 DEF Extends, Grown

\* It keeps the loop's invariant.
LEMMA GrowsKeeps ==
    ASSUME OutboxInv, NEW C, Grows(C)
    PROVE  LoopInv'
<1>1. PICK q : Grown(q, C) /\ FlushNext(q, MaySend)
    BY DEF Grows
<1>2. IsQueue(q, arrivals') /\ HeadKept(q)
    BY <1>1 DEF Grown
<1>3. arrivals' \in 0 .. MaxItems /\ MaySend \in BOOLEAN /\ send_batch_budget \in Nat
    BY AroundTypes DEF OutboxInv, AroundInv, Grows
<1>4. QED
    BY <1>1, <1>2, <1>3, FlushNextKeeps DEF OutboxInv

\* A text, and the profile that follows it to a new key, go to the back.
LEMMA SendTextGrows ==
    ASSUME OutboxInv, NEW p \in Peers, SendText(p)
    PROVE  Grows({p})
<1> USE DEF OutboxInv
<1> DEFINE texted == Push(outbox, arrivals, NewItem(p))
           both   == Push(texted, arrivals + 1, ProfileItem(p, profile))
<1>1. arrivals \in Nat /\ MaySend \in BOOLEAN /\ send_batch_budget \in Nat
    BY AroundTypes DEF AroundInv
<1>2. /\ IsFresh(NewItem(p)) /\ IsFresh(ProfileItem(p, profile))
      /\ NewItem(p).to \in {p} /\ ProfileItem(p, profile).to \in {p}
    BY NewItemsFresh DEF AroundInv, NewItem, ProfileItem
<1>3. Extends(outbox, arrivals, texted, arrivals + 1, {p})
    BY <1>1, <1>2, PushExtends DEF LoopInv
<1>4. Extends(texted, arrivals + 1, both, arrivals + 1 + 1, {p})
  <2>1. arrivals + 1 \in Nat /\ IsQueue(texted, arrivals + 1)
      BY <1>1, <1>3 DEF Extends
  <2> HIDE DEF texted
  <2>2. QED
      BY <1>2, <2>1, PushExtends
<1> HIDE DEF texted, both
<1>5. Extends(outbox, arrivals, both, arrivals + 2, {p})
  <2>1. /\ arrivals + 1 \in Nat /\ arrivals + 2 \in Nat /\ arrivals <= arrivals + 1
        /\ arrivals + 1 + 1 = arrivals + 2
      BY <1>1
  <2>2. QED
      BY <1>1, <1>3, <1>4, <2>1, ExtendsTransitive
<1>6. CASE p \notin contacts
  <2>1. FlushNext(both, MaySend) /\ arrivals' = arrivals + 2 /\ arrivals' \in 0 .. MaxItems
      BY <1>1, <1>6 DEF SendText, texted, both
  <2>2. arrivals' \in Nat /\ arrivals <= arrivals'
      BY <1>1, <2>1
  <2>3. Grown(both, {p})
      BY <1>1, <1>5, <2>1, <2>2, ExtendsGrows
  <2>4. QED
      BY <2>1, <2>2, <2>3 DEF Grows
<1>7. CASE p \in contacts
  <2>1. FlushNext(texted, MaySend) /\ arrivals' = arrivals + 1 /\ arrivals' \in 0 .. MaxItems
      BY <1>1, <1>7 DEF SendText, texted
  <2>2. arrivals' \in Nat /\ arrivals <= arrivals'
      BY <1>1, <2>1
  <2>3. Grown(texted, {p})
      BY <1>1, <1>3, <2>1, <2>2, ExtendsGrows
  <2>4. QED
      BY <2>1, <2>2, <2>3 DEF Grows
<1>8. QED
    BY <1>6, <1>7

\* A page's profiles and acks go to the back.
LEMMA IngestPageGrows ==
    ASSUME OutboxInv, NEW S \in SUBSET Peers, IngestPage(S)
    PROVE  Grows(S)
<1> USE DEF OutboxInv
<1> DEFINE strangers == S \ contacts
           n         == Cardinality(strangers)
           acks      == InKeyOrder(S, arrivals + n)
           items     == [p \in S |-> NewItem(p)]
<1>1. arrivals \in Nat /\ MaySend \in BOOLEAN /\ send_batch_budget \in Nat
      /\ profile \in 0 .. MaxProfile
    BY AroundTypes DEF AroundInv
<1>2. strangers \in SUBSET Peers /\ n \in Nat
    BY <1>1, InKeyOrderType
<1>3. /\ Cardinality(S) \in Nat
      /\ acks \in [S -> arrivals + n .. arrivals + n + Cardinality(S) - 1]
  <2>1. arrivals + n \in Nat
      BY <1>1, <1>2
  <2> HIDE DEF n
  <2>2. QED
      BY <2>1, InKeyOrderType
<1>4. PICK at \in PageOrders(strangers, arrivals) :
         FlushNext(PushAll(PushProfiles(outbox, at, profile), acks, items), MaySend)
    BY DEF IngestPage
<1>5. at \in [strangers -> arrivals .. arrivals + n - 1] /\ DOMAIN at = strangers
    BY DEF PageOrders
<1> DEFINE cards == [p \in DOMAIN at |-> ProfileItem(p, profile)]
           mid   == PushAll(outbox, at, cards)
           last  == PushAll(mid, acks, items)
<1>6. arrivals' = arrivals + n + Cardinality(S) /\ arrivals' \in 0 .. MaxItems
      /\ FlushNext(last, MaySend)
  <2>1. arrivals' = arrivals + n + Cardinality(S) /\ arrivals + n + Cardinality(S) <= MaxItems
      BY DEF IngestPage
  <2>2. FlushNext(last, MaySend)
      BY <1>4 DEF PushProfiles
  <2> HIDE DEF n, last
  <2>3. QED
      BY <2>1, <2>2, <1>1, <1>2, <1>3
<1>7. \A p \in strangers : IsFresh(cards[p]) /\ cards[p].to \in S
    BY <1>1, <1>2, <1>5, NewItemsFresh DEF ProfileItem
<1>8. \A p \in S : IsFresh(items[p]) /\ items[p].to \in S
    BY <1>1, NewItemsFresh DEF NewItem
<1> HIDE DEF strangers, n, acks, items, cards
<1>9. Extends(outbox, arrivals, mid, arrivals + n, S)
  <2>1. arrivals + n \in Nat /\ arrivals <= arrivals + n
      BY <1>1, <1>2
  <2>2. IsQueue(outbox, arrivals)
      BY SameKeepsHead
  <2>3. arrivals .. arrivals + n - 1 = arrivals .. (arrivals + n) - 1
      BY <1>1, <1>2
  <2>4. at \in [strangers -> arrivals .. (arrivals + n) - 1]
      BY <1>5, <2>3
  <2> HIDE DEF last
  <2>5. QED
      BY <1>1, <1>7, <2>1, <2>2, <2>4, PushAllExtends
<1>10. Extends(mid, arrivals + n, last, arrivals + n + Cardinality(S), S)
  <2>1. /\ arrivals + n \in Nat /\ arrivals + n + Cardinality(S) \in Nat
        /\ arrivals + n <= arrivals + n + Cardinality(S)
      BY <1>1, <1>2, <1>3
  <2>2. IsQueue(mid, arrivals + n)
      BY <1>9 DEF Extends
  <2>3. QED
      BY <1>3, <1>8, <2>1, <2>2, PushAllExtends
<1> HIDE DEF mid, last
<1>11. Extends(outbox, arrivals, last, arrivals + n + Cardinality(S), S)
  <2>1. /\ arrivals + n \in Nat /\ arrivals + n + Cardinality(S) \in Nat
        /\ arrivals <= arrivals + n
      BY <1>1, <1>2, <1>3
  <2>2. QED
      BY <1>1, <1>9, <1>10, <2>1, ExtendsTransitive
<1>12. arrivals' \in Nat /\ arrivals <= arrivals'
    BY <1>1, <1>2, <1>3, <1>6
<1>13. Grown(last, S)
    BY <1>1, <1>6, <1>11, <1>12, ExtendsGrows
<1>14. QED
    BY <1>6, <1>12, <1>13 DEF Grows

\* Blocking or deleting a peer detaches a batch of that peer and leaves any other
\* batch where it is.
LEMMA WithdrawKeeps ==
    ASSUME OutboxInv, NEW p \in Peers, Withdraw(p), arrivals' = arrivals
    PROVE  LoopInv'
<1> USE DEF OutboxInv
<1> DEFINE mail == {i \in DOMAIN outbox : outbox[i].to = p}
           q    == Without(outbox, mail)
<1>1. arrivals \in Nat
    BY AroundTypes
<1>2. IsQueue(q, arrivals) /\ DOMAIN q \subseteq DOMAIN outbox
      /\ outbox' = q /\ UNCHANGED <<flushing, flush_gen, pending>>
    BY WithoutIsQueue DEF LoopInv, Withdraw, Without
<1>3. CASE in_flight # None /\ in_flight.recipient = p
  <2>1. in_flight' = None
      BY <1>3 DEF Withdraw
  <2>2. GuardOwned'
      BY <1>2 DEF LoopInv, GuardOwned, Live
  <2>3. InFlightIsHead'
      BY <2>1 DEF InFlightIsHead
  <2> HIDE DEF q
  <2>4. QED
      BY <1>2, <2>1, <2>2, <2>3 DEF LoopInv
<1>4. CASE ~(in_flight # None /\ in_flight.recipient = p)
  <2>1. in_flight' = in_flight
      BY <1>4 DEF Withdraw
  <2>2. ASSUME in_flight # None, NEW i \in Front(outbox, in_flight.count)
        PROVE  i \in DOMAIN q /\ q[i] = outbox[i]
    <3>1. PICK r \in pending : Live(r)
        BY <2>2 DEF LoopInv, GuardOwned, InFlightIsHead
    <3>2. outbox[i].to # p
        BY <1>4, <2>2, <3>1 DEF LoopInv, InFlightIsHead
    <3>3. i \in DOMAIN outbox
        BY <2>2 DEF Front
    <3>4. QED
        BY <3>2, <3>3 DEF Without
  <2> HIDE DEF q
  <2>3. HeadKept(q)
      BY <1>1, <1>2, <2>2, HeadKeptIf
  <2>4. QED
      BY <1>2, <2>1, <2>3, EditKeeps
<1>5. QED
    BY <1>3, <1>4

\* Overwriting profiles behind the batch, then pushing the missing ones.
LEMMA SaveProfileGrows ==
    ASSUME OutboxInv, SaveProfile
    PROVE  Grows(contacts \ blocked)
<1> USE DEF OutboxInv
<1> DEFINE version == profile + 1
           fresh   == {p \in contacts \ blocked : Replaceable(p) = {}}
           n       == Cardinality(fresh)
           mid     == Superseded(outbox, version)
           at      == InKeyOrder(fresh, arrivals)
           cards   == [p \in DOMAIN at |-> ProfileItem(p, version)]
           last    == PushAll(mid, at, cards)
<1>1. /\ arrivals \in Nat /\ profile \in Nat /\ MaySend \in BOOLEAN
      /\ send_batch_budget \in Nat /\ contacts \subseteq Peers
    BY AroundTypes DEF AroundInv
<1>2. version \in 0 .. MaxProfile
    BY <1>1 DEF SaveProfile
<1>3. fresh \in SUBSET Peers /\ fresh \subseteq contacts \ blocked
    BY <1>1
<1>4. arrivals' = arrivals + n /\ arrivals + n <= MaxItems /\ FlushNext(last, MaySend)
    BY DEF SaveProfile, PushProfiles
<1>5. /\ DOMAIN mid = DOMAIN outbox /\ IsQueue(mid, arrivals)
      /\ \A i \in DOMAIN outbox : mid[i].to = outbox[i].to
      /\ \A i \in Front(outbox, in_flight.count) : mid[i] = outbox[i]
  <2>1. DOMAIN mid = DOMAIN outbox
      BY DEF Superseded
  <2>2. \A i \in DOMAIN outbox : \/ mid[i] = outbox[i]
                                 \/ mid[i] = [outbox[i] EXCEPT !.payload = version]
      BY DEF Superseded
  <2>3. \A i \in DOMAIN outbox : outbox[i] \in Item /\ outbox[i].retries < MaxRetries
      BY DEF LoopInv, IsQueue
  <2>4. \A i \in DOMAIN outbox : /\ mid[i] \in Item
                                 /\ mid[i].retries < MaxRetries
                                 /\ mid[i].to = outbox[i].to
    <3>1. SUFFICES ASSUME NEW i \in DOMAIN outbox
                   PROVE  /\ mid[i] \in Item
                          /\ mid[i].retries < MaxRetries
                          /\ mid[i].to = outbox[i].to
        OBVIOUS
    <3>2. outbox[i] \in Item /\ outbox[i].retries < MaxRetries
        BY <2>3
    <3>3. \/ mid[i] = outbox[i]
          \/ mid[i] = [outbox[i] EXCEPT !.payload = version]
        BY <2>2
    <3> HIDE DEF mid, version
    <3>4. QED
        BY <1>2, <3>2, <3>3 DEF Item
  <2>5. mid = [i \in DOMAIN mid |-> mid[i]]
      BY DEF Superseded
  <2>6. \A i \in Front(outbox, in_flight.count) : mid[i] = outbox[i]
      BY DEF Superseded, Replaceable, Front
  <2> HIDE DEF mid
  <2>7. DOMAIN outbox \subseteq 0 .. arrivals - 1
      BY DEF LoopInv, IsQueue
  <2>8. QED
      BY <2>1, <2>4, <2>5, <2>6, <2>7 DEF IsQueue
<1> HIDE DEF fresh, n, version, mid
<1>6. n \in Nat /\ at \in [fresh -> arrivals .. (arrivals + n) - 1] /\ DOMAIN at = fresh
  <2>1. n \in Nat /\ at \in [fresh -> arrivals .. arrivals + Cardinality(fresh) - 1]
      BY <1>1, <1>3, InKeyOrderType DEF n
  <2>2. arrivals .. arrivals + Cardinality(fresh) - 1 = arrivals .. (arrivals + n) - 1
      BY <1>1, <2>1 DEF n
  <2> HIDE DEF at
  <2>3. QED
      BY <2>1, <2>2
<1> HIDE DEF at
<1>7. \A p \in fresh : IsFresh(cards[p]) /\ cards[p].to \in contacts \ blocked
    BY <1>2, <1>3, <1>6, NewItemsFresh DEF ProfileItem
<1> HIDE DEF cards
<1>8. arrivals' = arrivals + n /\ arrivals' \in 0 .. MaxItems /\ arrivals + n \in Nat
      /\ arrivals <= arrivals + n
    BY <1>1, <1>4, <1>6
<1>9. Extends(mid, arrivals, last, arrivals + n, contacts \ blocked)
    BY <1>1, <1>5, <1>6, <1>7, <1>8, PushAllExtends
<1> HIDE DEF last
<1>10. HeadKept(last)
  <2>1. \A i \in Front(outbox, in_flight.count) : i \in DOMAIN outbox
      BY DEF Front
  <2>2. \A i \in Front(outbox, in_flight.count) : i \in DOMAIN last /\ last[i] = outbox[i]
      BY <1>5, <1>9, <2>1 DEF Extends
  <2>3. \A i \in DOMAIN last \ DOMAIN outbox : i >= arrivals
      BY <1>5, <1>9 DEF Extends
  <2>4. IsQueue(last, arrivals + n)
      BY <1>9 DEF Extends
  <2>5. QED
      BY <1>1, <1>8, <2>2, <2>3, <2>4, HeadKeptIf
<1>11. IsQueue(last, arrivals')
    BY <1>8, <1>9 DEF Extends
<1>12. Grown(last, contacts \ blocked)
    BY <1>5, <1>9, <1>10, <1>11 DEF Extends, Grown
<1>13. QED
    BY <1>4, <1>8, <1>12 DEF Grows

\* Ageing changes neither what an item carries nor where it is.
LEMMA TtlPassesKeeps ==
    ASSUME OutboxInv, NEW n \in Nat, TtlPasses(n)
    PROVE  LoopInv'
<1> USE DEF OutboxInv
<1>1. arrivals \in Nat /\ arrivals' = arrivals
    BY AroundTypes DEF TtlPasses, queue
<1>2. DOMAIN outbox' = DOMAIN outbox /\ outbox' = [i \in DOMAIN outbox' |-> outbox'[i]]
    BY DEF TtlPasses
<1>3. ASSUME NEW i \in DOMAIN outbox
      PROVE  /\ outbox'[i] \in Item /\ outbox'[i].retries < MaxRetries
             /\ outbox'[i].to = outbox[i].to /\ outbox'[i].payload = outbox[i].payload
  <2>1. outbox'[i] = outbox[i] \/ outbox'[i] = [outbox[i] EXCEPT !.age = "old"]
      BY DEF TtlPasses
  <2>2. outbox[i] \in Item /\ outbox[i].retries < MaxRetries
      BY DEF LoopInv, IsQueue
  <2>3. QED
      BY <2>1, <2>2 DEF Item, Ages
<1>4. IsQueue(outbox', arrivals)
  <2>1. DOMAIN outbox \subseteq 0 .. arrivals - 1
      BY DEF LoopInv, IsQueue
  <2>2. QED
      BY <1>2, <1>3, <2>1 DEF IsQueue
<1>5. HeadKept(outbox')
  <2>1. \A i \in Front(outbox, in_flight.count) : i \in DOMAIN outbox
      BY DEF Front
  <2>2. QED
      BY <1>1, <1>2, <1>3, <1>4, <2>1, HeadKeptIf
<1>6. QED
    BY <1>1, <1>4, <1>5, EditKeeps DEF TtlPasses

\* The watchdog of a send that is over is dropped; the other one frees the loop.
LEMMA FlushWatchdogKeeps ==
    ASSUME OutboxInv, NEW w \in pending, FlushWatchdog(w)
    PROVE  LoopInv'
<1> USE DEF OutboxInv
<1>1. arrivals' = arrivals /\ arrivals \in 0 .. MaxItems /\ MaySend \in BOOLEAN
      /\ send_batch_budget \in Nat /\ w.what = "watchdog"
    BY AroundTypes DEF AroundInv, FlushWatchdog, queue
<1>2. IsQueue(outbox, arrivals')
    BY <1>1 DEF LoopInv
<1>3. CASE w.gen # flush_gen \/ ~flushing
  <2>1. /\ pending' = pending \ {w}
        /\ outbox' = outbox /\ flushing' = flushing /\ flush_gen' = flush_gen
        /\ in_flight' = in_flight
      BY <1>3 DEF FlushWatchdog
  <2>2. \A x \in pending : Live(x) => x # w
      BY <1>1 DEF Live
  <2>3. \A x : Live(x)' <=> Live(x)
      BY <2>1 DEF Live
  <2>4. GuardOwned'
    <3>1. {x \in pending' : Live(x)'} = {x \in pending : Live(x)}
        BY <2>1, <2>2, <2>3
    <3>2. flushing => \E d \in pending' : d.what = "watchdog" /\ d.gen = flush_gen
        BY <1>3, <2>1 DEF LoopInv, GuardOwned
    <3>3. QED
        BY <2>1, <3>1, <3>2 DEF LoopInv, GuardOwned
  <2>5. InFlightIsHead'
      BY <2>1, <2>3 DEF LoopInv, InFlightIsHead
  <2>6. QED
      BY <1>2, <2>1, <2>4, <2>5 DEF LoopInv
<1>4. CASE ~(w.gen # flush_gen \/ ~flushing)
  <2> DEFINE gen == NextGen(flush_gen)
             ps  == pending \ {w}
  <2>1. Retired(gen, pending) /\ FlushIdle(outbox, gen, ps, send_batch_budget, MaySend)
      BY <1>4 DEF FlushWatchdog
  <2>2. gen \in Gens
      BY OutboxAssumption DEF NextGen, Gens, LoopInv
  <2>3. NoSend(gen, ps) /\ ps \in SUBSET Pending
      BY <2>1 DEF Retired, NoSend, LoopInv
  <2> HIDE DEF gen, ps
  <2>4. QED
      BY <1>1, <1>2, <2>1, <2>2, <2>3, FlushIdleKeeps
<1>5. QED
    BY <1>3, <1>4

\* Charging a batch and dropping what that exhausts leaves a queue.
LEMMA ChargedIsQueue ==
    ASSUME NEW q, NEW n, IsQueue(q, n), NEW S
    PROVE  LET c == Charged(q, S)
               e == {i \in S : IsExpired(c[i])}
           IN  IsQueue(Without(c, e), n) /\ (e = {} => IsQueue(c, n))
<1> DEFINE c == Charged(q, S)
           e == {i \in S : IsExpired(c[i])}
           d == Without(c, e)
<1>1. DOMAIN c = DOMAIN q /\ c = [i \in DOMAIN c |-> c[i]]
    BY DEF Charged
<1>2. ASSUME NEW i \in DOMAIN q, i \notin e
      PROVE  c[i] \in Item /\ c[i].retries < MaxRetries
  <2>1. q[i] \in Item /\ q[i].retries < MaxRetries
      BY DEF IsQueue
  <2>2. CASE i \in S
    <3>1. c[i] = [q[i] EXCEPT !.retries = @ + 1]
        BY <2>2 DEF Charged
    <3>2. ~IsExpired(c[i])
        BY <1>2, <2>2
    <3> HIDE DEF c, e, d
    <3>3. c[i].retries = q[i].retries + 1 /\ ~(c[i].retries >= MaxRetries)
        BY <2>1, <3>1, <3>2 DEF Item, IsExpired
    <3>4. c[i].retries \in 0 .. MaxRetries /\ c[i].retries < MaxRetries
        BY <2>1, <3>3, OutboxAssumption DEF Item
    <3>5. QED
        BY <2>1, <3>1, <3>4 DEF Item
  <2>3. CASE i \notin S
    <3>1. c[i] = q[i]
        BY <2>3 DEF Charged
    <3>2. QED
        BY <2>1, <3>1
  <2>4. QED
      BY <2>2, <2>3
<1>3. DOMAIN q \subseteq 0 .. n - 1
    BY DEF IsQueue
<1>4. DOMAIN d = DOMAIN q \ e /\ d = [i \in DOMAIN d |-> d[i]]
      /\ \A i \in DOMAIN d : d[i] = c[i]
    BY <1>1 DEF Without
<1>5. e = {} => IsQueue(c, n)
  <2> HIDE DEF c, e, d
  <2>1. QED
      BY <1>1, <1>2, <1>3 DEF IsQueue
<1>6. IsQueue(d, n)
  <2> HIDE DEF c, e, d
  <2>1. QED
      BY <1>2, <1>3, <1>4 DEF IsQueue
<1>7. QED
    BY <1>5, <1>6

\* Whatever an honoured or a stale result does to the loop.
LEMMA SendResultKeeps ==
    ASSUME OutboxInv, NEW r \in pending, SendResult(r)
    PROVE  LoopInv'
<1> USE DEF OutboxInv
<1> DEFINE ps == pending \ {r}
<1>1. arrivals' = arrivals /\ arrivals \in 0 .. MaxItems /\ MaySend \in BOOLEAN
      /\ send_batch_budget \in Nat
    BY AroundTypes DEF AroundInv, SendResult, SendResultStale, SendResult401,
       SendResult429, SendResult413, SendResultFinal, SendResultTransient, queue
<1>2. IsQueue(outbox, arrivals')
    BY <1>1 DEF LoopInv
<1>3. CASE SendResultStale(r)
  <2>1. /\ pending' = pending \ {r} /\ r.what = "send" /\ r.gen # flush_gen
        /\ outbox' = outbox /\ flushing' = flushing /\ flush_gen' = flush_gen
        /\ in_flight' = in_flight
      BY <1>3 DEF SendResultStale
  <2>2. \A x : Live(x)' <=> Live(x)
      BY <2>1 DEF Live
  <2>3. GuardOwned'
    <3>1. {x \in pending' : Live(x)'} = {x \in pending : Live(x)}
        BY <2>1, <2>2 DEF Live
    <3>2. flushing => \E d \in pending' : d.what = "watchdog" /\ d.gen = flush_gen
        BY <2>1 DEF LoopInv, GuardOwned
    <3>3. QED
        BY <2>1, <3>1, <3>2 DEF LoopInv, GuardOwned
  <2>4. InFlightIsHead'
      BY <2>1, <2>2 DEF LoopInv, InFlightIsHead
  <2>5. QED
      BY <1>2, <2>1, <2>3, <2>4 DEF LoopInv
<1>4. CASE Live(r)
  <2>1. NoSend(flush_gen, ps) /\ ps \in SUBSET Pending /\ flush_gen \in Gens
      BY <1>4, AnsweredNoSend
  <2> HIDE DEF ps
  <2>2. CASE SendResult401(r) \/ SendResult429(r)
    <3>1. Rest(outbox, flush_gen, ps)
        BY <2>2 DEF SendResult401, SendResult429, ps
    <3>2. QED
        BY <1>2, <2>1, <3>1, RestKeeps
  <2>3. CASE SendResult413(r)
    <3>1. in_flight.bytes \div 2 \in Nat
      <4>1. in_flight.bytes \in Nat
        <5>1. in_flight # None
            BY <2>3 DEF SendResult413, None
        <5>2. QED
            BY <5>1 DEF LoopInv, InFlight
      <4>2. QED
          BY <4>1
    <3>2. FlushIdle(outbox, flush_gen, ps, in_flight.bytes \div 2, MaySend)
        BY <2>3 DEF SendResult413, ps
    <3>3. QED
        BY <1>1, <1>2, <2>1, <3>1, <3>2, FlushIdleKeeps
  <2>4. CASE SendResultFinal(r)
    <3> DEFINE q == IF kv_load_failed THEN outbox
                    ELSE Without(outbox, Front(outbox, in_flight.count))
    <3>1. IsQueue(q, arrivals')
        BY <1>2, WithoutIsQueue
    <3>2. FlushIdle(q, flush_gen, ps, send_batch_budget, MaySend)
        BY <2>4 DEF SendResultFinal, ps
    <3> HIDE DEF q
    <3>3. QED
        BY <1>1, <2>1, <3>1, <3>2, FlushIdleKeeps
  <2>5. CASE SendResultTransient(r)
    <3> DEFINE batch   == Front(outbox, in_flight.count)
               charged == Charged(outbox, batch)
               expired == {i \in batch : IsExpired(charged[i])}
               rest    == Without(charged, expired)
    <3>1. IsQueue(rest, arrivals') /\ (expired = {} => IsQueue(charged, arrivals'))
        BY <1>2, ChargedIsQueue
    <3>2. IF expired = {} THEN Rest(charged, flush_gen, ps)
          ELSE FlushIdle(rest, flush_gen, ps, send_batch_budget, MaySend)
        BY <2>5 DEF SendResultTransient, ps
    <3> HIDE DEF batch, charged, expired, rest
    <3>3. CASE expired = {}
        BY <2>1, <3>1, <3>2, <3>3, RestKeeps
    <3>4. CASE expired # {}
        BY <1>1, <2>1, <3>1, <3>2, <3>4, FlushIdleKeeps
    <3>5. QED
        BY <3>3, <3>4
  <2>6. QED
      BY <1>4, <2>2, <2>3, <2>4, <2>5 DEF SendResult, SendResultStale, Live
<1>5. QED
    BY <1>3, <1>4 DEF SendResult, SendResult401, SendResult429, SendResult413,
       SendResultFinal, SendResultTransient

\* The wake-ups: the queue is as it was.
LEMMA WakeKeeps ==
    ASSUME OutboxInv, StartFlush \/ Authenticated
    PROVE  LoopInv'
<1> USE DEF OutboxInv
<1>1. arrivals' = arrivals /\ arrivals \in 0 .. MaxItems /\ MaySend \in BOOLEAN
      /\ send_batch_budget \in Nat
    BY AroundTypes DEF AroundInv, StartFlush, Authenticated, queue
<1>2. IsQueue(outbox, arrivals') /\ HeadKept(outbox)
    BY <1>1, SameKeepsHead
<1>3. CASE StartFlush
  <2>1. FlushNext(outbox, MaySend)
      BY <1>3 DEF StartFlush
  <2>2. QED
      BY <1>1, <1>2, <2>1, FlushNextKeeps
<1>4. CASE Authenticated
  <2> DEFINE m == ~kv_load_failed /\ ~flush_paused
  <2>1. FlushNext(outbox, m) /\ m \in BOOLEAN
      BY <1>4 DEF Authenticated
  <2> HIDE DEF m
  <2>2. QED
      BY <1>1, <1>2, <2>1, FlushNextKeeps
<1>5. QED
    BY <1>3, <1>4

\* Switching relays abandons the send: its result will find a newer generation.
LEMMA SetServerUrlKeeps ==
    ASSUME OutboxInv, SetServerUrl
    PROVE  LoopInv'
<1> USE DEF OutboxInv
<1>1. IsQueue(outbox, arrivals')
    BY DEF LoopInv, SetServerUrl, queue
<1>2. Retired(NextGen(flush_gen), pending) /\ Rest(outbox, NextGen(flush_gen), pending)
    BY DEF SetServerUrl
<1>3. NextGen(flush_gen) \in Gens
    BY OutboxAssumption DEF NextGen, Gens, LoopInv
<1>4. NoSend(NextGen(flush_gen), pending) /\ pending \in SUBSET Pending
    BY <1>2 DEF Retired, NoSend, LoopInv
<1>5. QED
    BY <1>1, <1>2, <1>3, <1>4, RestKeeps

\* The actions that leave queue, limits or both alone keep their types.
LEMMA AroundUnchanged ==
    ASSUME AroundInv, UNCHANGED <<queue, limits, answered>>
    PROVE  AroundInv'
BY DEF AroundInv, queue, limits

\* One step of the user.
LEMMA UserKeeps ==
    ASSUME OutboxInv, User
    PROVE  OutboxInv'
<1> USE DEF OutboxInv
<1>1. CASE SaveProfile
  <2>1. LoopInv'
      BY <1>1, SaveProfileGrows, GrowsKeeps
  <2>2. arrivals' \in 0 .. MaxItems /\ profile' \in 0 .. MaxProfile
    <3>1. {p \in contacts \ blocked : Replaceable(p) = {}} \in SUBSET Peers
        BY DEF AroundInv
    <3>2. Cardinality({p \in contacts \ blocked : Replaceable(p) = {}}) \in Nat
        BY <3>1, InKeyOrderType, AroundTypes
    <3>3. QED
        BY <1>1, <3>2, AroundTypes DEF SaveProfile
  <2>3. UNCHANGED <<contacts, blocked, limits, answered>>
      BY <1>1 DEF SaveProfile
  <2>4. QED
      BY <2>1, <2>2, <2>3 DEF AroundInv, limits
<1>2. CASE SetServerUrl
  <2>1. LoopInv'
      BY <1>2, SetServerUrlKeeps
  <2>2. /\ token' = FALSE /\ send_batch_budget' = MaxBatchBytes /\ flush_paused' = FALSE
        /\ UNCHANGED <<contacts, blocked, profile, arrivals, kv_load_failed, answered>>
      BY <1>2 DEF SetServerUrl, queue
  <2>3. MaxBatchBytes \in Nat
      BY OutboxAssumption
  <2>4. QED
      BY <2>1, <2>2, <2>3 DEF AroundInv
<1>3. ASSUME NEW p \in Peers, AddContact(p) PROVE OutboxInv'
  <2>1. LoopInv'
      BY <1>3, LoopUnchanged DEF AddContact
  <2>2. QED
      BY <1>3, <2>1 DEF AddContact, AroundInv, limits
<1>4. ASSUME NEW p \in Peers, SendText(p) PROVE OutboxInv'
  <2>1. LoopInv'
      BY <1>4, SendTextGrows, GrowsKeeps
  <2>2. arrivals' \in 0 .. MaxItems
      BY <1>4, AroundTypes DEF SendText
  <2>3. contacts' = contacts \cup {p} /\ UNCHANGED <<blocked, profile, limits, answered>>
      BY <1>4 DEF SendText
  <2>4. QED
      BY <2>1, <2>2, <2>3 DEF AroundInv, limits
<1>5. ASSUME NEW p \in Peers, DeleteContact(p) PROVE OutboxInv'
  <2>1. LoopInv'
      BY <1>5, WithdrawKeeps DEF DeleteContact
  <2>2. QED
      BY <1>5, <2>1 DEF DeleteContact, AroundInv, limits
<1>6. ASSUME NEW p \in Peers, NEW on \in BOOLEAN, SetBlocked(p, on) PROVE OutboxInv'
  <2>1. LoopInv'
    <3>1. CASE on = TRUE
        BY <1>6, <3>1, WithdrawKeeps DEF SetBlocked
    <3>2. CASE on = FALSE
        BY <1>6, <3>2, LoopUnchanged DEF SetBlocked
    <3>3. QED
        BY <3>1, <3>2
  <2>2. /\ p \in contacts /\ UNCHANGED <<contacts, profile, arrivals, limits, answered>>
        /\ blocked' = blocked \cup {p} \/ blocked' = blocked \ {p}
      BY <1>6 DEF SetBlocked
  <2>3. QED
      BY <2>1, <2>2 DEF AroundInv, limits
<1>7. QED
    BY <1>1, <1>2, <1>3, <1>4, <1>5, <1>6 DEF User

\* One step of the shell's results.
LEMMA ResultKeeps ==
    ASSUME OutboxInv, NEW r \in pending, SendResult(r)
    PROVE  OutboxInv'
<1> USE DEF OutboxInv
<1>1. LoopInv'
    BY SendResultKeeps
<1>2. CASE SendResultStale(r) \/ SendResultTransient(r)
    BY <1>1, <1>2, AroundUnchanged DEF SendResultStale, SendResultTransient
<1>3. CASE SendResult401(r)
    BY <1>1, <1>3 DEF SendResult401, AroundInv, queue
<1>4. CASE SendResult429(r)
    BY <1>1, <1>4 DEF SendResult429, AroundInv, queue
<1>5. CASE SendResult413(r)
  <2>1. in_flight # None
      BY <1>5 DEF SendResult413, None
  <2>2. in_flight.bytes \div 2 \in Nat
    <3>1. in_flight.bytes \in Nat
        BY <2>1 DEF LoopInv, InFlight
    <3>2. QED
        BY <3>1
  <2>3. /\ send_batch_budget' = in_flight.bytes \div 2
        /\ UNCHANGED <<contacts, blocked, profile, arrivals, flush_paused, token,
                       kv_load_failed, answered>>
      BY <1>5 DEF SendResult413, queue
  <2>4. QED
      BY <1>1, <2>2, <2>3 DEF AroundInv
<1>6. CASE SendResultFinal(r)
  <2>1. r.batch \subseteq (0 .. MaxItems) \X (0 .. MaxProfile)
    <3>1. r \in Pending /\ r.what = "send"
        BY <1>6 DEF SendResultFinal, Live, LoopInv
    <3>2. QED
        BY <3>1 DEF Pending
  <2>2. answered' = answered \cup r.batch /\ UNCHANGED <<queue, limits>>
      BY <1>6 DEF SendResultFinal
  <2>3. QED
      BY <1>1, <2>1, <2>2 DEF AroundInv, queue, limits
<1>7. QED
    BY <1>2, <1>3, <1>4, <1>5, <1>6 DEF SendResult

\* OutboxInv is inductive.
LEMMA StepKeeps == OutboxInv /\ [Next]_vars => OutboxInv'
<1> USE DEF OutboxInv
<1> SUFFICES ASSUME OutboxInv, [Next]_vars PROVE OutboxInv'
    OBVIOUS
<1>1. CASE User
    BY <1>1, UserKeeps
<1>2. ASSUME NEW S \in SUBSET Peers, IngestPage(S) PROVE OutboxInv'
  <2>1. LoopInv'
      BY <1>2, IngestPageGrows, GrowsKeeps
  <2>2. arrivals' \in 0 .. MaxItems
    <3>1. Cardinality(S) \in Nat /\ Cardinality(S \ contacts) \in Nat /\ arrivals \in Nat
        BY InKeyOrderType, AroundTypes
    <3>2. arrivals' = arrivals + Cardinality(S \ contacts) + Cardinality(S)
          /\ arrivals + Cardinality(S \ contacts) + Cardinality(S) <= MaxItems
        BY <1>2 DEF IngestPage
    <3>3. QED
        BY <3>1, <3>2
  <2>3. contacts' = contacts \cup S /\ UNCHANGED <<blocked, profile, limits, answered>>
      BY <1>2 DEF IngestPage
  <2>4. QED
      BY <2>1, <2>2, <2>3 DEF AroundInv, limits
<1>3. CASE StartFlush
    BY <1>3, WakeKeeps, AroundUnchanged DEF StartFlush
<1>4. CASE PauseEnds
  <2>1. LoopInv'
      BY <1>4, LoopUnchanged DEF PauseEnds, queue
  <2>2. QED
      BY <1>4, <2>1 DEF PauseEnds, AroundInv, queue
<1>5. CASE Authenticated
    BY <1>5, WakeKeeps DEF Authenticated, AroundInv, queue
<1>6. CASE PollUnauthorized
  <2>1. LoopInv'
      BY <1>6, LoopUnchanged DEF PollUnauthorized, queue
  <2>2. QED
      BY <1>6, <2>1 DEF PollUnauthorized, AroundInv, queue
<1>7. CASE LoadFails
  <2>1. LoopInv'
      BY <1>7, LoopUnchanged DEF LoadFails, queue
  <2>2. QED
      BY <1>7, <2>1 DEF LoadFails, AroundInv, queue
<1>8. ASSUME NEW n \in 1 .. MaxItems, TtlPasses(n) PROVE OutboxInv'
  <2>1. n \in Nat
      BY <1>8
  <2>2. LoopInv'
      BY <1>8, <2>1, TtlPassesKeeps
  <2>3. QED
      BY <1>8, <2>2, AroundUnchanged DEF TtlPasses
<1>9. ASSUME NEW x \in pending, FlushWatchdog(x) PROVE OutboxInv'
    BY <1>9, FlushWatchdogKeeps, AroundUnchanged DEF FlushWatchdog
<1>10. ASSUME NEW x \in pending, SendResult(x) PROVE OutboxInv'
    BY <1>10, ResultKeeps
<1>11. CASE UNCHANGED vars
  <2>1. UNCHANGED <<queue, limits, answered>> /\ UNCHANGED loop /\ UNCHANGED arrivals
      BY <1>11 DEF vars, queue, limits, loop
  <2>2. QED
      BY <2>1, LoopUnchanged, AroundUnchanged
<1>12. QED
    BY <1>1, <1>2, <1>3, <1>4, <1>5, <1>6, <1>7, <1>8, <1>9, <1>10, <1>11 DEF Next

-----------------------------------------------------------------------------
(* Theorems *)

\* The inductive invariant holds in every reachable state.
THEOREM InvariantHolds == Spec => []OutboxInv
BY InitInv, StepKeeps, PTL DEF Spec

\* Every variable of the send loop keeps its type, for any number of peers, items
\* and generations: arrival numbers are below `arrivals`, and every queued item
\* has retry budget left.
THEOREM TypeCorrect == Spec => []TypeOK
<1>1. OutboxInv => TypeOK
    BY DEF OutboxInv, AroundInv, LoopInv, IsQueue, TypeOK
<1>2. QED
    BY <1>1, InvariantHolds, PTL

\* The send loop's guard is up exactly while the one live request is unanswered,
\* and its watchdog is armed: no interleaving of results, timeouts, relay switches
\* and user actions leaks the guard or puts two live requests on the wire.
THEOREM GuardIsOwned == Spec => []GuardOwned
<1>1. OutboxInv => GuardOwned
    BY DEF OutboxInv, LoopInv
<1>2. QED
    BY <1>1, InvariantHolds, PTL

\* An honoured result pops exactly the items its request carried, payload for
\* payload, whatever was queued, superseded, withdrawn or aged since.
THEOREM ResultPopsItsBatch == Spec => []InFlightIsHead
<1>1. OutboxInv => InFlightIsHead
    BY DEF OutboxInv, LoopInv
<1>2. QED
    BY <1>1, InvariantHolds, PTL

-----------------------------------------------------------------------------
(* What happens to the mail: what a relay has answered for is never queued again,  *)
(* nothing is queued for or sent to a peer who is blocked or no contact, and no     *)
(* item leaves without a reason.  The inductive invariant for that:                 *)

\* Mail is queued only for contacts that are not blocked.
Wanted == \A i \in DOMAIN outbox : outbox[i].to \in contacts \ blocked

\* What was answered for has an old number, and that number is no longer queued.
Settled ==
    \A a \in answered : a[1] < arrivals /\ (kv_load_failed \/ a[1] \notin DOMAIN outbox)

\* A live request that was detached carries nothing that is still queued.
Detached ==
    in_flight = None =>
        \A r \in pending : Live(r) =>
            \A a \in r.batch : a[1] < arrivals /\ a[1] \notin DOMAIN outbox

MailInv == Wanted /\ Settled /\ Detached

-----------------------------------------------------------------------------
(* The two action properties, as actions *)

\* Why item i may leave in a step.
Reason(i) ==
    \/ <<i, outbox[i].payload>> \in answered'
    \/ outbox[i].to \in blocked' \cup (Peers \ contacts')
    \/ outbox[i].to \in BadKeys
    \/ /\ IsExpired([outbox[i] EXCEPT !.retries = @ + 1])
       /\ \E r \in pending \ pending' :
             Live(r) /\ <<i, outbox[i].payload>> \in r.batch

Leaves == \A i \in DOMAIN outbox \ DOMAIN outbox' : Reason(i)

Sends ==
    \A r \in pending' \ pending : r.what = "send" =>
        /\ r.to \in contacts' \ blocked'
        /\ token' /\ ~flush_paused' /\ ~kv_load_failed'

Delivery == MailInv' /\ Leaves /\ Sends

-----------------------------------------------------------------------------
(* What flush_next does with the mail *)

\* Entered with queue q and requests ps: the queue loses unusable recipients at
\* most, nothing is readdressed, and a new request, which `on` permits, goes to
\* somebody in the queue, under a number nothing in ps has.
Outcome(q, ps, on) ==
    /\ DOMAIN outbox' \subseteq DOMAIN q
    /\ \A i \in DOMAIN outbox' : outbox'[i].to = q[i].to
    /\ \A i \in DOMAIN q \ DOMAIN outbox' : q[i].to \in BadKeys
    /\ \A r \in pending' \ ps : r.what = "send" => on /\ \E i \in DOMAIN q : r.to = q[i].to
    /\ \A r \in pending' \ ps : Retired(r.gen, ps)

LEMMA RestOutcome ==
    ASSUME NEW q, NEW g, NEW ps, NEW on, Rest(q, g, ps)
    PROVE  Outcome(q, ps, on) /\ ~flushing'
BY DEF Rest, Outcome

LEMMA SendOutcome ==
    ASSUME NEW q, NEW n \in Nat, IsQueue(q, n), NEW g, NEW ps, NEW budget \in Nat,
           Batch(q, budget) # {}, Send(q, g, ps, budget)
    PROVE  Outcome(q, ps, TRUE) /\ in_flight' # None
<1> DEFINE B    == Batch(q, budget)
           gen  == NextGen(g)
           peer == CHOOSE p \in Peers : \E i \in B : q[i].to = p
           req  == [what |-> "send", gen |-> gen, to |-> peer, batch |-> Carried(q, B)]
           dog  == [what |-> "watchdog", gen |-> gen]
<1>1. /\ outbox' = Stamped(q, B)
      /\ in_flight' = [recipient |-> peer, count |-> Cardinality(B), bytes |-> Bytes(q, B)]
      /\ pending' = ps \cup {req, dog}
      /\ Retired(gen, ps)
    BY DEF Send
<1>2. B \subseteq DOMAIN q
    BY DEF Batch
<1>3. /\ DOMAIN outbox' = DOMAIN q
      /\ \A i \in DOMAIN q : outbox'[i].to = q[i].to
    BY <1>1, StampedIsQueue
<1>4. \E i \in DOMAIN q : q[i].to = peer
  <2>1. \A i \in B : q[i].to \in Peers
      BY <1>2 DEF IsQueue, Item
  <2>2. \E p \in Peers : \E i \in B : q[i].to = p
      BY <2>1
  <2>3. \E i \in B : q[i].to = peer
      BY <2>2
  <2>4. QED
      BY <2>3, <1>2
<1>5. in_flight' # None
  <2>1. IsFiniteSet(B)
      BY <1>2, QueueFinite, FS_Subset
  <2>2. Cardinality(B) # 0
      BY <2>1, FS_EmptySet
  <2> HIDE DEF B, peer
  <2>3. in_flight'.count # 0
      BY <1>1, <2>2
  <2>4. QED
      BY <2>3 DEF None
<1>6. \A r \in pending' \ ps : r.gen = gen /\ (r.what = "send" => r.to = peer)
    BY <1>1
<1> HIDE DEF B, gen, peer, req, dog
<1>7. QED
    BY <1>1, <1>3, <1>4, <1>5, <1>6 DEF Outcome

LEMMA FlushIdleOutcome ==
    ASSUME NEW q, NEW n \in Nat, IsQueue(q, n), NEW g, NEW ps, NEW budget \in Nat,
           NEW m \in BOOLEAN, FlushIdle(q, g, ps, budget, m)
    PROVE  Outcome(q, ps, m) /\ (in_flight' = None => ~flushing')
<1> DEFINE usable == Without(q, BadHead(q))
<1>1. IsQueue(usable, n)
    BY WithoutIsQueue
<1>2. /\ DOMAIN usable \subseteq DOMAIN q
      /\ \A i \in DOMAIN usable : usable[i] = q[i]
      /\ \A i \in DOMAIN q \ DOMAIN usable : q[i].to \in BadKeys
  <2>1. ASSUME NEW i \in DOMAIN q \ DOMAIN usable PROVE q[i].to \in BadKeys
    <3>1. i \in BadHead(q) /\ i \in DOMAIN q
        BY <2>1 DEF Without
    <3>2. i \in DOMAIN q /\ i <= i
        BY <3>1 DEF IsQueue
    <3>3. QED
        BY <3>1, <3>2 DEF BadHead, UpTo
  <2>2. QED
      BY <2>1 DEF Without
<1>3. CASE m = FALSE
    BY <1>3, RestOutcome DEF FlushIdle
<1>4. CASE m = TRUE /\ Batch(usable, budget) = {}
  <2>1. Rest(usable, g, ps)
      BY <1>4 DEF FlushIdle
  <2> HIDE DEF usable
  <2>2. Outcome(usable, ps, m) /\ ~flushing'
      BY <2>1, RestOutcome
  <2>3. QED
      BY <1>2, <2>2 DEF Outcome
<1>5. CASE m = TRUE /\ Batch(usable, budget) # {}
  <2>1. Send(usable, g, ps, budget)
      BY <1>5 DEF FlushIdle
  <2> HIDE DEF usable
  <2>2. Outcome(usable, ps, TRUE) /\ in_flight' # None
      BY <1>1, <1>5, <2>1, SendOutcome
  <2>3. QED
      BY <1>2, <1>5, <2>2 DEF Outcome
<1>6. QED
    BY <1>3, <1>4, <1>5

\* From the outcome to the properties: what is required of the queue flush_next
\* was entered with.
LEMMA OutcomeDelivers ==
    ASSUME NEW q, NEW ps \in SUBSET pending, NEW on, Outcome(q, ps, on),
           \A i \in DOMAIN q : q[i].to \in contacts' \ blocked',
           on => token' /\ ~flush_paused' /\ ~kv_load_failed',
           \A a \in answered' : a[1] < arrivals' /\ (kv_load_failed' \/ a[1] \notin DOMAIN q),
           \A i \in DOMAIN outbox \ DOMAIN q : Reason(i),
           \A i \in DOMAIN outbox \cap DOMAIN q : q[i].to = outbox[i].to,
           Detached'
    PROVE  Delivery
<1>1. Wanted'
    BY DEF Wanted, Outcome
<1>2. Settled'
    BY DEF Settled, Outcome
<1>3. Leaves
  <2>1. ASSUME NEW i \in DOMAIN outbox \ DOMAIN outbox', i \in DOMAIN q PROVE Reason(i)
      BY <2>1 DEF Outcome, Reason
  <2>2. QED
      BY <2>1 DEF Leaves
<1>4. Sends
    BY DEF Sends, Outcome
<1>5. QED
    BY <1>1, <1>2, <1>3, <1>4 DEF Delivery, MailInv

\* Nothing live, nothing detached.
LEMMA IdleIsNotDetached ==
    ASSUME OutboxInv', in_flight' = None => ~flushing'
    PROVE  Detached'
BY DEF OutboxInv, LoopInv, GuardOwned, Detached

-----------------------------------------------------------------------------
(* Each action *)

\* An event after which the same mail is queued and no request is new.
LEMMA QuietDelivers ==
    ASSUME OutboxInv, MailInv,
           DOMAIN outbox' = DOMAIN outbox,
           \A i \in DOMAIN outbox : outbox'[i].to = outbox[i].to,
           pending' \subseteq pending,
           UNCHANGED <<flush_gen, in_flight, arrivals, answered>>,
           contacts \subseteq contacts', blocked' \subseteq blocked,
           kv_load_failed => kv_load_failed'
    PROVE  Delivery
<1>1. Wanted'
    BY DEF MailInv, Wanted
<1>2. Settled'
    BY DEF MailInv, Settled
<1>3. Detached'
    BY DEF MailInv, Detached, Live
<1>4. Leaves /\ Sends
    BY DEF Leaves, Sends
<1>5. QED
    BY <1>1, <1>2, <1>3, <1>4 DEF Delivery, MailInv

\* flush_next after mail was added.
LEMMA GrownDelivers ==
    ASSUME OutboxInv, OutboxInv', MailInv,
           NEW C, NEW q, Grown(q, C), NEW m \in BOOLEAN, FlushNext(q, m),
           arrivals <= arrivals',
           C \subseteq contacts' \ blocked', contacts \subseteq contacts',
           UNCHANGED <<blocked, kv_load_failed, answered>>,
           m => token' /\ ~flush_paused' /\ ~kv_load_failed'
    PROVE  Delivery
<1>1. /\ IsQueue(q, arrivals')
      /\ DOMAIN outbox \subseteq DOMAIN q
      /\ \A i \in DOMAIN outbox : q[i].to = outbox[i].to
      /\ \A i \in DOMAIN q \ DOMAIN outbox : i >= arrivals /\ q[i].to \in C
    BY DEF Grown
<1>2. arrivals \in Nat /\ arrivals' \in Nat /\ send_batch_budget \in Nat
    BY AroundTypes DEF OutboxInv, AroundInv
<1>3. \A i \in DOMAIN q : q[i].to \in contacts' \ blocked'
  <2>1. ASSUME NEW i \in DOMAIN outbox PROVE q[i].to \in contacts' \ blocked'
      BY <1>1 DEF MailInv, Wanted
  <2>2. QED
      BY <1>1, <2>1
<1>4. answered \subseteq (0 .. MaxItems) \X (0 .. MaxProfile)
    BY DEF OutboxInv, AroundInv
<1>5. \A a \in answered' : a[1] < arrivals' /\ (kv_load_failed' \/ a[1] \notin DOMAIN q)
  <2>1. SUFFICES ASSUME NEW a \in answered
                 PROVE  a[1] < arrivals' /\ (kv_load_failed \/ a[1] \notin DOMAIN q)
      OBVIOUS
  <2>2. a[1] \in Nat /\ a[1] < arrivals /\ (kv_load_failed \/ a[1] \notin DOMAIN outbox)
      BY <1>4 DEF MailInv, Settled
  <2>3. a[1] < arrivals' /\ ~(a[1] >= arrivals)
      BY <1>2, <2>2
  <2>4. QED
      BY <1>1, <2>2, <2>3
<1>6. /\ \A i \in DOMAIN outbox \ DOMAIN q : Reason(i)
      /\ \A i \in DOMAIN outbox \cap DOMAIN q : q[i].to = outbox[i].to
    BY <1>1
<1>7. CASE flushing
  <2>1. outbox' = q /\ UNCHANGED <<flushing, flush_gen, in_flight, pending>>
      BY <1>7 DEF FlushNext
  <2>2. Outcome(q, pending, m)
      BY <2>1 DEF Outcome
  <2>3. Detached'
    <3>1. SUFFICES ASSUME in_flight = None, NEW r \in pending, Live(r), NEW a \in r.batch
                   PROVE  a[1] < arrivals' /\ a[1] \notin DOMAIN q
        BY <2>1 DEF Detached, Live
    <3>2. a[1] < arrivals /\ a[1] \notin DOMAIN outbox
        BY <3>1 DEF MailInv, Detached
    <3>3. a[1] \in Nat
        BY <3>1 DEF OutboxInv, LoopInv, Live, Pending
    <3>4. a[1] < arrivals' /\ ~(a[1] >= arrivals)
        BY <1>2, <3>2, <3>3
    <3>5. QED
        BY <1>1, <3>2, <3>4
  <2>4. QED
      BY <1>3, <1>5, <1>6, <2>2, <2>3, OutcomeDelivers
<1>8. CASE ~flushing
  <2>1. FlushIdle(q, flush_gen, pending, send_batch_budget, m)
      BY <1>8 DEF FlushNext
  <2>2. Outcome(q, pending, m) /\ (in_flight' = None => ~flushing')
      BY <1>1, <1>2, <2>1, FlushIdleOutcome
  <2>3. Detached'
      BY <2>2, IdleIsNotDetached
  <2>4. QED
      BY <1>3, <1>5, <1>6, <2>2, <2>3, OutcomeDelivers
<1>9. QED
    BY <1>7, <1>8

\* Mail to new and old contacts.
LEMMA GrowsDelivers ==
    ASSUME OutboxInv, OutboxInv', MailInv, NEW C, Grows(C),
           C \subseteq contacts' \ blocked', contacts \subseteq contacts',
           UNCHANGED <<blocked, limits, answered>>
    PROVE  Delivery
<1>1. PICK q : Grown(q, C) /\ FlushNext(q, MaySend)
    BY DEF Grows
<1>2. /\ UNCHANGED <<blocked, kv_load_failed, answered>>
      /\ MaySend => token' /\ ~flush_paused' /\ ~kv_load_failed'
    BY DEF limits, MaySend
<1>3. MaySend \in BOOLEAN /\ arrivals <= arrivals'
    BY AroundTypes DEF OutboxInv, Grows
<1>4. QED
    BY <1>1, <1>2, <1>3, GrownDelivers

\* The wake-ups.
LEMMA WakeDelivers ==
    ASSUME OutboxInv, OutboxInv', MailInv, NEW m \in BOOLEAN, FlushNext(outbox, m),
           UNCHANGED <<queue, kv_load_failed, answered>>,
           m => token' /\ ~flush_paused' /\ ~kv_load_failed'
    PROVE  Delivery
<1>1. /\ UNCHANGED <<blocked, kv_load_failed, answered>>
      /\ contacts' = contacts /\ arrivals' = arrivals /\ arrivals \in Nat
    BY AroundTypes DEF queue, OutboxInv
<1>2. Grown(outbox, {})
    BY <1>1, SameKeepsHead DEF Grown, OutboxInv
<1>3. arrivals <= arrivals'
    BY <1>1
<1>4. QED
    BY <1>1, <1>2, <1>3, GrownDelivers

\* Blocking or deleting a peer.
LEMMA WithdrawDelivers ==
    ASSUME OutboxInv, MailInv, NEW p \in Peers, Withdraw(p),
           UNCHANGED <<arrivals, kv_load_failed, answered>>,
           contacts \ {p} \subseteq contacts', blocked' \subseteq blocked \cup {p},
           p \in blocked' \cup (Peers \ contacts')
    PROVE  Delivery
<1>1. /\ DOMAIN outbox' = {i \in DOMAIN outbox : outbox[i].to # p}
      /\ \A i \in DOMAIN outbox' : outbox'[i] = outbox[i]
      /\ UNCHANGED <<flushing, flush_gen, pending>>
    BY DEF Withdraw, Without
<1>2. Wanted'
    BY <1>1 DEF MailInv, Wanted
<1>3. Settled'
    BY <1>1 DEF MailInv, Settled
<1>4. Detached'
  <2>1. SUFFICES ASSUME in_flight' = None, NEW r \in pending, Live(r), NEW a \in r.batch
                 PROVE  a[1] < arrivals /\ a[1] \notin DOMAIN outbox'
      BY <1>1 DEF Detached, Live
  <2>2. CASE in_flight = None
      BY <1>1, <2>1, <2>2 DEF MailInv, Detached
  <2>3. CASE in_flight # None
    <3>1. in_flight.recipient = p
        BY <2>1, <2>3 DEF Withdraw
    <3>2. /\ r.batch = Carried(outbox, Front(outbox, in_flight.count))
          /\ \A i \in Front(outbox, in_flight.count) : outbox[i].to = p
        BY <2>1, <2>3, <3>1 DEF OutboxInv, LoopInv, InFlightIsHead
    <3>3. a[1] \in DOMAIN outbox /\ outbox[a[1]].to = p
        BY <2>1, <3>2 DEF Carried, Front
    <3>4. a[1] < arrivals
        BY <3>3, AroundTypes DEF OutboxInv, LoopInv, IsQueue
    <3>5. QED
        BY <1>1, <3>3, <3>4
  <2>4. QED
      BY <2>2, <2>3
<1>5. Leaves
    BY <1>1 DEF Leaves, Reason
<1>6. Sends
    BY <1>1 DEF Sends
<1>7. QED
    BY <1>2, <1>3, <1>4, <1>5, <1>6 DEF Delivery, MailInv

\* Ending the send in flight, whatever is done with it: the queue flush_next or
\* Rest is left with has lost nothing without a reason.
LEMMA EndedDelivers ==
    ASSUME OutboxInv, OutboxInv', MailInv,
           NEW q, IsQueue(q, arrivals), NEW g, NEW ps \in SUBSET pending,
           NEW budget \in Nat, NEW m \in BOOLEAN,
           Rest(q, g, ps) \/ FlushIdle(q, g, ps, budget, m),
           m => token' /\ ~flush_paused' /\ ~kv_load_failed',
           DOMAIN q \subseteq DOMAIN outbox,
           \A i \in DOMAIN q : q[i].to = outbox[i].to,
           UNCHANGED <<contacts, blocked, arrivals>>,
           \A a \in answered' : a[1] < arrivals /\ (kv_load_failed' \/ a[1] \notin DOMAIN q),
           Outcome(q, ps, m) => \A i \in DOMAIN outbox \ DOMAIN q : Reason(i)
    PROVE  Delivery
<1>1. arrivals \in Nat
    BY AroundTypes DEF OutboxInv
<1>2. Outcome(q, ps, m) /\ (in_flight' = None => ~flushing')
    BY <1>1, RestOutcome, FlushIdleOutcome
<1>3. Detached'
    BY <1>2, IdleIsNotDetached
<1>4. \A i \in DOMAIN q : q[i].to \in contacts' \ blocked'
    BY DEF MailInv, Wanted
<1>5. QED
    BY <1>2, <1>3, <1>4, OutcomeDelivers

\* The head of no items.
LEMMA NothingInFront ==
    ASSUME OutboxInv PROVE Front(outbox, None.count) = {}
<1>1. IsFiniteSet(DOMAIN outbox)
    BY QueueFinite, AroundTypes DEF OutboxInv, LoopInv
<1>2. \A i \in DOMAIN outbox : Cardinality(Before(outbox, i)) \in Nat
    BY <1>1, FS_Subset, FS_CardinalityType DEF Before
<1>3. None.count = 0
    BY DEF None
<1>4. QED
    BY <1>2, <1>3 DEF Front

\* The live request carries the head of the queue, as it stands there, or was
\* detached and carries nothing that is queued; its numbers are all old.
LEMMA WhatItCarries ==
    ASSUME OutboxInv, MailInv, NEW r \in pending, Live(r)
    PROVE  /\ \A i \in Front(outbox, in_flight.count) :
                 i \in DOMAIN outbox /\ <<i, outbox[i].payload>> \in r.batch
           /\ \A a \in r.batch : /\ a[1] < arrivals
                                 /\ \/ a[1] \notin DOMAIN outbox
                                    \/ a[1] \in Front(outbox, in_flight.count)
<1>1. CASE in_flight = None
    BY <1>1, NothingInFront DEF MailInv, Detached
<1>2. CASE in_flight # None
  <2>1. r.batch = Carried(outbox, Front(outbox, in_flight.count))
      BY <1>2 DEF OutboxInv, LoopInv, InFlightIsHead
  <2>2. \A i \in Front(outbox, in_flight.count) : i \in DOMAIN outbox
      BY DEF Front
  <2>3. \A i \in DOMAIN outbox : i < arrivals
      BY AroundTypes DEF OutboxInv, LoopInv, IsQueue
  <2>4. QED
      BY <2>1, <2>2, <2>3 DEF Carried
<1>3. QED
    BY <1>1, <1>2

\* What flush_next sends next has another generation than the request just
\* answered: that one's watchdog is still armed.
LEMMA AnsweredIsOver ==
    ASSUME OutboxInv, NEW r \in pending, Live(r),
           NEW q, NEW m, Outcome(q, pending \ {r}, m)
    PROVE  r \in pending \ pending'
<1>1. PICK w \in pending : w.what = "watchdog" /\ w.gen = flush_gen
    BY DEF OutboxInv, LoopInv, GuardOwned
<1>2. w \in pending \ {r} /\ r.gen = w.gen
    BY <1>1 DEF Live
<1>3. ~Retired(r.gen, pending \ {r})
    BY <1>2 DEF Retired
<1>4. QED
    BY <1>3 DEF Outcome

\* The result of a send.
LEMMA SendResultDelivers ==
    ASSUME OutboxInv, OutboxInv', MailInv, NEW r \in pending, SendResult(r)
    PROVE  Delivery
<1> DEFINE ps == pending \ {r}
<1>1. /\ ps \in SUBSET pending /\ MaySend \in BOOLEAN /\ FALSE \in BOOLEAN
      /\ send_batch_budget \in Nat /\ IsQueue(outbox, arrivals)
    BY AroundTypes DEF OutboxInv, AroundInv, LoopInv
<1>2. CASE SendResultStale(r)
    BY <1>2, QuietDelivers DEF SendResultStale, queue, limits
<1>3. UNCHANGED <<contacts, blocked, arrivals>>
    BY DEF SendResult, SendResultStale, SendResult401, SendResult429, SendResult413,
       SendResultFinal, SendResultTransient, queue
<1>4. \A a \in answered : a[1] < arrivals /\ (kv_load_failed \/ a[1] \notin DOMAIN outbox)
    BY DEF MailInv, Settled
<1>5. CASE SendResult401(r) \/ SendResult429(r)
  <2>1. Rest(outbox, flush_gen, ps) /\ UNCHANGED <<kv_load_failed, answered>>
      BY <1>5 DEF SendResult401, SendResult429
  <2> HIDE DEF ps
  <2>2. QED
      BY <1>1, <1>3, <1>4, <2>1, EndedDelivers
<1>6. CASE SendResult413(r)
  <2>1. /\ FlushIdle(outbox, flush_gen, ps, in_flight.bytes \div 2, MaySend)
        /\ UNCHANGED <<flush_paused, token, kv_load_failed, answered>>
      BY <1>6 DEF SendResult413
  <2>2. in_flight.bytes \div 2 \in Nat
    <3>1. in_flight # None
        BY <1>6 DEF SendResult413, None
    <3>2. in_flight.bytes \in Nat
        BY <3>1 DEF OutboxInv, LoopInv, InFlight
    <3>3. QED
        BY <3>2
  <2> HIDE DEF ps
  <2>3. MaySend => token' /\ ~flush_paused' /\ ~kv_load_failed'
      BY <2>1 DEF MaySend
  <2>4. QED
      BY <1>1, <1>3, <1>4, <2>1, <2>2, <2>3, EndedDelivers
<1>7. CASE SendResultFinal(r)
  <2> DEFINE F == Front(outbox, in_flight.count)
             q == IF kv_load_failed THEN outbox ELSE Without(outbox, F)
  <2>1. /\ FlushIdle(q, flush_gen, ps, send_batch_budget, MaySend)
        /\ answered' = answered \cup r.batch
        /\ UNCHANGED <<flush_paused, token, kv_load_failed>> /\ Live(r)
      BY <1>7 DEF SendResultFinal, limits
  <2>2. /\ \A i \in F : i \in DOMAIN outbox /\ <<i, outbox[i].payload>> \in r.batch
        /\ \A a \in r.batch : a[1] < arrivals /\ (a[1] \notin DOMAIN outbox \/ a[1] \in F)
      BY <2>1, WhatItCarries
  <2>3. IsQueue(q, arrivals)
      BY <1>1, WithoutIsQueue
  <2>4. /\ DOMAIN q \subseteq DOMAIN outbox
        /\ \A i \in DOMAIN q : q[i].to = outbox[i].to
        /\ \A i \in DOMAIN outbox \ DOMAIN q : i \in F
        /\ kv_load_failed \/ \A i \in DOMAIN q : i \notin F
      BY DEF Without
  <2> HIDE DEF q, F, ps
  <2>5. \A a \in answered' : a[1] < arrivals /\ (kv_load_failed' \/ a[1] \notin DOMAIN q)
      BY <1>4, <2>1, <2>2, <2>4
  <2>6. \A i \in DOMAIN outbox \ DOMAIN q : Reason(i)
      BY <2>1, <2>2, <2>4 DEF Reason
  <2>7. MaySend => token' /\ ~flush_paused' /\ ~kv_load_failed'
      BY <2>1 DEF MaySend
  <2>8. QED
      BY <1>1, <1>3, <2>1, <2>3, <2>4, <2>5, <2>6, <2>7, EndedDelivers
<1>8. CASE SendResultTransient(r)
  <2> DEFINE batch   == Front(outbox, in_flight.count)
             charged == Charged(outbox, batch)
             expired == {i \in batch : IsExpired(charged[i])}
             q       == IF expired = {} THEN charged ELSE Without(charged, expired)
  <2>1. /\ Rest(q, flush_gen, ps)
             \/ FlushIdle(q, flush_gen, ps, send_batch_budget, MaySend)
        /\ UNCHANGED <<flush_paused, token, kv_load_failed, answered>> /\ Live(r)
      BY <1>8 DEF SendResultTransient, limits
  <2>2. \A i \in batch : i \in DOMAIN outbox /\ <<i, outbox[i].payload>> \in r.batch
      BY <2>1, WhatItCarries
  <2>3. IsQueue(q, arrivals)
      BY <1>1, ChargedIsQueue
  <2>4. /\ DOMAIN charged = DOMAIN outbox
        /\ \A i \in DOMAIN outbox : charged[i].to = outbox[i].to
        /\ \A i \in batch : charged[i] = [outbox[i] EXCEPT !.retries = @ + 1]
    <3>1. \A i \in DOMAIN outbox : outbox[i] \in Item
        BY <1>1 DEF IsQueue
    <3>2. \A i \in DOMAIN outbox : [outbox[i] EXCEPT !.retries = @ + 1].to = outbox[i].to
        BY <3>1 DEF Item
    <3> HIDE DEF batch
    <3>3. QED
        BY <2>2, <3>2 DEF Charged
  <2>5. /\ DOMAIN q \subseteq DOMAIN outbox
        /\ \A i \in DOMAIN q : q[i].to = outbox[i].to
        /\ \A i \in DOMAIN outbox \ DOMAIN q : i \in expired
    <3> HIDE DEF charged, expired
    <3>1. QED
        BY <2>4 DEF Without
  <2>6. \A i \in expired : /\ i \in batch
                           /\ IsExpired([outbox[i] EXCEPT !.retries = @ + 1])
      BY <2>4
  <2> HIDE DEF q, batch, charged, expired
  <2>7. Outcome(q, ps, MaySend) => \A i \in DOMAIN outbox \ DOMAIN q : Reason(i)
    <3>1. SUFFICES ASSUME Outcome(q, ps, MaySend), NEW i \in DOMAIN outbox \ DOMAIN q
                   PROVE  Reason(i)
        OBVIOUS
    <3>2. r \in pending \ pending'
        BY <2>1, <3>1, AnsweredIsOver
    <3>3. /\ IsExpired([outbox[i] EXCEPT !.retries = @ + 1])
          /\ <<i, outbox[i].payload>> \in r.batch
        BY <2>2, <2>5, <2>6
    <3>4. QED
        BY <2>1, <3>2, <3>3 DEF Reason
  <2> HIDE DEF ps
  <2>8. \A a \in answered' : a[1] < arrivals /\ (kv_load_failed' \/ a[1] \notin DOMAIN q)
      BY <1>4, <2>1, <2>5
  <2>9. MaySend => token' /\ ~flush_paused' /\ ~kv_load_failed'
      BY <2>1 DEF MaySend
  <2>10. QED
      BY <1>1, <1>3, <2>1, <2>3, <2>5, <2>7, <2>8, <2>9, EndedDelivers
<1>9. QED
    BY <1>2, <1>5, <1>6, <1>7, <1>8 DEF SendResult

\* A watchdog: stale, or freeing the loop of a lost request.
LEMMA WatchdogDelivers ==
    ASSUME OutboxInv, OutboxInv', MailInv, NEW w \in pending, FlushWatchdog(w)
    PROVE  Delivery
<1> DEFINE ps == pending \ {w}
<1>1. /\ ps \in SUBSET pending /\ MaySend \in BOOLEAN
      /\ send_batch_budget \in Nat /\ IsQueue(outbox, arrivals)
    BY AroundTypes DEF OutboxInv, AroundInv, LoopInv
<1>2. UNCHANGED <<contacts, blocked, arrivals, flush_paused, token, kv_load_failed, answered>>
    BY DEF FlushWatchdog, queue, limits
<1>3. CASE w.gen # flush_gen \/ ~flushing
  <2>1. /\ pending' = ps /\ UNCHANGED <<outbox, flush_gen, in_flight>>
      BY <1>3 DEF FlushWatchdog
  <2>2. QED
      BY <1>1, <1>2, <2>1, QuietDelivers
<1>4. CASE ~(w.gen # flush_gen \/ ~flushing)
  <2>1. FlushIdle(outbox, NextGen(flush_gen), ps, send_batch_budget, MaySend)
      BY <1>4 DEF FlushWatchdog
  <2> HIDE DEF ps
  <2>2. \A a \in answered' : a[1] < arrivals /\ (kv_load_failed' \/ a[1] \notin DOMAIN outbox)
      BY <1>2 DEF MailInv, Settled
  <2>3. MaySend => token' /\ ~flush_paused' /\ ~kv_load_failed'
      BY <1>2 DEF MaySend
  <2>4. QED
      BY <1>1, <1>2, <2>1, <2>2, <2>3, EndedDelivers
<1>5. QED
    BY <1>3, <1>4

\* Switching relays.
LEMMA SetServerUrlDelivers ==
    ASSUME OutboxInv, OutboxInv', MailInv, SetServerUrl
    PROVE  Delivery
<1>1. /\ Rest(outbox, NextGen(flush_gen), pending)
      /\ UNCHANGED <<contacts, blocked, arrivals, kv_load_failed, answered>>
    BY DEF SetServerUrl, queue
<1>2. pending \in SUBSET pending /\ FALSE \in BOOLEAN /\ 0 \in Nat /\ IsQueue(outbox, arrivals)
    BY DEF OutboxInv, LoopInv
<1>3. \A a \in answered' : a[1] < arrivals /\ (kv_load_failed' \/ a[1] \notin DOMAIN outbox)
    BY <1>1 DEF MailInv, Settled
<1>4. QED
    BY <1>1, <1>2, <1>3, EndedDelivers

\* A step of the user.
LEMMA UserDelivers ==
    ASSUME OutboxInv, OutboxInv', MailInv, User
    PROVE  Delivery
<1>1. CASE SaveProfile
  <2>1. UNCHANGED <<contacts, blocked, limits, answered>>
      BY <1>1 DEF SaveProfile
  <2>2. QED
      BY <1>1, <2>1, SaveProfileGrows, GrowsDelivers
<1>2. CASE SetServerUrl
    BY <1>2, SetServerUrlDelivers
<1>3. ASSUME NEW p \in Peers, AddContact(p) PROVE Delivery
    BY <1>3, QuietDelivers DEF AddContact, loop, limits
<1>4. ASSUME NEW p \in Peers, SendText(p) PROVE Delivery
  <2>1. /\ p \notin blocked /\ contacts' = contacts \cup {p}
        /\ UNCHANGED <<blocked, limits, answered>>
      BY <1>4 DEF SendText
  <2>2. Grows({p})
      BY <1>4, SendTextGrows
  <2>3. QED
      BY <2>1, <2>2, GrowsDelivers
<1>5. ASSUME NEW p \in Peers, DeleteContact(p) PROVE Delivery
    BY <1>5, WithdrawDelivers DEF DeleteContact, limits
<1>6. ASSUME NEW p \in Peers, NEW on \in BOOLEAN, SetBlocked(p, on) PROVE Delivery
  <2>1. CASE on = TRUE
      BY <1>6, <2>1, WithdrawDelivers DEF SetBlocked, limits
  <2>2. CASE on = FALSE
      BY <1>6, <2>2, QuietDelivers DEF SetBlocked, loop, limits
  <2>3. QED
      BY <2>1, <2>2
<1>7. QED
    BY <1>1, <1>2, <1>3, <1>4, <1>5, <1>6 DEF User

\* Every step delivers.
LEMMA EveryStepDelivers ==
    ASSUME OutboxInv, OutboxInv', MailInv, [Next]_vars
    PROVE  Delivery
<1>1. CASE User
    BY <1>1, UserDelivers
<1>2. ASSUME NEW S \in SUBSET Peers, IngestPage(S) PROVE Delivery
  <2>1. /\ S \cap blocked = {} /\ contacts' = contacts \cup S
        /\ UNCHANGED <<blocked, limits, answered>>
      BY <1>2 DEF IngestPage
  <2>2. Grows(S)
      BY <1>2, IngestPageGrows
  <2>3. QED
      BY <2>1, <2>2, GrowsDelivers
<1>3. CASE StartFlush
  <2>1. /\ FlushNext(outbox, MaySend) /\ UNCHANGED <<queue, kv_load_failed, answered>>
        /\ MaySend => token' /\ ~flush_paused' /\ ~kv_load_failed'
      BY <1>3 DEF StartFlush, limits, MaySend
  <2>2. MaySend \in BOOLEAN
      BY AroundTypes DEF OutboxInv
  <2>3. QED
      BY <2>1, <2>2, WakeDelivers
<1>4. CASE PauseEnds
    BY <1>4, QuietDelivers DEF PauseEnds, queue, loop
<1>5. CASE Authenticated
  <2> DEFINE m == ~kv_load_failed /\ ~flush_paused
  <2>1. /\ FlushNext(outbox, m) /\ UNCHANGED <<queue, kv_load_failed, answered>>
        /\ m => token' /\ ~flush_paused' /\ ~kv_load_failed'
        /\ m \in BOOLEAN
      BY <1>5 DEF Authenticated
  <2> HIDE DEF m
  <2>2. QED
      BY <2>1, WakeDelivers
<1>6. CASE PollUnauthorized
    BY <1>6, QuietDelivers DEF PollUnauthorized, queue, loop
<1>7. CASE LoadFails
    BY <1>7, QuietDelivers DEF LoadFails, queue, loop
<1>8. ASSUME NEW n \in 1 .. MaxItems, TtlPasses(n) PROVE Delivery
  <2>1. DOMAIN outbox' = DOMAIN outbox
      BY <1>8 DEF TtlPasses
  <2>2. \A i \in DOMAIN outbox : outbox'[i].to = outbox[i].to
    <3>1. \A i \in DOMAIN outbox : outbox[i] \in Item
        BY DEF OutboxInv, LoopInv, IsQueue
    <3>2. \A i \in DOMAIN outbox : [outbox[i] EXCEPT !.age = "old"].to = outbox[i].to
        BY <3>1 DEF Item
    <3>3. QED
        BY <1>8, <3>2 DEF TtlPasses
  <2>3. QED
      BY <1>8, <2>1, <2>2, QuietDelivers DEF TtlPasses, queue, limits
<1>9. ASSUME NEW x \in pending, FlushWatchdog(x) PROVE Delivery
    BY <1>9, WatchdogDelivers
<1>10. ASSUME NEW x \in pending, SendResult(x) PROVE Delivery
    BY <1>10, SendResultDelivers
<1>11. CASE UNCHANGED vars
    BY <1>11, QuietDelivers DEF vars
<1>12. QED
    BY <1>1, <1>2, <1>3, <1>4, <1>5, <1>6, <1>7, <1>8, <1>9, <1>10, <1>11 DEF Next

-----------------------------------------------------------------------------
(* Theorems *)

\* The mail's invariant holds in every reachable state.
THEOREM MailInvariant == Spec => []MailInv
<1>1. Init => MailInv
    BY DEF Init, MailInv, Wanted, Settled, Detached
<1>2. OutboxInv /\ OutboxInv' /\ MailInv /\ [Next]_vars => MailInv'
    BY EveryStepDelivers DEF Delivery
<1>3. QED
    BY <1>1, <1>2, InvariantHolds, PTL DEF Spec

\* What a relay has answered for is never queued, so never sent, again, however
\* results, withdrawals and new profiles interleave.
THEOREM AnsweredStaysGone == Spec => []AnsweredIsGone
<1>1. MailInv => AnsweredIsGone
    BY DEF MailInv, Settled, AnsweredIsGone, Carried
<1>2. QED
    BY <1>1, MailInvariant, PTL

\* Nothing is ever queued for a blocked contact: neither SetBlocked nor any later
\* page, profile or text leaves an item for one.
THEOREM BlockedStaysSilent == Spec => []BlockedIsSilent
<1>1. MailInv => BlockedIsSilent
    BY DEF MailInv, Wanted, BlockedIsSilent
<1>2. QED
    BY <1>1, MailInvariant, PTL

\* An item leaves the outbox only because the relay answered for it, its peer was
\* blocked or deleted, its key is unusable, or the failure of a send that carried
\* it exhausted its retries or its TTL.
THEOREM NothingLeavesUnreasoned == Spec => LeavesForAReason
<1>1. OutboxInv /\ OutboxInv' /\ MailInv /\ [Next]_vars =>
        [\A i \in DOMAIN outbox \ DOMAIN outbox' :
          \/ <<i, outbox[i].payload>> \in answered'
          \/ outbox[i].to \in blocked' \cup (Peers \ contacts')
          \/ outbox[i].to \in BadKeys
          \/ /\ IsExpired([outbox[i] EXCEPT !.retries = @ + 1])
             /\ \E r \in pending \ pending' :
                   Live(r) /\ <<i, outbox[i].payload>> \in r.batch]_vars
    BY EveryStepDelivers DEF Delivery, Leaves, Reason
<1>2. QED
    BY <1>1, InvariantHolds, MailInvariant, PTL DEF Spec, LeavesForAReason

\* A request leaves only for a contact that is not blocked, with a token, outside
\* a rate-limit pause and over readable storage.
THEOREM EverySendAllowed == Spec => SendsOnlyWhenAllowed
<1>1. OutboxInv /\ OutboxInv' /\ MailInv /\ [Next]_vars =>
        [\A r \in pending' \ pending : r.what = "send" =>
          /\ r.to \in contacts' \ blocked'
          /\ token' /\ ~flush_paused' /\ ~kv_load_failed']_vars
    BY EveryStepDelivers DEF Delivery, Sends
<1>2. QED
    BY <1>1, InvariantHolds, MailInvariant, PTL DEF Spec, SendsOnlyWhenAllowed
=============================================================================
