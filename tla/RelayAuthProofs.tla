--------------------------- MODULE RelayAuthProofs ---------------------------
(***************************************************************************)
(* Proofs about RelayAuth, for every number of keys, handlers and pool     *)
(* sizes: a challenge is redeemed at most once, a revocation is final, the *)
(* pools keep to their caps, and who is logged in is present.              *)
(***************************************************************************)
EXTENDS RelayAuth, FiniteSetTheorems, TLAPS

\* What makes both inductive: numbers are drawn in order and name one challenge
\* each, and a challenge that has bought a session, or that a revocation has
\* dropped, is not in the pool any more.
AuthInv ==
    /\ draws \in Nat
    /\ \A c \in challenges : c.id \in Nat /\ c.id <= draws
    /\ \A c, d \in challenges : c.id = d.id => c = d
    /\ \A x \in logins : x.challenge \in Nat /\ x.challenge <= draws
    /\ \A x \in logins : \A c \in challenges : c.id # x.challenge
    /\ barred \in [Keys -> SUBSET Nat]
    /\ \A k \in Keys : \A n \in barred[k] : n <= draws /\ \A c \in challenges : c.id # n
    /\ RedeemedOnce

\* Caps and sweeps only ever take rows away.
LEMMA PoolsShrink ==
    ASSUME NEW S, NEW k, NEW n, NEW t
    PROVE  /\ CapList(S, n) \subseteq S
           /\ CapPerKey(S, k, n) \subseteq S
           /\ Unexpired(S, t) \subseteq S
BY DEF CapList, CapPerKey, Unexpired, Of

\* AuthInv is kept by any step that draws no number and adds no challenge.
LEMMA ShrinkingKeepsAuthInv ==
    ASSUME AuthInv, draws' = draws, challenges' \subseteq challenges,
           UNCHANGED <<logins, barred>>
    PROVE  AuthInv'
BY DEF AuthInv, RedeemedOnce

\* handleChallenge keeps it: the fresh challenge has a number of its own.
LEMMA ChallengeKeepsAuthInv ==
    ASSUME AuthInv, NEW h \in Handlers, ChallengeCommits(h)
    PROVE  AuthInv'
<1> DEFINE fresh == [pubkey |-> handlers[h].pubkey, id |-> draws + 1,
                     expiresAt |-> handlers[h].at + ChallengeExpiry]
<1>1. draws' = draws + 1 /\ UNCHANGED <<logins, barred>>
  BY DEF ChallengeCommits
<1>2. challenges' \subseteq challenges \cup {fresh}
  BY <1>1, PoolsShrink DEF ChallengeCommits
<1>3. draws \in Nat /\ fresh.id = draws + 1
  BY DEF AuthInv
<1> HIDE DEF fresh
<1>4. \A c, d \in challenges' : c.id = d.id => c = d
  BY <1>2, <1>3 DEF AuthInv
<1>5. \A x \in logins : \A c \in challenges' : c.id # x.challenge
  BY <1>1, <1>2, <1>3 DEF AuthInv
<1>6. \A k \in Keys : \A n \in barred[k] : n <= draws' /\ \A c \in challenges' : c.id # n
  BY <1>1, <1>2, <1>3 DEF AuthInv
<1>7. \A x \in logins : x.challenge \in Nat /\ x.challenge <= draws'
  BY <1>1, <1>3 DEF AuthInv
<1>8. \A c \in challenges' : c.id \in Nat /\ c.id <= draws'
  BY <1>1, <1>2, <1>3 DEF AuthInv
<1> QED BY <1>1, <1>3, <1>4, <1>5, <1>6, <1>7, <1>8 DEF AuthInv, RedeemedOnce

\* The login that request r becomes with token n.
Bought(r, n) ==
    [challenge |-> r.challenge,
     session |-> [pubkey |-> r.pubkey, id |-> n, expiresAt |-> r.at + SessionExpiry]]

\* What phase 3 of handleVerifyAuth does to the challenges: the one it redeems was
\* in the pool under r.challenge and leaves it.
LEMMA InstallRedeems ==
    ASSUME AuthInv, NEW h \in Handlers, VerifyInstalls(h)
    PROVE  /\ challenges' \subseteq challenges
           /\ \E c \in challenges : c.id = handlers[h].challenge
           /\ \A c \in challenges' : c.id # handlers[h].challenge
           /\ logins' = logins \cup {Bought(handlers[h], draws + 1)}
           /\ draws' = draws + 1
<1> DEFINE r == handlers[h]
<1>1. PICK c \in challenges : c.pubkey = r.pubkey /\ c.id = r.challenge
  BY PoolsShrink DEF VerifyInstalls, Redeemable, Same, Of, Unexpired
<1>2. \A d \in challenges : d.id = r.challenge => d.pubkey = r.pubkey
  BY <1>1 DEF AuthInv
<1>3. \/ challenges' = challenges \ Of(challenges, r.pubkey)
      \/ challenges' = challenges \ Same(r)
  BY DEF VerifyInstalls
<1>4. \A d \in challenges' : d \in challenges /\ d.id # r.challenge
  BY <1>2, <1>3 DEF Of, Same
<1> QED BY <1>1, <1>4 DEF VerifyInstalls, Bought

\* Phase 3 keeps the invariant.
LEMMA InstallKeepsAuthInv ==
    ASSUME AuthInv, NEW h \in Handlers, VerifyInstalls(h)
    PROVE  AuthInv'
<1> DEFINE r == handlers[h]
           bought == Bought(r, draws + 1)
<1>1. /\ challenges' \subseteq challenges
      /\ \A c \in challenges' : c.id # r.challenge
      /\ logins' = logins \cup {bought}
      /\ draws' = draws + 1
  BY InstallRedeems
<1>2. PICK c \in challenges : c.id = r.challenge
  BY InstallRedeems
<1>3. draws \in Nat /\ r.challenge \in Nat /\ r.challenge <= draws
  BY <1>2 DEF AuthInv
<1>4. bought.challenge = r.challenge
  BY DEF Bought
<1>5. \A x \in logins : x.challenge # r.challenge
  BY <1>2 DEF AuthInv
<1> HIDE DEF bought
<1>6. RedeemedOnce'
  BY <1>1, <1>4, <1>5 DEF AuthInv, RedeemedOnce
<1>7. \A x \in logins' : x.challenge \in Nat /\ x.challenge <= draws'
  BY <1>1, <1>3, <1>4 DEF AuthInv
<1>8. \A x \in logins' : \A d \in challenges' : d.id # x.challenge
  BY <1>1, <1>4 DEF AuthInv
<1>9. /\ barred' \in [Keys -> SUBSET Nat]
      /\ \A k \in Keys : \A n \in barred'[k] :
            n <= draws' /\ \A d \in challenges' : d.id # n
  <2>1. CASE ~r.revokeOthers
    <3>1. barred' = barred
      BY <2>1 DEF VerifyInstalls
    <3> QED BY <1>1, <1>3, <3>1 DEF AuthInv
  <2>2. CASE r.revokeOthers
    <3> DEFINE dropped == {d.id : d \in Of(challenges, r.pubkey)}
    <3>1. barred' = [barred EXCEPT ![r.pubkey] = @ \cup dropped]
      BY <2>2 DEF VerifyInstalls
    <3>2. challenges' = challenges \ Of(challenges, r.pubkey)
      BY <2>2 DEF VerifyInstalls
    <3>3. \A n \in dropped : n \in Nat /\ n <= draws /\ \A d \in challenges' : d.id # n
      BY <3>2 DEF AuthInv, Of
    <3>4. \A k \in Keys : \A n \in barred[k] :
             n \in Nat /\ n <= draws /\ \A d \in challenges' : d.id # n
      BY <1>1 DEF AuthInv
    <3> HIDE DEF dropped
    <3>5. \A k \in Keys : barred'[k] \subseteq barred[k] \cup dropped
      BY <3>1 DEF AuthInv
    <3>6. barred' \in [Keys -> SUBSET Nat]
      BY <3>1, <3>3 DEF AuthInv
    <3> QED BY <1>1, <1>3, <3>3, <3>4, <3>5, <3>6
  <2> QED BY <2>1, <2>2
<1>10. /\ \A d \in challenges' : d.id \in Nat /\ d.id <= draws'
       /\ \A c1, d \in challenges' : c1.id = d.id => c1 = d
  BY <1>1, <1>3 DEF AuthInv
<1> QED BY <1>1, <1>3, <1>6, <1>7, <1>8, <1>9, <1>10 DEF AuthInv

\* The invariant holds at the start.
LEMMA AuthInvInit == Init => AuthInv
BY DEF Init, AuthInv, RedeemedOnce

\* Every step keeps it.
LEMMA AuthInvStep == AuthInv /\ [Next]_vars => AuthInv'
<1> SUFFICES ASSUME AuthInv, [Next]_vars PROVE AuthInv'
  OBVIOUS
<1>1. CASE \E h \in Handlers : ChallengeCommits(h)
  BY <1>1, ChallengeKeepsAuthInv
<1>2. CASE \E h \in Handlers : VerifyInstalls(h)
  BY <1>2, InstallKeepsAuthInv
<1>3. CASE Prune
  BY <1>3, PoolsShrink, ShrinkingKeepsAuthInv DEF Prune
<1>4. CASE \/ Tick
           \/ UNCHANGED vars
           \/ \E h \in Handlers :
                 \/ \E k \in Keys : ChallengeBegins(h, k)
                 \/ \E k \in Keys, c \in 1 .. MaxDraws, revoke \in BOOLEAN :
                       VerifyBegins(h, k, c, revoke)
                 \/ VerifyRefused(h)
                 \/ VerifyChecks(h)
                 \/ \E s \in sessions : PollBegins(h, s)
                 \/ PollRefreshes(h)
  <2>1. UNCHANGED <<draws, challenges, logins, barred>>
    BY <1>4 DEF Tick, vars, ChallengeBegins, VerifyBegins, VerifyRefused, VerifyChecks,
                PollBegins, PollRefreshes
  <2> QED BY <2>1, ShrinkingKeepsAuthInv
<1> QED BY <1>1, <1>2, <1>3, <1>4 DEF Next

\* AuthInv holds in every behaviour.
THEOREM AuthInvariant == Spec => []AuthInv
BY AuthInvInit, AuthInvStep, PTL DEF Spec

\* A challenge buys at most one session, however verifies for it interleave between
\* the phases of handleVerifyAuth.
THEOREM ChallengeRedeemedOnce == Spec => []RedeemedOnce
<1>1. AuthInv => RedeemedOnce
  BY DEF AuthInv
<1> QED BY <1>1, AuthInvariant, PTL

\* A step that redeems a challenge redeems one no revocation has dropped.
LEMMA RedeemsNothingBarred ==
    AuthInv /\ [Next]_vars =>
        \A x \in logins' \ logins : \A k \in Keys : x.challenge \notin barred[k]
<1> SUFFICES ASSUME AuthInv, [Next]_vars,
                    NEW x \in logins' \ logins, NEW k \in Keys
             PROVE  x.challenge \notin barred[k]
  OBVIOUS
<1>1. PICK h \in Handlers : VerifyInstalls(h)
  BY DEF Next, vars, ChallengeBegins, ChallengeCommits, VerifyBegins, VerifyRefused,
         VerifyChecks, PollBegins, PollRefreshes, Tick, Prune
<1>2. x.challenge = handlers[h].challenge
  BY <1>1, InstallRedeems DEF Bought
<1>3. PICK c \in challenges : c.id = x.challenge
  BY <1>1, <1>2, InstallRedeems
<1> QED BY <1>3 DEF AuthInv

\* After revokeOthers no challenge that was outstanding then buys a session, not even
\* for a verify that had passed phase 1.
THEOREM RevocationHolds == Spec => RevocationIsFinal
<1>1. AuthInv /\ [Next]_vars =>
        [\A x \in logins' \ logins : \A k \in Keys : x.challenge \notin barred[k]]_vars
  BY RedeemsNothingBarred
<1> QED BY <1>1, AuthInvariant, PTL DEF Spec, RevocationIsFinal

-----------------------------------------------------------------------------
(* Types *)

\* Expiries leave room for both lifetimes after the last tick.
LEMMA ExpiryTypes ==
    ASSUME NEW t \in 0 .. MaxTime
    PROVE  t + ChallengeExpiry \in Expiries /\ t + SessionExpiry \in Expiries
BY AuthAssumption DEF Expiries

\* A request at any stage but the first carries its key and the time it came.
LEMMA RequestFields ==
    ASSUME NEW r \in Request, r.stage # "idle"
    PROVE  /\ r.pubkey \in Keys /\ r.at \in 0 .. MaxTime
           /\ r.stage \in {"verify", "install"} =>
                 r.challenge \in Draws /\ r.revokeOthers \in BOOLEAN
           /\ r.stage = "poll" => r.id \in Draws
BY DEF Request, Idle

LEMMA InitTyped == Init => TypeOK
BY AuthAssumption DEF Init, TypeOK, Draws, Expiries, Request

\* A request that begins, or goes on, is a request.
LEMMA BeginsTyped ==
    ASSUME TypeOK, NEW h \in Handlers,
           \/ \E k \in Keys : ChallengeBegins(h, k)
           \/ \E k \in Keys, c \in 1 .. MaxDraws, revoke \in BOOLEAN :
                 VerifyBegins(h, k, c, revoke)
           \/ VerifyRefused(h)
           \/ VerifyChecks(h)
           \/ \E s \in sessions : PollBegins(h, s)
    PROVE  TypeOK'
<1>1. UNCHANGED <<clock, draws, challenges, sessions, presence, logins, barred>>
  BY DEF ChallengeBegins, VerifyBegins, VerifyRefused, VerifyChecks, PollBegins
<1>2. clock \in 0 .. MaxTime /\ handlers \in [Handlers -> Request]
  BY DEF TypeOK
<1>3. CASE \E k \in Keys : ChallengeBegins(h, k)
  <2>1. PICK k \in Keys : handlers' = [handlers EXCEPT ![h] =
                             [stage |-> "challenge", pubkey |-> k, at |-> clock]]
    BY <1>3 DEF ChallengeBegins
  <2>2. [stage |-> "challenge", pubkey |-> k, at |-> clock] \in Request
    BY <1>2 DEF Request
  <2> QED BY <1>1, <1>2, <2>1, <2>2 DEF TypeOK
<1>4. CASE \E k \in Keys, c \in 1 .. MaxDraws, revoke \in BOOLEAN : VerifyBegins(h, k, c, revoke)
  <2>1. PICK k \in Keys, c \in 1 .. MaxDraws, revoke \in BOOLEAN :
           handlers' = [handlers EXCEPT ![h] =
               [stage |-> "verify", pubkey |-> k, at |-> clock,
                challenge |-> c, revokeOthers |-> revoke]]
    BY <1>4 DEF VerifyBegins
  <2>2. c \in Draws
    BY AuthAssumption DEF Draws
  <2>3. [stage |-> "verify", pubkey |-> k, at |-> clock,
         challenge |-> c, revokeOthers |-> revoke] \in Request
    BY <1>2, <2>2 DEF Request
  <2> QED BY <1>1, <1>2, <2>1, <2>3 DEF TypeOK
<1>5. CASE VerifyRefused(h)
  <2>1. handlers' = [handlers EXCEPT ![h] = Idle]
    BY <1>5 DEF VerifyRefused
  <2>2. Idle \in Request
    BY DEF Request
  <2> QED BY <1>1, <1>2, <2>1, <2>2 DEF TypeOK
<1>6. CASE VerifyChecks(h)
  <2>1. /\ handlers' = [handlers EXCEPT ![h].stage = "install"]
        /\ handlers[h].stage = "verify"
    BY <1>6 DEF VerifyChecks
  <2>2. [handlers[h] EXCEPT !.stage = "install"] \in Request
    BY <1>2, <2>1 DEF Request, Idle
  <2> QED BY <1>1, <1>2, <2>1, <2>2 DEF TypeOK
<1>7. CASE \E s \in sessions : PollBegins(h, s)
  <2>1. PICK s \in sessions : handlers' = [handlers EXCEPT ![h] =
           [stage |-> "poll", pubkey |-> s.pubkey, at |-> clock, id |-> s.id]]
    BY <1>7 DEF PollBegins
  <2>2. s.pubkey \in Keys /\ s.id \in Draws
    BY DEF TypeOK, Session
  <2>3. [stage |-> "poll", pubkey |-> s.pubkey, at |-> clock, id |-> s.id] \in Request
    BY <1>2, <2>2 DEF Request
  <2> QED BY <1>1, <1>2, <2>1, <2>3 DEF TypeOK
<1> QED BY <1>3, <1>4, <1>5, <1>6, <1>7

LEMMA ChallengeCommitsTyped ==
    ASSUME TypeOK, NEW h \in Handlers, ChallengeCommits(h)
    PROVE  TypeOK'
<1> DEFINE r     == handlers[h]
           fresh == [pubkey |-> r.pubkey, id |-> draws + 1, expiresAt |-> r.at + ChallengeExpiry]
<1>1. /\ r.stage = "challenge" /\ draws < MaxDraws /\ draws' = draws + 1
      /\ handlers' = [handlers EXCEPT ![h] = Idle]
      /\ UNCHANGED <<clock, sessions, presence, logins, barred>>
  BY DEF ChallengeCommits
<1>2. challenges' \subseteq challenges \cup {fresh}
  BY <1>1, PoolsShrink DEF ChallengeCommits
<1>3. r \in Request /\ Idle \in Request
  BY DEF TypeOK, Request
<1>4. r.pubkey \in Keys /\ r.at \in 0 .. MaxTime
  BY <1>1, <1>3, RequestFields
<1>5. draws' \in Draws
  BY <1>1, AuthAssumption DEF TypeOK, Draws
<1>6. fresh \in Challenge
  BY <1>1, <1>4, <1>5, ExpiryTypes DEF Challenge
<1> HIDE DEF fresh, r
<1> QED BY <1>1, <1>2, <1>3, <1>5, <1>6 DEF TypeOK

LEMMA VerifyInstallsTyped ==
    ASSUME TypeOK, NEW h \in Handlers, VerifyInstalls(h)
    PROVE  TypeOK'
<1> DEFINE r       == handlers[h]
           expiry  == r.at + SessionExpiry
           fresh   == [pubkey |-> r.pubkey, id |-> draws + 1, expiresAt |-> expiry]
           dropped == {c.id : c \in Of(challenges, r.pubkey)}
<1>1. /\ r.stage = "install" /\ draws < MaxDraws /\ draws' = draws + 1
      /\ presence' = [presence EXCEPT ![r.pubkey] = expiry]
      /\ handlers' = [handlers EXCEPT ![h] = Idle]
      /\ logins' = logins \cup {[challenge |-> r.challenge, session |-> fresh]}
      /\ \/ barred' = barred
         \/ barred' = [barred EXCEPT ![r.pubkey] = @ \cup dropped]
      /\ clock' = clock
  BY DEF VerifyInstalls, RefreshLocalPresence
<1>2. challenges' \subseteq challenges
  BY DEF VerifyInstalls
<1>3. sessions' \subseteq sessions \cup {fresh}
  BY <1>1, PoolsShrink DEF VerifyInstalls
<1>4. r \in Request /\ Idle \in Request
  BY DEF TypeOK, Request
<1>5. r.pubkey \in Keys /\ r.at \in 0 .. MaxTime /\ r.challenge \in Draws
  BY <1>1, <1>4, RequestFields
<1>6. draws' \in Draws /\ expiry \in Expiries
  BY <1>1, <1>5, ExpiryTypes, AuthAssumption DEF TypeOK, Draws
<1>7. fresh \in Session
  BY <1>1, <1>5, <1>6 DEF Session
<1>8. dropped \subseteq Draws
  BY DEF TypeOK, Challenge, Of
<1> HIDE DEF fresh, dropped, expiry, r
<1>9. logins' \subseteq [challenge: Draws, session: Session]
  BY <1>1, <1>5, <1>7 DEF TypeOK
<1>10. barred' \in [Keys -> SUBSET Draws]
  BY <1>1, <1>5, <1>8 DEF TypeOK
<1>11. presence' \in [Keys -> Expiries]
  BY <1>1, <1>5, <1>6 DEF TypeOK
<1> QED BY <1>1, <1>2, <1>3, <1>4, <1>6, <1>7, <1>9, <1>10, <1>11 DEF TypeOK

LEMMA PollRefreshesTyped ==
    ASSUME TypeOK, NEW h \in Handlers, PollRefreshes(h)
    PROVE  TypeOK'
<1> DEFINE r == handlers[h]
<1>1. /\ r.stage = "poll"
      /\ \/ presence' = [presence EXCEPT ![r.pubkey] = r.at + SessionExpiry]
         \/ presence' = presence
      /\ handlers' = [handlers EXCEPT ![h] = Idle]
      /\ UNCHANGED <<clock, draws, challenges, sessions, logins, barred>>
  BY DEF PollRefreshes, RefreshLocalPresence
<1>2. r \in Request /\ Idle \in Request
  BY DEF TypeOK, Request
<1>3. r.pubkey \in Keys /\ r.at + SessionExpiry \in Expiries
  BY <1>1, <1>2, RequestFields, ExpiryTypes
<1> HIDE DEF r
<1> QED BY <1>1, <1>2, <1>3 DEF TypeOK

LEMMA StepTyped == TypeOK /\ [Next]_vars => TypeOK'
<1> SUFFICES ASSUME TypeOK, [Next]_vars PROVE TypeOK'
  OBVIOUS
<1>1. CASE Tick
  BY <1>1, AuthAssumption DEF Tick, TypeOK
<1>2. CASE Prune
  <2>1. presence' \in [Keys -> Expiries]
    BY <1>2, AuthAssumption DEF Prune, TypeOK, Expiries
  <2> QED BY <1>2, <2>1, PoolsShrink DEF Prune, TypeOK
<1>3. CASE UNCHANGED vars
  BY <1>3 DEF vars, TypeOK
<1> QED BY <1>1, <1>2, <1>3, BeginsTyped, ChallengeCommitsTyped, VerifyInstallsTyped,
           PollRefreshesTyped DEF Next

\* Every variable keeps its type; expiries stay within both lifetimes of the clock's range,
\* since a refresh replaces the row's time and does not add to it.
THEOREM AuthTyped == Spec => []TypeOK
BY InitTyped, StepTyped, PTL DEF Spec

-----------------------------------------------------------------------------
(* Pools *)

\* Rows with a number each, and an expiry: what capList can put in an order.
Rows(S) ==
    /\ IsFiniteSet(S)
    /\ \A x \in S : x.id \in Nat /\ x.expiresAt \in Nat
    /\ \A x, y \in S : x.id = y.id => x = y

\* What capList counts for a row: those that expire later.
Later(S, x) == {y \in S : Sooner(x, y)}

\* Of two rows, one expires sooner, and has more rows later than itself.
LEMMA LaterDecreases ==
    ASSUME NEW S, Rows(S), NEW x \in S, NEW y \in S, Sooner(x, y)
    PROVE  Cardinality(Later(S, y)) < Cardinality(Later(S, x))
<1>1. Later(S, y) \subseteq Later(S, x)
  BY DEF Later, Sooner, Rows
<1>2. y \in Later(S, x) /\ y \notin Later(S, y)
  BY DEF Later, Sooner, Rows
<1>3. IsFiniteSet(Later(S, x))
  BY FS_Subset DEF Later, Rows
<1>4. /\ Cardinality(Later(S, y)) <= Cardinality(Later(S, x))
      /\ Cardinality(Later(S, x)) # Cardinality(Later(S, y))
  BY <1>1, <1>2, <1>3, FS_Subset
<1>5. Cardinality(Later(S, y)) \in Nat /\ Cardinality(Later(S, x)) \in Nat
  BY <1>1, <1>3, FS_Subset, FS_CardinalityType
<1> QED BY <1>4, <1>5

\* capList keeps at most n rows.
LEMMA CapListCaps ==
    ASSUME NEW S, Rows(S), NEW n \in Nat
    PROVE  Rows(CapList(S, n)) /\ Cardinality(CapList(S, n)) <= n
<1> DEFINE kept == CapList(S, n)
           rank == [x \in kept |-> Cardinality(Later(S, x))]
           ranks == 0 .. n - 1
<1>1. kept \subseteq S
  BY PoolsShrink
<1>2. IsFiniteSet(kept) /\ Cardinality(kept) \in Nat
  BY <1>1, FS_Subset, FS_CardinalityType DEF Rows
<1>3. Rows(kept)
  BY <1>1, <1>2 DEF Rows
<1>4. \A x \in kept : rank[x] \in ranks
  <2> TAKE x \in kept
  <2>1. Cardinality(Later(S, x)) < n
    BY DEF CapList, Later
  <2>2. Cardinality(Later(S, x)) \in Nat
    BY FS_Subset, FS_CardinalityType DEF Later, Rows
  <2> QED BY <2>1, <2>2
<1>5. \A x, y \in kept : x # y => rank[x] # rank[y]
  <2> SUFFICES ASSUME NEW x \in kept, NEW y \in kept, x # y PROVE rank[x] # rank[y]
    OBVIOUS
  <2>1. x \in S /\ y \in S
    BY <1>1
  <2>2. Sooner(x, y) \/ Sooner(y, x)
    BY <2>1 DEF Rows, Sooner
  <2>3. /\ Cardinality(Later(S, x)) \in Nat
        /\ Cardinality(Later(S, y)) \in Nat
    BY FS_Subset, FS_CardinalityType DEF Later, Rows
  <2>4. Cardinality(Later(S, x)) # Cardinality(Later(S, y))
    BY <2>1, <2>2, <2>3, LaterDecreases
  <2> QED BY <2>4
<1>6. IsFiniteSet(ranks) /\ Cardinality(ranks) = n
  BY FS_Interval
<1>7. rank \in [kept -> ranks]
  BY <1>4
<1> HIDE DEF rank, ranks, kept
<1>8. ~(n < Cardinality(kept))
  BY <1>2, <1>5, <1>6, <1>7, FS_PigeonHole
<1>9. Rows(kept) /\ Cardinality(kept) <= n
  BY <1>2, <1>3, <1>8
<1> QED BY <1>9 DEF kept

\* A pool that has made room for a row of k takes it: neither k's share nor any other
\* key's outgrows its cap, nor does the whole pool once capList has run.
LEMMA RoomForOne ==
    ASSUME NEW S, Rows(S), NEW k, NEW m \in Nat \ {0}, NEW n \in Nat,
           \A j \in Keys : Cardinality(Of(S, j)) <= m,
           NEW T, T \subseteq S, Of(T, k) = {} \/ T = CapPerKey(S, k, m),
           NEW fresh, fresh.pubkey = k, fresh.id \in Nat, fresh.expiresAt \in Nat,
           \A x \in S : x.id # fresh.id
    PROVE  /\ Rows(CapList(T \cup {fresh}, n))
           /\ Cardinality(CapList(T \cup {fresh}, n)) <= n
           /\ \A j \in Keys : Cardinality(Of(CapList(T \cup {fresh}, n), j)) <= m
<1> DEFINE U == T \cup {fresh}
           C == CapList(U, n)
<1>1. IsFiniteSet(S) /\ IsFiniteSet(T) /\ IsFiniteSet(U)
  BY FS_Subset, FS_AddElement DEF Rows
<1>2. Rows(U)
  BY <1>1 DEF Rows
<1> HIDE DEF U
<1>3. Rows(C) /\ Cardinality(C) <= n
  BY <1>2, CapListCaps
<1>4. C \subseteq U
  BY PoolsShrink
<1> HIDE DEF C
<1>5. ASSUME NEW j \in Keys PROVE Cardinality(Of(C, j)) <= m
  <2>1. Of(C, j) \subseteq Of(U, j) /\ IsFiniteSet(Of(U, j)) /\ IsFiniteSet(Of(S, j))
    BY <1>1, <1>4, FS_Subset DEF Of
  <2>2. /\ Cardinality(Of(C, j)) <= Cardinality(Of(U, j))
        /\ Cardinality(Of(C, j)) \in Nat /\ Cardinality(Of(U, j)) \in Nat
    BY <2>1, FS_Subset, FS_CardinalityType
  <2>3. CASE j # k
    <3>1. Of(U, j) \subseteq Of(S, j)
      BY <2>3 DEF Of, U
    <3>2. Cardinality(Of(U, j)) <= Cardinality(Of(S, j)) /\ Cardinality(Of(S, j)) \in Nat
      BY <2>1, <3>1, FS_Subset, FS_CardinalityType
    <3> QED BY <2>2, <3>2
  <2>4. CASE j = k
    <3>1. Of(U, j) = Of(T, k) \cup {fresh}
      BY <2>4 DEF Of, U
    <3>2. IsFiniteSet(Of(T, k)) /\ Cardinality(Of(T, k)) \in Nat
      BY <1>1, FS_Subset, FS_CardinalityType DEF Of
    <3>3. Cardinality(Of(U, j)) <= Cardinality(Of(T, k)) + 1
      <4>1. Cardinality(Of(T, k) \cup {fresh}) =
               IF fresh \in Of(T, k) THEN Cardinality(Of(T, k)) ELSE Cardinality(Of(T, k)) + 1
        BY <3>2, FS_AddElement
      <4> QED BY <3>1, <3>2, <4>1
    <3>4. Cardinality(Of(T, k)) <= m - 1
      <4>1. CASE Of(T, k) = {}
        BY <4>1, FS_EmptySet
      <4>2. CASE T = CapPerKey(S, k, m)
        <5>1. Of(T, k) = CapList(Of(S, k), m - 1)
          BY <4>2 DEF CapPerKey, CapList, Of
        <5>2. Rows(Of(S, k))
          BY <1>1, FS_Subset DEF Rows, Of
        <5> QED BY <5>1, <5>2, CapListCaps
      <4> QED BY <4>1, <4>2
    <3> QED BY <2>2, <3>2, <3>3, <3>4
  <2> QED BY <2>3, <2>4
<1> QED BY <1>3, <1>5 DEF C, U

\* A pool of rows numbered up to d, within its caps.
Pool(S, d, m, n) ==
    /\ Rows(S)
    /\ \A x \in S : x.id <= d
    /\ Cardinality(S) <= n
    /\ \A k \in Keys : Cardinality(Of(S, k)) <= m

\* The inductive invariant of the pools.
PoolInv ==
    /\ draws \in Nat
    /\ Pool(challenges, draws, MaxChallengesPerKey, MaxChallenges)
    /\ Pool(sessions, draws, MaxSessionsPerKey, MaxSessions)

\* A pool that only loses rows stays within its caps.
LEMMA FewerRows ==
    ASSUME NEW S, NEW d, NEW m \in Nat, NEW n \in Nat, Pool(S, d, m, n),
           NEW T, T \subseteq S
    PROVE  Pool(T, d, m, n)
<1>1. IsFiniteSet(S) /\ IsFiniteSet(T) /\ Rows(T) /\ \A x \in T : x.id <= d
  BY FS_Subset DEF Pool, Rows
<1>2. Cardinality(T) <= n
  <2>1. /\ Cardinality(T) <= Cardinality(S) /\ Cardinality(S) <= n
        /\ Cardinality(T) \in Nat /\ Cardinality(S) \in Nat
    BY <1>1, FS_Subset, FS_CardinalityType DEF Pool
  <2> QED BY <2>1
<1>3. ASSUME NEW k \in Keys PROVE Cardinality(Of(T, k)) <= m
  <2>1. Of(T, k) \subseteq Of(S, k) /\ IsFiniteSet(Of(S, k)) /\ IsFiniteSet(Of(T, k))
    BY <1>1, FS_Subset DEF Of
  <2>2. /\ Cardinality(Of(T, k)) <= Cardinality(Of(S, k)) /\ Cardinality(Of(S, k)) <= m
        /\ Cardinality(Of(T, k)) \in Nat /\ Cardinality(Of(S, k)) \in Nat
    BY <2>1, FS_Subset, FS_CardinalityType DEF Pool
  <2> QED BY <2>2
<1> QED BY <1>1, <1>2, <1>3 DEF Pool

\* A pool that takes a row with the next number, after making room, stays within its caps.
LEMMA TakesFresh ==
    ASSUME NEW d \in Nat, NEW S, NEW k, NEW m \in Nat \ {0}, NEW n \in Nat,
           Pool(S, d, m, n),
           NEW T, T \subseteq S, Of(T, k) = {} \/ T = CapPerKey(S, k, m),
           NEW fresh, fresh.pubkey = k, fresh.id = d + 1, fresh.expiresAt \in Nat
    PROVE  Pool(CapList(T \cup {fresh}, n), d + 1, m, n)
<1> DEFINE C == CapList(T \cup {fresh}, n)
<1>1. \A x \in S : x.id \in Nat /\ x.id <= d /\ x.id # fresh.id
  BY DEF Pool, Rows
<1>2. Rows(S) /\ \A j \in Keys : Cardinality(Of(S, j)) <= m
  BY DEF Pool
<1>3. Rows(C) /\ Cardinality(C) <= n /\ \A j \in Keys : Cardinality(Of(C, j)) <= m
  BY <1>1, <1>2, RoomForOne
<1>4. C \subseteq S \cup {fresh}
  BY PoolsShrink
<1>5. \A x \in C : x.id <= d + 1
  BY <1>1, <1>4
<1> QED BY <1>3, <1>5 DEF Pool

LEMMA ShrinkingKeepsPoolInv ==
    ASSUME PoolInv, draws' = draws, challenges' \subseteq challenges, sessions' \subseteq sessions
    PROVE  PoolInv'
<1>1. /\ Pool(challenges', draws, MaxChallengesPerKey, MaxChallenges)
      /\ Pool(sessions', draws, MaxSessionsPerKey, MaxSessions)
  BY FewerRows, AuthAssumption DEF PoolInv
<1> QED BY <1>1 DEF PoolInv

LEMMA ChallengeKeepsPoolInv ==
    ASSUME TypeOK, PoolInv, NEW h \in Handlers, ChallengeCommits(h)
    PROVE  PoolInv'
<1> DEFINE r      == handlers[h]
           old    == Unexpired(challenges, r.at)
           active == CapPerKey(old, r.pubkey, MaxChallengesPerKey)
           fresh  == [pubkey |-> r.pubkey, id |-> draws + 1, expiresAt |-> r.at + ChallengeExpiry]
<1>1. /\ r.stage = "challenge" /\ draws' = draws + 1 /\ sessions' = sessions
      /\ challenges' = CapList(active \cup {fresh}, MaxChallenges)
  BY DEF ChallengeCommits
<1>2. r.at \in 0 .. MaxTime
  BY <1>1, RequestFields DEF TypeOK
<1>3. /\ draws \in Nat /\ fresh.id = draws + 1 /\ fresh.pubkey = r.pubkey
      /\ fresh.expiresAt \in Nat
  BY <1>2, AuthAssumption DEF PoolInv
<1>4. old \subseteq challenges /\ active \subseteq old
  BY PoolsShrink
<1>5. Pool(old, draws, MaxChallengesPerKey, MaxChallenges)
  BY <1>4, FewerRows, AuthAssumption DEF PoolInv
<1> HIDE DEF old, fresh, r
<1>6. Pool(challenges', draws', MaxChallengesPerKey, MaxChallenges)
  BY <1>1, <1>3, <1>4, <1>5, TakesFresh, AuthAssumption
<1>7. Pool(sessions', draws', MaxSessionsPerKey, MaxSessions)
  BY <1>1, <1>3 DEF PoolInv, Pool, Rows
<1> QED BY <1>1, <1>3, <1>6, <1>7 DEF PoolInv

LEMMA InstallKeepsPoolInv ==
    ASSUME TypeOK, PoolInv, NEW h \in Handlers, VerifyInstalls(h)
    PROVE  PoolInv'
<1> DEFINE r      == handlers[h]
           others == IF r.revokeOthers THEN sessions \ Of(sessions, r.pubkey)
                     ELSE CapPerKey(sessions, r.pubkey, MaxSessionsPerKey)
           fresh  == [pubkey |-> r.pubkey, id |-> draws + 1, expiresAt |-> r.at + SessionExpiry]
<1>1. /\ r.stage = "install" /\ draws' = draws + 1 /\ challenges' \subseteq challenges
      /\ sessions' = CapList(others \cup {fresh}, MaxSessions)
  BY DEF VerifyInstalls
<1>2. r.at \in 0 .. MaxTime
  BY <1>1, RequestFields DEF TypeOK
<1>3. /\ draws \in Nat /\ fresh.id = draws + 1 /\ fresh.pubkey = r.pubkey
      /\ fresh.expiresAt \in Nat
  BY <1>2, AuthAssumption DEF PoolInv
<1>4. others \subseteq sessions
  BY PoolsShrink
<1>5. Of(others, r.pubkey) = {} \/ others = CapPerKey(sessions, r.pubkey, MaxSessionsPerKey)
  BY DEF Of
<1> HIDE DEF others, fresh, r
<1>6. Pool(sessions', draws', MaxSessionsPerKey, MaxSessions)
  BY <1>1, <1>3, <1>4, <1>5, TakesFresh, AuthAssumption DEF PoolInv
<1>7. Pool(challenges', draws, MaxChallengesPerKey, MaxChallenges)
  BY <1>1, FewerRows, AuthAssumption DEF PoolInv
<1>8. Pool(challenges', draws', MaxChallengesPerKey, MaxChallenges)
  BY <1>1, <1>3, <1>7 DEF Pool, Rows
<1> QED BY <1>1, <1>3, <1>6, <1>8 DEF PoolInv

LEMMA InitPool == Init => PoolInv
<1> SUFFICES ASSUME Init PROVE PoolInv
  OBVIOUS
<1>1. draws = 0 /\ challenges = {} /\ sessions = {}
  BY DEF Init
<1>2. Rows({}) /\ Cardinality({}) = 0 /\ \A k : Of({}, k) = {}
  BY FS_EmptySet DEF Rows, Of
<1> QED BY <1>1, <1>2, AuthAssumption DEF PoolInv, Pool

LEMMA StepPool == TypeOK /\ PoolInv /\ [Next]_vars => PoolInv'
<1> SUFFICES ASSUME TypeOK, PoolInv, [Next]_vars PROVE PoolInv'
  OBVIOUS
<1>1. CASE \E h \in Handlers : ChallengeCommits(h)
  BY <1>1, ChallengeKeepsPoolInv
<1>2. CASE \E h \in Handlers : VerifyInstalls(h)
  BY <1>2, InstallKeepsPoolInv
<1>3. CASE Prune
  BY <1>3, PoolsShrink, ShrinkingKeepsPoolInv DEF Prune
<1>4. CASE \/ Tick
           \/ UNCHANGED vars
           \/ \E h \in Handlers :
                 \/ \E k \in Keys : ChallengeBegins(h, k)
                 \/ \E k \in Keys, c \in 1 .. MaxDraws, revoke \in BOOLEAN :
                       VerifyBegins(h, k, c, revoke)
                 \/ VerifyRefused(h)
                 \/ VerifyChecks(h)
                 \/ \E s \in sessions : PollBegins(h, s)
                 \/ PollRefreshes(h)
  <2>1. UNCHANGED <<draws, challenges, sessions>>
    BY <1>4 DEF Tick, vars, ChallengeBegins, VerifyBegins, VerifyRefused, VerifyChecks,
                PollBegins, PollRefreshes
  <2> QED BY <2>1, ShrinkingKeepsPoolInv
<1> QED BY <1>1, <1>2, <1>3, <1>4 DEF Next

\* For any caps, neither pool outgrows them, for a key or over all: capPerKey leaves one
\* slot and capList evicts what expires soonest, by a count that no two rows share.
THEOREM PoolsStayCapped == Spec => []PoolsCapped
<1>1. PoolInv => PoolsCapped
  BY DEF PoolInv, Pool, PoolsCapped
<1> QED BY <1>1, AuthTyped, InitPool, StepPool, PTL DEF Spec

-----------------------------------------------------------------------------
(* Presence *)

\* Session s is covered by a presence row that lasts until p, with logins L, at time t.
Covered(s, p, L, t) ==
    \/ p >= s.expiresAt
    \/ \E x \in L : /\ Overtook(x, s)
                    /\ x.session.expiresAt > t => p >= x.session.expiresAt

LEMMA PresentIsCovered ==
    PresentWhileLoggedIn <=>
        \A s \in sessions : s.expiresAt > clock => Covered(s, presence[s.pubkey], logins, clock)
BY DEF PresentWhileLoggedIn, Covered, Unexpired

\* A live session stays covered while time passes and its key logs in elsewhere, by a row
\* that is extended, or swept because it has run out.
LEMMA CoverLasts ==
    ASSUME NEW s \in Session, NEW L, L \subseteq [challenge: Draws, session: Session], NEW M,
           L \subseteq M, NEW t \in Nat, NEW u \in Nat, u >= t, s.expiresAt > u,
           NEW p \in Nat, NEW q \in Nat, q >= p \/ p <= u, Covered(s, p, L, t)
    PROVE  Covered(s, q, M, u)
<1>1. s.expiresAt \in Nat /\ \A x \in L : x.session.expiresAt \in Nat
  BY AuthAssumption DEF Session, Expiries
<1>2. CASE p >= s.expiresAt
  BY <1>1, <1>2 DEF Covered
<1>3. CASE \E x \in L : Overtook(x, s) /\ (x.session.expiresAt > t => p >= x.session.expiresAt)
  <2>1. PICK x \in L : Overtook(x, s) /\ (x.session.expiresAt > t => p >= x.session.expiresAt)
    BY <1>3
  <2>2. x.session.expiresAt > u => q >= x.session.expiresAt
    BY <1>1, <2>1
  <2> QED BY <2>1, <2>2 DEF Covered
<1> QED BY <1>2, <1>3 DEF Covered

\* Phase 3 writes the row of the login it installs: that session is covered by it, and
\* an older one either is too or has just been overtaken.
LEMMA InstallCovers ==
    ASSUME TypeOK, PoolInv, PresentWhileLoggedIn, NEW h \in Handlers, VerifyInstalls(h)
    PROVE  PresentWhileLoggedIn'
<1> DEFINE r      == handlers[h]
           expiry == r.at + SessionExpiry
           fresh  == [pubkey |-> r.pubkey, id |-> draws + 1, expiresAt |-> expiry]
           bought == [challenge |-> r.challenge, session |-> fresh]
<1>1. /\ r.stage = "install" /\ draws' = draws + 1 /\ clock' = clock
      /\ presence' = [presence EXCEPT ![r.pubkey] = expiry]
      /\ logins' = logins \cup {bought}
  BY DEF VerifyInstalls, RefreshLocalPresence
<1>2. sessions' \subseteq sessions \cup {fresh}
  BY <1>1, PoolsShrink DEF VerifyInstalls
<1>3. /\ r.pubkey \in Keys /\ expiry \in Nat /\ clock \in Nat /\ draws \in Nat
      /\ presence \in [Keys -> Nat]
  <2>1. r.pubkey \in Keys /\ r.at \in 0 .. MaxTime
    BY <1>1, RequestFields DEF TypeOK
  <2> QED BY <2>1, AuthAssumption DEF TypeOK, Draws, Expiries
<1>4. /\ bought.session = fresh /\ fresh.pubkey = r.pubkey
      /\ fresh.id = draws + 1 /\ fresh.expiresAt = expiry
  OBVIOUS
<1> HIDE DEF bought, fresh, expiry, r
<1>5. ASSUME NEW s \in sessions', s.expiresAt > clock
      PROVE  Covered(s, presence'[s.pubkey], logins', clock)
  <2>1. CASE s = fresh
    BY <1>1, <1>3, <1>4, <2>1 DEF Covered
  <2>2. CASE s \in sessions
    <3>1. /\ s \in Session /\ s.pubkey \in Keys /\ s.id \in Nat /\ s.id <= draws
          /\ s.expiresAt \in Nat
      BY <2>2, AuthAssumption DEF TypeOK, PoolInv, Pool, Rows, Session, Expiries
    <3>2. CASE s.pubkey # r.pubkey
      <4>1. Covered(s, presence[s.pubkey], logins, clock)
        BY <1>5, <2>2, PresentIsCovered
      <4>2. presence'[s.pubkey] = presence[s.pubkey] /\ logins \subseteq logins'
        BY <1>1, <1>3, <3>1, <3>2
      <4>3. presence[s.pubkey] \in Nat /\ logins \subseteq [challenge: Draws, session: Session]
        BY <1>3, <3>1 DEF TypeOK
      <4> QED BY <1>3, <1>5, <3>1, <4>1, <4>2, <4>3, CoverLasts
    <3>3. CASE s.pubkey = r.pubkey
      <4>1. presence'[s.pubkey] = expiry
        BY <1>1, <1>3, <3>3
      <4>2. CASE expiry >= s.expiresAt
        BY <4>1, <4>2 DEF Covered
      <4>3. CASE expiry < s.expiresAt
        <5>1. Overtook(bought, s)
          BY <1>3, <1>4, <3>1, <3>3, <4>3 DEF Overtook
        <5> QED BY <1>1, <1>3, <1>4, <4>1, <5>1 DEF Covered
      <4> QED BY <1>3, <3>1, <4>2, <4>3
    <3> QED BY <3>2, <3>3
  <2> QED BY <1>2, <2>1, <2>2
<1> QED BY <1>1, <1>5 DEF PresentWhileLoggedIn, Covered, Unexpired

\* Any other step leaves the logins alone, adds no session, and takes no time off a row
\* that has not run out.
LEMMA OthersCover ==
    ASSUME TypeOK, PresentWhileLoggedIn, sessions' \subseteq sessions, logins' = logins,
           clock' \in Nat, clock' >= clock,
           \A k \in Keys : /\ presence'[k] \in Nat
                           /\ presence'[k] >= presence[k] \/ presence[k] <= clock'
    PROVE  PresentWhileLoggedIn'
<1>1. ASSUME NEW s \in sessions', s.expiresAt > clock'
      PROVE  Covered(s, presence'[s.pubkey], logins, clock')
  <2>1. s \in sessions /\ s \in Session /\ s.pubkey \in Keys /\ s.expiresAt \in Nat
    BY AuthAssumption DEF TypeOK, Session, Expiries
  <2>2. clock \in Nat /\ presence[s.pubkey] \in Nat
    BY <2>1, AuthAssumption DEF TypeOK, Expiries
  <2>3. s.expiresAt > clock
    BY <1>1, <2>1, <2>2
  <2>4. Covered(s, presence[s.pubkey], logins, clock)
    BY <2>1, <2>3, PresentIsCovered
  <2>5. logins \subseteq [challenge: Draws, session: Session]
    BY DEF TypeOK
  <2> QED BY <1>1, <2>1, <2>2, <2>4, <2>5, CoverLasts
<1> QED BY <1>1 DEF PresentWhileLoggedIn, Covered, Unexpired

LEMMA StepPresent ==
    TypeOK /\ PoolInv /\ PresentWhileLoggedIn /\ [Next]_vars => PresentWhileLoggedIn'
<1> SUFFICES ASSUME TypeOK, PoolInv, PresentWhileLoggedIn, [Next]_vars
             PROVE  PresentWhileLoggedIn'
  OBVIOUS
<1>1. clock \in Nat /\ presence \in [Keys -> Nat]
  BY AuthAssumption DEF TypeOK, Expiries
<1>2. CASE \E h \in Handlers : VerifyInstalls(h)
  BY <1>2, InstallCovers
<1>3. CASE \E h \in Handlers : PollRefreshes(h)
  <2>1. PICK h \in Handlers : PollRefreshes(h)
    BY <1>3
  <2> DEFINE r == handlers[h]
  <2>2. /\ \/ /\ presence' = [presence EXCEPT ![r.pubkey] = r.at + SessionExpiry]
              /\ presence[r.pubkey] < r.at + SessionExpiry \div 2
           \/ presence' = presence
        /\ r.stage = "poll" /\ UNCHANGED <<clock, sessions, logins>>
    BY <2>1 DEF PollRefreshes, RefreshLocalPresence
  <2>3. r.at \in 0 .. MaxTime /\ r.pubkey \in Keys
    BY <2>2, RequestFields DEF TypeOK
  <2>4. /\ SessionExpiry \div 2 <= SessionExpiry /\ SessionExpiry \div 2 \in Nat
        /\ SessionExpiry \in Nat /\ r.at \in Nat
    BY <2>3, AuthAssumption
  <2> HIDE DEF r
  <2>5. \A k \in Keys : presence'[k] \in Nat /\ presence'[k] >= presence[k]
    BY <1>1, <2>2, <2>3, <2>4
  <2> QED BY <1>1, <2>2, <2>5, OthersCover
<1>4. CASE Prune
  <2>1. UNCHANGED <<clock, logins>> /\ sessions' \subseteq sessions
    BY <1>4, PoolsShrink DEF Prune
  <2>2. \A k \in Keys : /\ presence'[k] \in Nat
                        /\ presence'[k] >= presence[k] \/ presence[k] <= clock
    BY <1>1, <1>4 DEF Prune
  <2> QED BY <1>1, <2>1, <2>2, OthersCover
<1>5. CASE \/ Tick
           \/ UNCHANGED vars
           \/ \E h \in Handlers :
                 \/ \E j \in Keys : ChallengeBegins(h, j)
                 \/ ChallengeCommits(h)
                 \/ \E j \in Keys, c \in 1 .. MaxDraws, revoke \in BOOLEAN :
                       VerifyBegins(h, j, c, revoke)
                 \/ VerifyRefused(h)
                 \/ VerifyChecks(h)
                 \/ \E s \in sessions : PollBegins(h, s)
  <2>1. UNCHANGED <<presence, sessions, logins>> /\ (clock' = clock \/ clock' = clock + 1)
    BY <1>5 DEF Tick, vars, ChallengeBegins, ChallengeCommits, VerifyBegins, VerifyRefused,
                VerifyChecks, PollBegins
  <2>2. clock' \in Nat /\ clock' >= clock
    BY <1>1, <2>1
  <2>3. \A k \in Keys : presence'[k] \in Nat /\ presence'[k] >= presence[k]
    BY <1>1, <2>1
  <2> QED BY <2>1, <2>2, <2>3, OthersCover
<1> QED BY <1>2, <1>3, <1>4, <1>5 DEF Next

\* For any number of sessions per key and any late clock reading, a key with a live session
\* is present at this relay until that session ends, or until the session of a login that
\* overtook it does: a poll only ever extends the row, and the sweep drops no row that lasts.
THEOREM PresenceLastsWithSession == Spec => []PresentWhileLoggedIn
<1>1. Init => PresentWhileLoggedIn
  BY DEF Init, PresentWhileLoggedIn, Unexpired
<1> QED BY <1>1, AuthTyped, InitPool, StepPool, StepPresent, PTL DEF Spec
=============================================================================
