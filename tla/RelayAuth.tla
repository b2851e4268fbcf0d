------------------------------ MODULE RelayAuth ------------------------------
(***************************************************************************)
(* Logging in to the relay (server.knot): /auth/challenge issues a nonce,  *)
(* /auth/verify redeems it for a session token and marks the key present   *)
(* here, /poll keeps it present, and a background sweep drops what has     *)
(* expired.                                                                *)
(*                                                                         *)
(* A handler reads the clock once and then runs its atomic blocks, so      *)
(* handlers interleave between the two and act on an old clock.  Nonces    *)
(* and tokens are random in the code and numbers here, in the order they   *)
(* are stored.  The IP a challenge or a session is bound to never changes,  *)
(* so a mismatch is a request that may fail for no other reason.           *)
(***************************************************************************)
EXTENDS Naturals, FiniteSets

CONSTANTS
    Keys,                 \* public keys
    Handlers,             \* bound: requests served at once
    MaxChallenges,        \* maxChallenges
    MaxChallengesPerKey,  \* maxChallengesPerKey
    MaxSessions,          \* maxSessions
    MaxSessionsPerKey,    \* maxSessionsPerKey
    ChallengeExpiry,      \* challengeExpiry
    SessionExpiry,        \* sessionExpiry
    MaxDraws,             \* bound: nonces and tokens stored
    MaxTime               \* bound: the clock

ASSUME AuthAssumption ==
    /\ MaxChallenges \in Nat \ {0}
    /\ MaxChallengesPerKey \in Nat \ {0}
    /\ MaxSessions \in Nat \ {0}
    /\ MaxSessionsPerKey \in Nat \ {0}
    /\ ChallengeExpiry \in Nat \ {0}
    /\ SessionExpiry \in Nat \ {0, 1}
    /\ MaxDraws \in Nat
    /\ MaxTime \in Nat

VARIABLES
    clock,       \* now
    draws,       \* nonces and tokens stored so far
    challenges,  \* *challenges
    sessions,    \* *sessions
    presence,    \* key -> expiry of its local row of *presence, 0 if there is none
    handlers,    \* handler -> the request it serves
    \* observers
    logins,      \* every session ever installed, with the challenge that bought it
    barred       \* key -> challenges outstanding when it revoked its other sessions

vars == <<clock, draws, challenges, sessions, presence, handlers, logins, barred>>

-----------------------------------------------------------------------------
(* Types *)

Draws == 0 .. MaxDraws

Expiries == 0 .. MaxTime + ChallengeExpiry + SessionExpiry

Idle == [stage |-> "idle"]

Challenge == [pubkey: Keys, id: Draws, expiresAt: Expiries]

Session == [pubkey: Keys, id: Draws, expiresAt: Expiries]

\* verify: before phase 1; install: before phase 3.
Request ==
    {Idle}
      \cup [stage: {"challenge"}, pubkey: Keys, at: 0 .. MaxTime]
      \cup [stage: {"verify", "install"}, pubkey: Keys, at: 0 .. MaxTime,
            challenge: Draws, revokeOthers: BOOLEAN]
      \cup [stage: {"poll"}, pubkey: Keys, at: 0 .. MaxTime, id: Draws]

-----------------------------------------------------------------------------
(* Pools.  sortBy is stable and union appends, so ties go by age. *)

Sooner(x, y) == x.expiresAt < y.expiresAt \/ (x.expiresAt = y.expiresAt /\ x.id < y.id)

\* The n members that expire last.
CapList(S, n) == {x \in S : Cardinality({y \in S : Sooner(x, y)}) < n}

Of(S, k) == {x \in S : x.pubkey = k}

\* Faulty variant: no slot is reserved for the row that follows.
CapPerKeyFull(S, k, n) == (S \ Of(S, k)) \cup CapList(Of(S, k), n)

CapPerKey(S, k, n) == (S \ Of(S, k)) \cup CapList(Of(S, k), n - 1)

Unexpired(S, t) == {x \in S : x.expiresAt > t}

-----------------------------------------------------------------------------
(* POST /auth/challenge *)

ChallengeBegins(h, k) ==
    /\ handlers[h] = Idle
    /\ handlers' = [handlers EXCEPT ![h] =
          [stage |-> "challenge", pubkey |-> k, at |-> clock]]
    /\ UNCHANGED <<clock, draws, challenges, sessions, presence, logins, barred>>

ChallengeCommits(h) ==
    LET r      == handlers[h]
        active == CapPerKey(Unexpired(challenges, r.at), r.pubkey, MaxChallengesPerKey)
        fresh  == [pubkey |-> r.pubkey, id |-> draws', expiresAt |-> r.at + ChallengeExpiry]
    IN  /\ r.stage = "challenge"
        /\ draws < MaxDraws
        /\ draws' = draws + 1
        /\ challenges' = CapList(active \cup {fresh}, MaxChallenges)
        /\ handlers' = [handlers EXCEPT ![h] = Idle]
        /\ UNCHANGED <<clock, sessions, presence, logins, barred>>

-----------------------------------------------------------------------------
(* POST /auth/verify, for a challenge that was once issued: the client may *)
(* retry it, and two verifies may be under way for one challenge.          *)

VerifyBegins(h, k, challenge, revokeOthers) ==
    /\ handlers[h] = Idle
    /\ challenge <= draws
    /\ handlers' = [handlers EXCEPT ![h] =
          [stage |-> "verify", pubkey |-> k, at |-> clock,
           challenge |-> challenge, revokeOthers |-> revokeOthers]]
    /\ UNCHANGED <<clock, draws, challenges, sessions, presence, logins, barred>>

\* The challenge a verify answers.
Same(r) == {c \in Of(challenges, r.pubkey) : c.id = r.challenge}

Redeemable(r) == Unexpired(Same(r), r.at) # {}

\* A 401: phase 1 or phase 3 finds no challenge, the signature or the IP is wrong.
VerifyRefused(h) ==
    /\ handlers[h].stage \in {"verify", "install"}
    /\ handlers[h].stage = "install" => ~Redeemable(handlers[h])
    /\ handlers' = [handlers EXCEPT ![h] = Idle]
    /\ UNCHANGED <<clock, draws, challenges, sessions, presence, logins, barred>>

\* Phases 1 and 2: the challenge is there and the signature is good.
VerifyChecks(h) ==
    /\ handlers[h].stage = "verify"
    /\ Redeemable(handlers[h])
    /\ handlers' = [handlers EXCEPT ![h].stage = "install"]
    /\ UNCHANGED <<clock, draws, challenges, sessions, presence, logins, barred>>

\* Faulty variant: the old row's time is added to.
RefreshLocalPresenceAdds(k, expiry) == presence' = [presence EXCEPT ![k] = @ + expiry]

RefreshLocalPresence(k, expiry) == presence' = [presence EXCEPT ![k] = expiry]

\* Faulty variants: phase 3 trusts phase 1; a revocation leaves the challenges.
VerifyInstallsUnchecked(h) ==
    LET r      == handlers[h]
        expiry == r.at + SessionExpiry
        others == IF r.revokeOthers THEN sessions \ Of(sessions, r.pubkey)
                  ELSE CapPerKey(sessions, r.pubkey, MaxSessionsPerKey)
        fresh  == [pubkey |-> r.pubkey, id |-> draws', expiresAt |-> expiry]
    IN  /\ r.stage = "install"
        /\ draws < MaxDraws
        /\ draws' = draws + 1
        /\ challenges' = IF r.revokeOthers THEN challenges \ Of(challenges, r.pubkey)
                         ELSE challenges \ Same(r)
        /\ sessions' = CapList(others \cup {fresh}, MaxSessions)
        /\ RefreshLocalPresence(r.pubkey, expiry)
        /\ handlers' = [handlers EXCEPT ![h] = Idle]
        /\ logins' = logins \cup {[challenge |-> r.challenge, session |-> fresh]}
        /\ barred' = IF r.revokeOthers
                     THEN [barred EXCEPT ![r.pubkey] = @ \cup {c.id : c \in Of(challenges, r.pubkey)}]
                     ELSE barred
        /\ UNCHANGED clock

VerifyInstallsLeavingChallenges(h) ==
    LET r      == handlers[h]
        expiry == r.at + SessionExpiry
        others == IF r.revokeOthers THEN sessions \ Of(sessions, r.pubkey)
                  ELSE CapPerKey(sessions, r.pubkey, MaxSessionsPerKey)
        fresh  == [pubkey |-> r.pubkey, id |-> draws', expiresAt |-> expiry]
    IN  /\ r.stage = "install"
        /\ draws < MaxDraws
        /\ draws' = draws + 1
        /\ Redeemable(r)
        /\ challenges' = challenges \ Same(r)
        /\ sessions' = CapList(others \cup {fresh}, MaxSessions)
        /\ RefreshLocalPresence(r.pubkey, expiry)
        /\ handlers' = [handlers EXCEPT ![h] = Idle]
        /\ logins' = logins \cup {[challenge |-> r.challenge, session |-> fresh]}
        /\ barred' = IF r.revokeOthers
                     THEN [barred EXCEPT ![r.pubkey] = @ \cup {c.id : c \in Of(challenges, r.pubkey)}]
                     ELSE barred
        /\ UNCHANGED clock

\* Phase 3.
VerifyInstalls(h) ==
    LET r      == handlers[h]
        expiry == r.at + SessionExpiry
        others == IF r.revokeOthers THEN sessions \ Of(sessions, r.pubkey)
                  ELSE CapPerKey(sessions, r.pubkey, MaxSessionsPerKey)
        fresh  == [pubkey |-> r.pubkey, id |-> draws', expiresAt |-> expiry]
    IN  /\ r.stage = "install"
        /\ draws < MaxDraws
        /\ draws' = draws + 1
        /\ Redeemable(r)
        /\ challenges' = IF r.revokeOthers THEN challenges \ Of(challenges, r.pubkey)
                         ELSE challenges \ Same(r)
        /\ sessions' = CapList(others \cup {fresh}, MaxSessions)
        /\ RefreshLocalPresence(r.pubkey, expiry)
        /\ handlers' = [handlers EXCEPT ![h] = Idle]
        /\ logins' = logins \cup {[challenge |-> r.challenge, session |-> fresh]}
        /\ barred' = IF r.revokeOthers
                     THEN [barred EXCEPT ![r.pubkey] = @ \cup {c.id : c \in Of(challenges, r.pubkey)}]
                     ELSE barred
        /\ UNCHANGED clock

-----------------------------------------------------------------------------
(* POST /poll, of what it does to presence; RelayMailbox has the rest *)

PollBegins(h, s) ==
    /\ handlers[h] = Idle
    /\ handlers' = [handlers EXCEPT ![h] =
          [stage |-> "poll", pubkey |-> s.pubkey, at |-> clock, id |-> s.id]]
    /\ UNCHANGED <<clock, draws, challenges, sessions, presence, logins, barred>>

\* Faulty variant: every poll writes the row, by the clock it has read.
PollRefreshesAlways(h) ==
    LET r == handlers[h]
    IN  /\ r.stage = "poll"
        /\ IF \E s \in Unexpired(sessions, r.at) : s.id = r.id
           THEN RefreshLocalPresence(r.pubkey, r.at + SessionExpiry)
           ELSE UNCHANGED presence
        /\ handlers' = [handlers EXCEPT ![h] = Idle]
        /\ UNCHANGED <<clock, draws, challenges, sessions, logins, barred>>

\* authedPubkey, and a refresh when less than half the session's time is left.
PollRefreshes(h) ==
    LET r == handlers[h]
    IN  /\ r.stage = "poll"
        /\ IF /\ \E s \in Unexpired(sessions, r.at) : s.id = r.id
              /\ presence[r.pubkey] < r.at + SessionExpiry \div 2
           THEN RefreshLocalPresence(r.pubkey, r.at + SessionExpiry)
           ELSE UNCHANGED presence
        /\ handlers' = [handlers EXCEPT ![h] = Idle]
        /\ UNCHANGED <<clock, draws, challenges, sessions, logins, barred>>

-----------------------------------------------------------------------------
(* Time *)

Tick ==
    /\ clock < MaxTime
    /\ clock' = clock + 1
    /\ UNCHANGED <<draws, challenges, sessions, presence, handlers, logins, barred>>

\* pruneExpired, of the login state.
Prune ==
    /\ challenges' = Unexpired(challenges, clock)
    /\ sessions' = Unexpired(sessions, clock)
    /\ presence' = [k \in Keys |-> IF presence[k] > clock THEN presence[k] ELSE 0]
    /\ UNCHANGED <<clock, draws, handlers, logins, barred>>

-----------------------------------------------------------------------------
Init ==
    /\ clock = 0
    /\ draws = 0
    /\ challenges = {}
    /\ sessions = {}
    /\ presence = [k \in Keys |-> 0]
    /\ handlers = [h \in Handlers |-> Idle]
    /\ logins = {}
    /\ barred = [k \in Keys |-> {}]

Next ==
    \/ \E h \in Handlers :
          \/ \E k \in Keys : ChallengeBegins(h, k)
          \/ ChallengeCommits(h)
          \/ \E k \in Keys, c \in 1 .. MaxDraws, revoke \in BOOLEAN :
                VerifyBegins(h, k, c, revoke)
          \/ VerifyRefused(h)
          \/ VerifyChecks(h)
          \/ VerifyInstalls(h)
          \/ \E s \in sessions : PollBegins(h, s)
          \/ PollRefreshes(h)
    \/ Tick
    \/ Prune

Spec == Init /\ [][Next]_vars

-----------------------------------------------------------------------------
(* Properties *)

\* Every variable keeps its type.
TypeOK ==
    /\ clock \in 0 .. MaxTime
    /\ draws \in Draws
    /\ challenges \subseteq Challenge
    /\ sessions \subseteq Session
    /\ presence \in [Keys -> Expiries]
    /\ handlers \in [Handlers -> Request]
    /\ logins \subseteq [challenge: Draws, session: Session]
    /\ barred \in [Keys -> SUBSET Draws]

\* No pool outgrows its cap, per key and over all: capPerKey and capList make room
\* around the row that is added.
PoolsCapped ==
    /\ Cardinality(challenges) <= MaxChallenges
    /\ Cardinality(sessions) <= MaxSessions
    /\ \A k \in Keys :
          /\ Cardinality(Of(challenges, k)) <= MaxChallengesPerKey
          /\ Cardinality(Of(sessions, k)) <= MaxSessionsPerKey

\* A challenge buys one session, however many verifies for it race (phase 3 of
\* handleVerifyAuth re-checks what phase 1 saw).
RedeemedOnce == \A x, y \in logins : x.challenge = y.challenge => x = y

\* "a captured challenge cannot be redeemed for a new session after revocation":
\* of the challenges outstanding at a revocation only the one it was made with ever
\* buys a session, so a verify that was past phase 1 then is refused.
RevocationIsFinal ==
    [][\A x \in logins' \ logins : \A k \in Keys : x.challenge \notin barred[k]]_vars

\* A login of s's key that read the clock before s did and was installed after it.
Overtook(x, s) ==
    /\ x.session.pubkey = s.pubkey
    /\ x.session.id > s.id
    /\ x.session.expiresAt < s.expiresAt

\* A key with a live session is present here for as long as that session lives, so
\* that mail forwarded for it is accepted (hasLocalPresence), with one exception:
\* handleVerifyAuth installs a slow login over a newer one's row, and as a key may have
\* several sessions the newer one lives on.  Then the row lasts as long as the slow
\* login's session, no poll ever shortens it, and the next poll extends it.
PresentWhileLoggedIn ==
    \A s \in Unexpired(sessions, clock) :
        \/ presence[s.pubkey] >= s.expiresAt
        \/ \E x \in logins :
              /\ Overtook(x, s)
              /\ x.session.expiresAt > clock => presence[s.pubkey] >= x.session.expiresAt

=============================================================================
