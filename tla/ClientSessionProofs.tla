------------------------- MODULE ClientSessionProofs -------------------------
(***************************************************************************)
(* Proofs about ClientSession, under any faults: the guards of the two     *)
(* loops are owned, the client never goes quiet, `Online` is honest, and   *)
(* unreadable storage stays untouched.  And about a relay switch: no       *)
(* token, no result and no cursor of one relay reaches another, and        *)
(* storage never pairs one relay with another's cursor.                    *)
(***************************************************************************)
EXTENDS ClientSession, SequenceTheorems, TLAPS

-----------------------------------------------------------------------------
(* What is out, relative to a guard and a generation of each loop *)

Requests == Http \cup Watchdog

Status == {"offline", "connecting", "online"}

IsPoll(x, pg) == x.what = "poll" /\ x.gen = pg

IsAuth(x, g) == x.what \in {"challenge", "verify"} /\ x.gen = g

PollsOwned(going, pg, ps) ==
    /\ \A x \in ps : IsPoll(x, pg) => going
    /\ \A x, y \in ps : IsPoll(x, pg) /\ IsPoll(y, pg) => x = y
    /\ going => [what |-> "PollWatchdog", gen |-> pg] \in ps

AuthOwned(busy, g, ps) ==
    /\ \A x \in ps : IsAuth(x, g) => busy
    /\ \A x, y \in ps : IsAuth(x, g) /\ IsAuth(y, g) => x = y
    /\ busy => [what |-> "AuthWatchdog", gen |-> g] \in ps

\* Every request that would be honoured was sent to r.
PollsAt(r, pg, ps) == \A x \in ps : IsPoll(x, pg) => x.relay = r

AuthAt(r, g, ps) == \A x \in ps : IsAuth(x, g) => x.relay = r

\* What a handler sends when relay r, token t and cursor c are its model's.
Asked(r, t, c, x) ==
    \/ x.what \in {"PollWatchdog", "AuthWatchdog"}
    \/ x.what = "challenge" /\ x.relay = r
    \/ x.what = "verify" /\ x.relay = r /\ x.challenger = r
    \/ x.what = "poll" /\ x.relay = r /\ x.token = t /\ x.cursor = c

\* Everything out afterwards was out before or has just been asked.
Grows(ps) == \A x \in pending' \ ps : Asked(relay', token', cursor', x)

-----------------------------------------------------------------------------
(* Generations and requests *)

\* The next generation is one, and another.
LEMMA NextGenType == ASSUME NEW g \in Gens PROVE NextGen(g) \in Gens
BY SessionAssumption DEF NextGen, Gens

\* What the handlers send is well typed.
LEMMA RequestTypes ==
    ASSUME NEW g \in Gens, NEW r \in Relays, NEW t \in Relays, NEW c \in Cursors,
           NEW q \in Relays
    PROVE  /\ [what |-> "challenge", gen |-> g, relay |-> r] \in Requests
           /\ [what |-> "verify", gen |-> g, relay |-> r, challenger |-> q] \in Requests
           /\ [what |-> "poll", gen |-> g, relay |-> r, token |-> t, cursor |-> c] \in Requests
           /\ [what |-> "PollWatchdog", gen |-> g] \in Requests
           /\ [what |-> "AuthWatchdog", gen |-> g] \in Requests
BY DEF Requests, Http, Watchdog

-----------------------------------------------------------------------------
(* The events handlers emit *)

\* Authenticate leaves one live attempt, with its watchdog, and the poll loop as it was.
LEMMA AuthenticateOutcome ==
    ASSUME NEW going, NEW pg, NEW busy \in BOOLEAN, NEW c \in Status, NEW g \in Gens,
           NEW ps \in SUBSET Requests, relay' \in Relays,
           Authenticate(busy, c, g, ps),
           PollsOwned(going, pg, ps), AuthOwned(busy, g, ps)
    PROVE  /\ authenticating' = TRUE
           /\ conn' \in Status
           /\ (c = "online" => ~busy) => conn' # "online"
           /\ auth_gen' \in Gens
           /\ pending' \in SUBSET Requests
           /\ PollsOwned(going, pg, pending')
           /\ AuthOwned(TRUE, auth_gen', pending')
           /\ Grows(ps)
           /\ \A r : PollsAt(r, pg, ps) => PollsAt(r, pg, pending')
           /\ AuthAt(relay', g, ps) => AuthAt(relay', auth_gen', pending')
<1>1. CASE busy
    BY <1>1 DEF Authenticate, Grows
<1>2. CASE ~busy
  <2> DEFINE gen == NextGen(g)
             ask == [what |-> "challenge", gen |-> gen, relay |-> relay']
             dog == [what |-> "AuthWatchdog", gen |-> gen]
  <2>1. /\ authenticating' = TRUE /\ conn' = "connecting" /\ auth_gen' = gen
        /\ pending' = ps \cup {ask, dog}
        /\ \A x \in ps : x.what \in AuthKinds => x.gen # gen
      BY <1>2 DEF Authenticate, Retired
  <2>2. gen \in Gens /\ ask \in Requests /\ dog \in Requests
      BY NextGenType, RequestTypes DEF Requests, Http, Watchdog
  <2>3. /\ ask.what = "challenge" /\ ask.gen = gen /\ ask.relay = relay'
        /\ dog.what = "AuthWatchdog" /\ dog.gen = gen
      OBVIOUS
  <2> HIDE DEF gen, ask
  <2>4. PollsOwned(going, pg, pending')
      BY <2>1, <2>3 DEF PollsOwned, IsPoll
  <2>5. AuthOwned(TRUE, auth_gen', pending')
      BY <2>1, <2>3 DEF AuthOwned, IsAuth, AuthKinds
  <2>6. Grows(ps)
      BY <2>1, <2>3 DEF Grows, Asked
  <2>7. \A r : PollsAt(r, pg, ps) => PollsAt(r, pg, pending')
      BY <2>1, <2>3 DEF PollsAt, IsPoll
  <2>8. AuthAt(relay', auth_gen', pending')
      BY <2>1, <2>3 DEF AuthAt, IsAuth, AuthKinds
  <2>9. QED
      BY <2>1, <2>2, <2>4, <2>5, <2>6, <2>7, <2>8 DEF Status
<1>3. QED
    BY <1>1, <1>2

\* Poll leaves at most one live poll, with its watchdog; without a token it
\* authenticates, and either way the relay is being asked.
LEMMA PollOutcome ==
    ASSUME NEW going \in BOOLEAN, NEW pg \in Gens,
           NEW busy \in BOOLEAN, NEW c \in Status, NEW g \in Gens,
           NEW ps \in SUBSET Requests, relay' \in Relays,
           token' \in Relays \cup {Nobody}, cursor' \in Cursors,
           Poll(going, pg, busy, c, g, ps),
           PollsOwned(going, pg, ps), AuthOwned(busy, g, ps)
    PROVE  /\ polling' \in BOOLEAN /\ authenticating' \in BOOLEAN
           /\ polling' \/ authenticating'
           /\ conn' \in Status
           /\ (c = "online" => token' # Nobody /\ ~busy)
                 => (conn' = "online" => token' # Nobody /\ ~authenticating')
           /\ poll_gen' \in Gens /\ auth_gen' \in Gens
           /\ pending' \in SUBSET Requests
           /\ PollsOwned(polling', poll_gen', pending')
           /\ AuthOwned(authenticating', auth_gen', pending')
           /\ Grows(ps)
           /\ PollsAt(relay', pg, ps) => PollsAt(relay', poll_gen', pending')
           /\ AuthAt(relay', g, ps) => AuthAt(relay', auth_gen', pending')
<1>1. CASE going
    BY <1>1 DEF Poll, NoAuth, Grows
<1>2. CASE ~going /\ token' = Nobody
  <2>1. polling' = FALSE /\ poll_gen' = pg /\ Authenticate(busy, c, g, ps)
      BY <1>2 DEF Poll
  <2>2. QED
      BY <1>2, <2>1, AuthenticateOutcome
<1>3. CASE ~going /\ token' # Nobody
  <2> DEFINE gen == NextGen(pg)
             ask == [what |-> "poll", gen |-> gen, relay |-> relay', token |-> token',
                     cursor |-> cursor']
             dog == [what |-> "PollWatchdog", gen |-> gen]
  <2>1. /\ polling' = TRUE /\ poll_gen' = gen
        /\ authenticating' = busy /\ conn' = c /\ auth_gen' = g
        /\ pending' = ps \cup {ask, dog}
        /\ \A x \in ps : x.what \in PollKinds => x.gen # gen
      BY <1>3 DEF Poll, NoAuth, Retired
  <2>2. gen \in Gens /\ ask \in Requests /\ dog \in Requests
      BY <1>3, NextGenType, RequestTypes DEF Requests, Http, Watchdog
  <2>3. /\ ask.what = "poll" /\ ask.gen = gen /\ ask.relay = relay' /\ ask.token = token'
        /\ ask.cursor = cursor'
        /\ dog.what = "PollWatchdog" /\ dog.gen = gen
      OBVIOUS
  <2> HIDE DEF gen, ask
  <2>4. PollsOwned(TRUE, poll_gen', pending')
      BY <2>1, <2>3 DEF PollsOwned, IsPoll, PollKinds
  <2>5. AuthOwned(busy, g, pending')
      BY <2>1, <2>3 DEF AuthOwned, IsAuth
  <2>6. Grows(ps)
      BY <2>1, <2>3 DEF Grows, Asked
  <2>7. PollsAt(relay', poll_gen', pending')
      BY <2>1, <2>3 DEF PollsAt, IsPoll, PollKinds
  <2>8. AuthAt(relay', g, ps) => AuthAt(relay', g, pending')
      BY <2>1, <2>3 DEF AuthAt, IsAuth
  <2>9. QED
      BY <1>3, <2>1, <2>2, <2>4, <2>5, <2>6, <2>7, <2>8
<1>4. QED
    BY <1>1, <1>2, <1>3

\* Connect retires the attempt that is out, and asks the relay unless storage is
\* unreadable.
LEMMA ConnectOutcome ==
    ASSUME NEW going \in BOOLEAN, NEW pg \in Gens, NEW c \in Status,
           NEW ps \in SUBSET Requests, relay' \in Relays, auth_gen \in Gens,
           token' \in Relays \cup {Nobody}, cursor' \in Cursors,
           Connect(going, pg, c, ps), PollsOwned(going, pg, ps)
    PROVE  /\ polling' \in BOOLEAN /\ authenticating' \in BOOLEAN
           /\ kv_load_failed' \/ polling' \/ authenticating'
           /\ conn' \in Status
           /\ (c = "online" => token' # Nobody)
                 => (conn' = "online" => token' # Nobody /\ ~authenticating')
           /\ poll_gen' \in Gens /\ auth_gen' \in Gens
           /\ pending' \in SUBSET Requests
           /\ PollsOwned(polling', poll_gen', pending')
           /\ AuthOwned(authenticating', auth_gen', pending')
           /\ Grows(ps)
           /\ PollsAt(relay', pg, ps) => PollsAt(relay', poll_gen', pending')
           /\ AuthAt(relay', auth_gen', pending')
<1> DEFINE g == NextGen(auth_gen)
<1>1. g \in Gens
    BY NextGenType
<1>2. \A x \in ps : x.what \in AuthKinds => x.gen # g
    BY DEF Connect, Retired
<1>3. AuthOwned(FALSE, g, ps) /\ AuthAt(relay', g, ps)
    BY <1>2 DEF AuthOwned, AuthAt, IsAuth, AuthKinds
<1>4. \/ /\ kv_load_failed'
         /\ polling' = going /\ poll_gen' = pg /\ NoAuth(FALSE, c, g, ps)
      \/ c # "online" /\ polling' = going /\ poll_gen' = pg /\ Authenticate(FALSE, c, g, ps)
      \/ Poll(going, pg, FALSE, c, g, ps)
    BY DEF Connect
<1> HIDE DEF g
<1>5. CASE /\ kv_load_failed'
           /\ polling' = going /\ poll_gen' = pg /\ NoAuth(FALSE, c, g, ps)
    BY <1>1, <1>3, <1>5 DEF NoAuth, Grows
<1>6. CASE c # "online" /\ polling' = going /\ poll_gen' = pg /\ Authenticate(FALSE, c, g, ps)
    BY <1>1, <1>3, <1>6, AuthenticateOutcome
<1>7. CASE Poll(going, pg, FALSE, c, g, ps)
    BY <1>1, <1>3, <1>7, PollOutcome
<1>8. QED
    BY <1>4, <1>5, <1>6, <1>7

-----------------------------------------------------------------------------
(* The guards are owned *)

\* The parts of the model and the shell that the loops do not own.
AroundType ==
    /\ relay \in Relays
    /\ cursor \in Cursors
    /\ token \in Relays \cup {Nobody}
    /\ loads \subseteq Loads
    /\ kv_load_failed \in BOOLEAN
    /\ timers \in [{"Poll", "Authenticate"} -> 0 .. MaxTimers]
    /\ writes \in Seq(Write)
    /\ disk \in [relay: Relays, cursor: Cursors]

\* The two loops: well typed, their guards owned.
LoopsInv ==
    /\ conn \in Status
    /\ polling \in BOOLEAN
    /\ poll_gen \in Gens
    /\ authenticating \in BOOLEAN
    /\ auth_gen \in Gens
    /\ pending \in SUBSET Requests
    /\ PollsOwned(polling, poll_gen, pending)
    /\ AuthOwned(authenticating, auth_gen, pending)

\* The inductive invariant of the guards.
GuardInv == AroundType /\ LoopsInv /\ OnlineIsHonest /\ NeverStranded

loops == <<conn, polling, poll_gen, authenticating, auth_gen, pending>>

\* The cursor of a relay that has not been polled.
LEMMA ZeroType == Zero \in Cursors
BY DEF Cursors

\* What a switch and a page queue.
LEMMA WriteTypes ==
    ASSUME NEW r \in Relays, NEW c \in Cursors
    PROVE  /\ [key |-> "settings", value |-> r, then |-> "Saved"] \in Write
           /\ [key |-> "cursor", value |-> c, then |-> "Saved"] \in Write
           /\ [key |-> "cursor", value |-> c, then |-> "SavedCursor"] \in Write
BY DEF Write

\* Arming and firing a timer keep the types; an armed timer is an alarm.
LEMMA TimerTypes ==
    ASSUME timers \in [{"Poll", "Authenticate"} -> 0 .. MaxTimers],
           NEW e \in {"Poll", "Authenticate"}
    PROVE  /\ Armed(e) => /\ timers' \in [{"Poll", "Authenticate"} -> 0 .. MaxTimers]
                          /\ timers'[e] > 0
           /\ Fired(e) => timers' \in [{"Poll", "Authenticate"} -> 0 .. MaxTimers]
<1>1. MaxTimers \in Nat
    BY SessionAssumption
<1>2. timers[e] \in 0 .. MaxTimers
    OBVIOUS
<1>3. QED
    BY <1>1, <1>2 DEF Armed, Fired

\* Dropping a request that was answered, or a watchdog that guards nothing.
LEMMA DropKeeps ==
    ASSUME LoopsInv, NEW x \in pending,
           x.what = "PollWatchdog" => x.gen # poll_gen \/ ~polling,
           x.what = "AuthWatchdog" => x.gen # auth_gen \/ ~authenticating
    PROVE  /\ pending \ {x} \in SUBSET Requests
           /\ PollsOwned(polling, poll_gen, pending \ {x})
           /\ AuthOwned(authenticating, auth_gen, pending \ {x})
<1>1. PollsOwned(polling, poll_gen, pending \ {x})
    BY DEF LoopsInv, PollsOwned
<1>2. AuthOwned(authenticating, auth_gen, pending \ {x})
    BY DEF LoopsInv, AuthOwned
<1>3. QED
    BY <1>1, <1>2 DEF LoopsInv

\* Once the live poll has been answered no poll is live.
LEMMA PollAnswered ==
    ASSUME LoopsInv, NEW x \in pending, LivePoll(x)
    PROVE  /\ polling
           /\ pending \ {x} \in SUBSET Requests
           /\ PollsOwned(FALSE, poll_gen, pending \ {x})
           /\ AuthOwned(authenticating, auth_gen, pending \ {x})
<1>1. IsPoll(x, poll_gen) /\ polling
    BY DEF LivePoll, IsPoll, LoopsInv, PollsOwned
<1>2. PollsOwned(FALSE, poll_gen, pending \ {x})
    BY <1>1 DEF LoopsInv, PollsOwned
<1>3. AuthOwned(authenticating, auth_gen, pending \ {x})
    BY <1>1, DropKeeps DEF IsPoll
<1>4. QED
    BY <1>1, <1>2, <1>3 DEF LoopsInv

\* Once the live attempt has been answered none is live.
LEMMA AuthAnswered ==
    ASSUME LoopsInv, NEW x \in pending, LiveAuth(x)
    PROVE  /\ authenticating
           /\ pending \ {x} \in SUBSET Requests
           /\ PollsOwned(polling, poll_gen, pending \ {x})
           /\ AuthOwned(FALSE, auth_gen, pending \ {x})
<1>1. IsAuth(x, auth_gen) /\ authenticating
    BY DEF LiveAuth, IsAuth, LoopsInv, AuthOwned
<1>2. AuthOwned(FALSE, auth_gen, pending \ {x})
    BY <1>1 DEF LoopsInv, AuthOwned
<1>3. PollsOwned(polling, poll_gen, pending \ {x})
    BY <1>1, DropKeeps DEF IsAuth
<1>4. QED
    BY <1>1, <1>2, <1>3 DEF LoopsInv

\* The initial states.
LEMMA InitGuard == Init => GuardInv
<1> SUFFICES ASSUME Init PROVE GuardInv
    OBVIOUS
<1>1. AroundType
  <2>1. timers \in [{"Poll", "Authenticate"} -> 0 .. MaxTimers]
      BY SessionAssumption DEF Init, Launched
  <2>2. relay \in Relays /\ cursor \in Cursors /\ token = Nobody
      BY SessionAssumption DEF Init, Launched, Cursors
  <2>3. writes \in Seq(Write) /\ disk \in [relay: Relays, cursor: Cursors]
      BY DEF Init
  <2>4. loads \subseteq Loads /\ kv_load_failed \in BOOLEAN
      BY DEF Init, Launched
  <2>5. QED
      BY <2>1, <2>2, <2>3, <2>4 DEF AroundType
<1>2. LoopsInv
  <2>1. 0 \in Gens
      BY SessionAssumption DEF Gens
  <2>2. /\ conn = "offline" /\ polling = FALSE /\ authenticating = FALSE
        /\ poll_gen = 0 /\ auth_gen = 0 /\ pending = {}
      BY DEF Init, Launched
  <2>3. QED
      BY <2>1, <2>2 DEF LoopsInv, Status, PollsOwned, AuthOwned
<1>3. OnlineIsHonest /\ NeverStranded
    BY DEF Init, Launched, OnlineIsHonest, NeverStranded, Loads
<1>4. QED
    BY <1>1, <1>2, <1>3 DEF GuardInv

-----------------------------------------------------------------------------
(* Startup, the user and the foreground *)

LEMMA LoadedGuard ==
    ASSUME GuardInv, NEW key \in Loads, NEW ok \in BOOLEAN, Loaded(key, ok)
    PROVE  GuardInv'
<1>1. AroundType'
    BY DEF GuardInv, AroundType, Loaded, Connect, Loads
<1>2. CASE loads' = {} /\ ~kv_load_failed'
  <2>1. token' = token /\ Connect(polling, poll_gen, conn, pending)
      BY <1>2 DEF Loaded
  <2>2. LoopsInv' /\ (polling' \/ authenticating') /\ OnlineIsHonest'
      BY <1>1, <1>2, <2>1, ConnectOutcome
      DEF GuardInv, AroundType, LoopsInv, OnlineIsHonest
  <2>3. QED
      BY <1>1, <2>2 DEF GuardInv, NeverStranded
<1>3. CASE ~(loads' = {} /\ ~kv_load_failed')
  <2>1. UNCHANGED loops /\ token' = token
      BY <1>3 DEF Loaded, loops
  <2>2. LoopsInv' /\ OnlineIsHonest'
      BY <2>1 DEF GuardInv, LoopsInv, OnlineIsHonest, loops
  <2>3. QED
      BY <1>1, <1>3, <2>2 DEF GuardInv, NeverStranded
<1>4. QED
    BY <1>2, <1>3

LEMMA LoadFailsGuard == ASSUME GuardInv, LoadFails PROVE GuardInv'
BY DEF LoadFails, GuardInv, AroundType, LoopsInv, OnlineIsHonest, NeverStranded

LEMMA ForegroundGuard == ASSUME GuardInv, Foreground PROVE GuardInv'
<1>1. AroundType' /\ token' = token /\ Connect(polling, poll_gen, conn, pending)
    BY DEF GuardInv, AroundType, Foreground
<1>2. LoopsInv' /\ (kv_load_failed' \/ polling' \/ authenticating') /\ OnlineIsHonest'
    BY <1>1, ConnectOutcome DEF GuardInv, AroundType, LoopsInv, OnlineIsHonest
<1>3. QED
    BY <1>1, <1>2 DEF GuardInv, NeverStranded

LEMMA SetServerUrlGuard ==
    ASSUME GuardInv, NEW r \in Relays, SetServerUrl(r) PROVE GuardInv'
<1> DEFINE pg == NextGen(poll_gen)
<1>1. pg \in Gens
    BY NextGenType DEF GuardInv, LoopsInv
<1>2. AroundType'
  <2> DEFINE s == [key |-> "settings", value |-> r, then |-> "Saved"]
             z == [key |-> "cursor", value |-> Zero, then |-> "Saved"]
  <2>1. s \in Write /\ z \in Write /\ Zero \in Cursors
      BY WriteTypes, ZeroType
  <2>2. /\ relay' = r /\ token' = Nobody /\ cursor' = Zero
        /\ UNCHANGED <<loads, kv_load_failed, timers, disk>>
        /\ writes' = writes \/ writes' = writes \o <<s, z>>
      BY DEF SetServerUrl
  <2> HIDE DEF s, z
  <2>3. writes' \in Seq(Write)
    <3>1. writes \in Seq(Write) /\ <<s, z>> \in Seq(Write)
        BY <2>1 DEF GuardInv, AroundType
    <3>2. writes \o <<s, z>> \in Seq(Write)
        BY <3>1, ConcatProperties
    <3>3. QED
        BY <2>2, <3>1, <3>2
  <2>4. QED
      BY <2>1, <2>2, <2>3 DEF GuardInv, AroundType
<1>3. Connect(FALSE, pg, "offline", pending) /\ PollsOwned(FALSE, pg, pending)
    BY DEF SetServerUrl, Retired, PollKinds, PollsOwned, IsPoll
<1>4. "offline" \in Status
    BY DEF Status
<1> HIDE DEF pg
<1>5. LoopsInv' /\ (kv_load_failed' \/ polling' \/ authenticating') /\ OnlineIsHonest'
    BY <1>1, <1>2, <1>3, <1>4, ConnectOutcome
    DEF GuardInv, AroundType, LoopsInv, OnlineIsHonest
<1>6. QED
    BY <1>2, <1>5 DEF GuardInv, NeverStranded

-----------------------------------------------------------------------------
(* The auth round-trip *)

LEMMA AuthResultGuard ==
    ASSUME GuardInv, NEW x \in pending, AuthResult(x)
    PROVE  GuardInv'
<1>1. CASE AuthResultStale(x)
  <2>1. /\ x.what \in {"challenge", "verify"}
        /\ pending' = pending \ {x} /\ UNCHANGED <<model, timers, writes, disk>>
      BY <1>1 DEF AuthResultStale
  <2>2. LoopsInv'
      BY <2>1, DropKeeps DEF GuardInv, LoopsInv, model
  <2>3. QED
      BY <2>1, <2>2 DEF GuardInv, AroundType, OnlineIsHonest, NeverStranded, model
<1>2. CASE AuthResultFails(x)
  <2>1. /\ LiveAuth(x) /\ Armed("Authenticate")
        /\ authenticating' = FALSE /\ conn' = "offline" /\ auth_gen' = auth_gen
        /\ pending' = pending \ {x}
        /\ UNCHANGED <<relay, cursor, token, polling, poll_gen, loads, kv_load_failed,
                       writes, disk>>
      BY <1>2 DEF AuthResultFails, NoAuth
  <2>2. LoopsInv'
      BY <2>1, AuthAnswered DEF GuardInv, LoopsInv, Status
  <2>3. AroundType' /\ timers'["Authenticate"] > 0
      BY <2>1, TimerTypes DEF GuardInv, AroundType
  <2>4. QED
      BY <2>1, <2>2, <2>3 DEF GuardInv, OnlineIsHonest, NeverStranded
<1>3. CASE ChallengeResult(x)
  <2> DEFINE v == [what |-> "verify", gen |-> auth_gen, relay |-> relay,
                   challenger |-> x.relay]
  <2>1. /\ LiveAuth(x) /\ x.what = "challenge"
        /\ authenticating' = TRUE /\ conn' = conn /\ auth_gen' = auth_gen
        /\ pending' = (pending \ {x}) \cup {v}
        /\ UNCHANGED <<relay, cursor, token, polling, poll_gen, loads, kv_load_failed,
                       timers, writes, disk>>
      BY <1>3 DEF ChallengeResult, NoAuth
  <2>2. /\ authenticating /\ pending \ {x} \in SUBSET Requests
        /\ PollsOwned(polling, poll_gen, pending \ {x})
        /\ AuthOwned(FALSE, auth_gen, pending \ {x})
      BY <2>1, AuthAnswered DEF GuardInv
  <2>3. x.relay \in Relays /\ auth_gen \in Gens /\ relay \in Relays
      BY <2>1 DEF GuardInv, LoopsInv, AroundType, Requests, Http, Watchdog
  <2>4. v \in Requests /\ v.what = "verify" /\ v.gen = auth_gen
      BY <2>3 DEF Requests, Http
  <2>5. [what |-> "AuthWatchdog", gen |-> auth_gen] \in pending'
      BY <2>1, <2>2 DEF GuardInv, LoopsInv, AuthOwned
  <2> HIDE DEF v
  <2>6. PollsOwned(polling, poll_gen, pending')
      BY <2>1, <2>2, <2>4 DEF PollsOwned, IsPoll
  <2>7. AuthOwned(TRUE, auth_gen, pending')
      BY <2>1, <2>2, <2>4, <2>5 DEF AuthOwned, IsAuth
  <2>8. LoopsInv'
      BY <2>1, <2>2, <2>4, <2>6, <2>7 DEF GuardInv, LoopsInv
  <2>9. QED
      BY <2>1, <2>2, <2>8 DEF GuardInv, AroundType, OnlineIsHonest, NeverStranded
<1>4. CASE VerifyResult(x)
  <2>1. /\ LiveAuth(x) /\ x.what = "verify" /\ token' = x.relay
        /\ Poll(polling, poll_gen, FALSE, "online", auth_gen, pending \ {x})
        /\ UNCHANGED <<relay, cursor, loads, kv_load_failed, timers, writes, disk>>
      BY <1>4 DEF VerifyResult
  <2>2. x.relay \in Relays
      BY <2>1 DEF GuardInv, LoopsInv, Requests, Http, Watchdog
  <2>3. AroundType' /\ token' # Nobody
      BY <2>1, <2>2, SessionAssumption DEF GuardInv, AroundType
  <2>4. /\ pending \ {x} \in SUBSET Requests
        /\ PollsOwned(polling, poll_gen, pending \ {x})
        /\ AuthOwned(FALSE, auth_gen, pending \ {x})
        /\ "online" \in Status
      BY <2>1, AuthAnswered DEF GuardInv, Status
  <2>5. LoopsInv' /\ (polling' \/ authenticating') /\ OnlineIsHonest'
      BY <2>1, <2>3, <2>4, PollOutcome DEF GuardInv, AroundType, LoopsInv, OnlineIsHonest
  <2>6. QED
      BY <2>3, <2>5 DEF GuardInv, NeverStranded
<1>5. QED
    BY <1>1, <1>2, <1>3, <1>4 DEF AuthResult

LEMMA AuthWatchdogGuard ==
    ASSUME GuardInv, NEW x \in pending, AuthWatchdog(x)
    PROVE  GuardInv'
<1>1. /\ x.what = "AuthWatchdog"
      /\ UNCHANGED <<relay, cursor, token, loads, kv_load_failed, polling, poll_gen>>
      /\ UNCHANGED <<timers, writes, disk>>
    BY DEF AuthWatchdog
<1>2. AroundType'
    BY <1>1 DEF GuardInv, AroundType
<1>3. CASE x.gen # auth_gen \/ ~authenticating
  <2>1. NoAuth(authenticating, conn, auth_gen, pending \ {x})
      BY <1>3 DEF AuthWatchdog
  <2>2. LoopsInv'
      BY <1>1, <1>3, <2>1, DropKeeps DEF GuardInv, LoopsInv, NoAuth
  <2>3. QED
      BY <1>1, <1>2, <2>1, <2>2 DEF GuardInv, OnlineIsHonest, NeverStranded, NoAuth
<1>4. CASE ~(x.gen # auth_gen \/ ~authenticating)
  <2> DEFINE g == NextGen(auth_gen)
  <2>1. Authenticate(FALSE, conn, g, pending \ {x})
        /\ (\A y \in pending : y.what \in AuthKinds => y.gen # g)
      BY <1>4 DEF AuthWatchdog, Retired
  <2>2. g \in Gens
      BY NextGenType DEF GuardInv, LoopsInv
  <2>3. /\ pending \ {x} \in SUBSET Requests
        /\ PollsOwned(polling, poll_gen, pending \ {x})
      BY <1>1 DEF GuardInv, LoopsInv, PollsOwned
  <2>4. AuthOwned(FALSE, g, pending \ {x})
      BY <2>1 DEF AuthOwned, IsAuth, AuthKinds
  <2> HIDE DEF g
  <2>5. LoopsInv' /\ authenticating' /\ conn' # "online"
      BY <1>1, <1>2, <2>1, <2>2, <2>3, <2>4, AuthenticateOutcome
      DEF GuardInv, LoopsInv, AroundType
  <2>6. QED
      BY <1>2, <2>5 DEF GuardInv, OnlineIsHonest, NeverStranded
<1>5. QED
    BY <1>3, <1>4

LEMMA SendUnauthorizedGuard == ASSUME GuardInv, SendUnauthorized PROVE GuardInv'
<1>1. /\ token' = Nobody
      /\ UNCHANGED <<relay, cursor, loads, kv_load_failed, polling, poll_gen>>
      /\ Authenticate(authenticating, conn, auth_gen, pending)
      /\ UNCHANGED <<timers, writes, disk>>
    BY DEF SendUnauthorized
<1>2. AroundType'
    BY <1>1 DEF GuardInv, AroundType
<1>3. LoopsInv' /\ authenticating' /\ conn' # "online"
    BY <1>1, <1>2, AuthenticateOutcome DEF GuardInv, LoopsInv, AroundType, OnlineIsHonest
<1>4. QED
    BY <1>2, <1>3 DEF GuardInv, OnlineIsHonest, NeverStranded

-----------------------------------------------------------------------------
(* The poll loop *)

LEMMA PollWatchdogGuard ==
    ASSUME GuardInv, NEW x \in pending, PollWatchdog(x)
    PROVE  GuardInv'
<1>1. /\ x.what = "PollWatchdog"
      /\ UNCHANGED <<relay, cursor, token, loads, kv_load_failed>>
      /\ UNCHANGED <<timers, writes, disk>>
    BY DEF PollWatchdog
<1>2. AroundType'
    BY <1>1 DEF GuardInv, AroundType
<1>3. CASE x.gen # poll_gen \/ ~polling
  <2>1. /\ UNCHANGED <<polling, poll_gen>>
        /\ NoAuth(authenticating, conn, auth_gen, pending \ {x})
      BY <1>3 DEF PollWatchdog
  <2>2. LoopsInv'
      BY <1>1, <1>3, <2>1, DropKeeps DEF GuardInv, LoopsInv, NoAuth
  <2>3. QED
      BY <1>1, <1>2, <2>1, <2>2 DEF GuardInv, OnlineIsHonest, NeverStranded, NoAuth
<1>4. CASE ~(x.gen # poll_gen \/ ~polling)
  <2> DEFINE pg == NextGen(poll_gen)
  <2>1. Poll(FALSE, pg, authenticating, conn, auth_gen, pending \ {x})
        /\ (\A y \in pending : y.what \in PollKinds => y.gen # pg)
      BY <1>4 DEF PollWatchdog, Retired
  <2>2. pg \in Gens
      BY NextGenType DEF GuardInv, LoopsInv
  <2>3. /\ pending \ {x} \in SUBSET Requests
        /\ AuthOwned(authenticating, auth_gen, pending \ {x})
      BY <1>1 DEF GuardInv, LoopsInv, AuthOwned
  <2>4. PollsOwned(FALSE, pg, pending \ {x})
      BY <2>1 DEF PollsOwned, IsPoll, PollKinds
  <2> HIDE DEF pg
  <2>5. LoopsInv' /\ (polling' \/ authenticating') /\ OnlineIsHonest'
    <3>1. relay' \in Relays /\ token' \in Relays \cup {Nobody} /\ cursor' \in Cursors
        BY <1>2 DEF AroundType
    <3>2. /\ authenticating \in BOOLEAN /\ conn \in Status /\ auth_gen \in Gens
          /\ conn = "online" => token' # Nobody /\ ~authenticating
        BY <1>1 DEF GuardInv, LoopsInv, OnlineIsHonest
    <3>3. /\ polling' \in BOOLEAN /\ authenticating' \in BOOLEAN
          /\ polling' \/ authenticating'
          /\ conn' \in Status
          /\ conn' = "online" => token' # Nobody /\ ~authenticating'
          /\ poll_gen' \in Gens /\ auth_gen' \in Gens
          /\ pending' \in SUBSET Requests
          /\ PollsOwned(polling', poll_gen', pending')
          /\ AuthOwned(authenticating', auth_gen', pending')
        BY <2>1, <2>2, <2>3, <2>4, <3>1, <3>2, PollOutcome
    <3>4. QED
        BY <3>3 DEF LoopsInv, OnlineIsHonest
  <2>6. QED
      BY <1>2, <2>5 DEF GuardInv, NeverStranded
<1>5. QED
    BY <1>3, <1>4

LEMMA PollResultGuard ==
    ASSUME GuardInv, NEW x \in pending, PollResult(x)
    PROVE  GuardInv'
<1>1. CASE PollResultStale(x)
  <2>1. /\ x.what = "poll"
        /\ pending' = pending \ {x} /\ UNCHANGED <<model, timers, writes, disk>>
      BY <1>1 DEF PollResultStale
  <2>2. LoopsInv'
      BY <2>1, DropKeeps DEF GuardInv, LoopsInv, model
  <2>3. QED
      BY <2>1, <2>2 DEF GuardInv, AroundType, OnlineIsHonest, NeverStranded, model
<1>2. CASE PollResultFails(x)
  <2>1. /\ LivePoll(x) /\ Armed("Poll")
        /\ polling' = FALSE /\ authenticating' = authenticating /\ conn' = "offline"
        /\ auth_gen' = auth_gen /\ pending' = pending \ {x}
        /\ UNCHANGED <<relay, cursor, token, poll_gen, loads, kv_load_failed, writes, disk>>
      BY <1>2 DEF PollResultFails, NoAuth
  <2>2. LoopsInv'
      BY <2>1, PollAnswered DEF GuardInv, LoopsInv, Status
  <2>3. AroundType' /\ timers'["Poll"] > 0
      BY <2>1, TimerTypes DEF GuardInv, AroundType
  <2>4. QED
      BY <2>1, <2>2, <2>3 DEF GuardInv, OnlineIsHonest, NeverStranded
<1>3. CASE PollResult401(x)
  <2>1. /\ LivePoll(x) /\ token' = Nobody /\ polling' = FALSE
        /\ UNCHANGED <<relay, cursor, loads, kv_load_failed, poll_gen, timers, writes, disk>>
        /\ Authenticate(authenticating, conn, auth_gen, pending \ {x})
      BY <1>3 DEF PollResult401
  <2>2. AroundType'
      BY <2>1 DEF GuardInv, AroundType
  <2>3. LoopsInv' /\ authenticating' /\ conn' # "online"
      BY <2>1, <2>2, PollAnswered, AuthenticateOutcome
      DEF GuardInv, LoopsInv, AroundType, OnlineIsHonest
  <2>4. QED
      BY <2>2, <2>3 DEF GuardInv, OnlineIsHonest, NeverStranded
<1>4. CASE PollResultRefused(x)
  <2>1. /\ LivePoll(x) /\ kv_load_failed /\ polling' = FALSE /\ pending' = pending \ {x}
        /\ UNCHANGED <<relay, cursor, token, conn, poll_gen, authenticating, auth_gen, loads,
                       kv_load_failed, timers, writes, disk>>
      BY <1>4 DEF PollResultRefused
  <2>2. LoopsInv'
      BY <2>1, PollAnswered DEF GuardInv, LoopsInv
  <2>3. QED
      BY <2>1, <2>2 DEF GuardInv, AroundType, OnlineIsHonest, NeverStranded
<1>5. CASE PollResultIdle(x)
  <2>1. /\ LivePoll(x) /\ Armed("Poll")
        /\ UNCHANGED <<relay, cursor, token, loads, kv_load_failed, writes, disk>>
        /\ Poll(FALSE, poll_gen, authenticating, conn, auth_gen, pending \ {x})
      BY <1>5 DEF PollResultIdle
  <2>2. AroundType'
      BY <2>1, TimerTypes DEF GuardInv, AroundType
  <2>3. /\ pending \ {x} \in SUBSET Requests
        /\ PollsOwned(FALSE, poll_gen, pending \ {x})
        /\ AuthOwned(authenticating, auth_gen, pending \ {x})
      BY <2>1, PollAnswered DEF GuardInv
  <2>4. /\ Poll(FALSE, poll_gen, authenticating, conn, auth_gen, pending \ {x})
        /\ UNCHANGED token
      BY <2>1
  <2>5. /\ relay' \in Relays /\ token' \in Relays \cup {Nobody} /\ cursor' \in Cursors
        /\ poll_gen \in Gens /\ authenticating \in BOOLEAN /\ conn \in Status
        /\ auth_gen \in Gens
        /\ conn = "online" => token' # Nobody /\ ~authenticating
      BY <2>2, <2>4 DEF GuardInv, LoopsInv, AroundType, OnlineIsHonest
  <2>6. LoopsInv' /\ (polling' \/ authenticating') /\ OnlineIsHonest'
      BY <2>3, <2>4, <2>5, PollOutcome DEF LoopsInv, OnlineIsHonest
  <2>7. QED
      BY <2>2, <2>6 DEF GuardInv, NeverStranded
<1>6. ASSUME NEW n \in 1 .. MaxCursor, PollResultMail(x, n) PROVE GuardInv'
  <2> DEFINE c == [of |-> x.relay, n |-> n]
             w == [key |-> "cursor", value |-> c, then |-> "SavedCursor"]
  <2>1. /\ LivePoll(x) /\ Armed("Poll")
        /\ polling' = FALSE /\ pending' = pending \ {x}
        /\ cursor' = c /\ writes' = Append(writes, w)
        /\ UNCHANGED <<relay, token, conn, poll_gen, authenticating, auth_gen, loads,
                       kv_load_failed, disk>>
      BY <1>6 DEF PollResultMail
  <2>2. x.relay \in Relays
      BY <2>1 DEF LivePoll, GuardInv, LoopsInv, Requests, Http, Watchdog
  <2>3. c \in Cursors /\ w \in Write
      BY <2>2, WriteTypes DEF Cursors
  <2> HIDE DEF c, w
  <2>4. writes' \in Seq(Write)
      BY <2>1, <2>3, AppendProperties DEF GuardInv, AroundType
  <2>5. AroundType' /\ timers'["Poll"] > 0
      BY <2>1, <2>3, <2>4, TimerTypes DEF GuardInv, AroundType
  <2>6. LoopsInv'
      BY <2>1, PollAnswered DEF GuardInv, LoopsInv
  <2>7. QED
      BY <2>1, <2>5, <2>6 DEF GuardInv, OnlineIsHonest, NeverStranded
<1>7. QED
    BY <1>1, <1>2, <1>3, <1>4, <1>5, <1>6 DEF PollResult

-----------------------------------------------------------------------------
(* Storage, timers and the shell *)

\* A write that lands, or fails, leaves types behind it.
LEMMA LandsTypes ==
    ASSUME AroundType, NEW w, NEW ok \in BOOLEAN, Lands(w, ok)
    PROVE  /\ writes' \in Seq(Write) /\ writes' = Tail(writes) /\ w = Head(writes)
           /\ writes # <<>> /\ loads = {}
           /\ disk' \in [relay: Relays, cursor: Cursors]
<1>1. /\ writes # <<>> /\ w = Head(writes) /\ loads = {} /\ writes' = Tail(writes)
      /\ disk' = IF ~ok THEN disk
                 ELSE IF w.key = "settings" THEN [disk EXCEPT !.relay = w.value]
                 ELSE [disk EXCEPT !.cursor = w.value]
    BY DEF Lands
<1>2. w \in Write /\ writes' \in Seq(Write)
    BY <1>1, HeadTailProperties DEF AroundType
<1>3. disk \in [relay: Relays, cursor: Cursors]
    BY DEF AroundType
<1>4. CASE w.key = "settings"
  <2>1. w.value \in Relays
      BY <1>2, <1>4 DEF Write
  <2>2. QED
      BY <1>1, <1>2, <1>3, <1>4, <2>1
<1>5. CASE w.key # "settings"
  <2>1. w.value \in Cursors
      BY <1>2, <1>5 DEF Write
  <2>2. QED
      BY <1>1, <1>2, <1>3, <1>5, <2>1
<1>6. QED
    BY <1>4, <1>5

LEMMA WriteLandsGuard ==
    ASSUME GuardInv, NEW ok \in BOOLEAN, WriteLands(ok)
    PROVE  GuardInv'
<1>1. Lands(Head(writes), ok) /\ UNCHANGED <<model, pending, timers>>
    BY DEF WriteLands
<1>2. AroundType'
    BY <1>1, LandsTypes DEF GuardInv, AroundType, model
<1>3. QED
    BY <1>1, <1>2 DEF GuardInv, LoopsInv, OnlineIsHonest, NeverStranded, model

LEMMA SavedCursorGuard ==
    ASSUME GuardInv, NEW ok \in BOOLEAN, SavedCursor(ok)
    PROVE  GuardInv'
<1>1. /\ Lands(Head(writes), ok)
      /\ UNCHANGED <<relay, cursor, token, loads, kv_load_failed>>
    BY DEF SavedCursor
<1>2. CASE ok
  <2>1. Poll(polling, poll_gen, authenticating, conn, auth_gen, pending) /\ timers' = timers
      BY <1>2 DEF SavedCursor
  <2>2. AroundType'
      BY <1>1, <2>1, LandsTypes DEF GuardInv, AroundType
  <2>3. LoopsInv' /\ (polling' \/ authenticating') /\ OnlineIsHonest'
      BY <1>1, <2>1, <2>2, PollOutcome DEF GuardInv, LoopsInv, AroundType, OnlineIsHonest
  <2>4. QED
      BY <2>2, <2>3 DEF GuardInv, NeverStranded
<1>3. CASE ~ok
  <2>1. /\ UNCHANGED <<polling, poll_gen>> /\ Armed("Poll")
        /\ NoAuth(authenticating, "offline", auth_gen, pending)
      BY <1>3 DEF SavedCursor
  <2>2. AroundType' /\ timers'["Poll"] > 0
      BY <1>1, <2>1, LandsTypes, TimerTypes DEF GuardInv, AroundType
  <2>3. LoopsInv' /\ conn' = "offline"
      BY <2>1 DEF GuardInv, LoopsInv, NoAuth, Status
  <2>4. QED
      BY <2>2, <2>3 DEF GuardInv, OnlineIsHonest, NeverStranded
<1>4. QED
    BY <1>2, <1>3

LEMMA AuthTimerGuard == ASSUME GuardInv, AuthTimer PROVE GuardInv'
<1>1. /\ Fired("Authenticate")
      /\ UNCHANGED <<relay, cursor, token, loads, kv_load_failed, polling, poll_gen,
                     writes, disk>>
      /\ Authenticate(authenticating, conn, auth_gen, pending)
    BY DEF AuthTimer
<1>2. AroundType'
    BY <1>1, TimerTypes DEF GuardInv, AroundType
<1>3. LoopsInv' /\ authenticating' /\ conn' # "online"
    BY <1>1, <1>2, AuthenticateOutcome DEF GuardInv, LoopsInv, AroundType, OnlineIsHonest
<1>4. QED
    BY <1>2, <1>3 DEF GuardInv, OnlineIsHonest, NeverStranded

LEMMA PollTimerGuard == ASSUME GuardInv, PollTimer PROVE GuardInv'
<1>1. /\ Fired("Poll")
      /\ UNCHANGED <<relay, cursor, token, loads, kv_load_failed, writes, disk>>
      /\ Poll(polling, poll_gen, authenticating, conn, auth_gen, pending)
    BY DEF PollTimer
<1>2. AroundType'
    BY <1>1, TimerTypes DEF GuardInv, AroundType
<1>3. LoopsInv' /\ (polling' \/ authenticating') /\ OnlineIsHonest'
    BY <1>1, <1>2, PollOutcome DEF GuardInv, LoopsInv, AroundType, OnlineIsHonest
<1>4. QED
    BY <1>2, <1>3 DEF GuardInv, NeverStranded

LEMMA LoseGuard == ASSUME GuardInv, NEW x \in pending, Lose(x) PROVE GuardInv'
<1>1. /\ x.what \in {"challenge", "verify", "poll"}
      /\ pending' = pending \ {x} /\ UNCHANGED <<model, timers, writes, disk>>
    BY DEF Lose
<1>2. LoopsInv'
    BY <1>1, DropKeeps DEF GuardInv, LoopsInv, model
<1>3. QED
    BY <1>1, <1>2 DEF GuardInv, AroundType, OnlineIsHonest, NeverStranded, model

LEMMA RelaunchGuard == ASSUME GuardInv, Relaunch PROVE GuardInv'
<1>1. /\ relay' = Default /\ cursor' = Zero /\ token' = Nobody /\ conn' = "offline"
      /\ polling' = FALSE /\ authenticating' = FALSE /\ poll_gen' = 0 /\ auth_gen' = 0
      /\ loads' = Loads /\ kv_load_failed' = FALSE /\ pending' = {}
      /\ timers' = [e \in {"Poll", "Authenticate"} |-> 0]
      /\ writes' = <<>> /\ disk' = disk
    BY DEF Relaunch, Launched
<1>2. timers' \in [{"Poll", "Authenticate"} -> 0 .. MaxTimers] /\ 0 \in Gens
    BY <1>1, SessionAssumption DEF Gens
<1>3. AroundType'
  <2>1. loads' \subseteq Loads /\ kv_load_failed' \in BOOLEAN
      BY <1>1
  <2>2. relay' \in Relays /\ cursor' \in Cursors /\ token' \in Relays \cup {Nobody}
      BY <1>1, SessionAssumption, ZeroType
  <2>3. disk' \in [relay: Relays, cursor: Cursors]
      BY <1>1 DEF GuardInv, AroundType
  <2>4. writes' \in Seq(Write)
    <3>1. writes' = <<>>
        BY <1>1
    <3>2. QED
        BY <3>1
  <2>5. QED
      BY <1>2, <2>1, <2>2, <2>3, <2>4 DEF AroundType
<1>4. LoopsInv'
    BY <1>1, <1>2 DEF LoopsInv, Status, PollsOwned, AuthOwned
<1>5. QED
    BY <1>1, <1>3, <1>4 DEF GuardInv, OnlineIsHonest, NeverStranded, Loads

-----------------------------------------------------------------------------
\* Every step keeps the guards.
LEMMA StepGuard == GuardInv /\ [Next]_vars => GuardInv'
<1> SUFFICES ASSUME GuardInv, [Next]_vars PROVE GuardInv'
    OBVIOUS
<1>1. CASE Startup
    BY <1>1, LoadedGuard DEF Startup
<1>2. CASE LoadFails
    BY <1>2, LoadFailsGuard
<1>3. CASE Foreground
    BY <1>3, ForegroundGuard
<1>4. CASE \E r \in Relays : SetServerUrl(r)
    BY <1>4, SetServerUrlGuard
<1>5. CASE SendUnauthorized
    BY <1>5, SendUnauthorizedGuard
<1>6. CASE AuthTimer \/ PollTimer
    BY <1>6, AuthTimerGuard, PollTimerGuard
<1>7. CASE \E ok \in BOOLEAN : WriteLands(ok) \/ SavedCursor(ok)
    BY <1>7, WriteLandsGuard, SavedCursorGuard
<1>8. CASE Relaunch
    BY <1>8, RelaunchGuard
<1>9. ASSUME NEW x \in pending, AuthResult(x) \/ AuthWatchdog(x) PROVE GuardInv'
    BY <1>9, AuthResultGuard, AuthWatchdogGuard
<1>10. ASSUME NEW x \in pending, PollResult(x) \/ PollWatchdog(x) \/ Lose(x) PROVE GuardInv'
    BY <1>10, PollResultGuard, PollWatchdogGuard, LoseGuard
<1>11. CASE UNCHANGED vars
    BY <1>11 DEF vars, model, GuardInv, AroundType, LoopsInv, OnlineIsHonest, NeverStranded
<1>12. QED
    BY <1>1, <1>2, <1>3, <1>4, <1>5, <1>6, <1>7, <1>8, <1>9, <1>10, <1>11 DEF Next

\* The inductive invariant holds in every reachable state.
THEOREM GuardInvariant == Spec => []GuardInv
BY InitGuard, StepGuard, PTL DEF Spec

\* Every variable keeps its type, for any number of relays, generations and limits and
\* under any faults.
THEOREM SessionTyped == Spec => []TypeOK
<1>1. GuardInv => TypeOK
    BY DEF GuardInv, AroundType, LoopsInv, TypeOK, Status, Requests
<1>2. QED
    BY <1>1, GuardInvariant, PTL

\* A result that would be honoured finds its guard up, it is the only one, and while a
\* guard is up the watchdog that would release it is armed: no interleaving of results,
\* timeouts, relay switches, returns to the foreground and kills leaks a guard of the
\* poll loop or of the auth flow.
THEOREM GuardsAreOwned == Spec => []GuardsOwned
<1>1. GuardInv => GuardsOwned
    BY DEF GuardInv, LoopsInv, GuardsOwned, LivePoll, LiveAuth, PollsOwned, AuthOwned,
           IsPoll, IsAuth
<1>2. QED
    BY <1>1, GuardInvariant, PTL

\* Whatever the shell loses, a client whose storage is readable has an alarm left that
\* will ask the relay again: a guard whose watchdog is armed, or a timer.
THEOREM AlwaysAnAlarm == Spec => []NeverStranded
<1>1. GuardInv => NeverStranded
    BY DEF GuardInv
<1>2. QED
    BY <1>1, GuardInvariant, PTL

\* `Online` means a token and no auth under way, whatever has been abandoned since.
THEOREM OnlineHasToken == Spec => []OnlineIsHonest
<1>1. GuardInv => OnlineIsHonest
    BY DEF GuardInv
<1>2. QED
    BY <1>1, GuardInvariant, PTL

-----------------------------------------------------------------------------
(* Unreadable storage *)

Untouched ==
    kv_load_failed' =>
        /\ Len(writes') <= Len(writes)
        /\ cursor' # cursor => \/ cursor' = Zero
                               \/ "cursor" \in loads \ loads'

\* A step that queues nothing and leaves the cursor alone.
LEMMA SameUntouched ==
    ASSUME AroundType, writes' = writes \/ (writes # <<>> /\ writes' = Tail(writes)),
           cursor' = cursor
    PROVE  Untouched
<1>1. Len(writes) \in Nat /\ (writes # <<>> => Len(Tail(writes)) = Len(writes) - 1)
    BY HeadTailProperties DEF AroundType
<1>2. QED
    BY <1>1 DEF Untouched

LEMMA StepUntouched == GuardInv /\ [Next]_vars => Untouched
<1> SUFFICES ASSUME GuardInv, [Next]_vars PROVE Untouched
    OBVIOUS
<1>1. AroundType /\ Len(writes) \in Nat
    BY LenProperties DEF GuardInv, AroundType
<1>2. ASSUME NEW key \in Loads, NEW ok \in BOOLEAN, Loaded(key, ok) PROVE Untouched
  <2>1. /\ key \in loads /\ loads' = loads \ {key} /\ writes' = writes
        /\ key # "cursor" => cursor' = cursor
      BY <1>2 DEF Loaded
  <2>2. QED
      BY <1>1, <2>1 DEF Untouched
<1>3. CASE LoadFails \/ Foreground
    BY <1>1, <1>3, SameUntouched DEF LoadFails, Foreground
<1>4. ASSUME NEW r \in Relays, SetServerUrl(r) PROVE Untouched
  <2>1. cursor' = Zero /\ kv_load_failed' = kv_load_failed
        /\ (kv_load_failed => writes' = writes)
      BY <1>4 DEF SetServerUrl
  <2>2. QED
      BY <1>1, <2>1 DEF Untouched
<1>5. CASE SendUnauthorized \/ AuthTimer \/ PollTimer
    BY <1>1, <1>5, SameUntouched DEF SendUnauthorized, AuthTimer, PollTimer
<1>6. ASSUME NEW ok \in BOOLEAN, WriteLands(ok) \/ SavedCursor(ok) PROVE Untouched
    BY <1>1, <1>6, LandsTypes, SameUntouched DEF WriteLands, SavedCursor, model
<1>7. CASE Relaunch
    BY <1>7 DEF Relaunch, Untouched
<1>8. ASSUME NEW x \in pending, AuthResult(x) \/ AuthWatchdog(x) PROVE Untouched
    BY <1>1, <1>8, SameUntouched
    DEF AuthResult, AuthWatchdog, AuthResultStale, AuthResultFails, ChallengeResult,
        VerifyResult, model
<1>9. ASSUME NEW x \in pending, NEW n, PollResultMail(x, n) PROVE Untouched
    BY <1>9 DEF PollResultMail, Untouched
<1>10. ASSUME NEW x \in pending, PollResult(x) \/ PollWatchdog(x) \/ Lose(x) PROVE Untouched
    BY <1>1, <1>9, <1>10, SameUntouched
    DEF PollResult, PollWatchdog, Lose, PollResultStale, PollResultFails, PollResult401,
        PollResultRefused, PollResultIdle, model
<1>11. CASE UNCHANGED vars
    BY <1>1, <1>11, SameUntouched DEF vars, model
<1>12. QED
    BY <1>2, <1>3, <1>4, <1>5, <1>6, <1>7, <1>8, <1>10, <1>11 DEF Next, Startup

\* A model that has failed a read neither queues a write nor adopts mail: what is on disk
\* and what waits at the relay stay as they are until a relaunch.
THEOREM UnreadableStaysUntouched == Spec => UnreadableIsUntouched
<1>1. GuardInv /\ [Next]_vars => [Untouched]_vars
    BY StepUntouched
<1>2. Spec => [][Untouched]_vars
    BY <1>1, GuardInvariant, PTL DEF Spec
<1>3. QED
    BY <1>2 DEF UnreadableIsUntouched, Untouched

-----------------------------------------------------------------------------
(* A relay switch.                                                         *)
(*                                                                         *)
(* What follows holds once the startup loads have landed before the user   *)
(* or the foreground acts ("early" \notin Faults); the later theorems also  *)
(* ask that the process is not killed, or that no write fails.  Without    *)
(* these they are false: the hypotheses are those of the run that checks   *)
(* them.                                                                   *)

-----------------------------------------------------------------------------
(* Until the startup loads have landed nothing is out *)

Idle ==
    /\ pending = {}
    /\ token = Nobody
    /\ timers["Poll"] = 0
    /\ timers["Authenticate"] = 0
    /\ writes = <<>>

QuietInv == loads # {} => Idle

\* Nothing fires and no result is handled in an idle state.
LEMMA IdleIsStill ==
    ASSUME Idle
    PROVE  /\ ~SendUnauthorized /\ ~AuthTimer /\ ~PollTimer
           /\ \A ok : ~WriteLands(ok) /\ ~SavedCursor(ok)
           /\ pending = {}
BY DEF Idle, SendUnauthorized, AuthTimer, PollTimer, Fired, WriteLands, SavedCursor, Lands

LEMMA StepQuiet ==
    ASSUME "early" \notin Faults, QuietInv, [Next]_vars
    PROVE  QuietInv'
<1> SUFFICES ASSUME loads' # {} PROVE Idle'
    BY DEF QuietInv
<1>1. CASE Startup
    BY <1>1 DEF Startup, Loaded, QuietInv, Idle
<1>2. CASE LoadFails
    BY <1>2 DEF LoadFails, QuietInv, Idle
<1>3. CASE Foreground \/ \E r \in Relays : SetServerUrl(r)
    BY <1>3 DEF Foreground, SetServerUrl
<1>4. CASE \/ SendUnauthorized \/ AuthTimer \/ PollTimer
           \/ \E ok \in BOOLEAN : WriteLands(ok) \/ SavedCursor(ok)
           \/ \E x \in pending : \/ AuthResult(x) \/ AuthWatchdog(x) \/ PollResult(x)
                                 \/ PollWatchdog(x) \/ Lose(x)
  <2>1. loads' = loads
      BY <1>4 DEF SendUnauthorized, AuthTimer, PollTimer, WriteLands, SavedCursor, AuthResult,
         AuthResultStale, AuthResultFails, ChallengeResult, VerifyResult, AuthWatchdog,
         PollResult, PollResultStale, PollResultFails, PollResult401, PollResultRefused,
         PollResultIdle, PollResultMail, PollWatchdog, Lose, model
  <2>2. Idle
      BY <2>1 DEF QuietInv
  <2>3. QED
      BY <1>4, <2>2, IdleIsStill
<1>5. CASE Relaunch
    BY <1>5 DEF Relaunch, Launched, Idle
<1>6. CASE UNCHANGED vars
    BY <1>6 DEF vars, model, QuietInv, Idle
<1>7. QED
    BY <1>1, <1>2, <1>3, <1>4, <1>5, <1>6 DEF Next

-----------------------------------------------------------------------------
(* What is out was asked of the relay configured then *)

\* The token held, and every request that would be honoured, are of the relay
\* configured now.
RelayInv ==
    /\ token \in {relay, Nobody}
    /\ PollsAt(relay, poll_gen, pending)
    /\ AuthAt(relay, auth_gen, pending)

\* Whatever is out carries its own relay's token and challenge.
HomeInv ==
    \A x \in pending : /\ x.what = "poll" => x.token = x.relay
                       /\ x.what = "verify" => x.challenger = x.relay

\* What a step preserves, and what it sends.
Homely == RelayInv' /\ Grows(pending)

\* A handler that takes x away from what is out before it sends.
LEMMA GrowsWithout ==
    ASSUME NEW ps, ps \subseteq pending, Grows(ps)
    PROVE  Grows(pending)
BY DEF Grows

\* A step of the startup: nothing is out before it.
LEMMA LoadedHomely ==
    ASSUME GuardInv, GuardInv', QuietInv, RelayInv,
           NEW key \in Loads, NEW ok \in BOOLEAN, Loaded(key, ok)
    PROVE  Homely
<1>1. Idle /\ token' = token
    BY DEF Loaded, QuietInv
<1>2. CASE loads' = {} /\ ~kv_load_failed'
  <2>1. Connect(polling, poll_gen, conn, pending)
      BY <1>2 DEF Loaded
  <2>2. PollsAt(relay', poll_gen, pending)
      BY <1>1 DEF Idle, PollsAt
  <2>3. QED
      BY <1>1, <2>1, <2>2, ConnectOutcome
      DEF GuardInv, AroundType, LoopsInv, RelayInv, Homely, Idle
<1>3. CASE ~(loads' = {} /\ ~kv_load_failed')
    BY <1>1, <1>3 DEF Loaded, Idle, RelayInv, Homely, PollsAt, AuthAt, Grows
<1>4. QED
    BY <1>2, <1>3

LEMMA ForegroundHomely ==
    ASSUME GuardInv, GuardInv', RelayInv, Foreground
    PROVE  Homely
<1>1. /\ UNCHANGED <<relay, cursor, token>>
      /\ Connect(polling, poll_gen, conn, pending)
    BY DEF Foreground
<1>2. QED
    BY <1>1, ConnectOutcome DEF GuardInv, AroundType, LoopsInv, RelayInv, Homely

\* A switch abandons the poll and the auth flow of the old relay.
LEMMA SetServerUrlHomely ==
    ASSUME GuardInv, GuardInv', NEW r \in Relays, SetServerUrl(r)
    PROVE  Homely
<1> DEFINE pg == NextGen(poll_gen)
<1>1. pg \in Gens
    BY NextGenType DEF GuardInv, LoopsInv
<1>2. /\ token' = Nobody
      /\ Connect(FALSE, pg, "offline", pending) /\ PollsOwned(FALSE, pg, pending)
      /\ PollsAt(relay', pg, pending)
    BY DEF SetServerUrl, Retired, PollKinds, PollsOwned, PollsAt, IsPoll
<1>3. "offline" \in Status
    BY DEF Status
<1> HIDE DEF pg
<1>4. QED
    BY <1>1, <1>2, <1>3, ConnectOutcome DEF GuardInv, AroundType, LoopsInv, RelayInv, Homely

LEMMA AuthResultHomely ==
    ASSUME GuardInv, GuardInv', RelayInv, NEW x \in pending, AuthResult(x)
    PROVE  Homely
<1>1. CASE AuthResultStale(x) \/ AuthResultFails(x)
    BY <1>1 DEF AuthResultStale, AuthResultFails, NoAuth, model, RelayInv, Homely, PollsAt,
       AuthAt, Grows
<1>2. CASE ChallengeResult(x)
  <2> DEFINE v == [what |-> "verify", gen |-> auth_gen, relay |-> relay,
                   challenger |-> x.relay]
  <2>1. /\ LiveAuth(x) /\ auth_gen' = auth_gen
        /\ pending' = (pending \ {x}) \cup {v}
        /\ UNCHANGED <<relay, cursor, token, poll_gen>>
      BY <1>2 DEF ChallengeResult, NoAuth
  <2>2. x.relay = relay
      BY <2>1 DEF RelayInv, AuthAt, IsAuth, LiveAuth
  <2>3. v.what = "verify" /\ v.relay = relay /\ v.challenger = relay
      BY <2>2
  <2> HIDE DEF v
  <2>4. QED
      BY <2>1, <2>3 DEF RelayInv, Homely, PollsAt, AuthAt, IsPoll, IsAuth, Grows, Asked
<1>3. CASE VerifyResult(x)
  <2>1. /\ LiveAuth(x) /\ token' = x.relay
        /\ Poll(polling, poll_gen, FALSE, "online", auth_gen, pending \ {x})
        /\ UNCHANGED <<relay, cursor>>
      BY <1>3 DEF VerifyResult
  <2>2. token' = relay'
      BY <2>1 DEF RelayInv, AuthAt, IsAuth, LiveAuth
  <2>3. /\ pending \ {x} \in SUBSET Requests
        /\ PollsOwned(polling, poll_gen, pending \ {x})
        /\ AuthOwned(FALSE, auth_gen, pending \ {x})
        /\ "online" \in Status
      BY <2>1, AuthAnswered DEF GuardInv, Status
  <2>4. PollsAt(relay', poll_gen, pending \ {x}) /\ AuthAt(relay', auth_gen, pending \ {x})
      BY <2>1 DEF RelayInv, PollsAt, AuthAt
  <2>5. /\ Grows(pending \ {x})
        /\ PollsAt(relay', poll_gen', pending') /\ AuthAt(relay', auth_gen', pending')
      BY <2>1, <2>3, <2>4, PollOutcome DEF GuardInv, AroundType, LoopsInv
  <2>6. QED
      BY <2>2, <2>5, GrowsWithout DEF RelayInv, Homely
<1>4. QED
    BY <1>1, <1>2, <1>3 DEF AuthResult

LEMMA AuthWatchdogHomely ==
    ASSUME GuardInv, GuardInv', RelayInv, NEW x \in pending, AuthWatchdog(x)
    PROVE  Homely
<1>1. /\ x.what = "AuthWatchdog"
      /\ UNCHANGED <<relay, cursor, token, polling, poll_gen>>
    BY DEF AuthWatchdog
<1>2. CASE x.gen # auth_gen \/ ~authenticating
    BY <1>1, <1>2 DEF AuthWatchdog, NoAuth, RelayInv, Homely, PollsAt, AuthAt, Grows
<1>3. CASE ~(x.gen # auth_gen \/ ~authenticating)
  <2> DEFINE g == NextGen(auth_gen)
  <2>1. Authenticate(FALSE, conn, g, pending \ {x})
        /\ (\A y \in pending : y.what \in AuthKinds => y.gen # g)
      BY <1>3 DEF AuthWatchdog, Retired
  <2>2. g \in Gens
      BY NextGenType DEF GuardInv, LoopsInv
  <2>3. /\ pending \ {x} \in SUBSET Requests
        /\ PollsOwned(polling, poll_gen, pending \ {x})
      BY <1>1 DEF GuardInv, LoopsInv, PollsOwned
  <2>4. AuthOwned(FALSE, g, pending \ {x}) /\ AuthAt(relay', g, pending \ {x})
      BY <2>1 DEF AuthOwned, AuthAt, IsAuth, AuthKinds
  <2>5. PollsAt(relay', poll_gen, pending \ {x})
      BY <1>1 DEF RelayInv, PollsAt
  <2> HIDE DEF g
  <2>6. /\ Grows(pending \ {x})
        /\ PollsAt(relay', poll_gen, pending') /\ AuthAt(relay', auth_gen', pending')
      BY <2>1, <2>2, <2>3, <2>4, <2>5, AuthenticateOutcome DEF GuardInv, LoopsInv, AroundType
  <2>7. QED
      BY <1>1, <2>6, GrowsWithout DEF RelayInv, Homely
<1>4. QED
    BY <1>2, <1>3

LEMMA PollWatchdogHomely ==
    ASSUME GuardInv, GuardInv', RelayInv, NEW x \in pending, PollWatchdog(x)
    PROVE  Homely
<1>1. /\ x.what = "PollWatchdog"
      /\ UNCHANGED <<relay, cursor, token>>
    BY DEF PollWatchdog
<1>2. CASE x.gen # poll_gen \/ ~polling
    BY <1>1, <1>2 DEF PollWatchdog, NoAuth, RelayInv, Homely, PollsAt, AuthAt, Grows
<1>3. CASE ~(x.gen # poll_gen \/ ~polling)
  <2> DEFINE pg == NextGen(poll_gen)
  <2>1. Poll(FALSE, pg, authenticating, conn, auth_gen, pending \ {x})
        /\ (\A y \in pending : y.what \in PollKinds => y.gen # pg)
      BY <1>3 DEF PollWatchdog, Retired
  <2>2. pg \in Gens
      BY NextGenType DEF GuardInv, LoopsInv
  <2>3. /\ pending \ {x} \in SUBSET Requests
        /\ AuthOwned(authenticating, auth_gen, pending \ {x})
      BY <1>1 DEF GuardInv, LoopsInv, AuthOwned
  <2>4. PollsOwned(FALSE, pg, pending \ {x}) /\ PollsAt(relay', pg, pending \ {x})
      BY <2>1 DEF PollsOwned, PollsAt, IsPoll, PollKinds
  <2>5. AuthAt(relay', auth_gen, pending \ {x})
      BY <1>1 DEF RelayInv, AuthAt
  <2> HIDE DEF pg
  <2>6. /\ Grows(pending \ {x})
        /\ PollsAt(relay', poll_gen', pending') /\ AuthAt(relay', auth_gen', pending')
      BY <1>1, <2>1, <2>2, <2>3, <2>4, <2>5, PollOutcome DEF GuardInv, LoopsInv, AroundType
  <2>7. QED
      BY <1>1, <2>6, GrowsWithout DEF RelayInv, Homely
<1>4. QED
    BY <1>2, <1>3

LEMMA PollResultHomely ==
    ASSUME GuardInv, GuardInv', RelayInv, NEW x \in pending, PollResult(x)
    PROVE  Homely
<1>1. CASE \/ PollResultStale(x) \/ PollResultFails(x) \/ PollResultRefused(x)
           \/ \E n \in 1 .. MaxCursor : PollResultMail(x, n)
  <2>1. /\ UNCHANGED <<relay, token, poll_gen, auth_gen>>
        /\ pending' = pending \ {x}
      BY <1>1 DEF PollResultStale, PollResultFails, PollResultRefused, PollResultMail, NoAuth,
         model
  <2>2. QED
      BY <2>1 DEF RelayInv, Homely, PollsAt, AuthAt, Grows
<1>2. ASSUME LivePoll(x)
      PROVE  /\ pending \ {x} \in SUBSET Requests
             /\ PollsOwned(FALSE, poll_gen, pending \ {x})
             /\ AuthOwned(authenticating, auth_gen, pending \ {x})
             /\ PollsAt(relay, poll_gen, pending \ {x}) /\ AuthAt(relay, auth_gen, pending \ {x})
    BY <1>2, PollAnswered DEF GuardInv, RelayInv, PollsAt, AuthAt
<1>3. CASE PollResult401(x)
  <2>1. /\ LivePoll(x) /\ token' = Nobody
        /\ UNCHANGED <<relay, poll_gen>>
        /\ Authenticate(authenticating, conn, auth_gen, pending \ {x})
      BY <1>3 DEF PollResult401
  <2>2. /\ Grows(pending \ {x})
        /\ PollsAt(relay', poll_gen, pending') /\ AuthAt(relay', auth_gen', pending')
      BY <1>2, <2>1, AuthenticateOutcome DEF GuardInv, AroundType, LoopsInv
  <2>3. QED
      BY <2>1, <2>2, GrowsWithout DEF RelayInv, Homely
<1>4. CASE PollResultIdle(x)
  <2>1. /\ LivePoll(x) /\ UNCHANGED <<relay, cursor, token>>
        /\ Poll(FALSE, poll_gen, authenticating, conn, auth_gen, pending \ {x})
      BY <1>4 DEF PollResultIdle
  <2>2. /\ Grows(pending \ {x})
        /\ PollsAt(relay', poll_gen', pending') /\ AuthAt(relay', auth_gen', pending')
      BY <1>2, <2>1, PollOutcome DEF GuardInv, AroundType, LoopsInv
  <2>3. QED
      BY <2>1, <2>2, GrowsWithout DEF RelayInv, Homely
<1>5. QED
    BY <1>1, <1>3, <1>4 DEF PollResult

\* A timer, a refused send, a write that has landed.
LEMMA AlarmHomely ==
    ASSUME GuardInv, GuardInv', RelayInv,
           \/ SendUnauthorized \/ AuthTimer \/ PollTimer
           \/ \E ok \in BOOLEAN : WriteLands(ok) \/ SavedCursor(ok)
    PROVE  Homely
<1>1. ASSUME relay' = relay, poll_gen' = poll_gen, token' \in {token, Nobody},
             Authenticate(authenticating, conn, auth_gen, pending)
      PROVE  Homely
    BY <1>1, AuthenticateOutcome DEF GuardInv, AroundType, LoopsInv, RelayInv, Homely
<1>2. ASSUME relay' = relay, token' = token,
             Poll(polling, poll_gen, authenticating, conn, auth_gen, pending)
      PROVE  Homely
    BY <1>2, PollOutcome DEF GuardInv, AroundType, LoopsInv, RelayInv, Homely
<1>3. ASSUME UNCHANGED <<relay, token, poll_gen, auth_gen, pending>> PROVE Homely
    BY <1>3 DEF RelayInv, Homely, PollsAt, AuthAt, Grows
<1>4. CASE SendUnauthorized \/ AuthTimer
    BY <1>1, <1>4 DEF SendUnauthorized, AuthTimer
<1>5. CASE PollTimer
    BY <1>2, <1>5 DEF PollTimer
<1>6. ASSUME NEW ok \in BOOLEAN, WriteLands(ok) PROVE Homely
    BY <1>3, <1>6 DEF WriteLands, model
<1>7. ASSUME NEW ok \in BOOLEAN, SavedCursor(ok) PROVE Homely
    BY <1>2, <1>3, <1>7 DEF SavedCursor, NoAuth
<1>8. QED
    BY <1>4, <1>5, <1>6, <1>7

\* Whatever step is taken, what it sends goes to the relay configured then.
LEMMA StepHomely ==
    ASSUME GuardInv, QuietInv, RelayInv, [Next]_vars
    PROVE  Homely
<1>1. GuardInv'
    BY StepGuard
<1>2. CASE Startup
    BY <1>1, <1>2, LoadedHomely DEF Startup
<1>3. CASE Foreground \/ \E r \in Relays : SetServerUrl(r)
    BY <1>1, <1>3, ForegroundHomely, SetServerUrlHomely
<1>4. CASE \/ SendUnauthorized \/ AuthTimer \/ PollTimer
           \/ \E ok \in BOOLEAN : WriteLands(ok) \/ SavedCursor(ok)
    BY <1>1, <1>4, AlarmHomely
<1>5. ASSUME NEW x \in pending, \/ AuthResult(x) \/ AuthWatchdog(x) \/ PollResult(x)
                                \/ PollWatchdog(x)
      PROVE  Homely
    BY <1>1, <1>5, AuthResultHomely, AuthWatchdogHomely, PollResultHomely, PollWatchdogHomely
<1>6. CASE LoadFails \/ UNCHANGED vars \/ \E x \in pending : Lose(x)
    BY <1>6 DEF LoadFails, vars, model, Lose, RelayInv, Homely, PollsAt, AuthAt, Grows
<1>7. CASE Relaunch
    BY <1>7 DEF Relaunch, Launched, RelayInv, Homely, PollsAt, AuthAt, Grows
<1>8. QED
    BY <1>2, <1>3, <1>4, <1>5, <1>6, <1>7 DEF Next

\* The inductive invariant of the session.
SessionInv == GuardInv /\ QuietInv /\ RelayInv /\ HomeInv

LEMMA InitSession == Init => SessionInv
<1> SUFFICES ASSUME Init PROVE SessionInv
    OBVIOUS
<1>1. QuietInv /\ RelayInv /\ HomeInv
    BY DEF Init, Launched, QuietInv, Idle, RelayInv, HomeInv, PollsAt, AuthAt
<1>2. QED
    BY <1>1, InitGuard DEF SessionInv

LEMMA StepSession ==
    ASSUME "early" \notin Faults, SessionInv, [Next]_vars
    PROVE  SessionInv'
<1>1. GuardInv' /\ QuietInv' /\ Homely
    BY StepGuard, StepQuiet, StepHomely DEF SessionInv
<1>2. HomeInv'
  <2> SUFFICES ASSUME NEW x \in pending'
               PROVE  /\ x.what = "poll" => x.token = x.relay
                      /\ x.what = "verify" => x.challenger = x.relay
      BY DEF HomeInv
  <2>1. CASE x \in pending
      BY <2>1 DEF SessionInv, HomeInv
  <2>2. CASE x \notin pending
    <3>1. Asked(relay', token', cursor', x)
        BY <1>1, <2>2 DEF Homely, Grows
    <3>2. x.what = "poll" => x.token # Nobody
        BY <1>1, SessionAssumption DEF GuardInv, LoopsInv, Requests, Http, Watchdog
    <3>3. token' \in {relay', Nobody}
        BY <1>1 DEF Homely, RelayInv
    <3>4. QED
        BY <3>1, <3>2, <3>3 DEF Asked
  <2>3. QED
      BY <2>1, <2>2
<1>3. QED
    BY <1>1, <1>2 DEF SessionInv, Homely

THEOREM SessionInvariant ==
    ASSUME "early" \notin Faults
    PROVE  Spec => []SessionInv
BY InitSession, StepSession, PTL DEF Spec

\* Nothing of one relay's session reaches another: for any relays, and although the user
\* switches between them while challenges, verifies and polls are out, the token held and
\* every answer that would be honoured are of the relay configured now, and a token is
\* shown only to the relay that issued it.
THEOREM SessionKeepsToItsRelay ==
    ASSUME "early" \notin Faults
    PROVE  Spec => []SessionOfRelay
<1>1. SessionInv => SessionOfRelay
    BY DEF SessionInv, RelayInv, HomeInv, SessionOfRelay, PollsAt, AuthAt, IsPoll, IsAuth,
       LivePoll, LiveAuth
<1>2. QED
    BY <1>1, SessionInvariant, PTL

-----------------------------------------------------------------------------
(* The cursor goes back to the relay that issued it *)

\* An idle client whose cursor is of no consequence: it has not read all of storage, or
\* could not.
Unread == Idle /\ (loads # {} \/ kv_load_failed)

\* What the startup loads have read so far, one relay's.
Loading ==
    /\ disk.cursor.of \in {disk.relay, Nobody}
    /\ "settings" \in loads \/ relay = disk.relay
    /\ "cursor" \in loads \/ cursor = disk.cursor

CursorHome == cursor.of \in {relay, Nobody} \/ Unread

CursorInv ==
    /\ CursorHome
    /\ loads # {} /\ ~kv_load_failed => Loading
    /\ CursorOfRelay

\* An idle client waits for its storage, the foreground or the user.
LEMMA IdleStep ==
    ASSUME Idle, [Next]_vars
    PROVE  \/ Startup \/ LoadFails \/ Foreground \/ \E r \in Relays : SetServerUrl(r)
           \/ Relaunch \/ UNCHANGED vars
BY IdleIsStill DEF Next

\* No result and no watchdog but a page of mail touches relay, cursor or storage.
LEMMA CursorUntouched ==
    ASSUME NEW x \in pending,
           \/ AuthResult(x) \/ AuthWatchdog(x) \/ PollWatchdog(x) \/ Lose(x)
           \/ PollResultStale(x) \/ PollResultFails(x) \/ PollResult401(x)
           \/ PollResultRefused(x) \/ PollResultIdle(x)
    PROVE  UNCHANGED <<relay, cursor, loads, kv_load_failed, writes, disk>>
BY DEF AuthResult, AuthResultStale, AuthResultFails, ChallengeResult, VerifyResult,
   AuthWatchdog, PollResultStale, PollResultFails, PollResult401, PollResultRefused,
   PollResultIdle, PollWatchdog, Lose, model

\* The last load to land leaves relay and cursor as storage holds them.
LEMMA LoadedCursor ==
    ASSUME QuietInv, CursorInv, Startup
    PROVE  CursorHome' /\ (loads' # {} /\ ~kv_load_failed' => Loading')
<1> PICK key \in Loads, ok \in BOOLEAN : Loaded(key, ok)
    BY DEF Startup
<1>1. /\ key \in loads /\ loads' = loads \ {key}
      /\ kv_load_failed' = (kv_load_failed \/ ~ok)
      /\ relay' = (IF ok /\ key = "settings" THEN disk.relay ELSE relay)
      /\ cursor' = (IF ok /\ key = "cursor" THEN disk.cursor ELSE cursor)
      /\ UNCHANGED <<timers, writes, disk>>
    BY DEF Loaded
<1>2. Idle
    BY <1>1 DEF QuietInv
<1>3. ~kv_load_failed' => Loading'
    BY <1>1 DEF CursorInv, Loading
<1>4. CASE loads' = {} /\ ~kv_load_failed'
    BY <1>3, <1>4 DEF Loading, CursorHome
<1>5. CASE ~(loads' = {} /\ ~kv_load_failed')
  <2>1. UNCHANGED <<token, pending>>
      BY <1>5 DEF Loaded
  <2>2. Unread'
      BY <1>1, <1>2, <1>5, <2>1 DEF Unread, Idle
  <2>3. QED
      BY <1>3, <2>2 DEF CursorHome
<1>6. QED
    BY <1>3, <1>4, <1>5

\* The cursor held is always of the relay configured, once it counts.
LEMMA StepCursorHome ==
    ASSUME "early" \notin Faults, "kill" \notin Faults, SessionInv, CursorInv, [Next]_vars
    PROVE  CursorHome' /\ (loads' # {} /\ ~kv_load_failed' => Loading')
<1>1. CASE Startup
    BY <1>1, LoadedCursor DEF SessionInv
<1>2. CASE LoadFails
    BY <1>2 DEF LoadFails, CursorInv, CursorHome, Unread, Idle
<1>3. CASE Foreground
  <2>1. /\ loads' = {} /\ loads = {}
        /\ UNCHANGED <<relay, cursor, token, kv_load_failed, timers, writes>>
        /\ Connect(polling, poll_gen, conn, pending)
      BY <1>3 DEF Foreground
  <2>2. CASE Unread
    <3>1. kv_load_failed'
        BY <2>1, <2>2 DEF Unread
    <3>2. pending' = pending
        BY <2>1, <3>1 DEF Connect, NoAuth
    <3>3. QED
        BY <2>1, <2>2, <3>1, <3>2 DEF CursorHome, Unread, Idle
  <2>3. CASE ~Unread
      BY <2>1, <2>3 DEF CursorInv, CursorHome
  <2>4. QED
      BY <2>2, <2>3
<1>4. CASE \E r \in Relays : SetServerUrl(r)
    BY <1>4 DEF SetServerUrl, CursorHome, Zero
<1>5. CASE UNCHANGED vars
    BY <1>5 DEF vars, model, CursorInv, CursorHome, Unread, Idle, Loading
<1>6. CASE ~Idle
  <2>1. cursor.of \in {relay, Nobody} /\ loads = {}
      BY <1>6 DEF SessionInv, QuietInv, CursorInv, CursorHome, Unread
  <2>2. ASSUME NEW x \in pending, NEW n \in 1 .. MaxCursor, PollResultMail(x, n)
        PROVE  cursor'.of = relay' /\ loads' = loads
    <3>1. /\ LivePoll(x) /\ cursor' = [of |-> x.relay, n |-> n]
          /\ UNCHANGED <<relay, loads>>
        BY <2>2 DEF PollResultMail
    <3>2. x.relay = relay
        BY <3>1 DEF SessionInv, RelayInv, PollsAt, IsPoll, LivePoll
    <3>3. QED
        BY <3>1, <3>2
  <2>3. CASE UNCHANGED <<relay, cursor, loads>>
      BY <2>1, <2>3 DEF CursorHome
  <2>4. CASE \/ SendUnauthorized \/ AuthTimer \/ PollTimer
             \/ \E ok \in BOOLEAN : WriteLands(ok) \/ SavedCursor(ok)
      BY <2>3, <2>4 DEF SendUnauthorized, AuthTimer, PollTimer, WriteLands, SavedCursor, model
  <2>5. ASSUME NEW x \in pending, \/ AuthResult(x) \/ AuthWatchdog(x) \/ PollResult(x)
                                  \/ PollWatchdog(x) \/ Lose(x)
        PROVE  CursorHome' /\ loads' = {}
      BY <2>1, <2>2, <2>3, <2>5, CursorUntouched DEF PollResult, CursorHome
  <2>6. CASE Relaunch
      BY <2>6 DEF Relaunch
  <2>7. QED
      BY <1>1, <1>2, <1>3, <1>4, <1>5, <2>4, <2>5, <2>6 DEF Next
<1>7. CASE Idle
    BY <1>1, <1>2, <1>3, <1>4, <1>5, <1>7, IdleStep DEF Relaunch
<1>8. QED
    BY <1>6, <1>7

LEMMA InitCursor == Init => CursorInv
BY DEF Init, Launched, CursorInv, CursorHome, Loading, CursorOfRelay, Zero, Loads

LEMMA StepCursor ==
    ASSUME "early" \notin Faults, "kill" \notin Faults, SessionInv, CursorInv, [Next]_vars
    PROVE  CursorInv'
<1>1. CursorHome' /\ (loads' # {} /\ ~kv_load_failed' => Loading')
    BY StepCursorHome
<1>2. CursorOfRelay'
  <2> SUFFICES ASSUME NEW x \in pending', x.what = "poll"
               PROVE  x.cursor.of \in {x.relay, Nobody}
      BY DEF CursorOfRelay
  <2>1. CASE x \in pending
      BY <2>1 DEF CursorInv, CursorOfRelay
  <2>2. CASE x \notin pending
    <3>1. Asked(relay', token', cursor', x)
        BY <2>2, StepHomely DEF SessionInv, Homely, Grows
    <3>2. ~Unread'
        BY DEF Unread, Idle
    <3>3. QED
        BY <1>1, <3>1, <3>2 DEF CursorHome, Asked
  <2>3. QED
      BY <2>1, <2>2
<1>3. QED
    BY <1>1, <1>2 DEF CursorInv

THEOREM CursorInvariant ==
    ASSUME "early" \notin Faults, "kill" \notin Faults
    PROVE  Spec => []CursorInv
<1>1. Spec => []SessionInv
    BY SessionInvariant
<1>2. SessionInv /\ CursorInv /\ [Next]_vars => CursorInv'
    BY StepCursor
<1>3. QED
    BY <1>1, <1>2, InitCursor, PTL DEF Spec

\* A poll never acks a number its relay did not issue: for any relays and numbers, any
\* switches while polls are out, any late, lost or repeated answers and any failed reads
\* and writes, the number a poll carries was issued by the relay it goes to, or is none.
THEOREM CursorKeepsToItsRelay ==
    ASSUME "early" \notin Faults, "kill" \notin Faults
    PROVE  Spec => []CursorOfRelay
<1>1. CursorInv => CursorOfRelay
    BY DEF CursorInv
<1>2. QED
    BY <1>1, CursorInvariant, PTL

-----------------------------------------------------------------------------
(* Storage names one relay with its own cursor *)

Reset == [key |-> "cursor", value |-> Zero, then |-> "Saved"]

\* Storage that names r will name v when the writes of q before the i-th have landed.
Names(q, r, i, v) ==
    \/ v = r /\ \A j \in 1 .. i - 1 : q[j].key # "settings"
    \/ \E j \in 1 .. i - 1 : /\ q[j].key = "settings"
                             /\ q[j].value = v
                             /\ \A k \in j + 1 .. i - 1 : q[k].key # "settings"

\* Each queued relay URL has the cursor's reset right behind it.
Paired(q) ==
    \A i \in 1 .. Len(q) : q[i].key = "settings" => i < Len(q) /\ q[i + 1] = Reset

\* Each queued cursor is of the relay storage will name by then.
Chained(q, r) ==
    \A i \in 1 .. Len(q) :
        q[i].key = "cursor" /\ q[i].value.of # Nobody => Names(q, r, i, q[i].value.of)

QueueInv ==
    /\ Paired(writes)
    /\ Chained(writes, disk.relay)
    /\ loads = {} /\ ~kv_load_failed => Names(writes, disk.relay, Len(writes) + 1, relay)
    /\ DiskOfOneRelay

\* What is queued behind the i-th write does not matter to it.
LEMMA NamesPrefix ==
    ASSUME NEW q \in Seq(Write), NEW p \in Seq(Write), Len(p) >= Len(q),
           \A j \in 1 .. Len(q) : p[j] = q[j],
           NEW i \in 1 .. Len(q) + 1, NEW r, NEW v, Names(q, r, i, v)
    PROVE  Names(p, r, i, v)
<1>1. i \in Nat /\ \A j \in 1 .. i - 1 : p[j] = q[j]
    BY LenProperties
<1>2. CASE v = r /\ \A j \in 1 .. i - 1 : q[j].key # "settings"
    BY <1>1, <1>2 DEF Names
<1>3. CASE \E j \in 1 .. i - 1 : /\ q[j].key = "settings" /\ q[j].value = v
                                 /\ \A k \in j + 1 .. i - 1 : q[k].key # "settings"
  <2>1. PICK j \in 1 .. i - 1 : /\ q[j].key = "settings" /\ q[j].value = v
                                /\ \A k \in j + 1 .. i - 1 : q[k].key # "settings"
      BY <1>3
  <2>2. \A k \in j + 1 .. i - 1 : k \in 1 .. i - 1
      BY <1>1, <2>1
  <2>3. p[j] = q[j] /\ \A k \in j + 1 .. i - 1 : p[k].key # "settings"
      BY <1>1, <2>1, <2>2
  <2>4. QED
      BY <2>1, <2>3 DEF Names
<1>4. QED
    BY <1>2, <1>3 DEF Names

\* When the head has landed the rest counts from what it left.
LEMMA NamesTail ==
    ASSUME NEW q \in Seq(Write), q # <<>>, NEW r, NEW v,
           NEW i \in 1 .. Len(q), Names(q, r, i + 1, v)
    PROVE  Names(Tail(q), IF Head(q).key = "settings" THEN Head(q).value ELSE r, i, v)
<1>1. /\ Len(q) \in Nat /\ Head(q) = q[1]
      /\ \A j \in 1 .. Len(q) - 1 : Tail(q)[j] = q[j + 1]
    BY HeadTailProperties, LenProperties
<1>2. CASE v = r /\ \A j \in 1 .. i : q[j].key # "settings"
  <2>1. \A j \in 1 .. i - 1 : Tail(q)[j].key # "settings"
      BY <1>1, <1>2
  <2>2. Head(q).key # "settings"
      BY <1>1, <1>2
  <2>3. QED
      BY <1>2, <2>1, <2>2 DEF Names
<1>3. CASE \E j \in 1 .. i : /\ q[j].key = "settings" /\ q[j].value = v
                             /\ \A k \in j + 1 .. i : q[k].key # "settings"
  <2>1. PICK j \in 1 .. i : /\ q[j].key = "settings" /\ q[j].value = v
                            /\ \A k \in j + 1 .. i : q[k].key # "settings"
      BY <1>3
  <2>2. CASE j = 1
    <3>1. \A k \in 1 .. i - 1 : Tail(q)[k].key # "settings"
        BY <1>1, <2>1, <2>2
    <3>2. QED
        BY <1>1, <2>1, <2>2, <3>1 DEF Names
  <2>3. CASE j # 1
    <3>1. j - 1 \in 1 .. i - 1 /\ Tail(q)[j - 1] = q[j]
        BY <1>1, <2>1, <2>3
    <3>2. \A k \in (j - 1) + 1 .. i - 1 : Tail(q)[k].key # "settings"
        BY <1>1, <2>1, <2>3
    <3>3. QED
        BY <2>1, <3>1, <3>2 DEF Names
  <2>4. QED
      BY <2>2, <2>3
<1>4. i + 1 - 1 = i
    BY <1>1
<1>5. QED
    BY <1>2, <1>3, <1>4 DEF Names

\* A page's cursor goes behind the queue.
LEMMA AppendCursor ==
    ASSUME NEW q \in Seq(Write), NEW r, NEW v,
           Paired(q), Chained(q, r), Names(q, r, Len(q) + 1, v),
           NEW w \in Write, w.key = "cursor", w.value.of \in {v, Nobody}
    PROVE  /\ Paired(Append(q, w))
           /\ Chained(Append(q, w), r)
           /\ Names(Append(q, w), r, Len(q) + 2, v)
<1> DEFINE p == Append(q, w)
<1>1. /\ p \in Seq(Write) /\ Len(p) = Len(q) + 1 /\ Len(q) \in Nat
      /\ \A j \in 1 .. Len(q) : p[j] = q[j]
      /\ p[Len(q) + 1] = w
    BY AppendProperties, LenProperties
<1> HIDE DEF p
<1>2. Paired(p)
    BY <1>1 DEF Paired
<1>3. Names(p, r, Len(q) + 1, v)
    BY <1>1, NamesPrefix
<1>4. Chained(p, r)
  <2> SUFFICES ASSUME NEW i \in 1 .. Len(p), p[i].key = "cursor", p[i].value.of # Nobody
               PROVE  Names(p, r, i, p[i].value.of)
      BY DEF Chained
  <2>1. CASE i \in 1 .. Len(q)
    <3>1. p[i] = q[i] /\ Names(q, r, i, p[i].value.of)
        BY <1>1, <2>1 DEF Chained
    <3>2. QED
        BY <1>1, <2>1, <3>1, NamesPrefix
  <2>2. CASE i = Len(q) + 1
      BY <1>1, <1>3, <2>2
  <2>3. QED
      BY <1>1, <2>1, <2>2
<1>5. Names(p, r, Len(q) + 2, v)
    BY <1>1, <1>3 DEF Names
<1>6. QED
    BY <1>2, <1>4, <1>5 DEF p

\* So does a switch: the new relay's URL and, behind it, the reset.
LEMMA AppendSwitch ==
    ASSUME NEW q \in Seq(Write), NEW r, Paired(q), Chained(q, r), NEW v \in Relays,
           NEW s \in Write, s.key = "settings", s.value = v
    PROVE  /\ Paired(q \o <<s, Reset>>)
           /\ Chained(q \o <<s, Reset>>, r)
           /\ Names(q \o <<s, Reset>>, r, Len(q) + 3, v)
<1> DEFINE p == q \o <<s, Reset>>
<1>1. Reset \in Write /\ Reset.key = "cursor" /\ Reset.value.of = Nobody
    BY WriteTypes, ZeroType DEF Reset, Zero
<1>2. <<s, Reset>> \in Seq(Write) /\ Len(<<s, Reset>>) = 2
    BY <1>1
<1>3. /\ p \in Seq(Write) /\ Len(p) = Len(q) + 2 /\ Len(q) \in Nat
      /\ \A j \in 1 .. Len(q) : p[j] = q[j]
      /\ p[Len(q) + 1] = s /\ p[Len(q) + 2] = Reset
    BY <1>2, ConcatProperties, LenProperties
<1> HIDE DEF p
<1>4. Paired(p)
    BY <1>1, <1>3 DEF Paired
<1>5. Chained(p, r)
  <2> SUFFICES ASSUME NEW i \in 1 .. Len(p), p[i].key = "cursor", p[i].value.of # Nobody
               PROVE  Names(p, r, i, p[i].value.of)
      BY DEF Chained
  <2>1. i \in 1 .. Len(q)
      BY <1>1, <1>3
  <2>2. p[i] = q[i] /\ Names(q, r, i, p[i].value.of)
      BY <1>3, <2>1 DEF Chained
  <2>3. i \in 1 .. Len(q) + 1 /\ Len(p) >= Len(q)
      BY <1>3, <2>1
  <2>4. QED
      BY <1>3, <2>2, <2>3, NamesPrefix
<1>6. Names(p, r, Len(q) + 3, v)
    BY <1>1, <1>3 DEF Names
<1>7. QED
    BY <1>4, <1>5, <1>6 DEF p

\* A write lands: the rest of the queue still leads to the relay configured.
LEMMA LandsQueue ==
    ASSUME "write" \notin Faults, AroundType, QueueInv, NEW ok \in BOOLEAN,
           Lands(Head(writes), ok), UNCHANGED <<relay, loads, kv_load_failed>>
    PROVE  QueueInv'
<1> DEFINE h == Head(writes)
           named == IF h.key = "settings" THEN h.value ELSE disk.relay
<1>1. /\ writes # <<>> /\ writes' = Tail(writes)
      /\ disk' = IF h.key = "settings" THEN [disk EXCEPT !.relay = h.value]
                 ELSE [disk EXCEPT !.cursor = h.value]
    BY DEF Lands
<1>2. /\ writes \in Seq(Write) /\ h \in Write
      /\ disk \in [relay: Relays, cursor: Cursors]
    BY <1>1, HeadTailProperties DEF AroundType
<1>3. /\ Len(writes) \in Nat \ {0} /\ h = writes[1]
      /\ writes' \in Seq(Write) /\ Len(writes') = Len(writes) - 1
      /\ \A j \in 1 .. Len(writes) - 1 : writes'[j] = writes[j + 1]
    BY <1>1, <1>2, HeadTailProperties, LenProperties
<1>4. disk'.relay = named
    BY <1>1, <1>2
<1>5. ASSUME NEW i \in 1 .. Len(writes), NEW v, Names(writes, disk.relay, i + 1, v)
      PROVE  Names(writes', disk'.relay, i, v)
    BY <1>1, <1>2, <1>4, <1>5, NamesTail
<1>6. Paired(writes')
  <2> SUFFICES ASSUME NEW i \in 1 .. Len(writes'), writes'[i].key = "settings"
               PROVE  i < Len(writes') /\ writes'[i + 1] = Reset
      BY DEF Paired
  <2>1. i + 1 \in 1 .. Len(writes) /\ writes[i + 1].key = "settings"
      BY <1>3
  <2>2. i + 1 < Len(writes) /\ writes[i + 1 + 1] = Reset
      BY <2>1 DEF QueueInv, Paired
  <2>3. i + 1 \in 1 .. Len(writes) - 1
      BY <1>3, <2>1, <2>2
  <2>4. QED
      BY <1>3, <2>2, <2>3
<1>7. Chained(writes', disk'.relay)
  <2> SUFFICES ASSUME NEW i \in 1 .. Len(writes'),
                      writes'[i].key = "cursor", writes'[i].value.of # Nobody
               PROVE  Names(writes', disk'.relay, i, writes'[i].value.of)
      BY DEF Chained
  <2>1. i \in 1 .. Len(writes) /\ i + 1 \in 1 .. Len(writes) /\ writes'[i] = writes[i + 1]
      BY <1>3
  <2>2. Names(writes, disk.relay, i + 1, writes[i + 1].value.of)
      BY <2>1 DEF QueueInv, Chained
  <2>3. QED
      BY <1>5, <2>1, <2>2
<1>8. loads' = {} /\ ~kv_load_failed' => Names(writes', disk'.relay, Len(writes') + 1, relay')
  <2> SUFFICES ASSUME loads' = {}, ~kv_load_failed'
               PROVE  Names(writes', disk'.relay, Len(writes') + 1, relay')
      OBVIOUS
  <2>1. Names(writes, disk.relay, Len(writes) + 1, relay')
      BY DEF QueueInv
  <2>2. Len(writes) \in 1 .. Len(writes) /\ Len(writes') + 1 = Len(writes)
      BY <1>3
  <2>3. QED
      BY <1>5, <2>1, <2>2
<1>9. DiskOfOneRelay'
  <2>1. CASE h.key = "settings"
    <3>1. 1 \in 1 .. Len(writes) /\ writes[1].key = "settings"
        BY <1>3, <2>1
    <3>2. 1 < Len(writes) /\ writes[1 + 1] = Reset
        BY <3>1 DEF QueueInv, Paired
    <3>3. writes' # <<>> /\ writes'[1] = Reset
        BY <1>3, <3>2
    <3>4. Head(writes') = Reset
        BY <1>3, <3>3, HeadTailProperties
    <3>5. QED
        BY <3>3, <3>4 DEF DiskOfOneRelay, Reset
  <2>2. CASE h.key # "settings"
    <3>1. disk'.cursor = h.value /\ disk'.relay = disk.relay
        BY <1>1, <1>2, <2>2
    <3>2. h.key = "cursor"
        BY <1>2, <2>2 DEF Write
    <3>3. h.value.of # Nobody => Names(writes, disk.relay, 1, h.value.of)
        BY <1>3, <3>2 DEF QueueInv, Chained
    <3>4. h.value.of \in {disk.relay, Nobody}
        BY <3>3 DEF Names
    <3>5. QED
        BY <3>1, <3>4 DEF DiskOfOneRelay
  <2>3. QED
      BY <2>1, <2>2
<1>10. QED
    BY <1>6, <1>7, <1>8, <1>9 DEF QueueInv

\* Queueing behind a queue that is not empty leaves its head.
LEMMA DiskOfOneRelayKept ==
    ASSUME AroundType, DiskOfOneRelay, disk' = disk, NEW t \in Seq(Write),
           writes' = writes \o t
    PROVE  DiskOfOneRelay'
<1>1. writes # <<>> => writes' # <<>> /\ Head(writes') = Head(writes)
    BY ConcatProperties, HeadTailProperties, LenProperties DEF AroundType
<1>2. QED
    BY <1>1 DEF DiskOfOneRelay

LEMMA SameQueue ==
    ASSUME QueueInv, UNCHANGED <<writes, disk>>,
           kv_load_failed' \/ UNCHANGED <<relay, loads, kv_load_failed>>
    PROVE  QueueInv'
BY DEF QueueInv, DiskOfOneRelay

\* The new relay's URL, its reset right behind.
LEMMA SetServerUrlQueue ==
    ASSUME AroundType, QueueInv, NEW r \in Relays, SetServerUrl(r)
    PROVE  QueueInv'
<1> DEFINE s == [key |-> "settings", value |-> r, then |-> "Saved"]
<1>1. /\ relay' = r /\ disk' = disk /\ UNCHANGED <<loads, kv_load_failed>>
      /\ writes' = IF kv_load_failed THEN writes ELSE writes \o <<s, Reset>>
    BY DEF SetServerUrl, Reset
<1>2. CASE kv_load_failed
    BY <1>1, <1>2, SameQueue
<1>3. CASE ~kv_load_failed
  <2>1. s \in Write /\ Reset \in Write /\ s.key = "settings" /\ s.value = r
      BY WriteTypes, ZeroType DEF Reset
  <2> HIDE DEF s
  <2>2. <<s, Reset>> \in Seq(Write) /\ Len(<<s, Reset>>) = 2 /\ writes \in Seq(Write)
      BY <2>1 DEF AroundType
  <2>3. writes' = writes \o <<s, Reset>> /\ Len(writes') = Len(writes) + 2
      BY <1>1, <1>3, <2>2, ConcatProperties
  <2>4. Paired(writes') /\ Chained(writes', disk.relay)
        /\ Names(writes', disk.relay, Len(writes) + 3, r)
      BY <2>1, <2>2, <2>3, AppendSwitch DEF QueueInv
  <2>5. DiskOfOneRelay'
      BY <1>1, <2>2, <2>3, DiskOfOneRelayKept DEF QueueInv
  <2>6. Len(writes') + 1 = Len(writes) + 3
      BY <2>2, <2>3, LenProperties
  <2>7. QED
      BY <1>1, <2>4, <2>5, <2>6 DEF QueueInv
<1>4. QED
    BY <1>2, <1>3

\* A page of the relay configured, its cursor behind the queue.
LEMMA PollResultMailQueue ==
    ASSUME GuardInv, QuietInv, RelayInv, QueueInv, NEW x \in pending, NEW n \in 1 .. MaxCursor,
           PollResultMail(x, n)
    PROVE  QueueInv'
<1> DEFINE c == [of |-> x.relay, n |-> n]
           w == [key |-> "cursor", value |-> c, then |-> "SavedCursor"]
<1>1. /\ LivePoll(x) /\ ~kv_load_failed /\ writes' = Append(writes, w)
      /\ UNCHANGED <<relay, loads, kv_load_failed, disk>>
    BY DEF PollResultMail
<1>2. x.relay = relay /\ relay \in Relays /\ loads = {}
    BY <1>1 DEF LivePoll, RelayInv, PollsAt, IsPoll, GuardInv, AroundType, QuietInv, Idle
<1>3. w \in Write /\ w.key = "cursor" /\ w.value.of = relay
    BY <1>2, WriteTypes DEF Cursors
<1> HIDE DEF w
<1>4. writes \in Seq(Write) /\ <<w>> \in Seq(Write) /\ writes' = writes \o <<w>>
      /\ Len(writes') = Len(writes) + 1 /\ Len(writes) \in Nat
    BY <1>1, <1>3, AppendProperties, LenProperties DEF GuardInv, AroundType
<1>5. /\ Paired(writes') /\ Chained(writes', disk.relay)
      /\ Names(writes', disk.relay, Len(writes) + 2, relay)
    BY <1>1, <1>2, <1>3, <1>4, AppendCursor DEF QueueInv
<1>6. DiskOfOneRelay'
    BY <1>1, <1>4, DiskOfOneRelayKept DEF QueueInv, GuardInv
<1>7. Len(writes') + 1 = Len(writes) + 2
    BY <1>4
<1>8. QED
    BY <1>1, <1>5, <1>6, <1>7 DEF QueueInv

\* The last load to land finds an empty queue and takes storage's relay.
LEMMA LoadedQueue ==
    ASSUME QuietInv, CursorInv, QueueInv, Startup
    PROVE  QueueInv'
<1>1. UNCHANGED <<writes, disk>> /\ writes = <<>>
    BY DEF Startup, Loaded, QuietInv, Idle
<1>2. ASSUME loads' = {}, ~kv_load_failed' PROVE relay' = disk.relay
  <2>1. PICK key \in Loads, ok \in BOOLEAN : Loaded(key, ok)
      BY DEF Startup
  <2>2. /\ key \in loads /\ loads' = loads \ {key}
        /\ kv_load_failed' = (kv_load_failed \/ ~ok)
        /\ relay' = (IF ok /\ key = "settings" THEN disk.relay ELSE relay)
      BY <2>1 DEF Loaded
  <2>3. QED
      BY <1>2, <2>2 DEF CursorInv, Loading
<1>3. Len(writes') = 0
    BY <1>1
<1>4. loads' = {} /\ ~kv_load_failed' => Names(writes', disk'.relay, Len(writes') + 1, relay')
    BY <1>1, <1>2, <1>3 DEF Names
<1>5. QED
    BY <1>1, <1>4 DEF QueueInv, DiskOfOneRelay

LEMMA InitQueue == Init => QueueInv
<1> SUFFICES ASSUME Init PROVE QueueInv
    OBVIOUS
<1>1. writes = <<>> /\ loads # {} /\ disk.cursor.of \in {disk.relay, Nobody}
    BY DEF Init, Launched, Loads
<1>2. Len(writes) = 0
    BY <1>1
<1>3. QED
    BY <1>1, <1>2 DEF QueueInv, Paired, Chained, DiskOfOneRelay

LEMMA StepQueue ==
    ASSUME "early" \notin Faults, "kill" \notin Faults, "write" \notin Faults,
           SessionInv, CursorInv, QueueInv, [Next]_vars
    PROVE  QueueInv'
<1>1. AroundType
    BY DEF SessionInv, GuardInv
<1>2. CASE Startup
    BY <1>2, LoadedQueue DEF SessionInv
<1>3. CASE LoadFails \/ Foreground \/ SendUnauthorized \/ AuthTimer \/ PollTimer \/ UNCHANGED vars
    BY <1>3, SameQueue
    DEF LoadFails, Foreground, SendUnauthorized, AuthTimer, PollTimer, vars, model
<1>4. CASE \E r \in Relays : SetServerUrl(r)
    BY <1>1, <1>4, SetServerUrlQueue
<1>5. CASE \E ok \in BOOLEAN : WriteLands(ok) \/ SavedCursor(ok)
    BY <1>1, <1>5, LandsQueue DEF WriteLands, SavedCursor, model
<1>6. ASSUME NEW x \in pending, NEW n \in 1 .. MaxCursor, PollResultMail(x, n)
      PROVE  QueueInv'
    BY <1>6, PollResultMailQueue DEF SessionInv
<1>7. ASSUME NEW x \in pending, \/ AuthResult(x) \/ AuthWatchdog(x) \/ PollResult(x)
                                \/ PollWatchdog(x) \/ Lose(x)
      PROVE  QueueInv'
    BY <1>6, <1>7, CursorUntouched, SameQueue DEF PollResult
<1>8. CASE Relaunch
    BY <1>8 DEF Relaunch
<1>9. QED
    BY <1>2, <1>3, <1>4, <1>5, <1>7, <1>8 DEF Next

\* Storage pairs a relay with its own cursor but between the two writes of a switch,
\* however many switches and pages are queued behind one another: what is killed at any
\* other time polls its relay, when it is launched again, with a cursor that relay issued.
THEOREM StorageKeepsOneRelay ==
    ASSUME "early" \notin Faults, "kill" \notin Faults, "write" \notin Faults
    PROVE  Spec => []DiskOfOneRelay
<1>1. Spec => []SessionInv
    BY SessionInvariant
<1>2. Spec => []CursorInv
    BY CursorInvariant
<1>3. SessionInv /\ CursorInv /\ QueueInv /\ [Next]_vars => QueueInv'
    BY StepQueue
<1>4. QueueInv => DiskOfOneRelay
    BY DEF QueueInv
<1>5. QED
    BY <1>1, <1>2, <1>3, <1>4, InitQueue, PTL DEF Spec
=============================================================================
