---------------------------- MODULE ClientSession ----------------------------
(***************************************************************************)
(* How the client core (core/src/app.rs) stays connected: the startup      *)
(* loads, the auth round-trip, the poll loop, the per-relay cursor, and    *)
(* the timers that restart a loop whose request was lost.                  *)
(*                                                                         *)
(* An event that a handler emits (Connect, Authenticate, Poll) is handled  *)
(* before the shell is heard again, so a handler and what it emits are one *)
(* action.  What an emitted handler reads of the fields its emitter has    *)
(* just assigned appears here primed.                                      *)
(***************************************************************************)
EXTENDS Naturals, Sequences, FiniteSets

CONSTANTS
    Relays,         \* server URLs
    Default,        \* DEFAULT_SERVER_URL
    Nobody,         \* no relay: no token, or the cursor nobody issued
    Generations,    \* the range of poll_gen and auth_gen: 2^64 in the code
    MaxCursor,      \* bound: sequence numbers a relay issues
    MaxTimers,      \* bound: timers of one kind armed at once
    MaxWrites,      \* bound: storage writes queued at once
    MaxPending,     \* bound: requests and watchdogs out at once when one is sent
    Faults          \* what the environment may do, a subset of FaultKinds

\* lost: the shell drops an HTTP or a storage result.  read, write: a storage
\* operation fails.  kill: the process ends and is launched again.  early: the app
\* comes to the foreground, or the user switches relays, before the startup loads
\* have landed.
FaultKinds == {"lost", "read", "write", "kill", "early"}

ASSUME SessionAssumption ==
    /\ Default \in Relays
    /\ Nobody \notin Relays
    /\ Generations \in Nat \ {0, 1}
    /\ MaxCursor \in Nat
    /\ MaxTimers \in Nat
    /\ MaxWrites \in Nat
    /\ MaxPending \in Nat
    /\ Faults \subseteq FaultKinds

VARIABLES
    \* the core's model
    relay,           \* settings.server_url
    cursor,          \* number acked by the next poll, with the relay that issued it
    token,           \* the relay whose session token is held, or Nobody
    conn,            \* ConnStatus
    polling,         \* a /poll request holds the poll loop
    poll_gen,        \* the generation whose PollResult is honoured
    authenticating,  \* an auth round-trip is out
    auth_gen,        \* the generation whose auth results are honoured
    loads,           \* startup loads not yet landed (loads_pending counts them)
    kv_load_failed,  \* a storage read failed: nothing may be written
    \* the shell
    pending,         \* requests not yet answered, watchdogs not yet fired
    timers,          \* how many one-shot timers will send each event
    writes,          \* the serial storage queue
    disk             \* what storage holds

model == <<relay, cursor, token, conn, polling, poll_gen, authenticating, auth_gen,
           loads, kv_load_failed>>
vars  == <<model, pending, timers, writes, disk>>

-----------------------------------------------------------------------------
(* Types *)

Gens == 0 .. Generations - 1

Zero == [of |-> Nobody, n |-> 0]

Cursors == {Zero} \cup [of: Relays, n: 1 .. MaxCursor]

\* STARTUP_LOADS; profile, contacts, outbox and seen_ids play no part here.
Loads == {"settings", "cursor", "rest"}

Http ==
    [what: {"challenge"}, gen: Gens, relay: Relays]
      \cup [what: {"verify"}, gen: Gens, relay: Relays, challenger: Relays]
      \cup [what: {"poll"}, gen: Gens, relay: Relays, token: Relays, cursor: Cursors]

Watchdog == [what: {"PollWatchdog", "AuthWatchdog"}, gen: Gens]

Write == [key: {"settings"}, value: Relays, then: {"Saved"}]
           \cup [key: {"cursor"}, value: Cursors, then: {"Saved", "SavedCursor"}]

PollKinds == {"poll", "PollWatchdog"}
AuthKinds == {"challenge", "verify", "AuthWatchdog"}

\* Faulty variant: the counter is not a wrapping one.
NextGenUnwrapped(g) == g + 1

NextGen(g) == (g + 1) % Generations

\* The counters have 64 bits and a request lives 70 seconds: by the time a
\* generation comes round again nothing that carries it is left.
Retired(kinds, g, ps) == \A x \in ps : x.what \in kinds => x.gen # g

LivePoll(x) == x.what = "poll" /\ x.gen = poll_gen

LiveAuth(x) == x.what \in {"challenge", "verify"} /\ x.gen = auth_gen

-----------------------------------------------------------------------------
(* Timers: schedule_reconnect arms "Authenticate", backoff_poll and every poll *)
(* page arm "Poll".                                                            *)

Armed(event) ==
    /\ timers[event] < MaxTimers
    /\ timers' = [timers EXCEPT ![event] = @ + 1]

Fired(event) ==
    /\ timers[event] > 0
    /\ timers' = [timers EXCEPT ![event] = @ - 1]

-----------------------------------------------------------------------------
(* The events handlers emit *)

\* Faulty variant: the status is left alone.
AuthenticateSilently(busy, c, g, ps) ==
    /\ authenticating' = TRUE
    /\ conn' = c
    /\ IF busy
       THEN auth_gen' = g /\ pending' = ps
       ELSE /\ Retired(AuthKinds, NextGen(g), ps)
            /\ auth_gen' = NextGen(g)
            /\ pending' = ps \cup {[what |-> "challenge", gen |-> NextGen(g), relay |-> relay'],
                                   [what |-> "AuthWatchdog", gen |-> NextGen(g)]}

\* Event::Authenticate, with `authenticating` = busy, `conn` = c, `auth_gen` = g.
Authenticate(busy, c, g, ps) ==
    IF busy
    THEN /\ authenticating' = TRUE
         /\ conn' = c
         /\ auth_gen' = g
         /\ pending' = ps
    ELSE /\ Retired(AuthKinds, NextGen(g), ps)
         /\ Cardinality(ps) + 2 <= MaxPending
         /\ authenticating' = TRUE
         /\ conn' = "connecting"
         /\ auth_gen' = NextGen(g)
         /\ pending' = ps \cup {[what |-> "challenge", gen |-> NextGen(g), relay |-> relay'],
                                [what |-> "AuthWatchdog", gen |-> NextGen(g)]}

\* No event of the auth flow: `authenticating` = busy, `conn` = c.
NoAuth(busy, c, g, ps) ==
    /\ authenticating' = busy
    /\ conn' = c
    /\ auth_gen' = g
    /\ pending' = ps

\* Event::Poll, with `polling` = going, `poll_gen` = pg and the auth flow as above.
Poll(going, pg, busy, c, g, ps) ==
    IF going
    THEN /\ polling' = TRUE
         /\ poll_gen' = pg
         /\ NoAuth(busy, c, g, ps)
    ELSE IF token' = Nobody
    THEN /\ polling' = FALSE
         /\ poll_gen' = pg
         /\ Authenticate(busy, c, g, ps)
    ELSE /\ Retired(PollKinds, NextGen(pg), ps)
         /\ Cardinality(ps) + 2 <= MaxPending
         /\ polling' = TRUE
         /\ poll_gen' = NextGen(pg)
         /\ NoAuth(busy, c, g,
              ps \cup {[what |-> "poll", gen |-> NextGen(pg), relay |-> relay',
                        token |-> token', cursor |-> cursor'],
                       [what |-> "PollWatchdog", gen |-> NextGen(pg)]})

\* Faulty variant: an auth in flight is kept.
ConnectKeepsAuth(going, pg, c, ps) ==
    IF kv_load_failed'
    THEN polling' = going /\ poll_gen' = pg /\ NoAuth(authenticating, c, auth_gen, ps)
    ELSE IF c # "online"
    THEN polling' = going /\ poll_gen' = pg /\ Authenticate(authenticating, c, auth_gen, ps)
    ELSE Poll(going, pg, authenticating, c, auth_gen, ps)

\* Event::Connect: whatever auth is in flight is abandoned first.
Connect(going, pg, c, ps) ==
    LET g == NextGen(auth_gen)
    IN  /\ Retired(AuthKinds, g, ps)
        /\ IF kv_load_failed'
           THEN polling' = going /\ poll_gen' = pg /\ NoAuth(FALSE, c, g, ps)
           ELSE IF c # "online"
           THEN polling' = going /\ poll_gen' = pg /\ Authenticate(FALSE, c, g, ps)
           ELSE Poll(going, pg, FALSE, c, g, ps)

-----------------------------------------------------------------------------
(* Startup *)

\* LoadedSettings, LoadedCursor and the four others, with startup_done: the last
\* one to land connects, unless some read failed.
Loaded(key, ok) ==
    /\ key \in loads
    /\ ok \/ "read" \in Faults
    /\ loads' = loads \ {key}
    /\ relay' = IF ok /\ key = "settings" THEN disk.relay ELSE relay
    /\ cursor' = IF ok /\ key = "cursor" THEN disk.cursor ELSE cursor
    /\ kv_load_failed' = (kv_load_failed \/ ~ok)
    /\ IF loads' = {} /\ ~kv_load_failed'
       THEN UNCHANGED token /\ Connect(polling, poll_gen, conn, pending)
       ELSE UNCHANGED <<token, conn, polling, poll_gen, authenticating, auth_gen, pending>>
    /\ UNCHANGED <<timers, writes, disk>>

\* LoadedMessages with a read error: a conversation's lazy load.
LoadFails ==
    /\ "read" \in Faults
    /\ ~kv_load_failed
    /\ kv_load_failed' = TRUE
    /\ UNCHANGED <<relay, cursor, token, conn, polling, poll_gen, authenticating,
                   auth_gen, loads, pending, timers, writes, disk>>

\* Every return to the foreground.
Foreground ==
    /\ loads = {} \/ "early" \in Faults
    /\ UNCHANGED <<relay, cursor, token, loads, kv_load_failed>>
    /\ Connect(polling, poll_gen, conn, pending)
    /\ UNCHANGED <<timers, writes, disk>>

\* Faulty variants: the poll's guard is lowered without a new generation; the old
\* relay's cursor is kept.
SetServerUrlSameGen(r) ==
    /\ loads = {} \/ "early" \in Faults
    /\ kv_load_failed \/ Len(writes) + 2 <= MaxWrites
    /\ relay' = r
    /\ token' = Nobody
    /\ cursor' = Zero
    /\ UNCHANGED <<loads, kv_load_failed>>
    /\ writes' = IF kv_load_failed THEN writes
                 ELSE writes \o <<[key |-> "settings", value |-> r, then |-> "Saved"],
                                  [key |-> "cursor", value |-> Zero, then |-> "Saved"]>>
    /\ Connect(FALSE, poll_gen, "offline", pending)
    /\ UNCHANGED <<timers, disk>>

SetServerUrlKeepsCursor(r) ==
    /\ loads = {} \/ "early" \in Faults
    /\ Retired(PollKinds, NextGen(poll_gen), pending)
    /\ kv_load_failed \/ Len(writes) + 1 <= MaxWrites
    /\ relay' = r
    /\ token' = Nobody
    /\ UNCHANGED <<cursor, loads, kv_load_failed>>
    /\ writes' = IF kv_load_failed THEN writes
                 ELSE Append(writes, [key |-> "settings", value |-> r, then |-> "Saved"])
    /\ Connect(FALSE, NextGen(poll_gen), "offline", pending)
    /\ UNCHANGED <<timers, disk>>

\* SetServerUrl, which emits Connect.
SetServerUrl(r) ==
    /\ loads = {} \/ "early" \in Faults
    /\ Retired(PollKinds, NextGen(poll_gen), pending)
    /\ kv_load_failed \/ Len(writes) + 2 <= MaxWrites
    /\ relay' = r
    /\ token' = Nobody
    /\ cursor' = Zero
    /\ UNCHANGED <<loads, kv_load_failed>>
    /\ writes' = IF kv_load_failed THEN writes
                 ELSE writes \o <<[key |-> "settings", value |-> r, then |-> "Saved"],
                                  [key |-> "cursor", value |-> Zero, then |-> "Saved"]>>
    /\ Connect(FALSE, NextGen(poll_gen), "offline", pending)
    /\ UNCHANGED <<timers, disk>>

-----------------------------------------------------------------------------
(* The auth round-trip *)

\* Either leg, when the attempt was abandoned.
AuthResultStale(x) ==
    /\ x.what \in {"challenge", "verify"}
    /\ x.gen # auth_gen
    /\ pending' = pending \ {x}
    /\ UNCHANGED <<model, timers, writes, disk>>

\* Either leg, on an error or an unusable body: schedule_reconnect.
AuthResultFails(x) ==
    /\ LiveAuth(x)
    /\ NoAuth(FALSE, "offline", auth_gen, pending \ {x})
    /\ Armed("Authenticate")
    /\ UNCHANGED <<relay, cursor, token, polling, poll_gen, loads, kv_load_failed,
                   writes, disk>>

\* The challenge is signed for the relay configured now; the verify leg keeps the
\* generation and its watchdog.
ChallengeResult(x) ==
    /\ LiveAuth(x)
    /\ x.what = "challenge"
    /\ NoAuth(TRUE, conn, auth_gen,
              (pending \ {x}) \cup {[what |-> "verify", gen |-> auth_gen, relay |-> relay,
                                     challenger |-> x.relay]})
    /\ UNCHANGED <<relay, cursor, token, polling, poll_gen, loads, kv_load_failed,
                   timers, writes, disk>>

VerifyResult(x) ==
    /\ LiveAuth(x)
    /\ x.what = "verify"
    /\ x.challenger = x.relay
    /\ token' = x.relay
    /\ UNCHANGED <<relay, cursor, loads, kv_load_failed>>
    /\ Poll(polling, poll_gen, FALSE, "online", auth_gen, pending \ {x})
    /\ UNCHANGED <<timers, writes, disk>>

AuthWatchdog(x) ==
    /\ x.what = "AuthWatchdog"
    /\ UNCHANGED <<relay, cursor, token, loads, kv_load_failed, polling, poll_gen>>
    /\ IF x.gen # auth_gen \/ ~authenticating
       THEN NoAuth(authenticating, conn, auth_gen, pending \ {x})
       ELSE /\ Retired(AuthKinds, NextGen(auth_gen), pending)
            /\ Authenticate(FALSE, conn, NextGen(auth_gen), pending \ {x})
    /\ UNCHANGED <<timers, writes, disk>>

\* A 401 for a send (ClientOutbox).
SendUnauthorized ==
    /\ token # Nobody
    /\ token' = Nobody
    /\ UNCHANGED <<relay, cursor, loads, kv_load_failed, polling, poll_gen>>
    /\ Authenticate(authenticating, conn, auth_gen, pending)
    /\ UNCHANGED <<timers, writes, disk>>

-----------------------------------------------------------------------------
(* The poll loop *)

PollWatchdog(x) ==
    /\ x.what = "PollWatchdog"
    /\ UNCHANGED <<relay, cursor, token, loads, kv_load_failed>>
    /\ IF x.gen # poll_gen \/ ~polling
       THEN /\ UNCHANGED <<polling, poll_gen>>
            /\ NoAuth(authenticating, conn, auth_gen, pending \ {x})
       ELSE /\ Retired(PollKinds, NextGen(poll_gen), pending)
            /\ Poll(FALSE, NextGen(poll_gen), authenticating, conn, auth_gen, pending \ {x})
    /\ UNCHANGED <<timers, writes, disk>>

PollResultStale(x) ==
    /\ x.what = "poll"
    /\ x.gen # poll_gen
    /\ pending' = pending \ {x}
    /\ UNCHANGED <<model, timers, writes, disk>>

\* Faulty variant: nothing is armed to poll again.
PollResultFailsSilently(x) ==
    /\ LivePoll(x)
    /\ polling' = FALSE
    /\ NoAuth(authenticating, "offline", auth_gen, pending \ {x})
    /\ UNCHANGED <<relay, cursor, token, poll_gen, loads, kv_load_failed, timers, writes, disk>>

\* backoff_poll, on a transport error, a 5xx, an oversized or malformed page.
PollResultFails(x) ==
    /\ LivePoll(x)
    /\ polling' = FALSE
    /\ NoAuth(authenticating, "offline", auth_gen, pending \ {x})
    /\ Armed("Poll")
    /\ UNCHANGED <<relay, cursor, token, poll_gen, loads, kv_load_failed, writes, disk>>

PollResult401(x) ==
    /\ LivePoll(x)
    /\ token' = Nobody
    /\ polling' = FALSE
    /\ UNCHANGED <<relay, cursor, loads, kv_load_failed, poll_gen>>
    /\ Authenticate(authenticating, conn, auth_gen, pending \ {x})
    /\ UNCHANGED <<timers, writes, disk>>

\* A page over unreadable storage stops the loop.
PollResultRefused(x) ==
    /\ LivePoll(x)
    /\ kv_load_failed
    /\ polling' = FALSE
    /\ pending' = pending \ {x}
    /\ UNCHANGED <<relay, cursor, token, conn, poll_gen, authenticating, auth_gen, loads,
                   kv_load_failed, timers, writes, disk>>

\* A page that leaves the cursor alone (no events, or a number not above ours) is
\* followed by the next poll at once.
PollResultIdle(x) ==
    /\ LivePoll(x)
    /\ ~kv_load_failed
    /\ UNCHANGED <<relay, cursor, token, loads, kv_load_failed>>
    /\ Poll(FALSE, poll_gen, authenticating, conn, auth_gen, pending \ {x})
    /\ Armed("Poll")
    /\ UNCHANGED <<writes, disk>>

\* Faulty variants: no timer backs up the cursor write; the page is taken although
\* storage could not be read.
PollResultMailUntimed(x, n) ==
    /\ LivePoll(x)
    /\ ~kv_load_failed
    /\ n > cursor.n
    /\ Len(writes) < MaxWrites
    /\ polling' = FALSE
    /\ cursor' = [of |-> x.relay, n |-> n]
    /\ pending' = pending \ {x}
    /\ writes' = Append(writes, [key |-> "cursor", value |-> cursor', then |-> "SavedCursor"])
    /\ UNCHANGED <<relay, token, conn, poll_gen, authenticating, auth_gen, loads,
                   kv_load_failed, timers, disk>>

PollResultMailBlind(x, n) ==
    /\ LivePoll(x)
    /\ n > cursor.n
    /\ Len(writes) < MaxWrites
    /\ polling' = FALSE
    /\ cursor' = [of |-> x.relay, n |-> n]
    /\ pending' = pending \ {x}
    /\ writes' = Append(writes, [key |-> "cursor", value |-> cursor', then |-> "SavedCursor"])
    /\ Armed("Poll")
    /\ UNCHANGED <<relay, token, conn, poll_gen, authenticating, auth_gen, loads,
                   kv_load_failed, disk>>

\* A page with mail up to n: the cursor is adopted and written, and the next poll
\* hangs off the write.
PollResultMail(x, n) ==
    /\ LivePoll(x)
    /\ ~kv_load_failed
    /\ n > cursor.n
    /\ Len(writes) < MaxWrites
    /\ polling' = FALSE
    /\ cursor' = [of |-> x.relay, n |-> n]
    /\ pending' = pending \ {x}
    /\ writes' = Append(writes, [key |-> "cursor", value |-> cursor', then |-> "SavedCursor"])
    /\ Armed("Poll")
    /\ UNCHANGED <<relay, token, conn, poll_gen, authenticating, auth_gen, loads,
                   kv_load_failed, disk>>

-----------------------------------------------------------------------------
(* Storage: a serial queue, where the startup reads come before any write.  A *)
(* result is handled when its write lands: what happens in between would find *)
(* the same model with the write still queued.                                *)

Lands(w, ok) ==
    /\ writes # <<>>
    /\ w = Head(writes)
    /\ loads = {}
    /\ ok \/ "write" \in Faults
    /\ writes' = Tail(writes)
    /\ disk' = IF ~ok THEN disk
               ELSE IF w.key = "settings" THEN [disk EXCEPT !.relay = w.value]
               ELSE [disk EXCEPT !.cursor = w.value]

\* Its result only sets the error line, or is lost.
WriteLands(ok) ==
    /\ Lands(Head(writes), ok)
    /\ Head(writes).then = "Saved" \/ "lost" \in Faults
    /\ UNCHANGED <<model, pending, timers>>

SavedCursor(ok) ==
    /\ Lands(Head(writes), ok)
    /\ Head(writes).then = "SavedCursor"
    /\ UNCHANGED <<relay, cursor, token, loads, kv_load_failed>>
    /\ IF ok
       THEN /\ Poll(polling, poll_gen, authenticating, conn, auth_gen, pending)
            /\ UNCHANGED timers
       ELSE /\ UNCHANGED <<polling, poll_gen>>
            /\ NoAuth(authenticating, "offline", auth_gen, pending)
            /\ Armed("Poll")

-----------------------------------------------------------------------------
(* The shell *)

AuthTimer ==
    /\ Fired("Authenticate")
    /\ UNCHANGED <<relay, cursor, token, loads, kv_load_failed, polling, poll_gen>>
    /\ Authenticate(authenticating, conn, auth_gen, pending)
    /\ UNCHANGED <<writes, disk>>

PollTimer ==
    /\ Fired("Poll")
    /\ UNCHANGED <<relay, cursor, token, loads, kv_load_failed>>
    /\ Poll(polling, poll_gen, authenticating, conn, auth_gen, pending)
    /\ UNCHANGED <<writes, disk>>

Lose(x) ==
    /\ "lost" \in Faults
    /\ x.what \in {"challenge", "verify", "poll"}
    /\ pending' = pending \ {x}
    /\ UNCHANGED <<model, timers, writes, disk>>

\* Model::default and IdentityLoaded.
Launched ==
    [relay |-> Default, cursor |-> Zero, token |-> Nobody, conn |-> "offline",
     gen |-> 0, loads |-> Loads, timers |-> [e \in {"Poll", "Authenticate"} |-> 0]]

Relaunch ==
    /\ "kill" \in Faults
    /\ relay' = Launched.relay
    /\ cursor' = Launched.cursor
    /\ token' = Launched.token
    /\ conn' = Launched.conn
    /\ polling' = FALSE
    /\ poll_gen' = Launched.gen
    /\ authenticating' = FALSE
    /\ auth_gen' = Launched.gen
    /\ loads' = Launched.loads
    /\ kv_load_failed' = FALSE
    /\ pending' = {}
    /\ timers' = Launched.timers
    /\ writes' = <<>>
    /\ UNCHANGED disk

-----------------------------------------------------------------------------
\* A cursor on disk was issued by the relay on disk.
Init ==
    /\ relay = Launched.relay
    /\ cursor = Launched.cursor
    /\ token = Launched.token
    /\ conn = Launched.conn
    /\ polling = FALSE
    /\ poll_gen = Launched.gen
    /\ authenticating = FALSE
    /\ auth_gen = Launched.gen
    /\ loads = Launched.loads
    /\ kv_load_failed = FALSE
    /\ pending = {}
    /\ timers = Launched.timers
    /\ writes = <<>>
    /\ disk \in {d \in [relay: Relays, cursor: Cursors] : d.cursor.of \in {Nobody, d.relay}}

Startup == \E key \in Loads, ok \in BOOLEAN : Loaded(key, ok)

AuthResult(x) == AuthResultStale(x) \/ AuthResultFails(x) \/ ChallengeResult(x) \/ VerifyResult(x)

PollResult(x) ==
    \/ PollResultStale(x)
    \/ PollResultFails(x)
    \/ PollResult401(x)
    \/ PollResultRefused(x)
    \/ PollResultIdle(x)
    \/ \E n \in 1 .. MaxCursor : PollResultMail(x, n)

Next ==
    \/ Startup
    \/ LoadFails
    \/ Foreground
    \/ \E r \in Relays : SetServerUrl(r)
    \/ SendUnauthorized
    \/ AuthTimer
    \/ PollTimer
    \/ \E ok \in BOOLEAN : WriteLands(ok) \/ SavedCursor(ok)
    \/ Relaunch
    \/ \E x \in pending : \/ AuthResult(x)
                          \/ AuthWatchdog(x)
                          \/ PollResult(x)
                          \/ PollWatchdog(x)
                          \/ Lose(x)

Spec == Init /\ [][Next]_vars

\* The shell runs every storage operation and timer, and resolves or loses every
\* request; nothing is assumed of the relay's answers or of the user.
Fairness ==
    /\ WF_vars(Startup)
    /\ WF_vars(AuthTimer)
    /\ WF_vars(PollTimer)
    /\ WF_vars(\E ok \in BOOLEAN : WriteLands(ok) \/ SavedCursor(ok))
    /\ WF_vars(\E x \in pending : AuthWatchdog(x))
    /\ WF_vars(\E x \in pending : PollWatchdog(x))
    /\ WF_vars(\E x \in pending : AuthResult(x) \/ (LiveAuth(x) /\ Lose(x)))
    /\ WF_vars(\E x \in pending : PollResult(x) \/ (LivePoll(x) /\ Lose(x)))

FairSpec == Spec /\ Fairness

-----------------------------------------------------------------------------
(* Properties *)

\* Every variable keeps its type.
TypeOK ==
    /\ relay \in Relays
    /\ cursor \in Cursors
    /\ token \in Relays \cup {Nobody}
    /\ conn \in {"offline", "connecting", "online"}
    /\ polling \in BOOLEAN
    /\ poll_gen \in Gens
    /\ authenticating \in BOOLEAN
    /\ auth_gen \in Gens
    /\ loads \subseteq Loads
    /\ kv_load_failed \in BOOLEAN
    /\ pending \subseteq Http \cup Watchdog
    /\ timers \in [{"Poll", "Authenticate"} -> 0 .. MaxTimers]
    /\ writes \in Seq(Write)
    /\ disk \in [relay: Relays, cursor: Cursors]

\* One poll and one auth round-trip at a time, and each guard is owned: a result
\* that would be honoured finds its guard up, it is the only one, and while a guard
\* is up the watchdog that would release it is armed.  Losing requests must not
\* break this, nor abandoning them.
GuardsOwned ==
    /\ \A x \in pending : LivePoll(x) => polling
    /\ \A x, y \in pending : LivePoll(x) /\ LivePoll(y) => x = y
    /\ \A x \in pending : LiveAuth(x) => authenticating
    /\ \A x, y \in pending : LiveAuth(x) /\ LiveAuth(y) => x = y
    /\ polling => [what |-> "PollWatchdog", gen |-> poll_gen] \in pending
    /\ authenticating => [what |-> "AuthWatchdog", gen |-> auth_gen] \in pending

\* The client never goes quiet: unless storage is unreadable there is always an
\* alarm left that will ask the relay again, whatever the shell loses.
NeverStranded ==
    kv_load_failed \/ loads # {} \/ polling \/ authenticating
      \/ timers["Poll"] > 0 \/ timers["Authenticate"] > 0

\* The status dot is honest: `Online` means a token and no auth under way (which is
\* also why Connect may stand down then).
OnlineIsHonest == conn = "online" => token # Nobody /\ ~authenticating

\* Nothing of one relay's session reaches another: the token held, and every
\* request whose answer would be honoured, belong to the relay configured now.
SessionOfRelay ==
    /\ token \in {relay, Nobody}
    /\ \A x \in pending :
          /\ LiveAuth(x) => x.relay = relay
          /\ LivePoll(x) => x.relay = relay
          /\ x.what = "poll" => x.token = x.relay
          /\ x.what = "verify" => x.challenger = x.relay

\* A poll never acks a number its relay did not issue: that would delete mail the
\* client has never seen.
CursorOfRelay ==
    \A x \in pending : x.what = "poll" => x.cursor.of \in {x.relay, Nobody}

\* Storage never holds the cursor of another relay than the one it names, but between the
\* two writes of a switch: a kill at any other time relaunches with a cursor of its relay.
\* A late page of the old relay must not put its number back behind them.
DiskOfOneRelay ==
    \/ disk.cursor.of \in {disk.relay, Nobody}
    \/ /\ writes # <<>>
       /\ Head(writes) = [key |-> "cursor", value |-> Zero, then |-> "Saved"]

\* "Only re-poll once it has actually landed" (SavedCursor): a poll acks nothing
\* that storage does not hold yet.
AcksOnlyWhatIsSaved ==
    \A x \in pending : LivePoll(x) =>
        x.cursor = Zero \/ (x.cursor.of = disk.cursor.of /\ x.cursor.n <= disk.cursor.n)

\* A model with a hole in it neither writes nor adopts mail it cannot store: after
\* a failed read nothing is added to the storage queue and no page moves the cursor.
UnreadableIsUntouched ==
    [][kv_load_failed' =>
          /\ Len(writes') <= Len(writes)
          /\ cursor' # cursor => \/ cursor' = Zero
                                 \/ "cursor" \in loads \ loads']_vars

\* The loops keep asking: again and again a poll or a challenge goes out, although
\* the shell may lose any result and the relay may refuse every request.
KeepsAsking ==
    \/ <>kv_load_failed
    \/ []<><<\E x \in pending' \ pending : x.what \in {"poll", "challenge"}>>_vars

=============================================================================
