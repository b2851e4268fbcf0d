--------------------------- MODULE RelayFederation ---------------------------
(***************************************************************************)
(* Two relays, one key and one message for it (server.knot).  The key      *)
(* polls its home relay, which gossips to the origin relay that the key is *)
(* online or offline; the message, sent to the origin, is forwarded to the *)
(* home.  The origin is a seed of the home, so it is always told.          *)
(*                                                                         *)
(* The message is one of many: the mailbox, the ceilings on forwards, the  *)
(* batch of a retry sweep and the table of failures are shared with other  *)
(* mail, so whether there is room, when other mail pushes the message or   *)
(* its forward out, and what the other calls return is open.               *)
(*                                                                         *)
(* A fork, a sweep and a handler each read the clock once and use that     *)
(* reading to the end, so each carries the age of its reading; lifetimes   *)
(* are what is left of them, negative for a row that has expired and was   *)
(* not pruned.  Tick is the only step that takes time.  A call may be lost *)
(* before it reaches the peer or on the way back, and calls overtake each  *)
(* other.                                                                  *)
(*                                                                         *)
(* The failures the home counts against the origin only drop gossip, which *)
(* may be lost in any case; the table is modelled at the origin.  Left     *)
(* out: the caps on presence rows, and the key polling the origin itself.  *)
(***************************************************************************)
EXTENDS Integers

CONSTANTS
    SessionExpiry,         \* sessionExpiry
    OnlineGossipTtl,       \* onlineGossipTtl
    RetryBackoffBase,      \* retryBackoffBase
    RetryBackoffMax,       \* retryBackoffMax
    ForwardFailureMaxAge,  \* forwardFailureMaxAge
    MaxForwardRetries,     \* maxForwardRetries
    MaxDelay,              \* bound: how long a clock reading is in use
    MaxFailures,           \* bound: counts of failures that are told apart
    Forks,                 \* bound: forks that forward the message, at once
    MaxGossip,             \* bound: gossip calls of a kind, at once
    MaxStaging             \* bound: staging forks at once

ASSUME FederationAssumption ==
    /\ SessionExpiry \in Nat \ {0}
    /\ OnlineGossipTtl \in Nat
    /\ RetryBackoffBase \in Nat
    /\ RetryBackoffMax \in Nat
    /\ ForwardFailureMaxAge \in Nat
    /\ MaxForwardRetries \in Nat \ {0}
    /\ MaxDelay \in Nat
    /\ MaxDelay < OnlineGossipTtl /\ MaxDelay < ForwardFailureMaxAge
    /\ RetryBackoffMax <= ForwardFailureMaxAge
    /\ MaxFailures \in Nat \ {0} /\ MaxFailures * RetryBackoffBase >= RetryBackoffMax
    /\ MaxGossip \in Nat /\ MaxStaging \in Nat

VARIABLES
    \* the origin
    kept,       \* is the message in *messages?
    delivered,  \* is the home in its deliveredTo?
    retries,    \* of its row of *forwards to the home, or Absent
    failures,   \* the row of *forwardFailures about the home
    row,        \* what is left of the key's remote row of *presence, or Gone
    staging,    \* forks of forwardQueuedToAll that have not run
    sends,      \* forks of forkForwardsTo: fork -> call
    sweep,      \* the message's turn in retryPendingForwards
    \* the home
    local,      \* what is left of the key's local row of *presence, or Gone
    stored,     \* did /federation/forward ever store the message?
    gossip,     \* forks of sendBatchedGossip: event -> how many
    \* observers
    latest,     \* the outcome of the call to the home with the latest clock reading
    givenUp     \* was the message given up for the home?

message == <<kept, delivered, retries, givenUp>>
calls == <<sends, sweep>>
backoff == <<failures, latest>>
routing == <<row, staging>>
home == <<local, stored, gossip>>
vars == <<message, calls, backoff, routing, home>>

-----------------------------------------------------------------------------
(* State *)

Events == {"online", "offline"}

Absent == -1

\* A row that expired before every reading in use is as good as gone.
Gone == -1 - MaxDelay

\* A call: new if it was only forked, out, answered (ok or deferred) at the peer, or seen
\* at the caller; and how old its clock reading is.
Idle == [stage |-> "idle", age |-> 0]

NoFailure == [failures |-> Absent, age |-> 0]

\* Is a row live for a clock reading of that age?
Live(left, age) == left + age > 0

Init ==
    /\ kept = FALSE /\ delivered = FALSE /\ retries = Absent /\ givenUp = FALSE
    /\ failures = NoFailure /\ latest = NoFailure
    /\ row = Gone /\ staging = 0
    /\ sends = [i \in Forks |-> Idle] /\ sweep = Idle
    /\ local = Gone /\ stored = FALSE
    /\ gossip = [e \in Events |-> 0]

-----------------------------------------------------------------------------
(* Failure tracking *)

Lesser(x, y) == IF x < y THEN x ELSE y

\* shouldRetryServer, for a fresh clock reading.
ShouldRetry ==
    \/ failures = NoFailure
    \/ failures.age >= Lesser(RetryBackoffMax, RetryBackoffBase * failures.failures)

\* Faulty variant: a failure counts whenever it comes.
RecordedAlways(f, age) ==
    [failures |-> IF f = NoFailure THEN 1 ELSE Lesser(f.failures + 1, MaxFailures), age |-> age]

\* recordFailure: skipped if a later call, or a success at the same time, was recorded.
\* Counts whose backoff is RetryBackoffMax are not told apart.
Recorded(f, age) ==
    IF f # NoFailure /\ (f.age < age \/ (f.age = age /\ f.failures = 0)) THEN f
    ELSE [failures |-> IF f = NoFailure THEN 1 ELSE Lesser(f.failures + 1, MaxFailures), age |-> age]

\* clearFailure: skipped if a later call was recorded.
Cleared(f, age) ==
    IF f # NoFailure /\ f.age < age THEN f ELSE [failures |-> 0, age |-> age]

\* The outcome of a call that read the clock age ago; the observer has 0 for a success
\* and 1 for a failure.
Outcome(ok, age) ==
    /\ failures' = IF ok THEN Cleared(failures, age) ELSE Recorded(failures, age)
    /\ latest' = IF latest = NoFailure \/ age < latest.age \/ (age = latest.age /\ ok)
                 THEN [failures |-> IF ok THEN 0 ELSE 1, age |-> age] ELSE latest

\* A call to the home for other keys returns.
OtherReturns(ok, age) ==
    /\ Outcome(ok, age)
    /\ UNCHANGED <<message, calls, routing, home>>

-----------------------------------------------------------------------------
(* The message and its forward at the origin *)

Queued == retries # Absent

\* A forward that the home accepted: its row goes, and markDelivered.
Accepted ==
    /\ retries' = Absent
    /\ delivered' = kept
    /\ givenUp' = FALSE
    /\ UNCHANGED kept

\* handleSendMessages: stored once, queued for the home if the key is online there and the
\* ceilings allow (maxForwardsPerServer, capForwards), and forwarded at once in a fork.  A
\* resend may queue it again, and after an eviction it finds the old forward still queued.
Send(i, age, room) ==
    LET remote == Live(row, age)
        queue  == remote /\ ~delivered /\ ~Queued
    IN  /\ kept' = TRUE
        /\ retries' = IF queue /\ room THEN 0 ELSE retries
        /\ givenUp' = IF queue THEN ~room ELSE givenUp
        /\ IF remote THEN /\ sends[i] = Idle
                          /\ sends' = [sends EXCEPT ![i].stage = "new"]
                     ELSE UNCHANGED sends
        /\ UNCHANGED <<delivered, sweep, backoff, routing, home>>

\* Other mail arrives: appendMessage drops the oldest messages, this one may be among them,
\* and its deliveredTo goes with it while its forward stays for pruneExpired; capForwards
\* drops the forwards with the most attempts.
OtherMail(evicts, displaces) ==
    /\ kept' = (kept /\ ~evicts)
    /\ delivered' = (delivered /\ ~evicts)
    /\ retries' = IF displaces THEN Absent ELSE retries
    /\ givenUp' = (kept' /\ (givenUp \/ (displaces /\ Queued)))
    /\ UNCHANGED <<calls, backoff, routing, home>>

\* Faulty variant: what the home has is queued again.
CandidateAgain == kept /\ ~Queued

Candidate == kept /\ ~Queued /\ ~delivered

\* forwardQueuedToAll, with the budget the other forwards leave.
Stage(room) ==
    /\ staging > 0
    /\ staging' = staging - 1
    /\ retries' = IF Candidate /\ room THEN 0 ELSE retries
    /\ givenUp' = IF Candidate THEN ~room ELSE givenUp
    /\ UNCHANGED <<kept, delivered, row, calls, backoff, home>>

\* pruneExpired at the origin; the message may have grown old.
Prune(old) ==
    /\ kept' = (kept /\ ~old)
    /\ delivered' = (delivered /\ ~old)
    /\ retries' = IF kept' THEN retries ELSE Absent
    /\ givenUp' = (givenUp /\ kept')
    /\ row' = IF Live(row, 0) THEN row ELSE Gone
    /\ failures' = IF failures # NoFailure /\ failures.age >= ForwardFailureMaxAge
                   THEN NoFailure ELSE failures
    /\ latest' = IF failures' = NoFailure THEN NoFailure ELSE latest
    /\ UNCHANGED <<staging, calls, home>>

-----------------------------------------------------------------------------
(* Forwarding *)

\* handleForwardMessage at the home: 404 unless the key is online there.
Answer(age) == IF Live(local, age) THEN "ok" ELSE "deferred"

Arrives(call, age) ==
    /\ call.stage = "out"
    /\ age <= call.age
    /\ stored' = (stored \/ Answer(age) = "ok")

\* What the caller sees: the answer, or an error if the call or the answer was lost.
Seen(call, result) ==
    /\ call.stage \in {"out", "ok", "deferred"}
    /\ result \in {call.stage, "error"} \ {"out"}

\* forkForwardsTo: no backoff asked; ...
SendBegins(i) ==
    /\ sends[i].stage = "new"
    /\ sends' = [sends EXCEPT ![i].stage = "out"]
    /\ UNCHANGED <<message, sweep, backoff, routing, home>>

SendArrives(i, age) ==
    /\ Arrives(sends[i], age)
    /\ sends' = [sends EXCEPT ![i].stage = Answer(age)]
    /\ UNCHANGED <<message, sweep, backoff, routing, local, gossip>>

\* ... a 404 is nobody's failure; a success clears the failures first, and then the forward.
SendReturns(i, result) ==
    /\ Seen(sends[i], result)
    /\ IF result = "deferred" THEN UNCHANGED backoff ELSE Outcome(result = "ok", sends[i].age)
    /\ sends' = [sends EXCEPT ![i] = IF result = "ok" THEN [Idle EXCEPT !.stage = "cleared"] ELSE Idle]
    /\ UNCHANGED <<message, sweep, routing, home>>

SendSettles(i) ==
    /\ sends[i].stage = "cleared"
    /\ sends' = [sends EXCEPT ![i] = Idle]
    /\ Accepted
    /\ UNCHANGED <<sweep, backoff, routing, home>>

\* retryPendingForwards, where the message is in the batch of the home: the clock is read,
\* once for the whole sweep, and the call comes some time after.
SweepBegins ==
    /\ sweep = Idle
    /\ Queued /\ ShouldRetry
    /\ sweep' = [sweep EXCEPT !.stage = "out"]
    /\ UNCHANGED <<message, sends, backoff, routing, home>>

SweepArrives(age) ==
    /\ Arrives(sweep, age)
    /\ sweep' = [sweep EXCEPT !.stage = Answer(age)]
    /\ UNCHANGED <<message, sends, backoff, routing, local, gossip>>

\* Faulty variant: one attempt more.
ExhaustedLate == retries >= MaxForwardRetries

\* The attempt is the last one.
Exhausted == retries + 1 >= MaxForwardRetries

\* retryForwardsTo: every attempt counts, an accepted or a last one drops the row.
SweepReturns(result) ==
    /\ Seen(sweep, result)
    /\ sweep' = [sweep EXCEPT !.stage = CASE result = "ok"       -> "succeeded"
                                          [] result = "error"    -> "failed"
                                          [] result = "deferred" -> "neither"]
    /\ \/ result = "ok" /\ Accepted
       \/ /\ result # "ok" /\ Queued
          /\ retries' = IF Exhausted THEN Absent ELSE retries + 1
          /\ givenUp' = (givenUp \/ (Exhausted /\ kept))
          /\ UNCHANGED <<kept, delivered>>
       \/ result # "ok" /\ ~Queued /\ UNCHANGED message
    /\ UNCHANGED <<sends, backoff, routing, home>>

\* The rest of the batch, and one outcome for all of it; others are the results of the
\* other forwards.
SweepEnds(others) ==
    LET failed    == sweep.stage = "failed" \/ "error" \in others
        succeeded == sweep.stage = "succeeded" \/ "ok" \in others
    IN  /\ sweep.stage \in {"succeeded", "failed", "neither"}
        /\ sweep' = Idle
        /\ IF failed \/ succeeded THEN Outcome(~failed, sweep.age) ELSE UNCHANGED backoff
        /\ UNCHANGED <<message, sends, routing, home>>

-----------------------------------------------------------------------------
(* The key at its home, and what the home gossips *)

\* A fork of sendBatchedGossip.
Gossips(e) ==
    /\ gossip[e] < MaxGossip
    /\ gossip' = [gossip EXCEPT ![e] = @ + 1]

\* refreshLocalPresence, and the fork that tells the peers.
Announce(age) ==
    /\ Gossips("online")
    /\ local' = SessionExpiry - age
    /\ UNCHANGED <<message, calls, backoff, routing, stored>>

\* handlePoll, where less than half of the session is left.
Poll(age) == ~(local + age >= SessionExpiry \div 2) /\ Announce(age)

\* handleVerifyAuth
Login(age) == Announce(age)

\* backgroundPrune at the home: a key that expired is gossiped offline.
HomePrune ==
    /\ local # Gone /\ ~Live(local, 0)
    /\ local' = Gone
    /\ Gossips("offline")
    /\ UNCHANGED <<message, calls, backoff, routing, stored>>

\* A call of sendBatchedGossip that is not made, the origin being backed off, or is lost.
GossipLost(e) ==
    /\ gossip[e] > 0
    /\ gossip' = [gossip EXCEPT ![e] = @ - 1]
    /\ UNCHANGED <<message, calls, backoff, routing, local, stored>>

\* Faulty variant: asked of the rows as they are after the merge.
NewlyOnlineMerged(age) == ~Live(OnlineGossipTtl - age, age)

\* There was no live row of the key.
NewlyOnline(age) == ~Live(row, age)

\* handleRecvGossip at the origin: a key that comes online is a new row, and if there was
\* no live one its mail is staged.  With an old clock reading a row that has expired can
\* pass for live.
OnlineArrives(age) ==
    LET newly == NewlyOnline(age)
    IN  /\ gossip["online"] > 0
        /\ gossip' = [gossip EXCEPT !["online"] = @ - 1]
        /\ row' = OnlineGossipTtl - age
        /\ newly => staging < MaxStaging
        /\ staging' = IF newly THEN staging + 1 ELSE staging
        /\ givenUp' = (givenUp \/ (Candidate /\ Live(row, age) /\ ~Live(row, 0)))
        /\ UNCHANGED <<kept, delivered, retries, calls, backoff, local, stored>>

\* Of a key that goes offline the row and the queued forwards are dropped.
OfflineArrives ==
    /\ gossip["offline"] > 0
    /\ gossip' = [gossip EXCEPT !["offline"] = @ - 1]
    /\ row' = Gone
    /\ retries' = Absent
    /\ UNCHANGED <<kept, delivered, givenUp, calls, backoff, staging, local, stored>>

-----------------------------------------------------------------------------
(* Time *)

\* Is the clock reading of a call in use?
Reads(call) == call.stage \notin {"idle", "new", "cleared"}

Older(call) == IF Reads(call) THEN [call EXCEPT !.age = @ + 1] ELSE call

Aged(f) == IF f = NoFailure THEN f ELSE [f EXCEPT !.age = Lesser(@ + 1, ForwardFailureMaxAge)]

Left(x) == IF x = Gone THEN Gone ELSE x - 1

\* No reading is in use for longer than MaxDelay.
Tick ==
    /\ \A i \in Forks : sends[i].age < MaxDelay
    /\ sweep.age < MaxDelay
    /\ sends' = [i \in Forks |-> Older(sends[i])]
    /\ sweep' = Older(sweep)
    /\ row' = Left(row)
    /\ local' = Left(local)
    /\ failures' = Aged(failures)
    /\ latest' = Aged(latest)
    /\ UNCHANGED <<message, staging, stored, gossip>>

Ages == 0 .. MaxDelay

Results == {"ok", "deferred", "error"}

Next ==
    \/ \E i \in Forks : \/ \E age \in Ages, room \in BOOLEAN : Send(i, age, room)
                        \/ SendBegins(i)
                        \/ \E age \in Ages : SendArrives(i, age)
                        \/ \E result \in Results : SendReturns(i, result)
                        \/ SendSettles(i)
    \/ \E room \in BOOLEAN : Stage(room)
    \/ \E evicts, displaces \in BOOLEAN : OtherMail(evicts, displaces)
    \/ \E old \in BOOLEAN : Prune(old)
    \/ \E ok \in BOOLEAN, age \in Ages : OtherReturns(ok, age)
    \/ SweepBegins
    \/ \E age \in Ages : SweepArrives(age)
    \/ \E result \in Results : SweepReturns(result)
    \/ \E others \in SUBSET {"ok", "error"} : SweepEnds(others)
    \/ \E age \in Ages : Poll(age) \/ Login(age)
    \/ HomePrune
    \/ \E e \in Events : GossipLost(e)
    \/ \E age \in Ages : OnlineArrives(age)
    \/ OfflineArrives
    \/ Tick

Spec == Init /\ [][Next]_vars

-----------------------------------------------------------------------------
(* Properties *)

FailureRow == {NoFailure} \cup [failures : 0 .. MaxFailures, age : 0 .. ForwardFailureMaxAge]

Stages == {"idle", "new", "out", "ok", "deferred", "cleared", "succeeded", "failed", "neither"}

\* The types; a queued forward has attempts left (retryForwardsTo), and only a message that
\* is kept is marked as delivered.  A forward may outlive its message.
TypeOK ==
    /\ kept \in BOOLEAN /\ delivered \in BOOLEAN /\ givenUp \in BOOLEAN
    /\ delivered \/ givenUp => kept
    /\ retries \in Absent .. MaxForwardRetries - 1
    /\ failures \in FailureRow /\ latest \in FailureRow
    /\ row \in Gone .. OnlineGossipTtl
    /\ staging \in 0 .. MaxStaging
    /\ sends \in [Forks -> [stage : Stages, age : Ages]]
    /\ sweep \in [stage : Stages, age : Ages]
    /\ local \in Gone .. SessionExpiry
    /\ stored \in BOOLEAN
    /\ gossip \in [Events -> 0 .. MaxGossip]

\* A peer is backed off according to the call to it with the latest clock reading, whatever
\* the order in which calls return (recordFailure and clearFailure); of calls with the same
\* reading a success counts.  A sweep reads the clock before its first call.
LatestCallWins ==
    /\ (failures = NoFailure) <=> (latest = NoFailure)
    /\ failures # NoFailure => /\ failures.age = latest.age
                               /\ (failures.failures = 0) <=> (latest.failures = 0)

\* While the origin has the key online at its home, a message that the home has not accepted
\* is in the outbox or about to be put there (handleRecvGossip, handleSendMessages), unless
\* it was given up: no room, a forward that other mail displaced, no attempts left, or a row
\* that expired between the clock reading and the transaction of handleRecvGossip.
NoMailLeftBehind ==
    Live(row, 0) /\ kept => delivered \/ Queued \/ staging > 0 \/ givenUp

\* The origin takes a message for delivered only if the home stored it, and does not queue
\* it for the home again (forwardQueuedToAll, handleSendMessages).
DeliveredIsStored == delivered => stored /\ ~Queued

=============================================================================
