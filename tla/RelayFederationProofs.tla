------------------------ MODULE RelayFederationProofs ------------------------
(***************************************************************************)
(* Proofs about RelayFederation, for every lifetime, backoff, number of    *)
(* retries and of forks: the types, that the backoff follows the latest    *)
(* call, that no mail is left behind, and that what counts as delivered is *)
(* stored.                                                                 *)
(***************************************************************************)
EXTENDS RelayFederation, TLAPS

\* The types, by the groups of variables that the actions leave alone together.
MessageOK ==
    /\ kept \in BOOLEAN /\ delivered \in BOOLEAN /\ givenUp \in BOOLEAN
    /\ delivered \/ givenUp => kept
    /\ retries \in Absent .. MaxForwardRetries - 1

Call == [stage : Stages, age : Ages]

CallsOK == sends \in [Forks -> Call] /\ sweep \in Call

BackoffOK == failures \in FailureRow /\ latest \in FailureRow

RoutingOK == row \in Gone .. OnlineGossipTtl /\ staging \in 0 .. MaxStaging

HomeOK ==
    /\ local \in Gone .. SessionExpiry
    /\ stored \in BOOLEAN
    /\ gossip \in [Events -> 0 .. MaxGossip]

\* Nobody learns of a success before the home has stored the message.
OkIsStored ==
    stored \/ (sweep.stage # "ok" /\ \A i \in Forks : sends[i].stage \notin {"ok", "cleared"})

\* The linear part of the assumptions.
LEMMA Numbers ==
    /\ SessionExpiry \in Nat /\ OnlineGossipTtl \in Nat /\ MaxForwardRetries \in Nat \ {0}
    /\ MaxDelay \in Nat /\ ForwardFailureMaxAge \in Nat /\ MaxFailures \in Nat \ {0}
    /\ MaxDelay < OnlineGossipTtl /\ MaxDelay < ForwardFailureMaxAge
    /\ MaxGossip \in Nat /\ MaxStaging \in Nat
BY FederationAssumption

-----------------------------------------------------------------------------
(* The failures *)

\* recordFailure and clearFailure make a row of the table.
LEMMA RowType ==
    ASSUME NEW f \in FailureRow, NEW age \in Ages
    PROVE  /\ Recorded(f, age) \in FailureRow
           /\ Cleared(f, age) \in FailureRow
           /\ [failures |-> 0, age |-> age] \in FailureRow
           /\ [failures |-> 1, age |-> age] \in FailureRow
<1>1. age \in 0 .. ForwardFailureMaxAge
  BY Numbers DEF Ages
<1>2. \A n \in 0 .. MaxFailures : [failures |-> n, age |-> age] \in FailureRow
  BY <1>1 DEF FailureRow
<1>3. 0 \in 0 .. MaxFailures /\ 1 \in 0 .. MaxFailures
  BY Numbers
<1>4. f # NoFailure => f.failures \in 0 .. MaxFailures
  BY DEF FailureRow
<1>5. f # NoFailure => Lesser(f.failures + 1, MaxFailures) \in 0 .. MaxFailures
  BY <1>4, Numbers DEF Lesser
<1>6. Recorded(f, age) \in FailureRow
  <2>1. CASE f = NoFailure
    BY <1>2, <1>3, <2>1 DEF Recorded
  <2>2. CASE f # NoFailure
    BY <1>2, <1>5, <2>2 DEF Recorded
  <2> QED BY <2>1, <2>2
<1>7. Cleared(f, age) \in FailureRow
  BY <1>2, <1>3 DEF Cleared
<1> QED BY <1>2, <1>3, <1>6, <1>7

\* A row of the table is not NoFailure.
LEMMA RowIsSome ==
    ASSUME NEW n \in Nat, NEW age
    PROVE  [failures |-> n, age |-> age] # NoFailure
<1> SUFFICES ASSUME [failures |-> n, age |-> age] = NoFailure PROVE FALSE
  OBVIOUS
<1>1. [failures |-> n, age |-> age].failures = NoFailure.failures
  OBVIOUS
<1> QED BY <1>1 DEF NoFailure, Absent

\* The outcome of a call, in whatever order, leaves the row and the observer agreeing.
LEMMA OutcomeKeepsBackoff ==
    ASSUME BackoffOK, LatestCallWins, NEW ok \in BOOLEAN, NEW age \in Ages, Outcome(ok, age)
    PROVE  BackoffOK' /\ LatestCallWins'
<1>1. BackoffOK'
  BY RowType DEF BackoffOK, Outcome
<1>2. age \in Nat
  BY Numbers DEF Ages
<1>3. ASSUME failures = NoFailure
      PROVE  LatestCallWins'
  <2>1. latest = NoFailure
    BY <1>3 DEF LatestCallWins
  <2>2. failures' = [failures |-> IF ok THEN 0 ELSE 1, age |-> age]
    BY <1>3 DEF Outcome, Cleared, Recorded
  <2>3. latest' = [failures |-> IF ok THEN 0 ELSE 1, age |-> age]
    BY <2>1 DEF Outcome
  <2> QED BY <2>2, <2>3 DEF LatestCallWins
<1>4. ASSUME failures # NoFailure
      PROVE  LatestCallWins'
  <2>1. /\ latest # NoFailure /\ failures.age = latest.age
        /\ (failures.failures = 0) <=> (latest.failures = 0)
    BY <1>4 DEF LatestCallWins
  <2>2. failures.age \in Nat /\ failures.failures \in 0 .. MaxFailures
    BY <1>4, Numbers DEF BackoffOK, FailureRow
  <2>3. CASE failures.age < age \/ (failures.age = age /\ ~ok /\ failures.failures = 0)
    <3>1. failures' = failures
      BY <1>2, <1>4, <2>2, <2>3 DEF Outcome, Cleared, Recorded
    <3>2. latest' = latest
      BY <1>2, <2>1, <2>2, <2>3 DEF Outcome
    <3> QED BY <3>1, <3>2 DEF LatestCallWins
  <2>4. CASE ok /\ ~(failures.age < age)
    <3>1. failures' = [failures |-> 0, age |-> age]
      BY <2>4 DEF Outcome, Cleared
    <3>2. latest' = [failures |-> 0, age |-> age]
      BY <1>2, <2>1, <2>2, <2>4 DEF Outcome
    <3> QED BY <3>1, <3>2 DEF LatestCallWins
  <2>5. CASE ~ok /\ ~(failures.age < age) /\ ~(failures.age = age /\ failures.failures = 0)
    <3> DEFINE n == Lesser(failures.failures + 1, MaxFailures)
    <3>1. n \in Nat /\ n # 0
      BY <2>2, Numbers DEF Lesser
    <3>2. failures' = [failures |-> n, age |-> age]
      BY <1>4, <2>5 DEF Outcome, Recorded
    <3> HIDE DEF n
    <3>3. failures' # NoFailure /\ failures'.age = age /\ failures'.failures # 0
      BY <3>1, <3>2, RowIsSome
    <3>4. CASE failures.age = age
      <4>1. latest' = latest
        BY <1>2, <2>1, <2>5, <3>4 DEF Outcome
      <4> QED BY <2>1, <2>5, <3>3, <3>4, <4>1 DEF LatestCallWins
    <3>5. CASE failures.age # age
      <4>1. latest' = [failures |-> 1, age |-> age]
        BY <1>2, <2>1, <2>2, <2>5, <3>5 DEF Outcome
      <4>2. latest' # NoFailure /\ latest'.age = age /\ latest'.failures # 0
        BY <4>1, RowIsSome
      <4> QED BY <3>3, <4>2 DEF LatestCallWins
    <3> QED BY <3>4, <3>5
  <2> QED BY <2>3, <2>4, <2>5
<1> QED BY <1>1, <1>3, <1>4

\* Both grow old together, and are forgotten together.
LEMMA TickKeepsBackoff ==
    ASSUME BackoffOK, LatestCallWins, Tick
    PROVE  BackoffOK' /\ LatestCallWins'
<1>1. ASSUME NEW f \in FailureRow, f # NoFailure
      PROVE  /\ Aged(f) \in FailureRow /\ Aged(f) # NoFailure
             /\ Aged(f).failures = f.failures
             /\ Aged(f).age = Lesser(f.age + 1, ForwardFailureMaxAge)
  <2>1. f \in [failures : 0 .. MaxFailures, age : 0 .. ForwardFailureMaxAge]
    BY <1>1 DEF FailureRow
  <2>2. Aged(f) = [f EXCEPT !.age = Lesser(f.age + 1, ForwardFailureMaxAge)]
    BY <1>1 DEF Aged
  <2>3. Lesser(f.age + 1, ForwardFailureMaxAge) \in 0 .. ForwardFailureMaxAge
    BY <2>1, Numbers DEF Lesser
  <2>4. Aged(f) = [failures |-> f.failures, age |-> Lesser(f.age + 1, ForwardFailureMaxAge)]
    BY <2>1, <2>2
  <2>5. f.failures \in Nat
    BY <2>1, Numbers
  <2> QED BY <2>1, <2>3, <2>4, <2>5, RowIsSome DEF FailureRow
<1>2. failures' = Aged(failures) /\ latest' = Aged(latest)
  BY DEF Tick
<1>3. CASE failures = NoFailure
  <2>1. failures' = NoFailure /\ latest' = NoFailure
    BY <1>2, <1>3 DEF Aged, LatestCallWins
  <2> QED BY <2>1 DEF BackoffOK, LatestCallWins, FailureRow
<1>4. CASE failures # NoFailure
  <2>1. latest # NoFailure
    BY <1>4 DEF LatestCallWins
  <2> QED BY <1>1, <1>2, <1>4, <2>1 DEF BackoffOK, LatestCallWins
<1> QED BY <1>3, <1>4

\* pruneExpired forgets both, or neither.
LEMMA PruneKeepsBackoff ==
    ASSUME BackoffOK, LatestCallWins, NEW old \in BOOLEAN, Prune(old)
    PROVE  BackoffOK' /\ LatestCallWins'
<1>1. CASE failures' = NoFailure
  <2>1. latest' = NoFailure
    BY <1>1 DEF Prune
  <2> QED BY <1>1, <2>1 DEF BackoffOK, LatestCallWins, FailureRow
<1>2. CASE failures' # NoFailure
  <2>1. failures' = failures /\ latest' = latest
    BY <1>2 DEF Prune
  <2> QED BY <2>1 DEF BackoffOK, LatestCallWins
<1> QED BY <1>1, <1>2

\* Every step keeps the row and the observer agreeing.
LEMMA BackoffStep ==
    ASSUME CallsOK, BackoffOK, LatestCallWins, [Next]_vars
    PROVE  BackoffOK' /\ LatestCallWins'
<1>1. ASSUME NEW i \in Forks, NEW result \in Results, SendReturns(i, result)
      PROVE  BackoffOK' /\ LatestCallWins'
  <2>1. sends[i].age \in Ages
    BY DEF CallsOK, Call
  <2>2. CASE result = "deferred"
    BY <1>1, <2>2 DEF SendReturns, backoff, BackoffOK, LatestCallWins
  <2>3. CASE result # "deferred"
    <3>1. (result = "ok") \in BOOLEAN /\ Outcome(result = "ok", sends[i].age)
      BY <1>1, <2>3 DEF SendReturns
    <3> QED BY <2>1, <3>1, OutcomeKeepsBackoff
  <2> QED BY <2>2, <2>3
<1>2. ASSUME NEW others \in SUBSET {"ok", "error"}, SweepEnds(others)
      PROVE  BackoffOK' /\ LatestCallWins'
  <2> DEFINE failed == sweep.stage = "failed" \/ "error" \in others
  <2>1. sweep.age \in Ages /\ failed \in BOOLEAN
    BY DEF CallsOK, Call
  <2>2. UNCHANGED backoff \/ Outcome(~failed, sweep.age)
    BY <1>2 DEF SweepEnds
  <2> HIDE DEF failed
  <2>3. CASE UNCHANGED backoff
    BY <2>3 DEF backoff, BackoffOK, LatestCallWins
  <2>4. CASE Outcome(~failed, sweep.age)
    BY <2>1, <2>4, OutcomeKeepsBackoff
  <2> QED BY <2>2, <2>3, <2>4
<1>3. CASE \E ok \in BOOLEAN, age \in Ages : OtherReturns(ok, age)
  BY <1>3, OutcomeKeepsBackoff DEF OtherReturns
<1>4. CASE Tick
  BY <1>4, TickKeepsBackoff
<1>5. CASE \E old \in BOOLEAN : Prune(old)
  BY <1>5, PruneKeepsBackoff
<1>6. CASE UNCHANGED backoff
  BY <1>6 DEF backoff, BackoffOK, LatestCallWins
<1>7. \/ UNCHANGED backoff
      \/ Tick
      \/ \E old \in BOOLEAN : Prune(old)
      \/ \E ok \in BOOLEAN, age \in Ages : OtherReturns(ok, age)
      \/ \E others \in SUBSET {"ok", "error"} : SweepEnds(others)
      \/ \E i \in Forks, result \in Results : SendReturns(i, result)
  BY DEF Next, vars, Send, SendBegins, SendArrives, SendSettles, Stage, OtherMail, SweepBegins,
         SweepArrives, SweepReturns, Poll, Login, Announce, HomePrune, GossipLost,
         OnlineArrives, OfflineArrives
<1> QED BY <1>1, <1>2, <1>3, <1>4, <1>5, <1>6, <1>7

-----------------------------------------------------------------------------
(* The calls *)

\* A call that changes to another stage, and one that is over, is a call.
LEMMA CallStages ==
    /\ Idle \in Call
    /\ [Idle EXCEPT !.stage = "cleared"] \in Call
    /\ \A call \in Call, stage \in Stages : [call EXCEPT !.stage = stage] \in Call
<1>1. 0 \in Ages
  BY Numbers DEF Ages
<1> QED BY <1>1 DEF Call, Idle, Stages

\* What a step makes of one fork is a call.
LEMMA SendType ==
    ASSUME CallsOK, NEW i \in Forks, NEW call \in Call,
           sends' = [sends EXCEPT ![i] = call], sweep' = sweep
    PROVE  CallsOK'
BY DEF CallsOK

\* Time makes a call in use older, and stops before its reading is too old.
LEMMA OlderType ==
    ASSUME NEW call \in Call, call.age < MaxDelay
    PROVE  Older(call) \in Call
<1>1. call.age + 1 \in Ages
  BY Numbers DEF Call, Ages
<1> QED BY <1>1 DEF Older, Call

\* The steps that change a call.
LEMMA CallActions ==
    ASSUME [Next]_vars
    PROVE  \/ UNCHANGED calls
           \/ Tick
           \/ SweepBegins
           \/ \E age \in Ages : SweepArrives(age)
           \/ \E result \in Results : SweepReturns(result)
           \/ \E others \in SUBSET {"ok", "error"} : SweepEnds(others)
           \/ \E i \in Forks : \/ \E age \in Ages, room \in BOOLEAN : Send(i, age, room)
                               \/ SendBegins(i)
                               \/ \E age \in Ages : SendArrives(i, age)
                               \/ \E result \in Results : SendReturns(i, result)
                               \/ SendSettles(i)
BY DEF Next, vars, OtherReturns, OtherMail, Stage, Prune, Poll, Login, Announce, HomePrune,
       GossipLost, OnlineArrives, OfflineArrives

\* Every step keeps the calls calls.
LEMMA CallsStep ==
    ASSUME CallsOK, [Next]_vars
    PROVE  CallsOK'
<1>0. sweep \in Call /\ \A i \in Forks : sends[i] \in Call
  BY DEF CallsOK
<1>1. ASSUME NEW i \in Forks,
             NEW stage \in Stages, sends' = [sends EXCEPT ![i].stage = stage], sweep' = sweep
      PROVE  CallsOK'
  <2>1. [sends[i] EXCEPT !.stage = stage] \in Call
    BY <1>0, CallStages
  <2>2. sends' = [sends EXCEPT ![i] = [sends[i] EXCEPT !.stage = stage]]
    BY <1>1
  <2> QED BY <1>1, <2>1, <2>2, SendType
<1>2. ASSUME NEW stage \in Stages, sweep' = [sweep EXCEPT !.stage = stage], sends' = sends
      PROVE  CallsOK'
  <2>1. [sweep EXCEPT !.stage = stage] \in Call
    BY <1>0, CallStages
  <2> QED BY <1>2, <2>1 DEF CallsOK
<1>3. CASE UNCHANGED calls
  BY <1>3 DEF calls, CallsOK
<1>4. ASSUME NEW i \in Forks, NEW age \in Ages, NEW room \in BOOLEAN, Send(i, age, room)
      PROVE  CallsOK'
  <2>1. sweep' = sweep /\ (sends' = sends \/ sends' = [sends EXCEPT ![i].stage = "new"])
    BY <1>4 DEF Send
  <2>2. "new" \in Stages
    BY DEF Stages
  <2> QED BY <1>1, <2>1, <2>2 DEF CallsOK
<1>5. ASSUME NEW i \in Forks, SendBegins(i)
      PROVE  CallsOK'
  BY <1>1, <1>5 DEF SendBegins, Stages
<1>6. ASSUME NEW i \in Forks, NEW age \in Ages, SendArrives(i, age)
      PROVE  CallsOK'
  <2>1. Answer(age) \in Stages
    BY DEF Answer, Stages
  <2> QED BY <1>1, <1>6, <2>1 DEF SendArrives
<1>7. ASSUME NEW i \in Forks, NEW result \in Results, SendReturns(i, result)
      PROVE  CallsOK'
  BY <1>7, CallStages, SendType DEF SendReturns
<1>8. ASSUME NEW i \in Forks, SendSettles(i)
      PROVE  CallsOK'
  BY <1>8, CallStages, SendType DEF SendSettles
<1>9. CASE SweepBegins
  BY <1>2, <1>9 DEF SweepBegins, Stages
<1>10. ASSUME NEW age \in Ages, SweepArrives(age)
       PROVE  CallsOK'
  <2>1. Answer(age) \in Stages
    BY DEF Answer, Stages
  <2> QED BY <1>2, <1>10, <2>1 DEF SweepArrives
<1>11. ASSUME NEW result \in Results, SweepReturns(result)
       PROVE  CallsOK'
  <2> DEFINE stage == CASE result = "ok"       -> "succeeded"
                        [] result = "error"    -> "failed"
                        [] result = "deferred" -> "neither"
  <2>1. stage \in Stages
    BY DEF Results, Stages
  <2>2. sweep' = [sweep EXCEPT !.stage = stage] /\ sends' = sends
    BY <1>11 DEF SweepReturns
  <2> HIDE DEF stage
  <2> QED BY <1>2, <2>1, <2>2
<1>12. ASSUME NEW others \in SUBSET {"ok", "error"}, SweepEnds(others)
       PROVE  CallsOK'
  BY <1>12, CallStages DEF SweepEnds, CallsOK
<1>13. CASE Tick
  <2>1. \A i \in Forks : Older(sends[i]) \in Call
    BY <1>0, <1>13, OlderType DEF Tick
  <2>2. Older(sweep) \in Call
    BY <1>0, <1>13, OlderType DEF Tick
  <2> QED BY <1>13, <2>1, <2>2 DEF Tick, CallsOK
<1> QED BY <1>3, <1>4, <1>5, <1>6, <1>7, <1>8, <1>9, <1>10, <1>11, <1>12, <1>13, CallActions

-----------------------------------------------------------------------------
(* The rows of the two relays *)

\* Every step keeps the types of what the home keeps and gossips.
LEMMA HomeStep ==
    ASSUME HomeOK, [Next]_vars
    PROVE  HomeOK'
<1>0. ASSUME NEW e \in Events, Gossips(e)
      PROVE  gossip' \in [Events -> 0 .. MaxGossip]
  <2>1. gossip[e] + 1 \in 0 .. MaxGossip
    BY <1>0, Numbers DEF Gossips, HomeOK
  <2> QED BY <1>0, <2>1 DEF Gossips, HomeOK
<1>1. CASE UNCHANGED home
  BY <1>1 DEF home, HomeOK
<1>2. ASSUME NEW age \in Ages, Announce(age)
      PROVE  HomeOK'
  <2>1. SessionExpiry - age \in Gone .. SessionExpiry
    BY Numbers DEF Ages, Gone
  <2>2. gossip' \in [Events -> 0 .. MaxGossip]
    BY <1>0, <1>2 DEF Announce, Events
  <2> QED BY <1>2, <2>1, <2>2 DEF Announce, HomeOK
<1>3. CASE HomePrune
  <2>1. Gone \in Gone .. SessionExpiry
    BY Numbers DEF Gone
  <2>2. gossip' \in [Events -> 0 .. MaxGossip]
    BY <1>0, <1>3 DEF HomePrune, Events
  <2> QED BY <1>3, <2>1, <2>2 DEF HomePrune, HomeOK
<1>4. ASSUME NEW e \in Events, UNCHANGED <<local, stored>>,
             gossip[e] > 0, gossip' = [gossip EXCEPT ![e] = @ - 1]
      PROVE  HomeOK'
  <2>1. gossip[e] - 1 \in 0 .. MaxGossip
    BY <1>4, Numbers DEF HomeOK
  <2> QED BY <1>4, <2>1 DEF HomeOK
<1>5. ASSUME NEW call, NEW age \in Ages, Arrives(call, age), UNCHANGED <<local, gossip>>
      PROVE  HomeOK'
  BY <1>5 DEF Arrives, HomeOK
<1>6. CASE Tick
  <2>1. Left(local) \in Gone .. SessionExpiry
    BY Numbers DEF Left, HomeOK, Gone
  <2> QED BY <1>6, <2>1 DEF Tick, HomeOK
<1>7. \/ UNCHANGED home
      \/ Tick
      \/ HomePrune
      \/ \E age \in Ages : Announce(age)
      \/ \E e \in Events : /\ UNCHANGED <<local, stored>>
                           /\ gossip[e] > 0 /\ gossip' = [gossip EXCEPT ![e] = @ - 1]
      \/ \E age \in Ages : \/ Arrives(sweep, age) /\ UNCHANGED <<local, gossip>>
                           \/ \E i \in Forks : Arrives(sends[i], age) /\ UNCHANGED <<local, gossip>>
  BY DEF Next, vars, Send, SendBegins, SendArrives, SendReturns, SendSettles, Stage, Prune,
         OtherReturns, OtherMail, SweepBegins, SweepArrives, SweepReturns, SweepEnds, Poll, Login,
         GossipLost, OnlineArrives, OfflineArrives, Events
<1> QED BY <1>1, <1>2, <1>3, <1>4, <1>5, <1>6, <1>7

\* Every step keeps the types of what the origin knows of the key.
LEMMA RoutingStep ==
    ASSUME RoutingOK, [Next]_vars
    PROVE  RoutingOK'
<1>0. /\ Gone \in Gone .. OnlineGossipTtl
      /\ Left(row) \in Gone .. OnlineGossipTtl
      /\ \A age \in Ages : OnlineGossipTtl - age \in Gone .. OnlineGossipTtl
  BY Numbers DEF Gone, Left, RoutingOK, Ages
<1>1. CASE UNCHANGED routing
  BY <1>1 DEF routing, RoutingOK
<1>2. CASE \E room \in BOOLEAN : Stage(room)
  BY <1>2, Numbers DEF Stage, RoutingOK
<1>3. CASE \E old \in BOOLEAN : Prune(old)
  BY <1>0, <1>3 DEF Prune, RoutingOK
<1>4. CASE \E age \in Ages : OnlineArrives(age)
  BY <1>0, <1>4, Numbers DEF OnlineArrives, RoutingOK
<1>5. CASE OfflineArrives
  BY <1>0, <1>5 DEF OfflineArrives, RoutingOK
<1>6. CASE Tick
  BY <1>0, <1>6 DEF Tick, RoutingOK
<1>7. \/ UNCHANGED routing
      \/ \E room \in BOOLEAN : Stage(room)
      \/ \E old \in BOOLEAN : Prune(old)
      \/ \E age \in Ages : OnlineArrives(age)
      \/ OfflineArrives
      \/ Tick
  BY DEF Next, vars, Send, SendBegins, SendArrives, SendReturns, SendSettles, OtherReturns,
         OtherMail, SweepBegins, SweepArrives, SweepReturns, SweepEnds, Poll, Login, Announce,
         HomePrune, GossipLost
<1> QED BY <1>1, <1>2, <1>3, <1>4, <1>5, <1>6, <1>7

-----------------------------------------------------------------------------
(* The message *)

\* What the properties need of the state before a step.
MailInv ==
    /\ MessageOK /\ CallsOK /\ RoutingOK /\ HomeOK
    /\ OkIsStored /\ DeliveredIsStored /\ NoMailLeftBehind

\* A caller sees a success only of a call that the home answered with one.
LEMMA SeenOk ==
    ASSUME NEW call, Seen(call, "ok")
    PROVE  call.stage = "ok"
BY DEF Seen

\* What a step does to the message and to the key's row at the origin keeps all that is
\* said of them.
MailKept == MessageOK' /\ DeliveredIsStored' /\ NoMailLeftBehind'

\* A queued forward has a number of attempts, and no attempts is none.
LEMMA Attempts ==
    /\ Absent \in Absent .. MaxForwardRetries - 1
    /\ 0 \in Absent .. MaxForwardRetries - 1
    /\ 0 # Absent
BY Numbers DEF Absent

\* What the home has stored stays stored.
LEMMA StoredStays ==
    ASSUME HomeOK, [Next]_vars, stored
    PROVE  stored'
BY DEF Next, vars, home, Send, SendBegins, SendArrives, SendReturns, SendSettles, Stage, Prune,
       OtherReturns, OtherMail, SweepBegins, SweepArrives, SweepReturns, SweepEnds, Poll, Login,
       Announce,
       HomePrune, GossipLost, OnlineArrives, OfflineArrives, Tick, Arrives

\* A success that anybody knows of was stored first.
LEMMA OkStep ==
    ASSUME CallsOK, HomeOK, OkIsStored, [Next]_vars
    PROVE  OkIsStored'
<1>1. CASE stored
  BY <1>1, StoredStays DEF OkIsStored
<1>2. ASSUME ~stored, ~stored'
      PROVE  OkIsStored'
  <2>0. sweep.stage # "ok" /\ \A i \in Forks : sends[i].stage \notin {"ok", "cleared"}
    BY <1>2 DEF OkIsStored
  <2>1. ASSUME NEW i \in Forks, NEW stage,
               sends' = [sends EXCEPT ![i].stage = stage], sweep' = sweep,
               stage \notin {"ok", "cleared"}
        PROVE  OkIsStored'
    BY <2>0, <2>1 DEF OkIsStored, CallsOK, Call
  <2>2. ASSUME NEW i \in Forks, sends' = [sends EXCEPT ![i] = Idle], sweep' = sweep
        PROVE  OkIsStored'
    BY <2>0, <2>2 DEF OkIsStored, CallsOK, Call, Idle
  <2>3. ASSUME NEW stage,
               sweep' = [sweep EXCEPT !.stage = stage], sends' = sends, stage # "ok"
        PROVE  OkIsStored'
    BY <2>0, <2>3 DEF OkIsStored, CallsOK, Call
  <2>4. CASE UNCHANGED calls
    BY <2>0, <2>4 DEF calls, OkIsStored
  <2>5. ASSUME NEW i \in Forks, NEW age \in Ages, NEW room \in BOOLEAN, Send(i, age, room)
        PROVE  OkIsStored'
    <3>1. sweep' = sweep /\ (sends' = sends \/ sends' = [sends EXCEPT ![i].stage = "new"])
      BY <2>5 DEF Send
    <3> QED BY <2>1, <2>4, <3>1 DEF calls
  <2>6. ASSUME NEW i \in Forks, SendBegins(i)
        PROVE  OkIsStored'
    <3>1. sends' = [sends EXCEPT ![i].stage = "out"] /\ sweep' = sweep
      BY <2>6 DEF SendBegins
    <3>2. "out" \notin {"ok", "cleared"}
      OBVIOUS
    <3> QED BY <2>1, <3>1, <3>2
  <2>7. ASSUME NEW i \in Forks, NEW age \in Ages, SendArrives(i, age)
        PROVE  OkIsStored'
    <3>1. Answer(age) \notin {"ok", "cleared"}
      BY <1>2, <2>7 DEF SendArrives, Arrives, Answer
    <3>2. sends' = [sends EXCEPT ![i].stage = Answer(age)] /\ sweep' = sweep
      BY <2>7 DEF SendArrives
    <3> QED BY <2>1, <3>1, <3>2
  <2>8. ASSUME NEW i \in Forks, NEW result \in Results, SendReturns(i, result)
        PROVE  OkIsStored'
    <3>1. result # "ok"
      BY <2>0, <2>8, SeenOk DEF SendReturns
    <3> QED BY <2>2, <2>8, <3>1 DEF SendReturns
  <2>9. ASSUME NEW i \in Forks, SendSettles(i)
        PROVE  OkIsStored'
    BY <2>2, <2>9 DEF SendSettles
  <2>10. CASE SweepBegins
    BY <2>3, <2>10 DEF SweepBegins
  <2>11. ASSUME NEW age \in Ages, SweepArrives(age)
         PROVE  OkIsStored'
    BY <1>2, <2>3, <2>11 DEF SweepArrives, Arrives, Answer
  <2>12. ASSUME NEW result \in Results, SweepReturns(result)
         PROVE  OkIsStored'
    <3> DEFINE stage == CASE result = "ok"       -> "succeeded"
                          [] result = "error"    -> "failed"
                          [] result = "deferred" -> "neither"
    <3>1. stage # "ok"
      BY DEF Results
    <3>2. sweep' = [sweep EXCEPT !.stage = stage] /\ sends' = sends
      BY <2>12 DEF SweepReturns
    <3> HIDE DEF stage
    <3> QED BY <2>3, <3>1, <3>2
  <2>13. ASSUME NEW others \in SUBSET {"ok", "error"}, SweepEnds(others)
         PROVE  OkIsStored'
    BY <2>0, <2>13 DEF SweepEnds, OkIsStored, Idle
  <2>14. CASE Tick
    <3>1. \A call \in Call : Older(call).stage = call.stage
      BY DEF Older, Call
    <3> QED BY <2>0, <2>14, <3>1 DEF Tick, OkIsStored, CallsOK
  <2> QED BY <2>4, <2>5, <2>6, <2>7, <2>8, <2>9, <2>10, <2>11, <2>12, <2>13, <2>14, CallActions
<1>3. stored \in BOOLEAN /\ stored' \in BOOLEAN
  BY HomeStep DEF HomeOK
<1> QED BY <1>1, <1>2, <1>3 DEF OkIsStored

\* A forward that the home accepted.
LEMMA AcceptedKeeps ==
    ASSUME MailInv, Accepted, stored, UNCHANGED <<routing, home>>
    PROVE  MailKept
<1>1. MessageOK'
  BY Attempts DEF MailInv, MessageOK, Accepted, Queued
<1>2. DeliveredIsStored'
  BY DEF DeliveredIsStored, Accepted, Queued, home
<1>3. NoMailLeftBehind'
  BY DEF NoMailLeftBehind, Accepted
<1> QED BY <1>1, <1>2, <1>3 DEF MailKept

\* handleSendMessages: who is online for the present is so for an older reading.
LEMMA SendKeeps ==
    ASSUME MailInv, NEW i \in Forks, NEW age \in Ages, NEW room \in BOOLEAN, Send(i, age, room)
    PROVE  MailKept
<1>1. MessageOK'
  BY Attempts DEF MailInv, MessageOK, Send, Queued
<1>2. DeliveredIsStored'
  BY DEF MailInv, DeliveredIsStored, Send, Queued, home
<1>3. Live(row, 0) => Live(row, age)
  BY Numbers DEF Live, Ages, MailInv, RoutingOK, Gone
<1>4. NoMailLeftBehind'
  <2>1. CASE Live(row, 0)
    BY <1>3, <2>1, Attempts DEF MailInv, MessageOK, NoMailLeftBehind, Send, Queued
  <2>2. CASE ~Live(row, 0)
    BY <2>2 DEF NoMailLeftBehind, Send, routing, Live
  <2> QED BY <2>1, <2>2
<1> QED BY <1>1, <1>2, <1>4 DEF MailKept

\* forwardQueuedToAll
LEMMA StageKeeps ==
    ASSUME MailInv, NEW room \in BOOLEAN, Stage(room)
    PROVE  MailKept
<1>1. MessageOK'
  BY Attempts DEF MailInv, MessageOK, Stage, Candidate, Queued
<1>2. DeliveredIsStored'
  BY DEF MailInv, DeliveredIsStored, Stage, Candidate, Queued, home
<1>3. NoMailLeftBehind'
  BY Attempts DEF MailInv, MessageOK, NoMailLeftBehind, Stage, Candidate, Queued
<1> QED BY <1>1, <1>2, <1>3 DEF MailKept

\* appendMessage and capForwards, for other mail: with the message goes its deliveredTo, and
\* a forward that is displaced is given up.
LEMMA OtherMailKeeps ==
    ASSUME MailInv, NEW evicts \in BOOLEAN, NEW displaces \in BOOLEAN,
           OtherMail(evicts, displaces)
    PROVE  MailKept
<1>1. MessageOK'
  BY Attempts DEF MailInv, MessageOK, OtherMail, Queued
<1>2. DeliveredIsStored'
  BY DEF MailInv, DeliveredIsStored, OtherMail, Queued, home
<1>3. NoMailLeftBehind'
  BY DEF MailInv, MessageOK, NoMailLeftBehind, OtherMail, Queued, routing, Live
<1> QED BY <1>1, <1>2, <1>3 DEF MailKept

\* pruneExpired
LEMMA PruneKeeps ==
    ASSUME MailInv, NEW old \in BOOLEAN, Prune(old)
    PROVE  MailKept
<1>1. MessageOK'
  BY Numbers DEF MailInv, MessageOK, Prune, Queued, Absent
<1>2. DeliveredIsStored'
  BY DEF MailInv, DeliveredIsStored, Prune, Queued, home
<1>3. Live(row', 0) => Live(row, 0)
  BY Numbers DEF Prune, Live, Gone
<1>4. NoMailLeftBehind'
  BY <1>3 DEF MailInv, NoMailLeftBehind, Prune, Queued, MessageOK, Live
<1> QED BY <1>1, <1>2, <1>4 DEF MailKept

\* retryForwardsTo
LEMMA SweepReturnsKeeps ==
    ASSUME MailInv, NEW result \in Results, SweepReturns(result)
    PROVE  MailKept
<1>1. CASE result = "ok" /\ Accepted
  <2>1. sweep.stage = "ok"
    BY <1>1, SeenOk DEF SweepReturns
  <2>2. stored
    BY <2>1 DEF MailInv, OkIsStored
  <2> QED BY <1>1, <2>2, AcceptedKeeps DEF SweepReturns
<1>2. CASE UNCHANGED message
  BY <1>2 DEF SweepReturns, MailKept, MailInv, MessageOK, DeliveredIsStored,
              NoMailLeftBehind, Queued, message, routing, home
<1>3. CASE /\ Queued
           /\ retries' = IF Exhausted THEN Absent ELSE retries + 1
           /\ givenUp' = (givenUp \/ (Exhausted /\ kept))
           /\ UNCHANGED <<kept, delivered>>
  <2>1. ~delivered /\ kept \in BOOLEAN
    BY <1>3 DEF MailInv, DeliveredIsStored, MessageOK
  <2>2. retries' \in Absent .. MaxForwardRetries - 1
    BY <1>3, Numbers DEF MailInv, MessageOK, Queued, Absent, Exhausted
  <2>3. MessageOK'
    BY <1>3, <2>1, <2>2 DEF MailInv, MessageOK, Exhausted
  <2>4. DeliveredIsStored'
    BY <1>3, <2>1 DEF DeliveredIsStored
  <2>5. Exhausted \in BOOLEAN /\ (~Exhausted => retries' # Absent)
    BY <1>3, Numbers DEF MailInv, MessageOK, Exhausted, Absent
  <2>6. NoMailLeftBehind'
    BY <1>3, <2>1, <2>5 DEF NoMailLeftBehind, Queued
  <2> QED BY <2>3, <2>4, <2>6 DEF MailKept
<1> QED BY <1>1, <1>2, <1>3 DEF SweepReturns

\* handleRecvGossip: the key comes online.
LEMMA OnlineKeeps ==
    ASSUME MailInv, NEW age \in Ages, OnlineArrives(age)
    PROVE  MailKept
<1>1. MessageOK'
  BY DEF MailInv, MessageOK, OnlineArrives, Queued, Candidate, Live
<1>2. DeliveredIsStored'
  BY DEF MailInv, DeliveredIsStored, OnlineArrives, Queued
<1>3. CASE NewlyOnline(age)
  <2>1. staging' > 0
    BY <1>3, Numbers DEF OnlineArrives, MailInv, RoutingOK
  <2> QED BY <1>1, <1>2, <2>1 DEF MailKept, NoMailLeftBehind
<1>4. CASE ~NewlyOnline(age)
  <2>1. NoMailLeftBehind'
    BY <1>4 DEF MailInv, NoMailLeftBehind, OnlineArrives, NewlyOnline, Candidate, Queued
  <2> QED BY <1>1, <1>2, <2>1 DEF MailKept
<1> QED BY <1>3, <1>4

\* handleRecvGossip: the key goes offline, and nothing is owed any more.
LEMMA OfflineKeeps ==
    ASSUME MailInv, OfflineArrives
    PROVE  MailKept
<1>1. MessageOK'
  BY Numbers DEF MailInv, MessageOK, OfflineArrives, Queued, Absent
<1>2. DeliveredIsStored'
  BY DEF MailInv, DeliveredIsStored, OfflineArrives, Queued
<1>3. ~Live(row', 0)
  BY Numbers DEF OfflineArrives, Live, Gone
<1> QED BY <1>1, <1>2, <1>3 DEF MailKept, NoMailLeftBehind, Live

\* Time
LEMMA TickKeeps ==
    ASSUME MailInv, Tick
    PROVE  MailKept
<1>1. Live(row', 0) => Live(row, 0)
  BY Numbers DEF Tick, Left, Live, Gone, MailInv, RoutingOK
<1> QED BY <1>1 DEF Tick, message, MailKept, MailInv, MessageOK, DeliveredIsStored,
                    NoMailLeftBehind, Queued, Live

\* Every step.
LEMMA MailStep ==
    ASSUME MailInv, [Next]_vars
    PROVE  MailKept
<1>1. CASE UNCHANGED <<message, routing>>
  BY <1>1, StoredStays DEF message, routing, MailKept, MailInv, MessageOK, DeliveredIsStored,
                           NoMailLeftBehind, Queued, Live
<1>2. ASSUME NEW i \in Forks, SendSettles(i)
      PROVE  MailKept
  <2>1. stored
    BY <1>2 DEF MailInv, OkIsStored, SendSettles
  <2> QED BY <1>2, <2>1, AcceptedKeeps DEF SendSettles
<1>3. \/ UNCHANGED <<message, routing>>
      \/ \E i \in Forks : \/ \E age \in Ages, room \in BOOLEAN : Send(i, age, room)
                          \/ SendSettles(i)
      \/ \E room \in BOOLEAN : Stage(room)
      \/ \E evicts, displaces \in BOOLEAN : OtherMail(evicts, displaces)
      \/ \E old \in BOOLEAN : Prune(old)
      \/ \E result \in Results : SweepReturns(result)
      \/ \E age \in Ages : OnlineArrives(age)
      \/ OfflineArrives
      \/ Tick
  BY DEF Next, vars, SendBegins, SendArrives, SendReturns, OtherReturns, SweepBegins,
         SweepArrives, SweepEnds, Poll, Login, Announce, HomePrune, GossipLost
<1> QED BY <1>1, <1>2, <1>3, SendKeeps, StageKeeps, OtherMailKeeps, PruneKeeps,
           SweepReturnsKeeps, OnlineKeeps, OfflineKeeps, TickKeeps

-----------------------------------------------------------------------------
(* The theorems *)

\* The inductive invariant: the types, and with DeliveredIsStored that a success on its
\* way was stored.
FederationInv == MailInv /\ BackoffOK /\ LatestCallWins

\* The invariant holds at the start.
LEMMA FederationInit == Init => FederationInv
<1> SUFFICES ASSUME Init PROVE FederationInv
  OBVIOUS
<1>1. MessageOK /\ DeliveredIsStored /\ NoMailLeftBehind
  BY Attempts DEF Init, MessageOK, DeliveredIsStored, NoMailLeftBehind, Queued
<1>2. CallsOK
  BY CallStages DEF Init, CallsOK
<1>3. RoutingOK /\ HomeOK
  <2>1. Gone \in Gone .. OnlineGossipTtl /\ Gone \in Gone .. SessionExpiry
    BY Numbers DEF Gone
  <2>2. 0 \in 0 .. MaxStaging /\ 0 \in 0 .. MaxGossip
    BY Numbers
  <2> QED BY <2>1, <2>2 DEF Init, RoutingOK, HomeOK
<1>4. OkIsStored
  BY DEF Init, OkIsStored, Idle
<1>5. BackoffOK /\ LatestCallWins
  BY DEF Init, BackoffOK, LatestCallWins, FailureRow
<1> QED BY <1>1, <1>2, <1>3, <1>4, <1>5 DEF FederationInv, MailInv

\* Every step keeps it.
LEMMA FederationStep == FederationInv /\ [Next]_vars => FederationInv'
BY MailStep, OkStep, CallsStep, BackoffStep, RoutingStep, HomeStep
   DEF FederationInv, MailInv, MailKept

\* The inductive invariant holds in every behaviour.
THEOREM FederationInvariant == Spec => []FederationInv
BY FederationInit, FederationStep, PTL DEF Spec

\* Every variable has its type, a queued forward has attempts left (retryForwardsTo), and
\* only a message that is kept is marked as delivered (appendMessage, markDelivered).
THEOREM FederationTyped == Spec => []TypeOK
<1>1. FederationInv => TypeOK
  BY DEF FederationInv, MailInv, TypeOK, MessageOK, CallsOK, Call, BackoffOK, RoutingOK, HomeOK
<1> QED BY <1>1, FederationInvariant, PTL

\* recordFailure and clearFailure leave the outcome of the call with the latest clock
\* reading, in whatever order the calls return.
THEOREM BackoffFollowsLatestCall == Spec => []LatestCallWins
<1>1. FederationInv => LatestCallWins
  BY DEF FederationInv
<1> QED BY <1>1, FederationInvariant, PTL

\* While the key is online at its home, a message that the home has not accepted is queued
\* for it, about to be, or was given up (handleRecvGossip, handleSendMessages).
THEOREM MailIsForwarded == Spec => []NoMailLeftBehind
<1>1. FederationInv => NoMailLeftBehind
  BY DEF FederationInv, MailInv
<1> QED BY <1>1, FederationInvariant, PTL

\* A message marked as delivered to the home was stored there, and is not queued again
\* (markDelivered, forwardQueuedToAll).
THEOREM DeliveredWasStored == Spec => []DeliveredIsStored
<1>1. FederationInv => DeliveredIsStored
  BY DEF FederationInv, MailInv
<1> QED BY <1>1, FederationInvariant, PTL
=============================================================================
