-------------------------- MODULE MonitoringProofs --------------------------
(***************************************************************************)
(* Theorems about Monitoring for any number of requests, transitions,      *)
(* restarts and any length of time: nothing is told twice, and the newest  *)
(* transition has the last word.                                           *)
(***************************************************************************)
EXTENDS Monitoring, FiniteSetTheorems, WellFoundedInduction, TLAPS

\* What a request carries, stage by stage.
RequestType ==
  {Idle}
    \cup [at : {"touched", "apply"}, events : SUBSET Event, quiet : BOOLEAN]
    \cup [at : {"back"}, events : SUBSET Event, quiet : BOOLEAN, since : 1..MaxTime]
    \cup [at : {"notify"}, events : SUBSET Event, pending : SUBSET Event]
    \cup [at : {"answer"}, events : SUBSET Event]

TargetType == [state : {"", "UNKNOWN", "UP", "DOWN"}, since : 0..MaxEvents]

MonTypes ==
  /\ up \in BOOLEAN /\ emitted \in 0..MaxEvents /\ acked \subseteq Event
  /\ now \in 1..(MaxTime + 1)
  /\ req \in [Request -> RequestType]
  /\ feed \subseteq Event /\ target \in TargetType
  /\ contact \in 0..now /\ contactSaved \in 0..now
  /\ stale \in 0..MaxTime /\ staleSaved \in 0..MaxTime
  /\ ended \in [1..MaxTime -> Nat]
  /\ job \in {Idle} \cup [at : {"declare", "tell"}, last : 1..MaxTime]
  /\ told \in [News -> Nat]
  /\ restarts \in Nat

-----------------------------------------------------------------------------
(* Types. *)

LEMMA EventNat == Event \subseteq Nat \ {0} /\ MaxEvents \in Nat /\ MaxTime \in Nat
BY BoundsAssumption DEF Event

\* Stages a request leaves, with what it carries there.
LEMMA Carried ==
  ASSUME NEW q \in RequestType
  PROVE  /\ q.at \in {"touched", "apply"} =>
              q \in [at : {"touched", "apply"}, events : SUBSET Event, quiet : BOOLEAN]
         /\ q.at = "back" =>
              q \in [at : {"back"}, events : SUBSET Event, quiet : BOOLEAN, since : 1..MaxTime]
         /\ q.at = "notify" =>
              q \in [at : {"notify"}, events : SUBSET Event, pending : SUBSET Event]
         /\ q.at = "answer" => q \in [at : {"answer"}, events : SUBSET Event]
         /\ q.at = "idle" => q = Idle
         /\ q = Idle => q.at = "idle"
BY DEF RequestType, Idle

LEMMA Telling ==
  ASSUME told \in [News -> Nat], NEW items, Tell(items)
  PROVE  /\ told' \in [News -> Nat]
         /\ \A n \in News : told'[n] = told[n] + (IF n \in items THEN 1 ELSE 0)
BY DEF Tell

\* One request moves.
LEMMA Moving ==
  ASSUME req \in [Request -> RequestType], NEW r \in Request, NEW q \in RequestType,
         req' = [req EXCEPT ![r] = q]
  PROVE  /\ req' \in [Request -> RequestType] /\ req'[r] = q
         /\ \A p \in Request \ {r} : req'[p] = req[p]
OBVIOUS

-----------------------------------------------------------------------------
(* The loop over fresh transitions.  Applied is a recursive function: that   *)
(* there is one is shown by a closed form, and what it computes by the least *)
(* transition at which it would go wrong.                                    *)

LEMMA Least ==
  ASSUME NEW B \in SUBSET Nat, B # {}
  PROVE  \E k \in B : \A j \in B : k <= j
<1>1. PICK k \in B : \A j \in B : ~(<<j, k>> \in OpToRel(<, Nat))
  BY NatLessThanWellFounded, WFMin
<1>2. \A j \in B : ~(j < k)
  BY <1>1 DEF OpToRel
<1>3. QED
  BY <1>2

LEMMA Greatest ==
  ASSUME NEW S \in SUBSET Event, S # {}
  PROVE  \E m \in S : \A e \in S : e <= m
<1> DEFINE B == {MaxEvents - e : e \in S}
<1>0. \A e \in S : e \in 1..MaxEvents
  BY DEF Event
<1>1. B \in SUBSET Nat /\ B # {}
  <2>1. \A e \in S : MaxEvents - e \in Nat
    BY <1>0, EventNat
  <2>2. QED
    BY <2>1
<1>2. PICK k \in B : \A j \in B : k <= j
  <2> HIDE DEF B
  <2>1. QED
    BY <1>1, Least
<1>3. PICK m \in S : k = MaxEvents - m
  BY <1>2
<1>4. \A e \in S : MaxEvents - m <= MaxEvents - e
  BY <1>2, <1>3
<1>5. QED
  BY <1>4, EventNat

Upto(fresh, n) == {e \in fresh : e <= n}
Last(fresh, n) == CHOOSE m \in Upto(fresh, n) : \A e \in Upto(fresh, n) : e <= m

\* The newest transition so far, applied to the row alone.
AtOnce(row, fresh) ==
  [n \in 0..MaxEvents |-> IF Upto(fresh, n) = {} THEN row ELSE ApplyTarget(row, Last(fresh, n))]

LoopStep(row, fresh, f, n) ==
  IF n = 0 THEN row ELSE IF n \in fresh THEN ApplyTarget(f[n - 1], n) ELSE f[n - 1]

LEMMA AtOnceLoops ==
  ASSUME NEW row \in TargetType, NEW fresh \in SUBSET Event
  PROVE  AtOnce(row, fresh) = [n \in 0..MaxEvents |-> LoopStep(row, fresh, AtOnce(row, fresh), n)]
<1> DEFINE f == AtOnce(row, fresh)
<1>1. \A e \in fresh : e \in Nat /\ e >= 1 /\ e <= MaxEvents
  BY EventNat DEF Event
<1>2. ASSUME NEW n \in 0..MaxEvents
      PROVE  f[n] = LoopStep(row, fresh, f, n)
  <2>1. n \in Nat /\ f[n] = IF Upto(fresh, n) = {} THEN row ELSE ApplyTarget(row, Last(fresh, n))
    BY EventNat DEF AtOnce
  <2>2. CASE n = 0
    BY <1>1, <2>1, <2>2 DEF LoopStep, Upto
  <2>3. CASE n # 0 /\ n \notin fresh
    <3>1. n - 1 \in 0..MaxEvents
      BY <2>1, <2>3, EventNat
    <3>2. Upto(fresh, n - 1) = Upto(fresh, n)
      BY <1>1, <2>1, <2>3 DEF Upto
    <3>3. f[n - 1] = IF Upto(fresh, n) = {} THEN row ELSE ApplyTarget(row, Last(fresh, n))
      <4>1. f[n - 1] = IF Upto(fresh, n - 1) = {} THEN row
                       ELSE ApplyTarget(row, Last(fresh, n - 1))
        BY <3>1 DEF AtOnce
      <4>2. Last(fresh, n - 1) = Last(fresh, n)
        BY <3>2 DEF Last
      <4> HIDE DEF f
      <4>3. QED
        BY <3>2, <4>1, <4>2
    <3> HIDE DEF f
    <3>4. QED
      BY <2>1, <2>3, <3>3 DEF LoopStep
  <2>4. CASE n # 0 /\ n \in fresh
    <3>1. n - 1 \in 0..MaxEvents
      BY <2>1, <2>4, EventNat
    <3>2. n \in Upto(fresh, n) /\ \A e \in Upto(fresh, n) : e <= n /\ e \in Nat
      BY <1>1, <2>1, <2>4 DEF Upto
    <3>3. Last(fresh, n) \in Upto(fresh, n) /\ n <= Last(fresh, n)
      BY <3>2 DEF Last
    <3>4. f[n] = ApplyTarget(row, n)
      <4>1. Last(fresh, n) = n
        BY <2>1, <3>2, <3>3
      <4>2. QED
        BY <2>1, <3>2, <4>1
    <3>5. f[n - 1] = row \/ \E k \in fresh : k < n /\ f[n - 1] = ApplyTarget(row, k)
      <4>1. CASE Upto(fresh, n - 1) = {}
        BY <3>1, <4>1 DEF AtOnce
      <4>2. CASE Upto(fresh, n - 1) # {}
        <5>1. Upto(fresh, n - 1) \in SUBSET Event
          BY DEF Upto
        <5>2. Last(fresh, n - 1) \in Upto(fresh, n - 1)
          BY <4>2, <5>1, Greatest DEF Last
        <5>3. Last(fresh, n - 1) \in fresh /\ Last(fresh, n - 1) < n
          BY <1>1, <2>1, <5>2 DEF Upto
        <5>4. f[n - 1] = ApplyTarget(row, Last(fresh, n - 1))
          BY <3>1, <4>2 DEF AtOnce
        <5>5. QED
          BY <5>3, <5>4
      <4>3. QED
        BY <4>1, <4>2
    <3> HIDE DEF f
    <3>6. ASSUME NEW k \in fresh, k < n, f[n - 1] = ApplyTarget(row, k)
          PROVE  ApplyTarget(f[n - 1], n) = ApplyTarget(row, n)
      <4>1. CASE row # NoRow /\ k < row.since
        BY <3>6, <4>1 DEF ApplyTarget
      <4>2. CASE ~(row # NoRow /\ k < row.since)
        <5>1. f[n - 1] = [state |-> To(k), since |-> k]
          BY <3>6, <4>2 DEF ApplyTarget
        <5>2. f[n - 1].since = k /\ ~(n < k)
          BY <1>1, <2>1, <3>6, <5>1
        <5>3. ApplyTarget(f[n - 1], n) = [state |-> To(n), since |-> n]
          BY <5>2 DEF ApplyTarget
        <5>4. row.since \in 0..MaxEvents
          BY DEF TargetType
        <5>5. ~(row # NoRow /\ n < row.since)
          BY <1>1, <2>1, <3>6, <4>2, <5>4, EventNat
        <5>6. QED
          BY <5>3, <5>5 DEF ApplyTarget
      <4>3. QED
        BY <4>1, <4>2
    <3>7. QED
      BY <2>4, <3>4, <3>5, <3>6 DEF LoopStep
  <2>5. QED
    BY <2>2, <2>3, <2>4
<1>3. QED
  BY <1>2 DEF AtOnce

\* What the loop leaves: the row it found, or the one of a fresh transition,
\* and in either case none older than a fresh transition.
Outcome(row, fresh, n, result) ==
  /\ result \in TargetType
  /\ result.since >= row.since
  /\ \A e \in fresh : e <= n => result.since >= e
  /\ result = row \/ \E e \in fresh : result = [state |-> To(e), since |-> e]

LEMMA Loops ==
  ASSUME NEW row \in TargetType, NEW fresh \in SUBSET Event, NEW f,
         f = [n \in 0..MaxEvents |-> LoopStep(row, fresh, f, n)]
  PROVE  \A n \in 0..MaxEvents : Outcome(row, fresh, n, f[n])
<1> DEFINE B == {n \in 0..MaxEvents : ~Outcome(row, fresh, n, f[n])}
<1>1. \A e \in fresh : e \in Nat /\ e >= 1 /\ e <= MaxEvents
  BY EventNat DEF Event
<1>2. row.since \in 0..MaxEvents
  BY DEF TargetType
<1>3. ASSUME B # {}
      PROVE  FALSE
  <2>1. B \in SUBSET Nat
    BY EventNat
  <2>2. PICK k \in B : \A j \in B : k <= j
    <3> HIDE DEF B
    <3>1. QED
      BY <1>3, <2>1, Least
  <2>3. k \in 0..MaxEvents /\ k \in Nat /\ ~Outcome(row, fresh, k, f[k]) /\ f[k] = LoopStep(row, fresh, f, k)
    BY <2>1, <2>2
  <2>4. k # 0
    <3>1. CASE k = 0
      <4>1. f[k] = row
        BY <2>3, <3>1 DEF LoopStep
      <4>2. Outcome(row, fresh, k, row)
        BY <1>1, <1>2, <3>1, EventNat DEF Outcome
      <4>3. QED
        BY <2>3, <4>1, <4>2
    <3>2. QED
      BY <3>1
  <2>5. k - 1 \in 0..MaxEvents /\ Outcome(row, fresh, k - 1, f[k - 1])
    <3>1. k - 1 \in 0..MaxEvents /\ ~(k <= k - 1)
      BY <2>3, <2>4, EventNat
    <3>2. k - 1 \notin B
      <4> HIDE DEF B
      <4>1. QED
        BY <2>2, <3>1
    <3>3. QED
      BY <3>1, <3>2
  <2> DEFINE before == f[k - 1]
  <2>6. before \in TargetType /\ before.since \in 0..MaxEvents
    BY <2>5 DEF Outcome, TargetType
  <2>7. CASE k \notin fresh
    <3>1. f[k] = before /\ \A e \in fresh : e <= k => e <= k - 1
      BY <1>1, <2>3, <2>4, <2>7 DEF LoopStep
    <3>2. Outcome(row, fresh, k, before)
      BY <2>5, <3>1 DEF Outcome
    <3>3. QED
      BY <2>3, <3>1, <3>2
  <2>8. CASE k \in fresh /\ before # NoRow /\ k < before.since
    <3>1. f[k] = before
      BY <2>3, <2>4, <2>8 DEF LoopStep, ApplyTarget
    <3>2. \A e \in fresh : e <= k => before.since >= e
      BY <1>1, <2>3, <2>6, <2>8, EventNat
    <3>3. Outcome(row, fresh, k, before)
      BY <2>5, <3>2 DEF Outcome
    <3>4. QED
      BY <2>3, <3>1, <3>3
  <2>9. CASE k \in fresh /\ ~(before # NoRow /\ k < before.since)
    <3>1. f[k] = [state |-> To(k), since |-> k]
      BY <2>3, <2>4, <2>9 DEF LoopStep, ApplyTarget
    <3>2. before.since <= k
      <4>1. CASE before = NoRow
        <5>1. before.since = 0
          <6> HIDE DEF before
          <6>1. QED
            BY <4>1 DEF NoRow
        <5>2. QED
          BY <2>3, <5>1
      <4>2. CASE before # NoRow
        BY <2>3, <2>6, <2>9, <4>2, EventNat
      <4>3. QED
        BY <4>1, <4>2
    <3>3. row.since <= k
      BY <1>2, <2>3, <2>5, <2>6, <3>2, EventNat DEF Outcome
    <3>4. [state |-> To(k), since |-> k] \in TargetType
      BY <2>3 DEF TargetType, To
    <3>5. Outcome(row, fresh, k, [state |-> To(k), since |-> k])
      BY <1>1, <2>9, <3>3, <3>4 DEF Outcome
    <3>6. QED
      BY <2>3, <3>1, <3>5
  <2>10. QED
    BY <2>7, <2>8, <2>9
<1>4. QED
  BY <1>3

LEMMA AppliedIs ==
  ASSUME NEW row \in TargetType, NEW fresh \in SUBSET Event
  PROVE  Outcome(row, fresh, MaxEvents, Applied(row, fresh))
<1> DEFINE IsLoop(f) ==
             f = [n \in 0..MaxEvents |->
                    IF n = 0 THEN row
                    ELSE IF n \in fresh THEN ApplyTarget(f[n - 1], n)
                    ELSE f[n - 1]]
           after == CHOOSE f : IsLoop(f)
<1>1. \A f : IsLoop(f) <=> f = [n \in 0..MaxEvents |-> LoopStep(row, fresh, f, n)]
  BY DEF LoopStep
<1>2. IsLoop(AtOnce(row, fresh))
  BY <1>1, AtOnceLoops
<1>3. IsLoop(after)
  <2> HIDE DEF IsLoop
  <2>1. QED
    BY <1>2
<1>4. Applied(row, fresh) = after[MaxEvents]
  BY DEF Applied
<1>5. after = [n \in 0..MaxEvents |-> LoopStep(row, fresh, after, n)]
  <2> HIDE DEF IsLoop, after
  <2>1. QED
    BY <1>1, <1>3
<1> HIDE DEF after
<1>6. MaxEvents \in 0..MaxEvents
  BY EventNat
<1>7. QED
  BY <1>4, <1>5, <1>6, Loops

-----------------------------------------------------------------------------
(* Where each step leaves its request. *)

LEMMA CallMoves ==
  ASSUME MonTypes, NEW r \in Request, NEW events \in SUBSET Unacked, NEW quiet \in BOOLEAN,
         Call(r, events, quiet)
  PROVE  /\ req' \in [Request -> RequestType] /\ req'[r].at = "touched"
         /\ \A p \in Request \ {r} : req'[p] = req[p]
<1> DEFINE q == [at |-> "touched", events |-> events, quiet |-> quiet]
<1>1. q \in RequestType
  BY EventNat DEF RequestType, Unacked, Event, MonTypes
<1>2. req' = [req EXCEPT ![r] = q] /\ q.at = "touched"
  BY DEF Call
<1> HIDE DEF q
<1>3. QED
  BY <1>1, <1>2, Moving DEF MonTypes

LEMMA EndStaleMoves ==
  ASSUME MonTypes, NEW r \in Request, EndStale(r)
  PROVE  /\ req' \in [Request -> RequestType]
         /\ \A p \in Request \ {r} : req'[p] = req[p]
         /\ stale = 0 => req'[r].at = "apply"
         /\ stale # 0 => req'[r].at = "back" /\ req'[r].since = stale
<1>1. req[r] \in [at : {"touched", "apply"}, events : SUBSET Event, quiet : BOOLEAN]
  BY Carried DEF EndStale, MonTypes
<1>2. CASE stale = 0
  <2> DEFINE q == [req[r] EXCEPT !.at = "apply"]
  <2>1. q \in RequestType /\ q.at = "apply"
    BY <1>1 DEF RequestType
  <2>2. req' = [req EXCEPT ![r] = q]
    BY <1>2 DEF EndStale
  <2> HIDE DEF q
  <2>3. QED
    BY <1>2, <2>1, <2>2, Moving DEF MonTypes
<1>3. CASE stale # 0
  <2> DEFINE q == [at |-> "back", events |-> req[r].events, quiet |-> req[r].quiet, since |-> stale]
  <2>1. stale \in 1..MaxTime
    BY <1>3, EventNat DEF MonTypes
  <2>2. q \in RequestType /\ q.at = "back" /\ q.since = stale
    BY <1>1, <2>1 DEF RequestType
  <2>3. req' = [req EXCEPT ![r] = q]
    BY <1>3 DEF EndStale
  <2> HIDE DEF q
  <2>4. QED
    BY <1>3, <2>2, <2>3, Moving DEF MonTypes
<1>4. QED
  BY <1>2, <1>3

LEMMA NotifyBackMoves ==
  ASSUME MonTypes, NEW r \in Request, NotifyBack(r)
  PROVE  /\ req' \in [Request -> RequestType] /\ req'[r].at = "apply"
         /\ \A p \in Request \ {r} : req'[p] = req[p]
<1> DEFINE q == [at |-> "apply", events |-> req[r].events, quiet |-> req[r].quiet]
<1>1. q \in RequestType /\ q.at = "apply"
  BY Carried DEF NotifyBack, MonTypes, RequestType
<1>2. req' = [req EXCEPT ![r] = q]
  BY DEF NotifyBack
<1> HIDE DEF q
<1>3. QED
  BY <1>1, <1>2, Moving DEF MonTypes

LEMMA ApplyEventsMoves ==
  ASSUME MonTypes, NEW r \in Request, ApplyEvents(r)
  PROVE  /\ req' \in [Request -> RequestType]
         /\ req'[r].at = "notify" /\ req'[r].pending \subseteq req[r].events \ feed
         /\ \A p \in Request \ {r} : req'[p] = req[p]
         /\ req[r].events \subseteq Event
<1> DEFINE q == [at |-> "notify", events |-> req[r].events,
                 pending |-> IF req[r].quiet THEN {} ELSE req[r].events \ feed]
<1>1. req[r].events \in SUBSET Event
  BY Carried DEF ApplyEvents, MonTypes
<1>2. q \in RequestType /\ q.at = "notify" /\ q.pending \subseteq req[r].events \ feed
  BY <1>1 DEF RequestType
<1>3. req' = [req EXCEPT ![r] = q]
  BY DEF ApplyEvents
<1> HIDE DEF q
<1>4. QED
  BY <1>1, <1>2, <1>3, Moving DEF MonTypes

LEMMA UpsertStatsMoves ==
  ASSUME MonTypes, NEW r \in Request, UpsertStats(r)
  PROVE  /\ req' \in [Request -> RequestType] /\ req'[r].at = "answer"
         /\ \A p \in Request \ {r} : req'[p] = req[p]
<1> DEFINE q == [at |-> "answer", events |-> {}]
<1>1. q \in RequestType /\ q.at = "answer"
  BY DEF RequestType
<1>2. req' = [req EXCEPT ![r] = q]
  BY DEF UpsertStats
<1> HIDE DEF q
<1>3. QED
  BY <1>1, <1>2, Moving DEF MonTypes

LEMMA NotifyEventsMoves ==
  ASSUME MonTypes, NEW r \in Request, NotifyEvents(r)
  PROVE  /\ req' \in [Request -> RequestType] /\ req'[r].at = "answer"
         /\ \A p \in Request \ {r} : req'[p] = req[p]
         /\ req[r].pending \subseteq Event
<1> DEFINE q == [at |-> "answer", events |-> req[r].events]
<1>1. q \in RequestType /\ q.at = "answer" /\ req[r].pending \in SUBSET Event
  BY Carried DEF NotifyEvents, MonTypes, RequestType
<1>2. req' = [req EXCEPT ![r] = q]
  BY DEF NotifyEvents
<1> HIDE DEF q
<1>3. QED
  BY <1>1, <1>2, Moving DEF MonTypes

LEMMA AnswerMoves ==
  ASSUME MonTypes, NEW r \in Request, Answer(r)
  PROVE  /\ req' \in [Request -> RequestType] /\ req'[r].at = "idle"
         /\ \A p \in Request \ {r} : req'[p] = req[p]
         /\ req[r].events \subseteq Event
<1>1. Idle \in RequestType /\ Idle.at = "idle"
  BY DEF RequestType, Idle
<1>2. req[r].events \in SUBSET Event
  BY Carried DEF Answer, MonTypes
<1>3. req' = [req EXCEPT ![r] = Idle]
  BY DEF Answer
<1>4. QED
  BY <1>1, <1>2, <1>3, Moving DEF MonTypes

LEMMA RestartMoves ==
  ASSUME Restart
  PROVE  req' \in [Request -> RequestType] /\ \A r \in Request : req'[r].at = "idle"
BY DEF Restart, RequestType, Idle

LEMMA RowFields == \A row \in TargetType : row.since \in 0..MaxEvents
BY Zenon DEF TargetType

LEMMA FirstRows ==
  /\ NoRow.since = 0 /\ [state |-> "UNKNOWN", since |-> 0].since = 0
  /\ 0 \in 0..MaxEvents =>
       NoRow \in TargetType /\ [state |-> "UNKNOWN", since |-> 0] \in TargetType
BY Zenon DEF NoRow, TargetType

\* Where the minute job is.
LEMMA JobStages ==
  ASSUME MonTypes
  PROVE  /\ job.at \in {"declare", "tell"} =>
              job \in [at : {"declare", "tell"}, last : 1..MaxTime]
         /\ job = Idle => job.at = "idle"
BY DEF MonTypes, Idle

-----------------------------------------------------------------------------

LEMMA TypesInit == Init => MonTypes
<1> SUFFICES ASSUME Init PROVE MonTypes
  OBVIOUS
<1>1. target \in TargetType
  BY FirstRows, EventNat DEF Init
<1>2. req \in [Request -> RequestType]
  BY DEF Init, RequestType
<1>3. told \in [News -> Nat]
  BY DEF Init
<1>4. QED
  BY <1>1, <1>2, <1>3, EventNat DEF Init, MonTypes

LEMMA TypesNext == MonTypes /\ [Next]_vars => MonTypes'
<1> SUFFICES ASSUME MonTypes, [Next]_vars PROVE MonTypes'
  OBVIOUS
<1>1. CASE Transition
  BY <1>1, EventNat DEF Transition, MonTypes, watch
<1>2. CASE MonServerStops
  BY <1>2 DEF MonServerStops, MonTypes, watch
<1>3. CASE Tick
  BY <1>3, EventNat DEF Tick, MonTypes, watch
<1>4. ASSUME NEW r \in Request, NEW events \in SUBSET Unacked, NEW quiet \in BOOLEAN,
             Call(r, events, quiet)
      PROVE  MonTypes'
  <2>1. contact' \in 0..now /\ contactSaved' \in 0..now
    BY <1>4, EventNat DEF Call, MonTypes
  <2>2. QED
    BY <1>4, <2>1, CallMoves DEF Call, MonTypes, monServer
<1>5. ASSUME NEW r \in Request, EndStale(r)
      PROVE  MonTypes'
  <2>1. ended' \in [1..MaxTime -> Nat] /\ stale' \in 0..MaxTime /\ staleSaved' \in 0..MaxTime
    BY <1>5, EventNat DEF EndStale, MonTypes
  <2>2. QED
    BY <1>5, <2>1, EndStaleMoves DEF EndStale, MonTypes, monServer
<1>6. ASSUME NEW r \in Request, NotifyBack(r)
      PROVE  MonTypes'
  <2>1. told' \in [News -> Nat]
    BY <1>6, Telling DEF NotifyBack, MonTypes
  <2>2. QED
    BY <1>6, <2>1, NotifyBackMoves DEF NotifyBack, MonTypes, monServer, watch
<1>7. ASSUME NEW r \in Request, ApplyEvents(r)
      PROVE  MonTypes'
  <2>1. req[r].events \in SUBSET Event
    BY <1>7, ApplyEventsMoves
  <2>2. Applied(target, req[r].events \ feed) \in TargetType
    BY <2>1, AppliedIs DEF MonTypes, Outcome
  <2>3. feed' \subseteq Event /\ target' \in TargetType
    BY <1>7, <2>1, <2>2 DEF ApplyEvents, MonTypes
  <2>4. QED
    BY <1>7, <2>3, ApplyEventsMoves DEF ApplyEvents, MonTypes, monServer, watch
<1>8. ASSUME NEW r \in Request, UpsertStats(r)
      PROVE  MonTypes'
  <2>1. target' \in TargetType
    BY <1>8, FirstRows, EventNat DEF UpsertStats, MonTypes
  <2>2. QED
    BY <1>8, <2>1, UpsertStatsMoves DEF UpsertStats, MonTypes, monServer, watch
<1>9. ASSUME NEW r \in Request, NotifyEvents(r)
      PROVE  MonTypes'
  <2>1. told' \in [News -> Nat]
    BY <1>9, Telling DEF NotifyEvents, MonTypes
  <2>2. QED
    BY <1>9, <2>1, NotifyEventsMoves DEF NotifyEvents, MonTypes, monServer, watch
<1>10. ASSUME NEW r \in Request, Answer(r)
       PROVE  MonTypes'
  BY <1>10, AnswerMoves DEF Answer, MonTypes, monServer, watch
<1>11. CASE CheckContact
  <2>1. contact \in 1..MaxTime
    BY <1>11, EventNat DEF CheckContact, MonTypes
  <2>2. QED
    BY <1>11, <2>1 DEF CheckContact, MonTypes, monServer, watch
<1>12. CASE DeclareStale
  <2>1. job.last \in 1..MaxTime
    BY <1>12, JobStages DEF DeclareStale
  <2>2. /\ stale' \in 0..MaxTime /\ staleSaved' \in 0..MaxTime
        /\ job' \in {Idle} \cup [at : {"declare", "tell"}, last : 1..MaxTime]
    BY <1>12, <2>1, EventNat DEF DeclareStale, MonTypes
  <2>3. QED
    BY <1>12, <2>2 DEF DeclareStale, MonTypes, monServer
<1>13. CASE NotifyStale
  <2>1. told' \in [News -> Nat]
    BY <1>13, Telling DEF NotifyStale, MonTypes
  <2>2. QED
    BY <1>13, <2>1 DEF NotifyStale, MonTypes, monServer, watch
<1>14. CASE Restart
  BY <1>14, RestartMoves DEF Restart, MonTypes, monServer
<1>15. CASE UNCHANGED vars
  BY <1>15 DEF vars, MonTypes, monServer, watch
<1>16. QED
  BY <1>1, <1>2, <1>3, <1>4, <1>5, <1>6, <1>7, <1>8, <1>9, <1>10, <1>11, <1>12, <1>13, <1>14,
     <1>15 DEF Next, Serve

\* What every variable holds in a state the panel can be in; a silence is
\* declared of a contact, and no contact lies ahead of the clock.
THEOREM MonitoringTypes == Spec => []MonTypes
<1>1. Init => MonTypes
  BY TypesInit
<1>2. MonTypes /\ [Next]_vars => MonTypes'
  BY TypesNext
<1>3. QED
  BY <1>1, <1>2, PTL DEF Spec

-----------------------------------------------------------------------------
(* The row. *)

\* A row with a transition is where that transition put it, and no stored
\* transition is newer.
RowInv ==
  /\ \A e \in feed : target.since >= e
  /\ target.since # 0 => target.state = To(target.since)

LEMMA RowNext == MonTypes /\ RowInv /\ [Next]_vars => RowInv'
<1> SUFFICES ASSUME MonTypes, RowInv, [Next]_vars PROVE RowInv'
  OBVIOUS
<1>1. CASE UNCHANGED <<feed, target>>
  BY <1>1 DEF RowInv
<1>2. ASSUME NEW r \in Request, ApplyEvents(r)
      PROVE  RowInv'
  <2> DEFINE fresh == req[r].events \ feed
             row == Applied(target, fresh)
  <2>1. fresh \in SUBSET Event /\ target \in TargetType
    BY <1>2, ApplyEventsMoves DEF MonTypes
  <2>2. feed' = feed \cup fresh /\ target' = row
    BY <1>2 DEF ApplyEvents
  <2>3. Outcome(target, fresh, MaxEvents, row)
    <3> HIDE DEF fresh
    <3>1. QED
      BY <2>1, AppliedIs
  <2> HIDE DEF fresh, row
  <2>4. target.since \in Nat /\ row.since \in Nat /\ row.since >= target.since
    BY <2>1, <2>3, RowFields, EventNat DEF Outcome
  <2>5. ASSUME NEW e \in feed'
        PROVE  row.since >= e
    <3>1. e \in Event /\ e \in Nat /\ e <= MaxEvents
      BY <2>1, <2>2, EventNat DEF MonTypes, Event
    <3>2. CASE e \in feed
      BY <2>4, <3>1, <3>2 DEF RowInv
    <3>3. CASE e \in fresh
      BY <2>3, <3>1, <3>3 DEF Outcome
    <3>4. QED
      BY <2>2, <3>2, <3>3
  <2>6. row.since # 0 => row.state = To(row.since)
    <3>1. CASE row = target
      BY <3>1 DEF RowInv
    <3>2. ASSUME NEW e \in fresh, row = [state |-> To(e), since |-> e]
          PROVE  row.state = To(row.since)
      BY <3>2
    <3>3. QED
      BY <2>3, <3>1, <3>2 DEF Outcome
  <2>7. QED
    BY <2>2, <2>5, <2>6 DEF RowInv
<1>3. ASSUME NEW r \in Request, UpsertStats(r)
      PROVE  RowInv'
  <2>1. feed' = feed /\ target'.since = target.since /\ (target.since # 0 => target' = target)
    <3>1. CASE target = NoRow
      <4>1. target' = [state |-> "UNKNOWN", since |-> 0]
        BY <1>3, <3>1 DEF UpsertStats
      <4>2. QED
        BY <1>3, <3>1, <4>1, FirstRows DEF UpsertStats
    <3>2. CASE target # NoRow
      BY <1>3, <3>2 DEF UpsertStats
    <3>3. QED
      BY <3>1, <3>2
  <2>2. QED
    BY <2>1 DEF RowInv
<1>4. QED
  BY <1>1, <1>2, <1>3
     DEF Next, Serve, Transition, MonServerStops, Tick, Call, EndStale, NotifyBack, NotifyEvents,
         Answer, CheckContact, DeclareStale, NotifyStale, Restart, vars

\* In whatever order, however often and in whatever portions transitions are
\* sent, the row is where the newest stored one put it.
THEOREM NewestHasTheLastWord == Spec => []NewestStateWins
<1>1. Init => RowInv
  BY FirstRows DEF Init, RowInv
<1>2. MonTypes /\ RowInv /\ [Next]_vars => RowInv'
  BY RowNext
<1>3. MonTypes /\ RowInv => NewestStateWins
  BY EventNat DEF MonTypes, RowInv, NewestStateWins
<1>4. QED
  BY <1>1, <1>2, <1>3, MonitoringTypes, PTL DEF Spec

-----------------------------------------------------------------------------
(* What is told. *)

\* Who is about to tell what.
SilentDue(s) == IF job.at = "tell" /\ job.last = s THEN 1 ELSE 0
BackDue(s) == {r \in Request : req[r].at = "back" /\ req[r].since = s}
EventDue(e) == {r \in Request : req[r].at = "notify" /\ e \in req[r].pending}

\* Told or about to be told: a silence once for each time it began, which is
\* each time it ended and the time it has not; its end once for each time it
\* ended; a transition once when it is stored.
SilentInv ==
  \A s \in 1..MaxTime :
    told[<<"silent", s>>] + SilentDue(s) <= ended[s] + (IF s = stale THEN 1 ELSE 0)
BackInv ==
  \A s \in 1..MaxTime : told[<<"back", s>>] + Cardinality(BackDue(s)) <= ended[s]
EventInv ==
  \A e \in Event :
    told[<<"event", e>>] + Cardinality(EventDue(e)) <= (IF e \in feed THEN 1 ELSE 0)
ToldInv == stale = staleSaved /\ SilentInv /\ BackInv /\ EventInv

LEMMA Due ==
  /\ \A s : BackDue(s) \in SUBSET Request
  /\ \A e : EventDue(e) \in SUBSET Request
BY DEF BackDue, EventDue

\* Sets of requests, counted.
LEMMA Counting ==
  ASSUME NEW S \in SUBSET Request, NEW T \in SUBSET Request, NEW r \in Request
  PROVE  /\ Cardinality(S) \in Nat /\ Cardinality(T) \in Nat
         /\ T \subseteq S => Cardinality(T) <= Cardinality(S)
         /\ T \subseteq S \cup {r} => Cardinality(T) <= Cardinality(S) + 1
         /\ r \in S /\ T \subseteq S \ {r} => Cardinality(T) + 1 <= Cardinality(S)
<1>1. IsFiniteSet(S) /\ IsFiniteSet(T)
  BY RequestAssumption, FS_Subset
<1>2. Cardinality(S) \in Nat /\ Cardinality(T) \in Nat
  BY <1>1, FS_CardinalityType
<1>3. ASSUME T \subseteq S
      PROVE  Cardinality(T) <= Cardinality(S)
  BY <1>1, <1>3, FS_Subset
<1>4. ASSUME T \subseteq S \cup {r}
      PROVE  Cardinality(T) <= Cardinality(S) + 1
  <2>1. /\ IsFiniteSet(S \cup {r})
        /\ Cardinality(S \cup {r}) = Cardinality(S) \/ Cardinality(S \cup {r}) = Cardinality(S) + 1
    BY <1>1, FS_AddElement
  <2>2. Cardinality(T) <= Cardinality(S \cup {r})
    BY <1>4, <2>1, FS_Subset
  <2>3. QED
    BY <1>2, <2>1, <2>2
<1>5. ASSUME r \in S, T \subseteq S \ {r}
      PROVE  Cardinality(T) + 1 <= Cardinality(S)
  <2>1. IsFiniteSet(S \ {r}) /\ Cardinality(S \ {r}) = Cardinality(S) - 1
    BY <1>1, <1>5, FS_RemoveElement
  <2>2. Cardinality(T) <= Cardinality(S \ {r})
    BY <1>5, <2>1, FS_Subset
  <2>3. QED
    BY <1>2, <2>1, <2>2
<1>6. QED
  BY <1>2, <1>3, <1>4, <1>5

\* A request that is not about to tell, and moves to where it is not either.
LEMMA Unmoved ==
  ASSUME NEW r \in Request, \A p \in Request \ {r} : req'[p] = req[p]
  PROVE  /\ req[r].at # "back" /\ req'[r].at # "back" => \A s : BackDue(s)' = BackDue(s)
         /\ req[r].at # "notify" /\ req'[r].at # "notify" => \A e : EventDue(e)' = EventDue(e)
BY DEF BackDue, EventDue

-----------------------------------------------------------------------------
(* Silence. *)

LEMMA SilentNext == MonTypes /\ stale = staleSaved /\ SilentInv /\ [Next]_vars
                      => (stale = staleSaved /\ SilentInv)'
<1> SUFFICES ASSUME MonTypes, stale = staleSaved, SilentInv, [Next]_vars
             PROVE  stale' = staleSaved' /\ SilentInv'
  OBVIOUS
<1>0. ASSUME NEW s \in 1..MaxTime
      PROVE  /\ told[<<"silent", s>>] \in Nat /\ ended[s] \in Nat /\ SilentDue(s) \in {0, 1}
             /\ told[<<"silent", s>>] + SilentDue(s) <= ended[s] + (IF s = stale THEN 1 ELSE 0)
             /\ <<"silent", s>> \in News
  BY DEF SilentInv, SilentDue, MonTypes, News
<1>1. CASE UNCHANGED <<job, told, ended, stale, staleSaved>>
  BY <1>1 DEF SilentInv, SilentDue
<1>2. ASSUME NEW r \in Request, EndStale(r)
      PROVE  stale' = staleSaved' /\ SilentInv'
  <2>1. stale' = 0 /\ staleSaved' = 0 /\ told' = told /\ job' = job
    BY <1>2 DEF EndStale
  <2>2. \A s \in 1..MaxTime : ended'[s] = ended[s] + (IF s = stale THEN 1 ELSE 0)
    BY <1>2 DEF EndStale, MonTypes
  <2>3. \A s \in 1..MaxTime : SilentDue(s)' = SilentDue(s) /\ s # 0
    BY <2>1, EventNat DEF SilentDue
  <2>4. QED
    BY <1>0, <2>1, <2>2, <2>3 DEF SilentInv
<1>3. ASSUME told' \in [News -> Nat], \A s \in 1..MaxTime : told'[<<"silent", s>>] = told[<<"silent", s>>],
             UNCHANGED <<job, ended, stale, staleSaved>>
      PROVE  stale' = staleSaved' /\ SilentInv'
  BY <1>3 DEF SilentInv, SilentDue
<1>4. ASSUME NEW r \in Request, NotifyBack(r)
      PROVE  stale' = staleSaved' /\ SilentInv'
  <2>1. told' \in [News -> Nat] /\ \A s \in 1..MaxTime : told'[<<"silent", s>>] = told[<<"silent", s>>]
    <3>1. Tell({<<"back", req[r].since>>}) /\ told \in [News -> Nat]
      BY <1>4 DEF NotifyBack, MonTypes
    <3>2. \A s \in 1..MaxTime : <<"silent", s>> \notin {<<"back", req[r].since>>}
      OBVIOUS
    <3>3. QED
      BY <1>0, <3>1, <3>2, Telling
  <2>2. UNCHANGED <<job, ended, stale, staleSaved>>
    BY <1>4 DEF NotifyBack, watch
  <2>3. QED
    BY <1>3, <2>1, <2>2
<1>5. ASSUME NEW r \in Request, NotifyEvents(r)
      PROVE  stale' = staleSaved' /\ SilentInv'
  <2>1. told' \in [News -> Nat] /\ \A s \in 1..MaxTime : told'[<<"silent", s>>] = told[<<"silent", s>>]
    <3>1. told \in [News -> Nat]
      BY DEF MonTypes
    <3>2. CASE Tell({<<"event", e>> : e \in req[r].pending})
      <4>1. \A s \in 1..MaxTime : <<"silent", s>> \notin {<<"event", e>> : e \in req[r].pending}
        OBVIOUS
      <4>2. QED
        BY <1>0, <3>1, <3>2, <4>1, Telling
    <3>3. CASE UNCHANGED told
      BY <3>1, <3>3
    <3>4. QED
      BY <1>5, <3>2, <3>3 DEF NotifyEvents
  <2>2. UNCHANGED <<job, ended, stale, staleSaved>>
    BY <1>5 DEF NotifyEvents, watch
  <2>3. QED
    BY <1>3, <2>1, <2>2
<1>6. CASE CheckContact
  <2>1. \A s \in 1..MaxTime : SilentDue(s)' = 0 /\ SilentDue(s) = 0
    BY <1>6, JobStages DEF CheckContact, SilentDue, Idle
  <2>2. UNCHANGED <<told, ended, stale, staleSaved>>
    BY <1>6 DEF CheckContact, watch
  <2>3. QED
    BY <1>0, <2>1, <2>2 DEF SilentInv
<1>7. CASE DeclareStale
  <2>1. UNCHANGED <<told, ended>> /\ \A s \in 1..MaxTime : SilentDue(s) = 0
    BY <1>7 DEF DeclareStale, SilentDue
  <2>2. CASE stale # 0
    <3>1. job' = Idle /\ UNCHANGED <<stale, staleSaved>>
      BY <1>7, <2>2 DEF DeclareStale
    <3>2. \A s \in 1..MaxTime : SilentDue(s)' = 0
      BY <3>1 DEF SilentDue, Idle
    <3>3. QED
      BY <1>0, <2>1, <3>1, <3>2 DEF SilentInv
  <2>3. CASE stale = 0
    <3>1. /\ stale' = job.last /\ staleSaved' = job.last
          /\ job' = [at |-> "tell", last |-> job.last]
      BY <1>7, <2>3 DEF DeclareStale
    <3>2. \A s \in 1..MaxTime : SilentDue(s)' = (IF s = stale' THEN 1 ELSE 0) /\ s # stale
      BY <2>3, <3>1, EventNat DEF SilentDue
    <3>3. QED
      BY <1>0, <2>1, <3>1, <3>2 DEF SilentInv
  <2>4. QED
    BY <2>2, <2>3
<1>8. CASE NotifyStale
  <2>1. Tell({<<"silent", job.last>>}) /\ told \in [News -> Nat] /\ job.at = "tell"
        /\ job' = Idle /\ UNCHANGED <<ended, stale, staleSaved>>
    BY <1>8 DEF NotifyStale, MonTypes, watch
  <2>2. \A s \in 1..MaxTime : <<"silent", s>> \in {<<"silent", job.last>>} <=> s = job.last
    OBVIOUS
  <2>3. \A s \in 1..MaxTime :
          told'[<<"silent", s>>] = told[<<"silent", s>>] + (IF s = job.last THEN 1 ELSE 0)
    <3>1. \A n \in News : told'[n] = told[n] + (IF n \in {<<"silent", job.last>>} THEN 1 ELSE 0)
      BY <2>1, Telling
    <3>2. QED
      BY <1>0, <2>2, <3>1
  <2>4. \A s \in 1..MaxTime : SilentDue(s)' = 0 /\ SilentDue(s) = IF s = job.last THEN 1 ELSE 0
    BY <2>1 DEF SilentDue, Idle
  <2>5. QED
    BY <1>0, <2>1, <2>3, <2>4 DEF SilentInv
<1>9. CASE Restart
  <2>1. \A s \in 1..MaxTime : SilentDue(s)' = 0
    BY <1>9 DEF Restart, SilentDue, Idle
  <2>2. stale' = stale /\ staleSaved' = stale /\ UNCHANGED <<told, ended>>
    BY <1>9 DEF Restart
  <2>3. QED
    BY <1>0, <2>1, <2>2 DEF SilentInv
<1>10. QED
  BY <1>1, <1>2, <1>4, <1>5, <1>6, <1>7, <1>8, <1>9
     DEF Next, Serve, Transition, MonServerStops, Tick, Call, ApplyEvents, UpsertStats, Answer,
         vars, watch

-----------------------------------------------------------------------------
(* The end of a silence. *)

LEMMA BackNext == MonTypes /\ BackInv /\ [Next]_vars => BackInv'
<1> SUFFICES ASSUME MonTypes, BackInv, [Next]_vars PROVE BackInv'
  OBVIOUS
<1>0. ASSUME NEW s \in 1..MaxTime
      PROVE  /\ told[<<"back", s>>] \in Nat /\ ended[s] \in Nat
             /\ told[<<"back", s>>] + Cardinality(BackDue(s)) <= ended[s]
             /\ <<"back", s>> \in News
  BY DEF BackInv, MonTypes, News
\* Nothing about it told, none of it begun.
<1>1. ASSUME UNCHANGED ended, \A s \in 1..MaxTime : told'[<<"back", s>>] = told[<<"back", s>>],
             \A s : BackDue(s)' = BackDue(s)
      PROVE  BackInv'
  BY <1>1 DEF BackInv
<1>2. CASE UNCHANGED <<req, told, ended>>
  BY <1>2 DEF BackInv, BackDue
<1>3. ASSUME NEW r \in Request, NEW events \in SUBSET Unacked, NEW quiet \in BOOLEAN,
             Call(r, events, quiet)
      PROVE  BackInv'
  <2>1. req[r].at # "back" /\ UNCHANGED <<ended, told>>
    BY <1>3 DEF Call, Idle
  <2>2. \A s : BackDue(s)' = BackDue(s)
    BY <1>3, <2>1, CallMoves, Unmoved
  <2>3. QED
    BY <1>1, <2>1, <2>2
<1>4. ASSUME NEW r \in Request, EndStale(r)
      PROVE  BackInv'
  <2>1. told' = told /\ \A s \in 1..MaxTime : ended'[s] = ended[s] + (IF s = stale THEN 1 ELSE 0)
    BY <1>4 DEF EndStale, MonTypes
  <2>2. ASSUME NEW s \in 1..MaxTime
        PROVE  Cardinality(BackDue(s)') <= Cardinality(BackDue(s)) + (IF s = stale THEN 1 ELSE 0)
    <3>1. BackDue(s) \in SUBSET Request /\ BackDue(s)' \in SUBSET Request
      BY DEF BackDue
    <3>2. CASE s = stale
      <4>1. BackDue(s)' \subseteq BackDue(s) \cup {r}
        BY <1>4, EndStaleMoves DEF BackDue
      <4>2. QED
        BY <3>1, <3>2, <4>1, Counting
    <3>3. CASE s # stale
      <4>1. BackDue(s)' \subseteq BackDue(s)
        BY <1>4, <3>3, EndStaleMoves DEF BackDue
      <4>2. QED
        BY <3>1, <3>3, <4>1, Counting
    <3>4. QED
      BY <3>2, <3>3
  <2>3. ASSUME NEW s \in 1..MaxTime
        PROVE  told'[<<"back", s>>] + Cardinality(BackDue(s)') <= ended'[s]
    <3>1. Cardinality(BackDue(s)) \in Nat /\ Cardinality(BackDue(s)') \in Nat
      <4>1. BackDue(s) \in SUBSET Request /\ BackDue(s)' \in SUBSET Request
        BY DEF BackDue
      <4>2. QED
        BY <1>4, <4>1, Counting
    <3>2. QED
      BY <1>0, <2>1, <2>2, <3>1
  <2>4. QED
    BY <2>3 DEF BackInv
<1>5. ASSUME NEW r \in Request, NotifyBack(r)
      PROVE  BackInv'
  <2>1. /\ Tell({<<"back", req[r].since>>}) /\ told \in [News -> Nat]
        /\ req[r].at = "back" /\ UNCHANGED ended
    BY <1>5 DEF NotifyBack, MonTypes, watch
  <2>2. \A n \in News : told'[n] = told[n] + (IF n \in {<<"back", req[r].since>>} THEN 1 ELSE 0)
    BY <2>1, Telling
  <2>3. ASSUME NEW s \in 1..MaxTime
        PROVE  told'[<<"back", s>>] + Cardinality(BackDue(s)') <= ended'[s]
    <3>1. BackDue(s) \in SUBSET Request /\ BackDue(s)' \in SUBSET Request
      BY DEF BackDue
    <3>2. Cardinality(BackDue(s)) \in Nat /\ Cardinality(BackDue(s)') \in Nat
      BY <1>5, <3>1, Counting
    <3>3. CASE s = req[r].since
      <4>1. r \in BackDue(s) /\ BackDue(s)' \subseteq BackDue(s) \ {r}
        BY <1>5, <2>1, <3>3, NotifyBackMoves DEF BackDue
      <4>2. Cardinality(BackDue(s)') + 1 <= Cardinality(BackDue(s))
        BY <3>1, <4>1, Counting
      <4>3. told'[<<"back", s>>] = told[<<"back", s>>] + 1
        BY <1>0, <2>2, <3>3
      <4>4. QED
        BY <1>0, <2>1, <3>2, <4>2, <4>3
    <3>4. CASE s # req[r].since
      <4>1. BackDue(s)' \subseteq BackDue(s)
        BY <1>5, <2>1, <3>4, NotifyBackMoves DEF BackDue
      <4>2. Cardinality(BackDue(s)') <= Cardinality(BackDue(s))
        BY <1>5, <3>1, <4>1, Counting
      <4>3. told'[<<"back", s>>] = told[<<"back", s>>]
        BY <1>0, <2>2, <3>4
      <4>4. QED
        BY <1>0, <2>1, <3>2, <4>2, <4>3
    <3>5. QED
      BY <3>3, <3>4
  <2>4. QED
    BY <2>3 DEF BackInv
<1>6. ASSUME NEW r \in Request, ApplyEvents(r)
      PROVE  BackInv'
  <2>1. req[r].at # "back" /\ UNCHANGED <<ended, told>>
    BY <1>6 DEF ApplyEvents, watch
  <2>2. \A s : BackDue(s)' = BackDue(s)
    BY <1>6, <2>1, ApplyEventsMoves, Unmoved
  <2>3. QED
    BY <1>1, <2>1, <2>2
<1>7. ASSUME NEW r \in Request, UpsertStats(r)
      PROVE  BackInv'
  <2>1. req[r].at # "back" /\ UNCHANGED <<ended, told>>
    BY <1>7 DEF UpsertStats, watch
  <2>2. \A s : BackDue(s)' = BackDue(s)
    BY <1>7, <2>1, UpsertStatsMoves, Unmoved
  <2>3. QED
    BY <1>1, <2>1, <2>2
<1>8. ASSUME NEW r \in Request, NotifyEvents(r)
      PROVE  BackInv'
  <2>1. req[r].at # "back" /\ UNCHANGED ended /\ told \in [News -> Nat]
    BY <1>8 DEF NotifyEvents, watch, MonTypes
  <2>2. \A s \in 1..MaxTime : told'[<<"back", s>>] = told[<<"back", s>>]
    <3>1. CASE Tell({<<"event", e>> : e \in req[r].pending})
      <4>1. \A s \in 1..MaxTime : <<"back", s>> \notin {<<"event", e>> : e \in req[r].pending}
        OBVIOUS
      <4>2. \A n \in News :
              told'[n] = told[n] + (IF n \in {<<"event", e>> : e \in req[r].pending} THEN 1 ELSE 0)
        BY <2>1, <3>1, Telling
      <4>3. QED
        <5>1. ASSUME NEW s \in 1..MaxTime
              PROVE  told'[<<"back", s>>] = told[<<"back", s>>]
          <6>1. <<"back", s>> \in News
            BY <1>0
          <6>2. QED
            BY <1>0, <4>1, <4>2, <6>1
        <5>2. QED
          BY <5>1
    <3>2. QED
      BY <1>8, <3>1 DEF NotifyEvents
  <2>3. \A s : BackDue(s)' = BackDue(s)
    BY <1>8, <2>1, NotifyEventsMoves, Unmoved
  <2>4. QED
    BY <1>1, <2>1, <2>2, <2>3
<1>9. ASSUME NEW r \in Request, Answer(r)
      PROVE  BackInv'
  <2>1. req[r].at # "back" /\ UNCHANGED <<ended, told>>
    BY <1>9 DEF Answer, watch
  <2>2. \A s : BackDue(s)' = BackDue(s)
    BY <1>9, <2>1, AnswerMoves, Unmoved
  <2>3. QED
    BY <1>1, <2>1, <2>2
<1>10. CASE NotifyStale
  <2>1. Tell({<<"silent", job.last>>}) /\ told \in [News -> Nat] /\ UNCHANGED <<req, ended>>
    BY <1>10 DEF NotifyStale, MonTypes, watch
  <2>2. \A s \in 1..MaxTime : told'[<<"back", s>>] = told[<<"back", s>>]
    <3>1. \A s \in 1..MaxTime : <<"back", s>> \notin {<<"silent", job.last>>}
      OBVIOUS
    <3>2. \A n \in News : told'[n] = told[n] + (IF n \in {<<"silent", job.last>>} THEN 1 ELSE 0)
      BY <2>1, Telling
    <3>3. QED
      <4>1. ASSUME NEW s \in 1..MaxTime
            PROVE  told'[<<"back", s>>] = told[<<"back", s>>]
        <5>1. <<"back", s>> \in News
          BY <1>0
        <5>2. QED
          BY <1>0, <3>1, <3>2, <5>1
      <4>2. QED
        BY <4>1
  <2>3. \A s : BackDue(s)' = BackDue(s)
    BY <2>1 DEF BackDue
  <2>4. QED
    BY <1>1, <2>1, <2>2, <2>3
<1>11. CASE Restart
  <2>1. UNCHANGED <<told, ended>>
    BY <1>11 DEF Restart
  <2>2. \A s : BackDue(s)' = {}
    BY <1>11, RestartMoves DEF BackDue
  <2>3. ASSUME NEW s \in 1..MaxTime
        PROVE  told[<<"back", s>>] + 0 <= ended[s]
    <3>1. Cardinality(BackDue(s)) \in Nat
      BY Due, RequestAssumption, FS_Subset, FS_CardinalityType
    <3>2. QED
      BY <1>0, <3>1
  <2>4. QED
    BY <2>1, <2>2, <2>3, FS_EmptySet DEF BackInv
<1>12. QED
  BY <1>2, <1>3, <1>4, <1>5, <1>6, <1>7, <1>8, <1>9, <1>10, <1>11
     DEF Next, Serve, Transition, MonServerStops, Tick, CheckContact, DeclareStale, vars, watch

-----------------------------------------------------------------------------
(* Transitions. *)

LEMMA EventNext == MonTypes /\ EventInv /\ [Next]_vars => EventInv'
<1> SUFFICES ASSUME MonTypes, EventInv, [Next]_vars PROVE EventInv'
  OBVIOUS
<1>0. ASSUME NEW e \in Event
      PROVE  /\ told[<<"event", e>>] \in Nat
             /\ told[<<"event", e>>] + Cardinality(EventDue(e)) <= (IF e \in feed THEN 1 ELSE 0)
             /\ <<"event", e>> \in News
  BY DEF EventInv, MonTypes, News
<1>1. ASSUME UNCHANGED feed, \A e \in Event : told'[<<"event", e>>] = told[<<"event", e>>],
             \A e : EventDue(e)' = EventDue(e)
      PROVE  EventInv'
  BY <1>1 DEF EventInv
<1>2. CASE UNCHANGED <<req, told, feed>>
  BY <1>2 DEF EventInv, EventDue
<1>3. ASSUME NEW r \in Request, NEW events \in SUBSET Unacked, NEW quiet \in BOOLEAN,
             Call(r, events, quiet)
      PROVE  EventInv'
  <2>1. req[r].at # "notify" /\ UNCHANGED <<feed, told>>
    BY <1>3 DEF Call, Idle
  <2>2. \A e : EventDue(e)' = EventDue(e)
    BY <1>3, <2>1, CallMoves, Unmoved
  <2>3. QED
    BY <1>1, <2>1, <2>2
<1>4. ASSUME NEW r \in Request, EndStale(r)
      PROVE  EventInv'
  <2>1. req[r].at # "notify" /\ req'[r].at # "notify" /\ UNCHANGED <<feed, told>>
    BY <1>4, EndStaleMoves DEF EndStale
  <2>2. \A e : EventDue(e)' = EventDue(e)
    BY <1>4, <2>1, EndStaleMoves, Unmoved
  <2>3. QED
    BY <1>1, <2>1, <2>2
<1>5. ASSUME NEW r \in Request, NotifyBack(r)
      PROVE  EventInv'
  <2>1. req[r].at # "notify" /\ UNCHANGED feed /\ told \in [News -> Nat]
    BY <1>5 DEF NotifyBack, MonTypes
  <2>2. \A e \in Event : told'[<<"event", e>>] = told[<<"event", e>>]
    <3>1. \A e \in Event : <<"event", e>> \notin {<<"back", req[r].since>>}
      OBVIOUS
    <3>2. \A n \in News : told'[n] = told[n] + (IF n \in {<<"back", req[r].since>>} THEN 1 ELSE 0)
      BY <1>5, <2>1, Telling DEF NotifyBack
    <3>3. QED
      <4>1. ASSUME NEW e \in Event
            PROVE  told'[<<"event", e>>] = told[<<"event", e>>]
        <5>1. <<"event", e>> \in News
          BY <1>0
        <5>2. QED
          BY <1>0, <3>1, <3>2, <5>1
      <4>2. QED
        BY <4>1
  <2>3. \A e : EventDue(e)' = EventDue(e)
    BY <1>5, <2>1, NotifyBackMoves, Unmoved
  <2>4. QED
    BY <1>1, <2>1, <2>2, <2>3
<1>6. ASSUME NEW r \in Request, ApplyEvents(r)
      PROVE  EventInv'
  <2> DEFINE fresh == req[r].events \ feed
  <2>1. req[r].at # "notify" /\ feed' = feed \cup fresh /\ UNCHANGED told
    BY <1>6 DEF ApplyEvents
  <2>2. /\ req'[r].pending \subseteq fresh
        /\ \A p \in Request \ {r} : req'[p] = req[p]
    BY <1>6, ApplyEventsMoves
  <2>3. \A e \in fresh : e \notin feed
    OBVIOUS
  <2> HIDE DEF fresh
  <2>4. ASSUME NEW e \in Event
        PROVE  told'[<<"event", e>>] + Cardinality(EventDue(e)') <= (IF e \in feed' THEN 1 ELSE 0)
    <3>1. EventDue(e) \in SUBSET Request /\ EventDue(e)' \in SUBSET Request
      BY DEF EventDue
    <3>2. Cardinality(EventDue(e)) \in Nat /\ Cardinality(EventDue(e)') \in Nat
      BY <1>6, <3>1, Counting
    <3>3. CASE e \in fresh
      <4>1. EventDue(e)' \subseteq EventDue(e) \cup {r}
        BY <2>2 DEF EventDue
      <4>2. Cardinality(EventDue(e)') <= Cardinality(EventDue(e)) + 1
        BY <3>1, <4>1, Counting
      <4>3. e \notin feed /\ e \in feed'
        BY <2>1, <2>3, <3>3
      <4>4. QED
        BY <1>0, <2>1, <3>2, <4>2, <4>3
    <3>4. CASE e \notin fresh
      <4>1. EventDue(e)' \subseteq EventDue(e)
        BY <2>2, <3>4 DEF EventDue
      <4>2. Cardinality(EventDue(e)') <= Cardinality(EventDue(e))
        BY <1>6, <3>1, <4>1, Counting
      <4>3. e \in feed' <=> e \in feed
        BY <2>1, <3>4
      <4>4. QED
        BY <1>0, <2>1, <3>2, <4>2, <4>3
    <3>5. QED
      BY <3>3, <3>4
  <2>5. QED
    BY <2>4 DEF EventInv
<1>7. ASSUME NEW r \in Request, UpsertStats(r)
      PROVE  EventInv'
  <2>1. req[r].at # "notify" /\ UNCHANGED <<feed, told>>
    BY <1>7 DEF UpsertStats
  <2>2. \A e : EventDue(e)' = EventDue(e)
    BY <1>7, <2>1, UpsertStatsMoves, Unmoved
  <2>3. QED
    BY <1>1, <2>1, <2>2
<1>8. ASSUME NEW r \in Request, NotifyEvents(r)
      PROVE  EventInv'
  <2>1. req[r].at = "notify" /\ UNCHANGED feed /\ told \in [News -> Nat]
    BY <1>8 DEF NotifyEvents, MonTypes
  <2>2. ASSUME NEW e \in Event
        PROVE  told'[<<"event", e>>] \in Nat
               /\ told'[<<"event", e>>] <= told[<<"event", e>>] + (IF e \in req[r].pending THEN 1 ELSE 0)
    <3>1. CASE Tell({<<"event", x>> : x \in req[r].pending})
      <4>1. \A n \in News : told'[n] = told[n] + (IF n \in {<<"event", x>> : x \in req[r].pending} THEN 1 ELSE 0)
        BY <2>1, <3>1, Telling
      <4>2. <<"event", e>> \in {<<"event", x>> : x \in req[r].pending} <=> e \in req[r].pending
        OBVIOUS
      <4>3. QED
        BY <1>0, <4>1, <4>2
    <3>2. CASE UNCHANGED told
      BY <1>0, <3>2
    <3>3. QED
      BY <1>8, <3>1, <3>2 DEF NotifyEvents
  <2>3. ASSUME NEW e \in Event
        PROVE  told'[<<"event", e>>] + Cardinality(EventDue(e)') <= (IF e \in feed' THEN 1 ELSE 0)
    <3>1. EventDue(e) \in SUBSET Request /\ EventDue(e)' \in SUBSET Request
      BY DEF EventDue
    <3>2. Cardinality(EventDue(e)) \in Nat /\ Cardinality(EventDue(e)') \in Nat
      BY <1>8, <3>1, Counting
    <3>3. CASE e \in req[r].pending
      <4>1. r \in EventDue(e) /\ EventDue(e)' \subseteq EventDue(e) \ {r}
        BY <1>8, <2>1, <3>3, NotifyEventsMoves DEF EventDue
      <4>2. Cardinality(EventDue(e)') + 1 <= Cardinality(EventDue(e))
        BY <3>1, <4>1, Counting
      <4>3. QED
        BY <1>0, <2>1, <2>2, <3>2, <3>3, <4>2
    <3>4. CASE e \notin req[r].pending
      <4>1. EventDue(e)' \subseteq EventDue(e)
        BY <1>8, <3>4, NotifyEventsMoves DEF EventDue
      <4>2. Cardinality(EventDue(e)') <= Cardinality(EventDue(e))
        BY <1>8, <3>1, <4>1, Counting
      <4>3. QED
        BY <1>0, <2>1, <2>2, <3>2, <3>4, <4>2
    <3>5. QED
      BY <3>3, <3>4
  <2>4. QED
    BY <2>3 DEF EventInv
<1>9. ASSUME NEW r \in Request, Answer(r)
      PROVE  EventInv'
  <2>1. req[r].at # "notify" /\ UNCHANGED <<feed, told>>
    BY <1>9 DEF Answer
  <2>2. \A e : EventDue(e)' = EventDue(e)
    BY <1>9, <2>1, AnswerMoves, Unmoved
  <2>3. QED
    BY <1>1, <2>1, <2>2
<1>10. CASE NotifyStale
  <2>1. Tell({<<"silent", job.last>>}) /\ told \in [News -> Nat] /\ UNCHANGED <<req, feed>>
    BY <1>10 DEF NotifyStale, MonTypes
  <2>2. \A e \in Event : told'[<<"event", e>>] = told[<<"event", e>>]
    <3>1. \A e \in Event : <<"event", e>> \notin {<<"silent", job.last>>}
      OBVIOUS
    <3>2. \A n \in News : told'[n] = told[n] + (IF n \in {<<"silent", job.last>>} THEN 1 ELSE 0)
      BY <2>1, Telling
    <3>3. QED
      <4>1. ASSUME NEW e \in Event
            PROVE  told'[<<"event", e>>] = told[<<"event", e>>]
        <5>1. <<"event", e>> \in News
          BY <1>0
        <5>2. QED
          BY <1>0, <3>1, <3>2, <5>1
      <4>2. QED
        BY <4>1
  <2>3. \A e : EventDue(e)' = EventDue(e)
    BY <2>1 DEF EventDue
  <2>4. QED
    BY <1>1, <2>1, <2>2, <2>3
<1>11. CASE Restart
  <2>1. UNCHANGED <<told, feed>>
    BY <1>11 DEF Restart
  <2>2. \A e : EventDue(e)' = {}
    BY <1>11, RestartMoves DEF EventDue
  <2>3. ASSUME NEW e \in Event
        PROVE  told[<<"event", e>>] + 0 <= (IF e \in feed THEN 1 ELSE 0)
    <3>1. Cardinality(EventDue(e)) \in Nat
      BY Due, RequestAssumption, FS_Subset, FS_CardinalityType
    <3>2. QED
      BY <1>0, <3>1
  <2>4. QED
    BY <2>1, <2>2, <2>3, FS_EmptySet DEF EventInv
<1>12. QED
  BY <1>2, <1>3, <1>4, <1>5, <1>6, <1>7, <1>8, <1>9, <1>10, <1>11
     DEF Next, Serve, Transition, MonServerStops, Tick, CheckContact, DeclareStale, vars, watch

-----------------------------------------------------------------------------

\* A transition is told at most once however often it is sent, by however many
\* requests at once; a silence once for each time it began, restarts included;
\* its end only when it has ended.
THEOREM NothingIsToldTwice == Spec => []ToldOnce
<1>1. ASSUME Init
      PROVE  ToldInv
  <2>1. /\ \A s : SilentDue(s) = 0 /\ BackDue(s) = {}
        /\ \A e : EventDue(e) = {}
    BY <1>1 DEF Init, SilentDue, BackDue, EventDue, Idle
  <2>2. /\ \A s \in 1..MaxTime : told[<<"silent", s>>] = 0 /\ told[<<"back", s>>] = 0 /\ ended[s] = 0
        /\ \A e \in Event : told[<<"event", e>>] = 0
    BY <1>1 DEF Init, News
  <2>3. stale = staleSaved
    BY <1>1 DEF Init
  <2>4. Cardinality({}) = 0
    BY FS_EmptySet
  <2>5. SilentInv
    <3>1. ASSUME NEW s \in 1..MaxTime
          PROVE  told[<<"silent", s>>] + SilentDue(s) <= ended[s] + (IF s = stale THEN 1 ELSE 0)
      <4>1. told[<<"silent", s>>] = 0 /\ SilentDue(s) = 0 /\ ended[s] = 0
        BY <2>1, <2>2
      <4>2. QED
        BY <4>1
    <3>2. QED
      BY <3>1 DEF SilentInv
  <2>6. BackInv
    <3>1. ASSUME NEW s \in 1..MaxTime
          PROVE  told[<<"back", s>>] + Cardinality(BackDue(s)) <= ended[s]
      <4>1. told[<<"back", s>>] = 0 /\ BackDue(s) = {} /\ ended[s] = 0
        BY <2>1, <2>2
      <4>2. QED
        BY <2>4, <4>1
    <3>2. QED
      BY <3>1 DEF BackInv
  <2>7. EventInv
    <3>1. ASSUME NEW e \in Event
          PROVE  told[<<"event", e>>] + Cardinality(EventDue(e)) <= (IF e \in feed THEN 1 ELSE 0)
      <4>1. told[<<"event", e>>] = 0 /\ EventDue(e) = {}
        BY <2>1, <2>2
      <4>2. QED
        BY <2>4, <4>1
    <3>2. QED
      BY <3>1 DEF EventInv
  <2>8. QED
    BY <2>3, <2>5, <2>6, <2>7 DEF ToldInv
<1>2. MonTypes /\ ToldInv /\ [Next]_vars => ToldInv'
  BY SilentNext, BackNext, EventNext DEF ToldInv
<1>3. ASSUME MonTypes, ToldInv
      PROVE  ToldOnce
  <2>1. ASSUME NEW e \in Event
        PROVE  told[<<"event", e>>] <= 1
    <3>1. Cardinality(EventDue(e)) \in Nat
      BY Due, RequestAssumption, FS_Subset, FS_CardinalityType
    <3>2. told[<<"event", e>>] \in Nat
      BY <1>3 DEF MonTypes, News
    <3>3. QED
      BY <1>3, <3>1, <3>2 DEF ToldInv, EventInv
  <2>2. ASSUME NEW s \in 1..MaxTime
        PROVE  told[<<"silent", s>>] <= 1 + ended[s] /\ told[<<"back", s>>] <= ended[s]
    <3>1. Cardinality(BackDue(s)) \in Nat
      BY Due, RequestAssumption, FS_Subset, FS_CardinalityType
    <3>2. /\ told[<<"silent", s>>] \in Nat /\ told[<<"back", s>>] \in Nat /\ ended[s] \in Nat
          /\ SilentDue(s) \in {0, 1}
      BY <1>3 DEF MonTypes, News, SilentDue
    <3>3. QED
      BY <1>3, <3>1, <3>2 DEF ToldInv, SilentInv, BackInv
  <2>3. QED
    BY <2>1, <2>2 DEF ToldOnce
<1>4. QED
  BY <1>1, <1>2, <1>3, MonitoringTypes, PTL DEF Spec
=============================================================================
