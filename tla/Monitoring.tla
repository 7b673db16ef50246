----------------------------- MODULE Monitoring -----------------------------
(***************************************************************************)
(* What the panel is told by its mon-server and what it makes of it, for   *)
(* one target: the ingestion of transitions and buckets                    *)
(* (web/service/monitoring_ingest.go), the watch for a silent mon-server   *)
(* (web/service/monitoring_contact.go) and what the operator is told.      *)
(*                                                                         *)
(* The mon-server is external: it stamps its transitions 1, 2, ... and     *)
(* sends each until an answer says that it was taken.  The two locks of    *)
(* monitoring_contact.go and one transaction are each one step; between    *)
(* them requests, the minute job and a crash interleave.  The clock counts *)
(* in thresholds of silence (monStaleMinutes): 10 seconds of the persisted *)
(* contact are nothing to it, and a request does not wait that long for a  *)
(* lock.  Monitoring stays switched on.                                    *)
(***************************************************************************)
EXTENDS Integers, FiniteSets

CONSTANTS
  Request,       \* requests of the mon-server the panel serves at once
  MaxEvents,     \* bound on transitions
  MaxTime,       \* bound on the clock
  MaxRestarts    \* bound on crashes and restarts of the panel

ASSUME BoundsAssumption == {MaxEvents, MaxTime, MaxRestarts} \subseteq Nat
ASSUME RequestAssumption == IsFiniteSet(Request)

VARIABLES
  up,            \* the mon-server runs
  emitted,       \* how many transitions it has recorded
  acked,         \* those it need not send again
  now,
  req,           \* where each request is
  feed,          \* mon_events
  target,        \* the row of mon_targets
  contact,       \* monContact.last
  contactSaved,  \* the setting monLastContact
  stale,         \* monStale.since while monStale.stale, 0 otherwise
  staleSaved,    \* the setting monStaleSince
  job,           \* where the minute job is
  ended,         \* history: how often the flag was cleared, by its start
  told,          \* how often the operator was told each thing
  restarts

monServer == <<up, emitted, acked, now>>
watch == <<contact, contactSaved, stale, staleSaved, ended>>
vars == <<monServer, req, feed, target, watch, job, told, restarts>>

Event == 1..MaxEvents
To(e) == IF e % 2 = 1 THEN "DOWN" ELSE "UP"
NoRow == [state |-> "", since |-> 0]
Idle == [at |-> "idle"]
News == ({"event"} \X Event) \cup ({"silent", "back"} \X (1..MaxTime))
Tell(items) == told' = [n \in News |-> told[n] + (IF n \in items THEN 1 ELSE 0)]

Init ==
  /\ up = TRUE /\ emitted = 0 /\ acked = {} /\ now = 1
  /\ req = [r \in Request |-> Idle]
  /\ feed = {} /\ target = NoRow
  /\ contact = 0 /\ contactSaved = 0 /\ stale = 0 /\ staleSaved = 0
  /\ ended = [s \in 1..MaxTime |-> 0]
  /\ job = Idle
  /\ told = [n \in News |-> 0]
  /\ restarts = 0

-----------------------------------------------------------------------------
(* The mon-server and the clock. *)

Transition ==
  /\ up /\ emitted < MaxEvents
  /\ emitted' = emitted + 1
  /\ UNCHANGED <<up, acked, now, req, feed, target, watch, job, told, restarts>>

\* Seeded bug: only the call that breaks a silence looks at the flag.
CallAtOnce(r, events, quiet) ==
  /\ up /\ req[r] = Idle
  /\ contact' = IF now > contact THEN now ELSE contact
  /\ contactSaved' = now
  /\ req' = [req EXCEPT ![r] = [at |-> IF now > contact THEN "touched" ELSE "apply",
                                events |-> events, quiet |-> quiet]]
  /\ UNCHANGED <<monServer, feed, target, stale, staleSaved, ended, job, told, restarts>>

\* checkMonAuth and the first half of TouchMonLastContact, for a POST /events
\* or, without events, for any other request.  "quiet" is notified=true: the
\* mon-server has told the operator itself.
Call(r, events, quiet) ==
  /\ up /\ req[r] = Idle
  /\ contact' = IF now > contact THEN now ELSE contact
  /\ contactSaved' = now
  /\ req' = [req EXCEPT ![r] = [at |-> "touched", events |-> events, quiet |-> quiet]]
  /\ UNCHANGED <<monServer, feed, target, stale, staleSaved, ended, job, told, restarts>>

\* It stops for good: the clock goes one further, so that it can be missed.
MonServerStops ==
  /\ up /\ up' = FALSE
  /\ UNCHANGED <<emitted, acked, now, req, feed, target, watch, job, told, restarts>>

Tick ==
  /\ now < MaxTime \/ (~up /\ now = MaxTime)
  /\ \A r \in Request : req[r].at # "touched"
  /\ now' = now + 1
  /\ UNCHANGED <<up, emitted, acked, req, feed, target, watch, job, told, restarts>>

-----------------------------------------------------------------------------
(* A request on the panel. *)

\* clearMonStale, endMonStale: whoever calls ends the silence.
EndStale(r) ==
  /\ req[r].at = "touched"
  /\ stale' = 0 /\ staleSaved' = 0
  /\ ended' = [s \in DOMAIN ended |-> ended[s] + (IF s = stale THEN 1 ELSE 0)]
  /\ req' = [req EXCEPT ![r] = IF stale = 0 THEN [@ EXCEPT !.at = "apply"]
                               ELSE [at |-> "back", events |-> @.events,
                                     quiet |-> @.quiet, since |-> stale]]
  /\ UNCHANGED <<monServer, feed, target, contact, contactSaved, job, told, restarts>>

NotifyBack(r) ==
  /\ req[r].at = "back"
  /\ Tell({<<"back", req[r].since>>})
  /\ req' = [req EXCEPT ![r] = [at |-> "apply", events |-> @.events, quiet |-> @.quiet]]
  /\ UNCHANGED <<monServer, feed, target, watch, job, restarts>>

\* Seeded bug: the event applied last wins, not the newest.
ApplyLast(row, e) == [state |-> To(e), since |-> e]

\* applyTargetEvent: an event older than the row stays in the feed only.
ApplyTarget(row, e) ==
  IF row # NoRow /\ e < row.since THEN row ELSE [state |-> To(e), since |-> e]

\* The loop of applyEvents over what it has not stored yet, by ts.
Applied(row, fresh) ==
  LET after[n \in 0..MaxEvents] ==
        IF n = 0 THEN row
        ELSE IF n \in fresh THEN ApplyTarget(after[n - 1], n)
        ELSE after[n - 1]
  IN  after[MaxEvents]

\* Seeded bug: what is sent again is told again.
ApplyEventsAgain(r) ==
  /\ req[r].at = "apply"
  /\ LET fresh == req[r].events \ feed
     IN  /\ feed' = feed \cup fresh
         /\ target' = Applied(target, fresh)
         /\ req' = [req EXCEPT ![r] = [at |-> "notify", events |-> @.events,
                                       pending |-> IF @.quiet THEN {} ELSE @.events]]
  /\ UNCHANGED <<monServer, watch, job, told, restarts>>

\* The transaction of applyEvents: each id once.
ApplyEvents(r) ==
  /\ req[r].at = "apply"
  /\ LET fresh == req[r].events \ feed
     IN  /\ feed' = feed \cup fresh
         /\ target' = Applied(target, fresh)
         /\ req' = [req EXCEPT ![r] = [at |-> "notify", events |-> @.events,
                                       pending |-> IF @.quiet THEN {} ELSE fresh]]
  /\ UNCHANGED <<monServer, watch, job, told, restarts>>

\* The transaction of upsertStats, for the target: it is known from its first
\* bucket, which began before its first transition.
UpsertStats(r) ==
  /\ req[r].at = "apply" /\ req[r].events = {}
  /\ target' = IF target = NoRow THEN [state |-> "UNKNOWN", since |-> 0] ELSE target
  /\ req' = [req EXCEPT ![r] = [at |-> "answer", events |-> {}]]
  /\ UNCHANGED <<monServer, feed, watch, job, told, restarts>>

\* NotifyMonitoringEvents: nothing is told, now or later, if the bot is off.
NotifyEvents(r) ==
  /\ req[r].at = "notify"
  /\ \/ Tell({<<"event", e>> : e \in req[r].pending})
     \/ req[r].pending # {} /\ UNCHANGED told
  /\ req' = [req EXCEPT ![r] = [at |-> "answer", events |-> @.events]]
  /\ UNCHANGED <<monServer, feed, target, watch, job, restarts>>

\* The answer arrives, or it is lost and the mon-server sends again.
Answer(r) ==
  /\ req[r].at = "answer"
  /\ acked' \in {acked, acked \cup req[r].events}
  /\ req' = [req EXCEPT ![r] = Idle]
  /\ UNCHANGED <<up, emitted, now, feed, target, watch, job, told, restarts>>

-----------------------------------------------------------------------------
(* The minute job: CheckMonStale reads the contact under one lock, settings *)
(* under none, and declares under another.                                  *)

CheckContact ==
  /\ job = Idle
  /\ contact # 0 /\ now > contact
  /\ job' = [at |-> "declare", last |-> contact]
  /\ UNCHANGED <<monServer, req, feed, target, watch, told, restarts>>

DeclareStale ==
  /\ job.at = "declare"
  /\ IF stale # 0
       THEN job' = Idle /\ UNCHANGED <<stale, staleSaved>>
       ELSE /\ stale' = job.last /\ staleSaved' = job.last
            /\ job' = [at |-> "tell", last |-> job.last]
  /\ UNCHANGED <<monServer, req, feed, target, contact, contactSaved, ended, told, restarts>>

NotifyStale ==
  /\ job.at = "tell"
  /\ Tell({<<"silent", job.last>>})
  /\ job' = Idle
  /\ UNCHANGED <<monServer, req, feed, target, watch, restarts>>

-----------------------------------------------------------------------------

\* A crash at any point: requests, the job and what they had still to tell are
\* lost; memory comes back from the settings (loadContactLocked,
\* loadStaleLocked).
Restart ==
  /\ restarts < MaxRestarts
  /\ restarts' = restarts + 1
  /\ req' = [r \in Request |-> Idle]
  /\ job' = Idle
  /\ contact' = contactSaved
  /\ stale' = staleSaved
  /\ UNCHANGED <<monServer, feed, target, contactSaved, staleSaved, ended, told>>

Unacked == (1..emitted) \ acked

Serve(r) ==
  EndStale(r) \/ NotifyBack(r) \/ ApplyEvents(r) \/ UpsertStats(r) \/ NotifyEvents(r) \/ Answer(r)

Next ==
  \/ Transition \/ MonServerStops \/ Tick
  \/ \E r \in Request, events \in SUBSET Unacked, quiet \in BOOLEAN :
       (quiet => events # {}) /\ Call(r, events, quiet)
  \/ \E r \in Request : Serve(r)
  \/ CheckContact \/ DeclareStale \/ NotifyStale
  \/ Restart

Spec == Init /\ [][Next]_vars

\* Clocks and timers run, requests are served, and the mon-server
\* calls, and sends each transition, again and again until it was answered.
Fairness ==
  /\ WF_vars(Tick)
  /\ \A r \in Request : WF_vars(Serve(r))
  /\ SF_vars(\E r \in Request : Call(r, {}, FALSE))
  /\ \A e \in Event :
       SF_vars(\E r \in Request, quiet \in BOOLEAN : e \in Unacked /\ Call(r, Unacked, quiet))
  /\ WF_vars(CheckContact) /\ WF_vars(DeclareStale) /\ WF_vars(NotifyStale)

FairSpec == Spec /\ Fairness

-----------------------------------------------------------------------------
(* Properties. *)

\* The row is where the newest stored transition put it, in whatever order and
\* however often transitions arrive (monitoring-contract.md section 4.6).
NewestStateWins ==
  \A e \in feed : target.since >= e /\ (target.since = e => target.state = To(e))

\* The operator is told of a transition at most once, however often it is sent;
\* of a silence not again while it lasts, a restart included; and of its end
\* only when it has ended.
ToldOnce ==
  /\ \A e \in Event : told[<<"event", e>>] <= 1
  /\ \A s \in 1..MaxTime :
       told[<<"silent", s>>] <= 1 + ended[s] /\ told[<<"back", s>>] <= ended[s]

\* What the panel shows becomes true: with a mon-server that stays, the state of
\* its last transition and no stale mark; with one that has called and is gone,
\* the mark.
PanelCatchesUp ==
  /\ []up => <>[](stale = 0 /\ (emitted > 0 => target.state = To(emitted)))
  /\ <>[](~up /\ contact # 0) => <>[](stale # 0)
=============================================================================
