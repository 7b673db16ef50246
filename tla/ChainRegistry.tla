---------------------------- MODULE ChainRegistry ---------------------------
(***************************************************************************)
(* The panel's chain registry as it runs: every write of ChainService      *)
(* (web/service/chain_service.go, chain_drain.go, chain_follow.go,         *)
(* chain_hooks.go), the join (chain_join.go) and the freshness a poll      *)
(* leaves behind (chain_wave.go).                                          *)
(*                                                                         *)
(* One action is one database transaction: SQLite runs on one connection,  *)
(* so transactions are serial, and what the code does in several (the      *)
(* sweep over departing hops, a poll and the sweep it triggers) is several *)
(* actions here.  A refused request changes nothing and is no action.      *)
(* Clocks are abstracted: a deadline passes when it likes.                 *)
(***************************************************************************)
EXTENDS ChainTable

CONSTANTS
  MaxRevision,   \* bound on chainRevision
  LegacyName,    \* the name an imported override gets: "legacy"
  LegacyAddr,    \* the hand-set override hosts a start may find (none: {})
  Ports,         \* port lists the panel's services add up to
  PortClash,     \* one in which two sources claim the same port
  Lag,           \* how far from the panel's revision a poll may report to be
  Inbound,       \* Reality inbounds
  Watched        \* the paths mon-clients report on

ASSUME BoundsAssumption == MaxRevision \in Nat /\ Lag \in Nat
ASSUME LegacyAssumption == LegacyName \in Name /\ LegacyAddr \subseteq Addr
ASSUME WatchedAssumption == Watched \subseteq Path

VARIABLES
  rows,         \* chain_hops: the table
  created,      \* ids handed out so far; the key is AUTOINCREMENT
  revision,     \* the setting chainRevision
  ports,        \* what ChainPortsService would compute
  follow,       \* the inbounds with follow_chain set
  cover,        \* per inbound, the neighbour its Reality settings imitate
  needRestart,  \* xray has to be restarted (XrayService, in memory)
  monTargets,   \* paths with rows in mon_targets
  sweep         \* departures the running sweep has still to look at

inboundVars == <<follow, cover, needRestart>>
vars == <<rows, created, revision, ports, follow, cover, needRestart,
          monTargets, sweep>>

TypeOK ==
  /\ created \in 0..MaxHops
  /\ DOMAIN rows \subseteq 1..created
  /\ rows \in [DOMAIN rows -> Row]
  /\ revision \in Nat
  /\ ports \in Ports
  /\ follow \subseteq Inbound
  /\ cover \in [Inbound -> Target \cup {NoTarget}]
  /\ needRestart \in BOOLEAN
  /\ monTargets \subseteq Watched
  /\ sweep \subseteq HopId

Init ==
  /\ rows = [h \in {} |-> Panel]
  /\ created = 0
  /\ revision = 0
  /\ ports \in Ports
  /\ follow \in SUBSET Inbound
  /\ cover = [i \in Inbound |-> NoTarget]
  /\ needRestart = FALSE
  /\ monTargets = {}
  /\ sweep = {}

-----------------------------------------------------------------------------
(* What the writes have in common. *)

\* Seeded bug: a write forgets the revision.
NoBump == revision < MaxRevision /\ UNCHANGED revision

\* The bound holds back owners and boxes, not the end of a departure: the
\* revision stays within MaxRevision + MaxHops.
Bump == revision < MaxRevision /\ revision' = revision + 1

\* Seeded bug: targets are only ever added.
KeepTargets(T, targets) == targets

\* pruneMonTargetsTx
Prune(T, targets) == targets \cap ProbedPaths(T)

\* deleteMonitoringByHopTx, for mon_targets
ForgetHop(h) ==
  monTargets \ ({HopPath(rows, h)} \cup (IF rows[h].active THEN {<<"proxy">>} ELSE {}))

\* Seeded bug: an inbound that imitates a neighbour already is left alone.
FollowOnce(t) ==
  /\ follow = {} \/ t # NoTarget
  /\ cover' = [i \in Inbound |-> IF i \in follow /\ cover[i] = NoTarget THEN t ELSE cover[i]]
  /\ needRestart' = (needRestart \/ cover' # cover)
  /\ UNCHANGED follow

\* followEdgeTx: every following inbound takes the edge's neighbour.
FollowEdge(t) ==
  /\ follow = {} \/ t # NoTarget
  /\ cover' = [i \in Inbound |-> IF i \in follow THEN t ELSE cover[i]]
  /\ needRestart' = (needRestart \/ cover' # cover)
  /\ UNCHANGED follow

\* Seeded bug: refuseIfDraining is not called.
AnyRow(h) == h \in DOMAIN rows

NotDraining(h) == h \in DOMAIN rows /\ rows[h].state # "draining"

-----------------------------------------------------------------------------
(* The owner's writes. *)

\* A new row, pending and with a live token, before the topology is restored.
NewRow(n, r, a, t, p) ==
  [name |-> n, role |-> r, addr |-> a, target |-> t, next |-> Panel,
   position |-> p, state |-> "pending", active |-> FALSE, token |-> TRUE,
   secret |-> 0, lastRevision |-> 0, drainRevision |-> 0, due |-> FALSE,
   drainOuter |-> {}, former |-> {}]

\* Seeded bug: departing rows do not move with the others.
MakeRoomAmongLive(p) ==
  [g \in DOMAIN rows |-> IF g \in LiveInners(rows) /\ rows[g].position >= p
                           THEN [rows[g] EXCEPT !.position = @ + 1] ELSE rows[g]]

\* The insertion point and everything outward of it make room for an inner.
MakeRoom(p) ==
  [g \in DOMAIN rows |-> IF rows[g].role = "inner" /\ rows[g].position >= p
                           THEN [rows[g] EXCEPT !.position = @ + 1] ELSE rows[g]]

\* Seeded bug: the key is not AUTOINCREMENT, and an id comes back.
AddReusingIds(n, r, a, t, p) ==
  /\ Cardinality(DOMAIN rows) < MaxHops
  /\ ~NameTaken(rows, n)
  /\ LET id == CHOOSE h \in HopId : h \notin DOMAIN rows
     IN  rows' = Reconcile([g \in DOMAIN rows \cup {id} |->
                              IF g = id THEN NewRow(n, r, a, t, p) ELSE rows[g]])
  /\ UNCHANGED <<created, revision, ports, inboundVars, monTargets, sweep>>

Add(n, r, a, t, p) ==
  /\ created < MaxHops
  /\ ~NameTaken(rows, n)
  /\ IF r = "inner" THEN p <= Cardinality(Inners(rows)) /\ t = NoTarget ELSE p = 0
  /\ LET shifted == IF r = "inner" THEN MakeRoom(p) ELSE rows
         table == [g \in DOMAIN rows \cup {created + 1} |->
                     IF g = created + 1 THEN NewRow(n, r, a, t, p) ELSE shifted[g]]
     IN  rows' = Reconcile(table)
  /\ created' = created + 1
  /\ UNCHANGED <<revision, ports, inboundVars, monTargets, sweep>>

Update(h, n, a, t) ==
  /\ NotDraining(h)
  /\ \A g \in DOMAIN rows \ {h} : rows[g].name # n
  /\ rows[h].role = "edge" \/ t = NoTarget
  /\ <<n, a, t>> # <<rows[h].name, rows[h].addr, rows[h].target>>
  /\ rows' = [rows EXCEPT ![h].name = n, ![h].addr = a, ![h].target = t]
  /\ IF t # rows[h].target /\ rows[h].active THEN FollowEdge(t) ELSE UNCHANGED inboundVars
  /\ monTargets' = Prune(rows', monTargets)
  /\ Bump
  /\ UNCHANGED <<created, ports, sweep>>

\* The active edge goes only by force, and only as the last entered edge.
DeleteAllowed(h, force) ==
  rows[h].active =>
    /\ force
    /\ \A g \in Edges(rows) \ {h} : rows[g].state \notin Entered

\* Seeded bug: what hung off the row is not re-chained.
DeleteLoosely(h, force, skipDrain) ==
  /\ h \in DOMAIN rows
  /\ rows[h].state = "draining" => skipDrain
  /\ DeleteAllowed(h, force)
  /\ LiveOuter(rows, h) = {} \/ skipDrain
  /\ rows' = Reconcile(Without(rows, h))
  /\ monTargets' = Prune(rows', ForgetHop(h))
  /\ Bump
  /\ UNCHANGED <<created, ports, inboundVars, sweep>>

\* Delete with nobody left to serve, or with skipDrain.
DeleteNow(h, force, skipDrain) ==
  /\ h \in DOMAIN rows
  /\ rows[h].state = "draining" => skipDrain
  /\ DeleteAllowed(h, force)
  /\ LiveOuter(rows, h) = {} \/ skipDrain
  /\ LET gone == Without(rows, h)
     IN  /\ monTargets' = Prune(gone, ForgetHop(h))
         /\ rows' = Reconcile(Rechain(gone, HangOff(gone, h), rows[h].next))
  /\ Bump
  /\ UNCHANGED <<created, ports, inboundVars, sweep>>

\* Delete with neighbours to serve (startDrainingTx): the row stays.
StartDraining(h, force) ==
  /\ NotDraining(h)
  /\ DeleteAllowed(h, force)
  /\ LET outer == LiveOuter(rows, h)
         departing == [rows EXCEPT ![h].state = "draining"]
         table == Reconcile(Rechain(departing, outer, rows[h].next))
     IN  /\ outer # {}
         /\ monTargets' = Prune(departing, monTargets)
         /\ rows' = [table EXCEPT ![h].drainRevision = revision + 1,
                                  ![h].due = FALSE,
                                  ![h].drainOuter = {rows[g].name : g \in outer},
                                  ![h].former = outer]
  /\ Bump
  /\ UNCHANGED <<created, ports, inboundVars, sweep>>

\* Seeded bug: the edge that was active stays so.
ActivateToo(h) ==
  /\ NotDraining(h)
  /\ rows[h].role = "edge" /\ rows[h].state \in Entered /\ ~rows[h].active
  /\ FollowEdge(rows[h].target)
  /\ rows' = [rows EXCEPT ![h].active = TRUE]
  /\ Bump
  /\ UNCHANGED <<created, ports, monTargets, sweep>>

SetActive(h) ==
  /\ NotDraining(h)
  /\ rows[h].role = "edge" /\ rows[h].state \in Entered /\ ~rows[h].active
  /\ FollowEdge(rows[h].target)
  /\ rows' = [g \in DOMAIN rows |-> [rows[g] EXCEPT !.active = (g = h)]]
  /\ Bump
  /\ UNCHANGED <<created, ports, monTargets, sweep>>

\* Seeded bug: switching the override off is taken to concern no box.
ClearQuietly ==
  /\ Actives(rows) # {} /\ revision < MaxRevision
  /\ rows' = [g \in DOMAIN rows |-> [rows[g] EXCEPT !.active = FALSE]]
  /\ UNCHANGED <<created, revision, ports, inboundVars, monTargets, sweep>>

ClearActive ==
  /\ Actives(rows) # {}
  /\ rows' = [g \in DOMAIN rows |-> [rows[g] EXCEPT !.active = FALSE]]
  /\ Bump
  /\ UNCHANGED <<created, ports, inboundVars, monTargets, sweep>>

ReissueToken(h) ==
  /\ NotDraining(h)
  /\ rows' = [rows EXCEPT ![h].token = TRUE, ![h].state = "pending"]
  /\ monTargets' = Prune(rows', monTargets)
  /\ UNCHANGED <<created, revision, ports, inboundVars, sweep>>

\* chainPortsChanged, after a write that may have changed the port list.
PortsChanged(p) ==
  /\ ports' = p
  /\ IF DOMAIN rows = {} \/ p = PortClash THEN UNCHANGED revision ELSE Bump
  /\ UNCHANGED <<rows, created, inboundVars, monTargets, sweep>>

-----------------------------------------------------------------------------
(* The boxes' writes. *)

\* Join and markJoinedTx: the token is spent, the box gets a fresh secret.
Join(h, a) ==
  /\ h \in DOMAIN rows
  /\ rows[h].token /\ rows[h].state = "pending"
  /\ LET entered == [rows EXCEPT ![h].state = "joined", ![h].addr = a,
                                 ![h].secret = @ + 1, ![h].token = FALSE]
     IN  rows' = Reconcile(entered)
  /\ monTargets' = Prune(rows', monTargets)
  /\ Bump
  /\ UNCHANGED <<created, ports, inboundVars, sweep>>

\* Seeded bug: a box is believed beyond the panel's own revision.
Believe(acks) ==
  [g \in DOMAIN rows |->
     LET heard == {k[2] : k \in {x \in acks : x[1] = rows[g].name}}
         newest == {r \in heard : r > rows[g].lastRevision /\ \A q \in heard : q <= r}
     IN  IF newest = {} THEN rows[g]
         ELSE [rows[g] EXCEPT !.lastRevision = CHOOSE r \in newest : TRUE]]

\* recordSeenTx, for every (name, revision) of acks: forward only, and never
\* ahead of the panel.
Acknowledge(acks) ==
  [g \in DOMAIN rows |->
     LET clamp(r) == IF r > revision THEN revision ELSE r
         heard == {clamp(k[2]) : k \in {x \in acks : x[1] = rows[g].name}}
         newest == {r \in heard : r > rows[g].lastRevision /\ \A q \in heard : q <= r}
     IN  IF newest = {} THEN rows[g]
         ELSE [rows[g] EXCEPT !.lastRevision = CHOOSE r \in newest : TRUE]]

\* A sweep lists the departing hops, unless one is running (drainSweep).
StartSweep(T) == IF sweep = {} THEN Rows(T, {"draining"}) ELSE sweep

\* RecordSeen: h is on revision "seen" and passes acks on.  An ack counts only
\* for a name h may speak for.  The sweep runs where confirmations land.
RecordSeen(h, seen, acks) ==
  /\ h \in DOMAIN rows
  /\ LET heard == {k \in acks : \E g \in Outward(rows, h) : rows[g].name = k[1]}
     IN  rows' = Acknowledge({<<rows[h].name, seen>>} \cup heard)
  /\ sweep' = StartSweep(rows')
  /\ UNCHANGED <<created, revision, ports, inboundVars, monTargets>>

\* The panel's document handle, for a hop it admits.
Poll(h, seen, acks) == h \in Authenticated(rows) /\ RecordSeen(h, seen, acks)

-----------------------------------------------------------------------------
(* Departures. *)

\* The 60-second ticker beside the sub server.
SweepTick ==
  /\ Rows(rows, {"draining"}) # {}
  /\ sweep' = StartSweep(rows)
  /\ UNCHANGED <<rows, created, revision, ports, inboundVars, monTargets>>

\* Seeded bug: the deadline is not looked at.
Confirmed(h) == Waiting(rows, h) = {}

Finished(h) == Waiting(rows, h) = {} \/ rows[h].due

\* finishDraining: the row and its secret go.  The revision moves only if the
\* hop it dialled is a hop.
FinishDraining(h) ==
  /\ h \in Rows(rows, {"draining"}) /\ Finished(h)
  /\ rows' = Reconcile(Without(rows, h))
  /\ monTargets' = ForgetHop(h)
  /\ revision' = IF rows[h].next \in DOMAIN rows THEN revision + 1 ELSE revision
  /\ UNCHANGED <<created, ports, inboundVars>>

\* One turn of the loop in SweepDraining; a row may have gone meanwhile.
SweepStep ==
  \E h \in sweep :
    /\ \A g \in sweep : h <= g
    /\ sweep' = sweep \ {h}
    /\ \/ FinishDraining(h)
       \/ /\ ~(h \in Rows(rows, {"draining"}) /\ Finished(h))
          /\ UNCHANGED <<rows, created, revision, ports, inboundVars, monTargets>>

-----------------------------------------------------------------------------
(* Time, restarts and monitoring. *)

DrainDeadline(h) ==
  /\ h \in Rows(rows, {"draining"}) /\ ~rows[h].due
  /\ rows' = [rows EXCEPT ![h].due = TRUE]
  /\ UNCHANGED <<created, revision, ports, inboundVars, monTargets, sweep>>

TokenExpires(h) ==
  /\ h \in DOMAIN rows /\ rows[h].token
  /\ rows' = [rows EXCEPT ![h].token = FALSE]
  /\ UNCHANGED <<created, revision, ports, inboundVars, monTargets, sweep>>

\* A crash or restart at any point: what is in memory is lost, xray starts
\* afresh, and MigrateLegacyOverride runs.
PanelRestart ==
  /\ sweep' = {}
  /\ needRestart' = FALSE
  /\ \/ /\ DOMAIN rows # {} \/ LegacyAddr = {}
        /\ UNCHANGED <<rows, created, revision, monTargets>>
     \/ /\ DOMAIN rows = {} /\ created < MaxHops
        /\ \E a \in LegacyAddr, enabled \in BOOLEAN :
             rows' = [h \in {created + 1} |->
                        [NewRow(LegacyName, "edge", a, NoTarget, 0)
                           EXCEPT !.state = "legacy", !.token = FALSE, !.active = enabled]]
        /\ created' = created + 1
        /\ monTargets' = Prune(rows', monTargets)
        /\ Bump
  /\ UNCHANGED <<ports, follow, cover>>

\* A mon-client's report is stored for any path it names (monitoring_ingest).
MonReport(p) ==
  /\ monTargets' = monTargets \cup {p}
  /\ UNCHANGED <<rows, created, revision, ports, inboundVars, sweep>>

-----------------------------------------------------------------------------

Owner ==
  \/ \E n \in Name, r \in Role, a \in Addr, t \in Target \cup {NoTarget}, p \in 0..MaxHops :
       Add(n, r, a, t, p)
  \/ \E h \in HopId, n \in Name, a \in Addr, t \in Target \cup {NoTarget} : Update(h, n, a, t)
  \/ \E h \in HopId, force, skipDrain \in BOOLEAN : DeleteNow(h, force, skipDrain)
  \/ \E h \in HopId, force \in BOOLEAN : StartDraining(h, force)
  \/ \E h \in HopId : SetActive(h)
  \/ ClearActive
  \/ \E h \in HopId : ReissueToken(h)
  \/ \E p \in Ports : PortsChanged(p)

\* What boxes and mon-clients may send.  A poll carries at most one ack, and
\* revisions up to Lag behind the panel's or beyond it (those are clamped).
Reported == {r \in (revision - Lag)..(revision + Lag) : r >= 0}

Boxes ==
  \/ \E h \in HopId, a \in Addr : Join(h, a)
  \/ \E h \in HopId, seen \in Reported : Poll(h, seen, {})
  \/ \E h \in HopId, n \in Name, seen \in Reported : Poll(h, revision, {<<n, seen>>})
  \/ \E p \in Watched : MonReport(p)

Clock ==
  \/ SweepTick
  \/ SweepStep
  \/ \E h \in HopId : DrainDeadline(h)
  \/ \E h \in HopId : TokenExpires(h)
  \/ PanelRestart

Next == Owner \/ Boxes \/ Clock

Spec == Init /\ [][Next]_vars

\* The ticker runs, the loop of a sweep runs on, and a deadline comes.
Fairness ==
  /\ WF_vars(SweepTick)
  /\ WF_vars(SweepStep)
  /\ \A h \in HopId : WF_vars(DrainDeadline(h))

FairSpec == Spec /\ Fairness

-----------------------------------------------------------------------------
(* What the registry promises in every state. *)

\* The live inner fronts are one path: positions without gaps, each hop
\* dialling the one before it (invariant 3 of the chain specification).
OnePath ==
  LET live == LiveInners(rows)
  IN  /\ {rows[h].position : h \in live} = 0..(Cardinality(live) - 1)
      /\ \A h \in live :
           IF rows[h].position = 0 THEN rows[h].next = Panel
           ELSE rows[h].next \in live /\ rows[rows[h].next].position = rows[h].position - 1

\* No row, live or departing, hangs off an edge, a departing hop, itself or a
\* row that is gone (invariant 7).
NextHopsAreLive ==
  \A h \in DOMAIN rows :
    rows[h].next # Panel => rows[h].next \in LiveInners(rows) \ {h}

\* Every next hop lies inward of its row, so walking next_hop_id ends at the
\* panel (invariant 5).
NextHopsLeadInward ==
  \A h \in DOMAIN rows :
    rows[h].next \in DOMAIN rows => Before(rows, rows[h].next, h)

\* At most one active hop, an edge that is not departing: ActiveEdgeHost takes
\* whichever row it finds first (invariant 1).
OneActiveEdge ==
  /\ \A g, h \in Actives(rows) : g = h
  /\ \A h \in Actives(rows) : rows[h].role = "edge" /\ rows[h].state # "draining"

\* The hop a document tells h to dial lists h in its own document, so it holds
\* the secret h will present and may speak for h and for all h speaks for.
NextHopKnowsCaller ==
  \A h \in DOMAIN rows :
    Visible(rows, h) /\ Dialled(rows, h) # Panel =>
      {h} \cup Outward(rows, h) \subseteq Outward(rows, Dialled(rows, h))

\* No hop has confirmed a revision the panel has not reached, and a departure
\* waits for a revision that exists (the clamp in RecordSeen).
ConfirmedRevisionsExist ==
  \A h \in DOMAIN rows :
    rows[h].lastRevision <= revision /\ rows[h].drainRevision <= revision

\* Every following inbound imitates the active edge's neighbour, unless that
\* edge has none (ADR 0005).
FollowersMatchActiveEdge ==
  \A h \in Actives(rows), i \in follow :
    rows[h].target # NoTarget => cover[i] = rows[h].target

-----------------------------------------------------------------------------
(* What a step may never do. *)

\* When the set of probed paths changes, the same write drops the targets that
\* are no longer in it (pruneMonTargetsTx).
TargetsFollowProbedPaths ==
  [][ProbedPaths(rows') # ProbedPaths(rows) => monTargets' \subseteq ProbedPaths(rows')]_vars

\* A box is asked to admit a secret it did not admit before only by a new
\* revision: the wave would not carry it otherwise.
NewSecretMovesRevision ==
  [][revision' = revision =>
       \A h \in Inners(rows) \cap DOMAIN rows' :
         Visible(rows, h) /\ Visible(rows', h) =>
           LET known == Outward(rows, h)
           IN  \A g \in Outward(rows', h) :
                 rows'[g].secret # 0 => g \in known /\ rows[g].secret = rows'[g].secret]_vars

\* While no hop departs or is let in again, documents change with the revision
\* only; every box would answer 304 for the old one otherwise.  A port clash
\* leaves no document at all.
Quiet(T) == \A h \in DOMAIN T : T[h].state # "draining" /\ (T[h].state = "pending" => T[h].secret = 0)

DocumentsChangeWithRevision ==
  [][(/\ revision' = revision
      /\ Quiet(rows) /\ Rows(rows, Entered) \subseteq Rows(rows', Entered)
      /\ PortClash \notin {ports, ports'})
       => \A h \in DOMAIN rows :
            Visible(rows, h) => Document(rows', ports', h) = Document(rows, ports, h)]_vars

-----------------------------------------------------------------------------
(* The registry as its hops and its owner see it. *)

LifeOf(h) ==
  IF h \notin DOMAIN rows THEN IF h > created THEN "none" ELSE "gone"
  ELSE CASE rows[h].state = "pending" -> "invited"
         [] rows[h].state = "draining" -> "leaving"
         [] OTHER -> "entered"

Promise == INSTANCE ChainPromise WITH
  Hop <- HopId,
  life <- [h \in HopId |-> LifeOf(h)],
  edges <- Edges(rows),
  known <- [h \in HopId |-> IF h \in DOMAIN rows THEN {Entry(rows, h)} ELSE {}],
  seen <- [h \in HopId |-> IF h \in DOMAIN rows THEN rows[h].lastRevision ELSE 0],
  active <- Actives(rows)

\* The table keeps the promise of ChainPromise: ids are never used again,
\* freshness never goes back, a departing hop stays what it is known as until
\* its row goes, and the override is lost only with the last entered edge or
\* by the owner's word (invariants 1, 2 and 8 of the chain specification).
KeepsPromise == Promise!Spec

-----------------------------------------------------------------------------
(* What must happen. *)

\* From some point on no restart cuts a sweep short.
SweepsRunOn == <>[][sweep # {} /\ sweep' = {} => SweepStep]_vars

\* A departure ends, with or without its neighbours, if the panel is left
\* running: nothing the owner or a box does can hold the row for ever.
DepartureEnds ==
  SweepsRunOn => \A h \in HopId : h \in Rows(rows, {"draining"}) ~> h \notin DOMAIN rows
=============================================================================
