----------------------------- MODULE ChainTable -----------------------------
(***************************************************************************)
(* The chain registry as a table, and the pure functions the panel applies *)
(* to it: the sweep that restores the topology after every write           *)
(* (web/service/chain_service.go), the document each hop is shown          *)
(* (web/service/chain_document.go), the two lists a poll is checked        *)
(* against (web/service/chain_wave.go) and the paths that are monitored    *)
(* (web/service/monitoring_chain.go).  A table maps the ids of the rows    *)
(* that exist to the rows.                                                 *)
(***************************************************************************)
EXTENDS Integers, FiniteSets

CONSTANTS
  MaxHops,    \* how many rows are ever created; ids are 1..MaxHops
  Name,       \* hop names
  Addr,       \* a host with its sub port and scheme: what a hop is dialled at
  Target,     \* neighbour sites an edge's Reality inbounds may imitate
  NoTarget    \* an empty realityTarget

ASSUME MaxHopsAssumption == MaxHops \in Nat
ASSUME NoTargetAssumption == NoTarget \notin Target

HopId == 1..MaxHops
Panel == 0                    \* a nil next_hop_id: the next hop is the panel
NextHop == HopId \cup {Panel}

Role == {"inner", "edge"}
State == {"pending", "joined", "legacy", "draining"}
Entered == {"joined", "legacy"}      \* what has confirmed its place

(***************************************************************************)
(* A row of chain_hops.  "secret" stands for the hop secret's hash: 0 is   *)
(* an empty one, k the secret of the k-th registration of this row.        *)
(* "token" is whether its join token can still be spent, "due" whether     *)
(* drain_until has passed.  "former" is a history field no row of the code *)
(* has: the ids behind the names in drain_outer.                           *)
(***************************************************************************)
Row == [name : Name, role : Role, addr : Addr, target : Target \cup {NoTarget},
        next : NextHop, position : Nat, state : State, active : BOOLEAN,
        token : BOOLEAN, secret : Nat, lastRevision : Nat,
        drainRevision : Nat, due : BOOLEAN, drainOuter : SUBSET Name,
        former : SUBSET HopId]

Rows(T, states) == {h \in DOMAIN T : T[h].state \in states}
Inners(T) == {h \in DOMAIN T : T[h].role = "inner"}
Edges(T) == {h \in DOMAIN T : T[h].role = "edge"}
LiveInners(T) == Inners(T) \ Rows(T, {"draining"})
NameTaken(T, n) == \E h \in DOMAIN T : T[h].name = n
Actives(T) == {h \in DOMAIN T : T[h].active}
Without(T, h) == [g \in DOMAIN T \ {h} |-> T[g]]

-----------------------------------------------------------------------------
(* Order and topology. *)

\* innerHops: ORDER BY position, id.
PathBefore(T, g, h) ==
  \/ T[g].position < T[h].position
  \/ T[g].position = T[h].position /\ g < h

\* The last hop of S along that order, or the panel if S is empty.
Outermost(T, S) ==
  LET last == {h \in S : \A g \in S : g = h \/ PathBefore(T, g, h)}
  IN  IF last = {} THEN Panel ELSE CHOOSE h \in last : TRUE

\* Seeded bug: departing rows stay in the live path.
DepartingBefore(T, h) == {g \in Inners(T) : PathBefore(T, g, h)}
LiveBefore(T, h) == {g \in LiveInners(T) : PathBefore(T, g, h)}
EnteredInners(T) == {h \in LiveInners(T) : T[h].state \in Entered}

\* reconcileTopology: live inners become one gapless path, every live edge
\* hangs off the last inner that entered, a draining row is left as it is.
Reconcile(T) ==
  [h \in DOMAIN T |->
     IF T[h].state = "draining" THEN T[h]
     ELSE IF T[h].role = "edge"
       THEN [T[h] EXCEPT !.next = Outermost(T, EnteredInners(T))]
       ELSE [T[h] EXCEPT !.position = Cardinality(LiveBefore(T, h)),
                         !.next = Outermost(T, LiveBefore(T, h))]]

\* The rows that hang off h take another next hop in its place.
Rechain(T, S, n) == [g \in DOMAIN T |-> IF g \in S THEN [T[g] EXCEPT !.next = n] ELSE T[g]]
HangOff(T, h) == {g \in DOMAIN T : T[g].next = h}

\* A hop takes part in documents unless it was created and never entered.
Visible(T, h) == T[h].state # "pending" \/ T[h].secret # 0

\* liveOuterNeighbours: who still hangs off h and has a box to serve.
LiveOuter(T, h) == {g \in HangOff(T, h) : Visible(T, g)}

\* orderedHops: inners by position, a departing one first, then the edges.
Before(T, g, h) ==
  IF T[g].role # T[h].role THEN T[g].role = "inner"
  ELSE \/ T[g].position < T[h].position
       \/ /\ T[g].position = T[h].position
          /\ LET departing(i) == T[i].state = "draining"
             IN  IF departing(g) = departing(h) THEN g < h ELSE departing(g)

-----------------------------------------------------------------------------
(* Documents and the checks on a poll. *)

\* nextHopOf: inward past rows no box stands behind and past departing ones.
Dialled(T, h) ==
  LET walk[i \in NextHop] ==
        IF i = Panel \/ i \notin DOMAIN T THEN Panel
        ELSE IF Visible(T, i) /\ T[i].state # "draining" THEN i
        ELSE walk[T[i].next]
  IN  walk[T[h].next]

\* Seeded bug: a departing or re-entering hop is struck off the list at once.
OutwardEntered(T, h) ==
  IF T[h].role = "edge" THEN {} ELSE {g \in Rows(T, Entered) : Before(T, h, g)}

\* outwardOf: whom h may speak for; hops[] of its document is h and these.
Outward(T, h) ==
  IF T[h].role = "edge" THEN {}
  ELSE {g \in DOMAIN T : Visible(T, g) /\ Before(T, h, g)}

ActiveEdgeName(T) == {T[h].name : h \in {g \in Edges(T) : T[g].active /\ Visible(T, g)}}

\* One entry of hops[]: what its holder needs to admit and relay for g.
Entry(T, g) == [name |-> T[g].name, role |-> T[g].role, addr |-> T[g].addr,
                secret |-> <<g, T[g].secret>>, state |-> T[g].state,
                target |-> T[g].target]

\* The document the panel builds for a visible hop, without its revision.
Document(T, ports, h) ==
  [self |-> Entry(T, h),
   nextHop |-> IF Dialled(T, h) = Panel THEN {} ELSE {T[Dialled(T, h)].addr},
   activeEdge |-> IF T[h].role = "inner" \/ T[h].active THEN ActiveEdgeName(T) ELSE {},
   hops |-> {Entry(T, g) : g \in {h} \cup Outward(T, h)},
   ports |-> ports]

\* AuthenticateHop: the rows whose secret opens the panel's chain endpoint.
Authenticated(T) ==
  {h \in DOMAIN T : /\ T[h].next = Panel
                    /\ T[h].secret # 0
                    /\ T[h].state \in Entered \cup {"draining"}}

-----------------------------------------------------------------------------
(* Departures and monitoring. *)

\* Seeded bug: off by one, the revision before the departure is enough.
WaitingForLast(T, h) ==
  {n \in T[h].drainOuter :
     \E g \in DOMAIN T : T[g].name = n /\ T[g].lastRevision + 1 < T[h].drainRevision}

\* drainWaiting: names of drain_outer still in the table and still behind.
Waiting(T, h) ==
  {n \in T[h].drainOuter :
     \E g \in DOMAIN T : T[g].name = n /\ T[g].lastRevision < T[h].drainRevision}

Path == {<<"direct">>, <<"proxy">>} \cup (Role \X Name)
HopPath(T, h) == <<T[h].role, T[h].name>>

\* monProbedPaths: direct, and a path per hop that is in, or proxy if none is.
ProbedPaths(T) ==
  {<<"direct">>} \cup
  (IF Rows(T, Entered) = {} THEN {<<"proxy">>}
   ELSE {HopPath(T, h) : h \in Rows(T, Entered)})
=============================================================================
