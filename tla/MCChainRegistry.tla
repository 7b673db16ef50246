-------------------------- MODULE MCChainRegistry --------------------------
(* ChainRegistry on small instances: from an empty registry, and from a     *)
(* chain that has been built and has settled.                               *)
EXTENDS ChainRegistry

CONSTANTS n1, n2, n3, n4, a1

\* What mon-clients report on: a path that comes and goes with hop n1.
MCPaths == {<<"edge", n1>>}

-----------------------------------------------------------------------------
(* The chain panel <- inners <- edges after every hop joined once and       *)
(* confirmed the last revision: what Add, Join and a poll of each reach.    *)

NameOf == <<n1, n2, n3, n4>>

SettledRow(h, inners, hops) ==
  [NewRow(NameOf[h], IF h <= inners THEN "inner" ELSE "edge", a1, NoTarget,
          IF h <= inners THEN h - 1 ELSE 0)
     EXCEPT !.state = "joined", !.token = FALSE, !.secret = 1, !.lastRevision = hops]

SettledInit(inners, edges) ==
  LET hops == inners + edges
      joined == [h \in 1..hops |-> SettledRow(h, inners, hops)]
  IN  /\ \E targets \in [inners + 1 .. hops -> IF Target = {} THEN {NoTarget} ELSE Target] :
           rows = Reconcile([h \in 1..hops |-> IF h <= inners THEN joined[h]
                                               ELSE [joined[h] EXCEPT !.target = targets[h]]])
      /\ created = hops
      /\ revision = hops
      /\ ports \in Ports
      /\ follow = Inbound
      /\ cover = [i \in Inbound |-> NoTarget]
      /\ needRestart = FALSE
      /\ monTargets = {}
      /\ sweep = {}

\* Tokens do not expire here and nobody reports to the monitoring: Registry has
\* both, and no property of these runs depends on either.
SettledNext ==
  \/ Owner
  \/ \E h \in HopId, a \in Addr : Join(h, a)
  \/ \E h \in HopId, seen \in Reported : Poll(h, seen, {})
  \/ \E h \in HopId, n \in Name, seen \in Reported : Poll(h, revision, {<<n, seen>>})
  \/ SweepTick \/ SweepStep \/ PanelRestart
  \/ \E h \in HopId : DrainDeadline(h)

\* Two inners and an edge, or three inners.
SettledSpec ==
  (SettledInit(2, 1) \/ SettledInit(3, 0)) /\ [][SettledNext]_vars /\ Fairness

\* Bound: boxes are heard only while a departure waits for them; nothing else
\* these properties speak of depends on what was confirmed.
HeardInDepartures ==
  \A h \in DOMAIN rows \cap DOMAIN rows' :
    rows'[h].lastRevision = rows[h].lastRevision
      \/ \E d \in Rows(rows, {"draining"}) : rows[h].name \in rows[d].drainOuter
=============================================================================
