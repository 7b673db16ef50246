----------------------------- MODULE MCChainWave -----------------------------
(* ChainWave on small chains that have been built and have settled: every box *)
(* is up, polls the hop the registry gave it and has the last revision.       *)
EXTENDS ChainWave

CONSTANTS n1, n2, n3, n4, a1

NameOf == <<n1, n2, n3, n4>>

SettledRow(h, inners, hops) ==
  [NewRow(NameOf[h], IF h <= inners THEN "inner" ELSE "edge", a1, NoTarget,
          IF h <= inners THEN h - 1 ELSE 0)
     EXCEPT !.state = "joined", !.token = FALSE, !.secret = 1, !.lastRevision = hops]

SettledBox(h) ==
  [secret |-> 1, dial |-> rows[h].next, doc |-> PanelDocument(rows, revision, h)]

EmptyBox == [secret |-> 0, dial |-> Panel, doc |-> NoDoc]

SettledWave(inners, edges) ==
  LET hops == inners + edges
  IN  /\ rows = Reconcile([h \in 1..hops |-> SettledRow(h, inners, hops)])
      /\ created = hops
      /\ revision = hops
      /\ ports \in Ports
      /\ follow = {} /\ cover = [i \in Inbound |-> NoTarget] /\ needRestart = FALSE
      /\ monTargets = {}
      /\ sweep = {}
      /\ disk = [h \in HopId |-> IF h <= hops THEN SettledBox(h) ELSE EmptyBox]
      /\ up = [h \in HopId |-> h <= hops]
      /\ config = [h \in HopId |-> [secret |-> disk[h].secret, dial |-> disk[h].dial]]
      /\ doc = [h \in HopId |-> disk[h].doc]
      /\ outer = [h \in HopId |-> Silent]
      /\ reply = [h \in HopId |-> NoReply]

\* The owner takes hops out and changes ports.
DepartNext ==
  \/ /\ UNCHANGED boxVars
     /\ \/ \E h \in HopId : StartDraining(h, FALSE) \/ DrainDeadline(h)
        \/ \E h \in HopId : DeleteNow(h, FALSE, FALSE)
        \/ \E p \in Ports : PortsChanged(p)
        \/ SweepTick \/ SweepStep
  \/ Polls \/ Processes

\* The owner adds hops and lets boxes in again, one box on its way in at a time.
EnterNext ==
  \/ /\ UNCHANGED boxVars
     /\ Rows(rows, {"pending"}) = {}
     /\ \/ \E r \in Role, p \in 0..1 :
             Add(NameOf[Cardinality(DOMAIN rows) + 1], r, a1, NoTarget, p)
        \/ \E h \in HopId : ReissueToken(h)
  \/ Polls \/ Joins \/ Processes

\* The owner changes what documents say, and the chain stays as it is.
QuietNext ==
  \/ /\ UNCHANGED boxVars
     /\ \/ \E h \in HopId : SetActive(h)
        \/ ClearActive
        \/ \E p \in Ports : PortsChanged(p)
  \/ Polls \/ Processes

\* Bound: a box polls for a document it does not have.  Any other poll changes
\* nothing but what is confirmed, and nothing of EnterNext depends on that.
PollsForNews ==
  /\ outer' # outer => reply' # reply
  /\ \A h \in HopId : reply[h] = NoReply /\ reply'[h] \in Asked => Revision(doc[h]) # revision

DepartSpec == SettledWave(2, 1) /\ [][DepartNext]_waveVars
EnterSpec == SettledWave(1, 1) /\ [][EnterNext]_waveVars
QuietSpec == SettledWave(1, 1) /\ [][QuietNext]_waveVars /\ BoxFairness
=============================================================================
