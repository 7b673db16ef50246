------------------------------ MODULE ChainWave ------------------------------
(***************************************************************************)
(* The wave: the boxes of a chain polling their next hops for documents    *)
(* (package proxy) beside the panel's registry, which ChainRegistry models *)
(* and this module extends.  What a Poll and a Join of the registry leave  *)
(* open is settled here: who may ask, what was read when the answer was    *)
(* built, which acks travel, and what a lost answer or a crash leaves.     *)
(*                                                                         *)
(* One box per row: a box that joins again keeps its machine.  A box's     *)
(* address is the id of its row, so hosts never change here.               *)
(***************************************************************************)
EXTENDS ChainRegistry, Sequences, Functions

CONSTANTS
  NoDoc,      \* no document yet
  NoReply,    \* no poll in flight
  Failing,    \* boxes whose process may stop at any time
  Lossy,      \* boxes whose polls may fail or lose their answer
  Forgetful   \* boxes whose document.json may fail to be written

ASSUME BoxesAssumption == Failing \cup Lossy \cup Forgetful \subseteq HopId

VARIABLES
  up,       \* the process runs
  config,   \* its hop secret (0: none, the box is in bootstrap) and next hop
  doc,      \* State.doc: the document in force
  outer,    \* State.outer: the revision last heard from each name, 0 if none
  disk,     \* proxy.json and document.json
  reply     \* the poll in flight

boxVars == <<up, config, doc, outer, disk, reply>>
waveVars == <<vars, boxVars>>

Config == [secret : Nat, dial : NextHop]
WireHop == [name : Name, role : Role, secret : HopId \X Nat, state : State]
Doc == [revision : Nat, name : Name, state : State, nextHop : NextHop, hops : Seq(WireHop)]

\* A poll the panel is answering, and an answer on its way back.
Asked == [name : Name, revision : Nat, seen : Nat, acks : [Name -> Nat]]

ASSUME NothingAssumption == NoDoc \notin Doc /\ NoReply \notin Asked \cup Doc

WaveTypeOK ==
  /\ TypeOK
  /\ up \in [HopId -> BOOLEAN]
  /\ config \in [HopId -> Config]
  /\ doc \in [HopId -> Doc \cup {NoDoc}]
  /\ outer \in [HopId -> [Name -> Nat]]
  /\ disk \in [HopId -> [secret : Nat, dial : NextHop, doc : Doc \cup {NoDoc}]]
  /\ reply \in [HopId -> Asked \cup Doc \cup {NoReply}]

Silent == [n \in Name |-> 0]

WaveInit ==
  /\ Init
  /\ up = [h \in HopId |-> FALSE]
  /\ config = [h \in HopId |-> [secret |-> 0, dial |-> Panel]]
  /\ doc = [h \in HopId |-> NoDoc]
  /\ outer = [h \in HopId |-> Silent]
  /\ disk = [h \in HopId |-> [secret |-> 0, dial |-> Panel, doc |-> NoDoc]]
  /\ reply = [h \in HopId |-> NoReply]

Revision(d) == IF d = NoDoc THEN 0 ELSE d.revision
Joined(h) == up[h] /\ config[h].secret # 0

-----------------------------------------------------------------------------
(* Documents. *)

\* What the panel builds for h from table T, under a revision read earlier.
PanelDocument(T, r, h) ==
  LET wire(g) == [name |-> T[g].name, role |-> T[g].role, secret |-> <<g, T[g].secret>>,
                  state |-> T[g].state]
      shown == {h} \cup Outward(T, h)
      rank(g) == Cardinality({i \in shown : i = g \/ Before(T, i, g)})
  IN  [revision |-> r, name |-> T[h].name, state |-> T[h].state, nextHop |-> Dialled(T, h),
       hops |-> [k \in 1..Cardinality(shown) |->
                   wire(CHOOSE g \in shown : rank(g) = k)]]

\* Seeded bug: a departing box goes on naming itself.
TruncateToSelf(d, s, e) ==
  LET from == {k \in DOMAIN d.hops : d.hops[k].name = e.name}
  IN  [revision |-> d.revision, name |-> e.name, state |-> e.state, nextHop |-> s,
       hops |-> IF e.role = "edge" \/ from = {} THEN <<e>>
                ELSE SubSeq(d.hops, CHOOSE k \in from : TRUE, Len(d.hops))]

\* Seeded bug: the list of hops is handed on as it is.
HandOn(d, s, e) ==
  [revision |-> d.revision, name |-> e.name, state |-> e.state,
   nextHop |-> IF d.state = "draining" THEN d.nextHop ELSE s, hops |-> d.hops]

\* TruncateDocument: what box s, on document d, hands the neighbour listed as e.
TruncateDocument(d, s, e) ==
  LET from == {k \in DOMAIN d.hops : d.hops[k].name = e.name}
      suffix == IF from = {} THEN <<>>
                ELSE SubSeq(d.hops, CHOOSE k \in from : \A i \in from : k <= i, Len(d.hops))
  IN  [revision |-> d.revision, name |-> e.name, state |-> e.state,
       nextHop |-> IF d.state = "draining" THEN d.nextHop ELSE s,
       hops |-> IF e.role = "edge" THEN <<e>> ELSE suffix]

\* outerNeighbour: the entry a presented secret belongs to, as a set.
OuterNeighbour(d, h) ==
  IF d = NoDoc THEN {}
  ELSE {e \in Range(d.hops) : e.name # d.name /\ e.secret = <<h, config[h].secret>>}

\* documentDiffers: whether anything a box acts on changed.
Secrets(d) == {<<e.name, e.secret>> : e \in Range(d.hops)}
Differs(c, d) ==
  \/ c.nextHop # d.nextHop \/ c.name # d.name \/ c.state # d.state
  \/ Secrets(c) # Secrets(d)

\* RecordOuter: the clocks that stamped two acks for a name belong to different
\* boxes, so either may win.
Recorded(held, acks, won) == [n \in Name |-> IF n \in won THEN acks[n] ELSE held[n]]

-----------------------------------------------------------------------------
(* A poll.  PollOnce has one in flight. *)

\* The panel admits the caller and reads the revision, before the rows.
PollPanel(h) ==
  /\ Joined(h) /\ reply[h] = NoReply /\ config[h].dial = Panel
  /\ h \in Authenticated(rows) /\ rows[h].secret = config[h].secret
  /\ reply' = [reply EXCEPT ![h] = [name |-> rows[h].name, revision |-> revision,
                                    seen |-> Revision(doc[h]), acks |-> outer[h]]]
  /\ UNCHANGED <<vars, up, config, doc, outer, disk>>

\* Seeded bug: the box is credited with the revision it is being handed.
PanelAnswersInAdvance(h) ==
  /\ reply[h] \in Asked
  /\ \E g \in DOMAIN rows :
       /\ rows[g].name = reply[h].name /\ Visible(rows, g)
       /\ RecordSeen(g, reply[h].revision, {<<n, reply[h].acks[n]>> : n \in Name})
       /\ reply' = [reply EXCEPT ![h] = PanelDocument(rows, @.revision, g)]
  /\ UNCHANGED <<up, config, doc, outer, disk>>

\* The panel reads the rows, builds the document, records the acks and sweeps;
\* a box that has this revision gets 304, a name that has gone gets 404.
PanelAnswers(h) ==
  /\ reply[h] \in Asked
  /\ LET asked == reply[h]
         named == {g \in DOMAIN rows : rows[g].name = asked.name /\ Visible(rows, g)}
     IN  IF named = {}
           THEN /\ reply' = [reply EXCEPT ![h] = NoReply]
                /\ UNCHANGED vars
           ELSE \E g \in named :
                  /\ RecordSeen(g, asked.seen, {<<n, asked.acks[n]>> : n \in Name})
                  /\ reply' = [reply EXCEPT ![h] =
                       IF asked.seen = asked.revision THEN NoReply
                       ELSE PanelDocument(rows, asked.revision, g)]
  /\ UNCHANGED <<up, config, doc, outer, disk>>

\* handleDocument: box s serves its outer neighbour h out of its own document.
PollBox(h, s) ==
  /\ Joined(h) /\ reply[h] = NoReply /\ config[h].dial = s
  /\ up[s]
  /\ \E e \in OuterNeighbour(doc[s], h) :
       /\ \E won \in SUBSET {n \in Name : outer[h][n] \notin {0, outer[s][n]} /\ n # e.name} :
            outer' = [outer EXCEPT ![s] =
              [Recorded(@, outer[h], won) EXCEPT ![e.name] = Revision(doc[h])]]
       /\ reply' = [reply EXCEPT ![h] =
            IF Revision(doc[h]) = doc[s].revision THEN NoReply
            ELSE TruncateDocument(doc[s], s, e)]
  /\ UNCHANGED <<vars, up, config, doc, disk>>

\* Seeded bug: an answer is applied before it is complete.
ReceiveEarly(h) ==
  /\ reply[h] # NoReply
  /\ reply' = [reply EXCEPT ![h] = NoReply]
  /\ doc' = [doc EXCEPT ![h] = reply[h]]
  /\ disk' = [disk EXCEPT ![h].doc = reply[h]]
  /\ UNCHANGED <<vars, up, config, outer>>

\* Seeded bug: a new revision that changes nothing the box acts on is dropped.
ReceiveChanges(h) ==
  /\ reply[h] \in Doc
  /\ reply' = [reply EXCEPT ![h] = NoReply]
  /\ IF doc[h] # NoDoc /\ ~Differs(doc[h], reply[h]) THEN UNCHANGED <<doc, disk>>
       ELSE /\ doc' = [doc EXCEPT ![h] = reply[h]]
            /\ disk' = [disk EXCEPT ![h].doc = reply[h]]
  /\ UNCHANGED <<vars, up, config, outer>>

\* Seeded bug: the document is written only when the relay changes.
SaveNextHop(h) ==
  /\ reply[h] \in Doc
  /\ reply' = [reply EXCEPT ![h] = NoReply]
  /\ doc' = [doc EXCEPT ![h] = reply[h]]
  /\ IF disk[h].doc # NoDoc /\ disk[h].doc.nextHop = reply[h].nextHop THEN UNCHANGED disk
       ELSE disk' = [disk EXCEPT ![h].doc = reply[h]]
  /\ UNCHANGED <<vars, up, config, outer>>

\* Apply: the document is saved, or not, and in force either way.
Receive(h) ==
  /\ reply[h] \in Doc
  /\ reply' = [reply EXCEPT ![h] = NoReply]
  /\ IF doc[h] # NoDoc /\ Revision(doc[h]) = reply[h].revision /\ ~Differs(doc[h], reply[h])
       THEN UNCHANGED <<doc, disk>>
       ELSE /\ doc' = [doc EXCEPT ![h] = reply[h]]
            /\ \/ disk' = [disk EXCEPT ![h].doc = reply[h]]
               \/ h \in Forgetful /\ UNCHANGED disk
  /\ UNCHANGED <<vars, up, config, outer>>

\* A timeout, a broken connection, an answer that does not parse.
Lose(h) ==
  /\ h \in Lossy /\ reply[h] # NoReply
  /\ reply' = [reply EXCEPT ![h] = NoReply]
  /\ UNCHANGED <<vars, up, config, doc, outer, disk>>

-----------------------------------------------------------------------------
(* Joining.  A join travels inward through every box's own next hop. *)

\* Whoever forwards a request to the panel within k steps (16 in the code, more
\* than there are hops here).
Forwards[k \in 0..MaxHops] ==
  IF k = 0 THEN {Panel}
  ELSE LET nearer == Forwards[k - 1]
       IN  nearer \cup {s \in HopId : Joined(s) /\ config[s].dial \in nearer}

\* Accept: what a box that joined as h through d writes.  The secret is on disk
\* before the document, which may fail to be written.
Accepted(h, d) ==
  \E d0 \in {disk[h].doc, PanelDocument(rows', revision', h)} :
    /\ d0 = disk[h].doc => h \in Forgetful
    /\ disk' = [disk EXCEPT ![h] = [secret |-> rows'[h].secret, dial |-> d, doc |-> d0]]

\* The join page of a box in bootstrap.
JoinPage(h, d, a) ==
  /\ up[h] /\ config[h].secret = 0
  /\ Join(h, a) /\ d \in Forwards[MaxHops]
  /\ Accepted(h, d)
  /\ config' = [config EXCEPT ![h] = [secret |-> rows'[h].secret, dial |-> d]]
  /\ doc' = [doc EXCEPT ![h] = PanelDocument(rows', revision', h)]
  /\ UNCHANGED <<up, outer, reply>>

\* x-ui chain rejoin: another process writes the files of the running one, which
\* knows of it only when it is restarted.
Rejoin(h, d, a) ==
  /\ Join(h, a) /\ d \in Forwards[MaxHops]
  /\ Accepted(h, d)
  /\ UNCHANGED <<up, config, doc, outer, reply>>

\* Either, when the answer does not come back: the token is spent.
JoinLost(h, d, a) ==
  /\ h \in Lossy
  /\ Join(h, a) /\ d \in Forwards[MaxHops]
  /\ UNCHANGED boxVars

-----------------------------------------------------------------------------
(* The process. *)

Stop(h) ==
  /\ up[h]
  /\ h \in Failing \/ disk[h].secret # config[h].secret
  /\ up' = [up EXCEPT ![h] = FALSE]
  /\ config' = [config EXCEPT ![h] = [secret |-> 0, dial |-> Panel]]
  /\ doc' = [doc EXCEPT ![h] = NoDoc]
  /\ outer' = [outer EXCEPT ![h] = Silent]
  /\ reply' = [reply EXCEPT ![h] = NoReply]
  /\ UNCHANGED <<vars, disk>>

\* Run: the relay resumes from the cached document, before the first poll.
Start(h) ==
  /\ ~up[h]
  /\ up' = [up EXCEPT ![h] = TRUE]
  /\ config' = [config EXCEPT ![h] = [secret |-> disk[h].secret, dial |-> disk[h].dial]]
  /\ doc' = [doc EXCEPT ![h] = disk[h].doc]
  /\ UNCHANGED <<vars, outer, disk, reply>>

-----------------------------------------------------------------------------

Panels == (Owner \/ Clock) /\ UNCHANGED boxVars

Polls ==
  \E h \in HopId :
    \/ PollPanel(h)
    \/ PanelAnswers(h)
    \/ \E s \in HopId \ {h} : PollBox(h, s)
    \/ Receive(h)
    \/ Lose(h)

Joins ==
  \E h \in HopId, d \in NextHop, a \in Addr :
    JoinPage(h, d, a) \/ Rejoin(h, d, a) \/ JoinLost(h, d, a)

Processes == \E h \in HopId : Stop(h) \/ Start(h)

WaveNext == Panels \/ Polls \/ Joins \/ Processes

WaveSpec == WaveInit /\ [][WaveNext]_waveVars

\* A poller polls on for ever and is answered, and a box that stopped is started.
BoxFairness ==
  \A h \in HopId :
    /\ WF_waveVars(PollPanel(h))
    /\ WF_waveVars(PanelAnswers(h))
    /\ WF_waveVars(\E s \in HopId \ {h} : PollBox(h, s))
    /\ WF_waveVars(Receive(h))
    /\ WF_waveVars(Start(h))

-----------------------------------------------------------------------------
(* What the wave promises in every state. *)

\* A box on the revision of a departure, or a later one, relays past the
\* departing hop: the document it has is as new as the revision it carries.
RelayLeavesDeparting ==
  \A h \in Rows(rows, {"draining"}), g \in DOMAIN rows :
    g # h /\ doc[g] # NoDoc /\ Revision(doc[g]) >= rows[h].drainRevision
      => doc[g].nextHop # h

\* The registry never takes a box to be on a revision it has not applied.
AcksAreHonest ==
  \A h \in DOMAIN rows :
    rows[h].lastRevision <= IF up[h] THEN Revision(doc[h]) ELSE Revision(disk[h].doc)

\* A box's document lists nobody but the box and what lies outward of it, and an
\* edge's the edge alone: a seized front learns nothing of the chain behind its
\* next hop, nor of the edge beside it.
DocumentsLookOutward ==
  \A h \in DOMAIN rows \ Rows(rows, {"draining"}) :
    doc[h] # NoDoc =>
      \A e \in Range(doc[h].hops) :
        e.secret[1] \in DOMAIN rows => e.secret[1] \in {h} \cup Outward(rows, h)

\* A box on the current revision does not admit a secret that a later join has
\* replaced, whenever the revision and the rows of its document were read.
ReplacedSecretsAreRefused ==
  \A h \in DOMAIN rows :
    doc[h] # NoDoc /\ Revision(doc[h]) = revision =>
      \A e \in Range(doc[h].hops) :
        e.secret[1] \in DOMAIN rows => rows[e.secret[1]].secret = e.secret[2]

-----------------------------------------------------------------------------
(* What a step may never do. *)

\* While nobody joins, the document in force never gives way to an older one.
DocumentsMoveForward ==
  [][\A h \in HopId :
       doc[h] # NoDoc /\ doc'[h] # NoDoc => Revision(doc'[h]) >= Revision(doc[h])]_waveVars

\* A departure that ends before its deadline leaves no former neighbour relaying
\* to the box that left.
DepartureLeavesNobody ==
  [][\A h \in Rows(rows, {"draining"}) \ DOMAIN rows' :
       h \in sweep \ sweep' /\ ~rows[h].due =>
         \A g \in rows[h].former \cap DOMAIN rows' : doc[g] = NoDoc \/ doc[g].nextHop # h]_waveVars

-----------------------------------------------------------------------------
(* What must happen. *)

\* From some point on no process stops and no answer is lost.
FailuresStop ==
  <>[][\A h \in HopId : ~Stop(h) /\ (Lose(h) => Receive(h) \/ PanelAnswers(h))]_waveVars

\* Left alone, every box of the chain reaches the last revision.
WaveArrives ==
  FailuresStop => <>[](\A h \in DOMAIN rows : Revision(doc[h]) = revision)
=============================================================================
