------------------------- MODULE ChainPromiseProofs -------------------------
(***************************************************************************)
(* That ChainRegistry implements ChainPromise, for every number of hops:   *)
(* the initial state maps to an initial state, and each action to the      *)
(* action of the promise it is, or to a stutter.  With it, two promises    *)
(* about what hangs on the hops: the inbounds and the monitoring targets.  *)
(***************************************************************************)
EXTENDS ChainRegistryProofs

-----------------------------------------------------------------------------
(* How a step of the table looks from outside. *)

\* LifeOf for any table T of which c ids were handed out, as conditions the
\* provers can split on.
LifeIn(T, c, h) ==
  IF h \notin DOMAIN T THEN IF h > c THEN "none" ELSE "gone"
  ELSE IF T[h].state = "pending" THEN "invited"
  ELSE IF T[h].state = "draining" THEN "leaving" ELSE "entered"

LEMMA LifeCases ==
  ASSUME NEW h
  PROVE  /\ LifeOf(h) = LifeIn(rows, created, h)
         /\ LifeOf(h)' = LifeIn(rows', created', h)
<1>1. LifeOf(h) = LifeIn(rows, created, h)
  BY DEF LifeOf, LifeIn
<1>2. LifeOf(h)' = LifeIn(rows', created', h)
  BY DEF LifeOf, LifeIn
<1>3. QED
  BY <1>1, <1>2

\* What the promise knows of g is the same after the step: whether its row is
\* there and, if so, what it is known as and what it has seen.
Untouched(g) ==
  /\ g \in DOMAIN rows' <=> g \in DOMAIN rows
  /\ g \in DOMAIN rows => SameBox(rows'[g], rows[g]) /\ rows'[g].state = rows[g].state

LEMMA UntouchedLooks ==
  ASSUME NEW g \in HopId, Untouched(g), created' = created \/ g # created + 1,
         created \in Nat, created' \in {created, created + 1}
  PROVE  /\ LifeOf(g)' = LifeOf(g)
         /\ (IF g \in DOMAIN rows THEN {Entry(rows, g)} ELSE {})'
              = IF g \in DOMAIN rows THEN {Entry(rows, g)} ELSE {}
         /\ (IF g \in DOMAIN rows THEN rows[g].lastRevision ELSE 0)'
              = IF g \in DOMAIN rows THEN rows[g].lastRevision ELSE 0
<1>1. (g > created') <=> (g > created)
  BY MaxHopsAssumption DEF HopId
<1>2. CASE g \in DOMAIN rows
  <2>1. /\ g \in DOMAIN rows' /\ SameBox(rows'[g], rows[g])
        /\ rows'[g].state = rows[g].state
    BY <1>2 DEF Untouched
  <2>2. Entry(rows', g) = Entry(rows, g)
    BY <2>1 DEF Entry, SameBox
  <2>3. QED
    BY <1>2, <2>1, <2>2, LifeCases DEF LifeIn, SameBox
<1>3. CASE g \notin DOMAIN rows
  <2>1. g \notin DOMAIN rows'
    BY <1>3 DEF Untouched
  <2>2. QED
    BY <1>1, <1>3, <2>1, LifeCases DEF LifeIn
<1>4. QED
  BY <1>2, <1>3

\* A step that touches one hop is a step of the promise about that hop.
LEMMA OneHopStep ==
  ASSUME NEW h \in HopId, \A g \in HopId \ {h} : Untouched(g),
         created \in Nat, created' = created \/ (created' = created + 1 /\ h = created + 1)
  PROVE  Promise!Only(h) /\ Promise!Becomes(h, LifeOf(h)')
<1>1. ASSUME NEW g \in HopId \ {h}
      PROVE  /\ LifeOf(g)' = LifeOf(g)
             /\ (IF g \in DOMAIN rows THEN {Entry(rows, g)} ELSE {})'
                  = IF g \in DOMAIN rows THEN {Entry(rows, g)} ELSE {}
             /\ (IF g \in DOMAIN rows THEN rows[g].lastRevision ELSE 0)'
                  = IF g \in DOMAIN rows THEN rows[g].lastRevision ELSE 0
  BY UntouchedLooks
<1>2. Promise!Only(h)
  BY <1>1 DEF Promise!Only
<1>3. Promise!Becomes(h, LifeOf(h)')
  BY <1>1 DEF Promise!Becomes
<1>4. QED
  BY <1>2, <1>3

\* A step that touches no hop.
LEMMA NoHopStep ==
  ASSUME \A g \in HopId : Untouched(g), created \in Nat, created' = created
  PROVE  /\ [h \in HopId |-> LifeOf(h)]' = [h \in HopId |-> LifeOf(h)]
         /\ [h \in HopId |-> IF h \in DOMAIN rows THEN {Entry(rows, h)} ELSE {}]'
              = [h \in HopId |-> IF h \in DOMAIN rows THEN {Entry(rows, h)} ELSE {}]
         /\ [h \in HopId |-> IF h \in DOMAIN rows THEN rows[h].lastRevision ELSE 0]'
              = [h \in HopId |-> IF h \in DOMAIN rows THEN rows[h].lastRevision ELSE 0]
BY UntouchedLooks

\* No hop becomes an edge, is one no longer, or is switched on or off.
SameEdges == Edges(rows') = Edges(rows) /\ Actives(rows') = Actives(rows)

\* What a row's state makes of its hop's life.
LEMMA LifeIs ==
  ASSUME TypeOK, NEW h \in DOMAIN rows
  PROVE  /\ h \in HopId
         /\ LifeOf(h) = "invited" <=> rows[h].state = "pending"
         /\ LifeOf(h) = "leaving" <=> rows[h].state = "draining"
         /\ LifeOf(h) = "entered" <=> rows[h].state \in Entered
<1>1. rows[h].state \in State /\ h \in HopId
  BY RowsTable DEF TypeOK, Row, IsTable
<1>2. QED
  BY <1>1, LifeCases DEF LifeIn, State, Entered

-----------------------------------------------------------------------------
(* The owner's writes. *)

LEMMA AddPromised ==
  ASSUME IInv, NEW n \in Name, NEW r \in Role, NEW a \in Addr,
         NEW t \in Target \cup {NoTarget}, NEW p \in 0..MaxHops, Add(n, r, a, t, p)
  PROVE  Promise!Next
<1>1. TypeOK /\ created \in Nat /\ created' = created + 1 /\ created < MaxHops
  BY DEF IInv, TypeOK, Add
<1>2. PICK h \in HopId : h = created + 1
  BY <1>1, MaxHopsAssumption DEF HopId
<1>3. /\ DOMAIN rows' = DOMAIN rows \cup {h} /\ h \notin DOMAIN rows
      /\ \A g \in DOMAIN rows : SameHop(rows'[g], rows[g])
      /\ rows'[h].state = "pending" /\ ~rows'[h].active
  BY <1>1, <1>2, AddRows
<1>4. \A g \in HopId \ {h} : Untouched(g)
  BY <1>3 DEF Untouched, SameHop
<1>5. Promise!Only(h) /\ Promise!Becomes(h, LifeOf(h)')
  BY <1>1, <1>2, <1>4, OneHopStep
<1>6. Promise!Fresh(h)
  <2>1. LifeOf(h) = "none"
    BY <1>1, <1>2, <1>3, LifeCases DEF LifeIn
  <2>2. ASSUME NEW g \in HopId, g < h
        PROVE  LifeOf(g) # "none"
    <3>1. ~(g > created)
      BY <1>1, <1>2, <2>2 DEF HopId
    <3>2. CASE g \in DOMAIN rows
      <4>1. rows[g].state \in State
        BY <1>1, <3>2 DEF TypeOK, Row
      <4>2. QED
        BY <3>2, <4>1, LifeCases DEF LifeIn, State
    <3>3. CASE g \notin DOMAIN rows
      BY <3>1, <3>3, LifeCases DEF LifeIn
    <3>4. QED
      BY <3>2, <3>3
  <2>3. QED
    BY <1>2, <2>1, <2>2 DEF Promise!Fresh
<1>7. LifeOf(h)' = "invited"
  BY <1>3, LifeCases DEF LifeIn
<1>8. Edges(rows') \in {Edges(rows), Edges(rows) \cup {h}}
  BY <1>3 DEF Edges, SameHop, SameBox
<1>9. Actives(rows') = Actives(rows)
  BY <1>3 DEF Actives, SameHop
<1>10. Promise!Invite(h)
  BY <1>5, <1>6, <1>7, <1>8, <1>9 DEF Promise!Invite
<1>11. QED
  BY <1>2, <1>10 DEF Promise!Next

LEMMA UpdatePromised ==
  ASSUME IInv, NEW h \in HopId, NEW n \in Name, NEW a \in Addr,
         NEW t \in Target \cup {NoTarget}, Update(h, n, a, t)
  PROVE  Promise!Next
<1>1. TypeOK /\ created \in Nat /\ created' = created
  BY DEF IInv, TypeOK, Update
<1>2. /\ SamePlace
      /\ h \in DOMAIN rows /\ rows[h].state # "draining"
      /\ \A g \in DOMAIN rows \ {h} : rows'[g] = rows[g]
      /\ rows'[h].state = rows[h].state /\ rows'[h].active = rows[h].active
      /\ rows'[h].lastRevision = rows[h].lastRevision
  BY <1>1, UpdateRows
<1>3. DOMAIN rows' = DOMAIN rows /\ rows'[h].role = rows[h].role
  BY <1>2 DEF SamePlace
<1>4. \A g \in HopId \ {h} : Untouched(g)
  BY <1>2, <1>3 DEF Untouched, SameBox
<1>5. Promise!Only(h) /\ Promise!Becomes(h, LifeOf(h)')
  BY <1>1, <1>4, OneHopStep
<1>6. LifeOf(h) \in {"invited", "entered"} /\ LifeOf(h)' = LifeOf(h)
  BY <1>1, <1>2, <1>3, LifeCases DEF LifeIn
<1>7. SameEdges
  BY <1>2, <1>3 DEF SameEdges, Edges, Actives
<1>8. (IF h \in DOMAIN rows THEN rows[h].lastRevision ELSE 0)'
        = IF h \in DOMAIN rows THEN rows[h].lastRevision ELSE 0
  BY <1>2, <1>3
<1>9. Promise!Describe(h)
  BY <1>5, <1>6, <1>7, <1>8 DEF Promise!Describe, Promise!Open, Promise!Only, Promise!Becomes, SameEdges
<1>10. QED
  BY <1>9 DEF Promise!Next

\* A row that goes is a hop that is gone.
LEMMA Gone ==
  ASSUME TypeOK, NEW h \in DOMAIN rows, DOMAIN rows' = DOMAIN rows \ {h},
         \A g \in DOMAIN rows' : SameHop(rows'[g], rows[g]), created' = created,
         rows[h].active => \A g \in Edges(rows) \ {h} : rows[g].state \notin Entered
  PROVE  Promise!Next
<1>1. created \in Nat /\ h \in HopId /\ ~(h > created)
  BY RowsTable DEF TypeOK, IsTable
<1>2. \A g \in HopId \ {h} : Untouched(g)
  BY DEF Untouched, SameHop
<1>3. Promise!Only(h) /\ Promise!Becomes(h, LifeOf(h)')
  BY <1>1, <1>2, OneHopStep
<1>4. LifeOf(h)' = "gone"
  BY <1>1, LifeCases DEF LifeIn
<1>5. LifeOf(h) \in {"invited", "entered", "leaving"}
  BY LifeCases DEF LifeIn
<1>6. h \in Actives(rows) => \A g \in Edges(rows) \ {h} : LifeOf(g) # "entered"
  BY LifeIs DEF Actives, Edges
<1>7. Edges(rows') = Edges(rows) \ {h} /\ Actives(rows') = Actives(rows) \ {h}
  BY DEF Edges, Actives, SameHop, SameBox
<1>8. \A g \in Edges(rows) : g \in HopId
  BY RowsTable DEF Edges, IsTable
<1>9. Promise!Go(h)
  BY <1>1, <1>3, <1>4, <1>5, <1>6, <1>7, <1>8 DEF Promise!Go, Promise!Alive
<1>10. QED
  BY <1>1, <1>9 DEF Promise!Next

LEMMA DeletePromised ==
  ASSUME IInv, NEW h \in HopId, NEW force \in BOOLEAN, NEW skipDrain \in BOOLEAN,
         DeleteNow(h, force, skipDrain)
  PROVE  Promise!Next
<1>1. TypeOK
  BY DEF IInv
<1>2. /\ h \in DOMAIN rows /\ DOMAIN rows' = DOMAIN rows \ {h}
      /\ \A g \in DOMAIN rows' : SameHop(rows'[g], rows[g])
  BY <1>1, DeleteRows
<1>3. created' = created /\ DeleteAllowed(h, force)
  BY DEF DeleteNow
<1>4. QED
  BY <1>1, <1>2, <1>3, Gone DEF DeleteAllowed

LEMMA StartDrainingPromised ==
  ASSUME IInv, NEW h \in HopId, NEW force \in BOOLEAN, StartDraining(h, force)
  PROVE  Promise!Next
<1>0. created' = created
  BY DEF StartDraining
<1>1. TypeOK /\ created \in Nat /\ created' = created
  BY <1>0 DEF IInv, TypeOK
<1>2. /\ h \in DOMAIN rows /\ DOMAIN rows' = DOMAIN rows
      /\ rows[h].state # "draining" /\ LiveOuter(rows, h) # {}
      /\ \A g \in DOMAIN rows \ {h} : SameHop(rows'[g], rows[g])
      /\ SameBox(rows'[h], rows[h]) /\ rows'[h].active = rows[h].active
      /\ rows'[h].state = "draining"
  BY <1>1, StartDrainingRows
<1>3. \A g \in HopId \ {h} : Untouched(g)
  BY <1>2 DEF Untouched, SameHop
<1>4. Promise!Only(h) /\ Promise!Becomes(h, LifeOf(h)')
  BY <1>1, <1>3, OneHopStep
<1>5. LifeOf(h) \in {"invited", "entered"} /\ LifeOf(h)' = "leaving"
  BY <1>2, LifeCases DEF LifeIn
<1>6. h \notin Edges(rows)
  <2>1. PICK g \in DOMAIN rows : rows[g].next = h
    BY <1>2 DEF LiveOuter, HangOff
  <2>2. h \in LiveInners(rows)
    BY <2>1 DEF IInv, NextHopsAreLive, Panel, HopId
  <2>3. QED
    BY <2>2 DEF LiveInners, Inners, Edges
<1>7. SameEdges
  BY <1>2 DEF SameEdges, Edges, Actives, SameHop, SameBox
<1>8. (IF h \in DOMAIN rows THEN rows[h].lastRevision ELSE 0)'
        = IF h \in DOMAIN rows THEN rows[h].lastRevision ELSE 0
  BY <1>2 DEF SameBox
<1>9. Promise!Leave(h)
  BY <1>4, <1>5, <1>6, <1>7, <1>8
  DEF Promise!Leave, Promise!Open, Promise!Only, SameEdges
<1>10. QED
  BY <1>9 DEF Promise!Next

LEMMA SetActivePromised ==
  ASSUME IInv, NEW h \in HopId, SetActive(h)
  PROVE  Promise!Next
<1>1. TypeOK /\ created \in Nat /\ created' = created
  BY DEF IInv, TypeOK, SetActive
<1>2. /\ DOMAIN rows' = DOMAIN rows
      /\ h \in DOMAIN rows /\ rows[h].role = "edge"
      /\ \A g \in DOMAIN rows :
           /\ SameBox(rows'[g], rows[g]) /\ rows'[g].active = (g = h)
           /\ rows'[g].state = rows[g].state
  BY <1>1, SetActiveRows DEF SamePlace
<1>3. \A g \in HopId : Untouched(g)
  BY <1>2 DEF Untouched
<1>4. Edges(rows') = Edges(rows) /\ Actives(rows') = {h} /\ h \in Edges(rows)
  BY <1>2 DEF Edges, Actives, SameBox
<1>5. LifeOf(h) = "entered"
  BY <1>1, <1>2, LifeIs DEF SetActive
<1>6. Promise!Switch(h)
  BY <1>1, <1>3, <1>4, <1>5, NoHopStep DEF Promise!Switch
<1>7. QED
  BY <1>6 DEF Promise!Next

LEMMA ClearActivePromised ==
  ASSUME IInv, ClearActive
  PROVE  Promise!Next
<1>1. TypeOK /\ created \in Nat /\ created' = created
  BY DEF IInv, TypeOK, ClearActive
<1>2. /\ DOMAIN rows' = DOMAIN rows
      /\ \A g \in DOMAIN rows :
           /\ SameBox(rows'[g], rows[g]) /\ rows'[g].active = FALSE
           /\ rows'[g].state = rows[g].state
  BY <1>1, ClearActiveRows DEF SamePlace
<1>3. \A g \in HopId : Untouched(g)
  BY <1>2 DEF Untouched
<1>4. Edges(rows') = Edges(rows) /\ Actives(rows') = {}
  BY <1>2 DEF Edges, Actives, SameBox
<1>5. Promise!SwitchOff
  BY <1>1, <1>3, <1>4, NoHopStep DEF Promise!SwitchOff
<1>6. QED
  BY <1>5 DEF Promise!Next

LEMMA ReissuePromised ==
  ASSUME IInv, NEW h \in HopId, ReissueToken(h)
  PROVE  Promise!Next
<1>1. TypeOK /\ created \in Nat /\ created' = created
  BY DEF IInv, TypeOK, ReissueToken
<1>2. /\ SamePlace /\ h \in DOMAIN rows
      /\ \A g \in DOMAIN rows \ {h} : rows'[g] = rows[g]
      /\ rows'[h].state = "pending" /\ rows[h].state # "draining"
      /\ SameBox(rows'[h], rows[h]) /\ rows'[h].active = rows[h].active
  BY <1>1, OneFieldRows
<1>3. DOMAIN rows' = DOMAIN rows
  BY <1>2 DEF SamePlace
<1>4. \A g \in HopId \ {h} : Untouched(g)
  BY <1>2, <1>3 DEF Untouched, SameBox
<1>5. Promise!Only(h) /\ Promise!Becomes(h, LifeOf(h)')
  BY <1>1, <1>4, OneHopStep
<1>6. LifeOf(h) \in {"invited", "entered"} /\ LifeOf(h)' = "invited"
  BY <1>2, <1>3, LifeCases DEF LifeIn
<1>7. SameEdges
  BY <1>2, <1>3 DEF SameEdges, Edges, Actives, SameBox
<1>8. (IF h \in DOMAIN rows THEN rows[h].lastRevision ELSE 0)'
        = IF h \in DOMAIN rows THEN rows[h].lastRevision ELSE 0
  BY <1>2, <1>3 DEF SameBox
<1>9. Promise!InviteAgain(h)
  BY <1>5, <1>6, <1>7, <1>8
  DEF Promise!InviteAgain, Promise!Open, Promise!Only, SameEdges
<1>10. QED
  BY <1>9 DEF Promise!Next

-----------------------------------------------------------------------------
(* What boxes, the clock and restarts do. *)

LEMMA JoinPromised ==
  ASSUME IInv, NEW h \in HopId, NEW a \in Addr, Join(h, a)
  PROVE  Promise!Next
<1>1. TypeOK /\ created \in Nat /\ created' = created
  BY DEF IInv, TypeOK, Join
<1>2. /\ h \in DOMAIN rows /\ DOMAIN rows' = DOMAIN rows
      /\ rows[h].state = "pending"
      /\ \A g \in DOMAIN rows \ {h} : SameHop(rows'[g], rows[g])
      /\ rows'[h].state = "joined" /\ rows'[h].role = rows[h].role
      /\ rows'[h].active = rows[h].active
      /\ rows'[h].lastRevision = rows[h].lastRevision
  BY <1>1, JoinRows
<1>3. \A g \in HopId \ {h} : Untouched(g)
  BY <1>2 DEF Untouched, SameHop
<1>4. Promise!Only(h) /\ Promise!Becomes(h, LifeOf(h)')
  BY <1>1, <1>3, OneHopStep
<1>5. LifeOf(h) = "invited" /\ LifeOf(h)' = "entered"
  BY <1>2, LifeCases DEF LifeIn
<1>6. SameEdges
  BY <1>2 DEF SameEdges, Edges, Actives, SameHop, SameBox
<1>7. (IF h \in DOMAIN rows THEN rows[h].lastRevision ELSE 0)'
        = IF h \in DOMAIN rows THEN rows[h].lastRevision ELSE 0
  BY <1>2
<1>8. Promise!Enter(h)
  BY <1>4, <1>5, <1>6, <1>7 DEF Promise!Enter, Promise!Only, SameEdges
<1>9. QED
  BY <1>8 DEF Promise!Next

LEMMA RecordSeenPromised ==
  ASSUME IInv, NEW h \in HopId, NEW seen \in Nat, NEW acks \in SUBSET (Name \X Nat),
         RecordSeen(h, seen, acks)
  PROVE  Promise!Next
<1>1. /\ TypeOK /\ ConfirmedRevisionsExist
      /\ revision \in Nat /\ created' = created
  BY DEF IInv, TypeOK, RecordSeen
<1>2. /\ DOMAIN rows' = DOMAIN rows
      /\ \A g \in DOMAIN rows :
           /\ rows'[g].lastRevision \in rows[g].lastRevision..revision
           /\ Entry(rows', g) = Entry(rows, g)
           /\ rows'[g].role = rows[g].role
           /\ rows'[g].state = rows[g].state /\ rows'[g].active = rows[g].active
  BY <1>1, RecordSeenRows
<1>3. \A g \in HopId : LifeOf(g)' = LifeOf(g)
  BY <1>1, <1>2, LifeCases DEF LifeIn
<1>4. SameEdges
  BY <1>2 DEF SameEdges, Edges, Actives
<1>5. ASSUME NEW g \in HopId
      PROVE  /\ (IF g \in DOMAIN rows THEN {Entry(rows, g)} ELSE {})'
                  = IF g \in DOMAIN rows THEN {Entry(rows, g)} ELSE {}
             /\ (IF g \in DOMAIN rows THEN rows[g].lastRevision ELSE 0)'
                  >= IF g \in DOMAIN rows THEN rows[g].lastRevision ELSE 0
             /\ g \notin DOMAIN rows =>
                  (IF g \in DOMAIN rows THEN rows[g].lastRevision ELSE 0)'
                    = IF g \in DOMAIN rows THEN rows[g].lastRevision ELSE 0
  <2>1. CASE g \in DOMAIN rows
    <3>1. rows[g].lastRevision \in Nat
      BY <1>1, <2>1 DEF TypeOK, Row
    <3>2. QED
      BY <1>1, <1>2, <2>1, <3>1
  <2>2. CASE g \notin DOMAIN rows
    BY <1>2, <2>2
  <2>3. QED
    BY <2>1, <2>2
<1>6. \A g \in HopId \ Promise!Alive : g \notin DOMAIN rows
  BY LifeCases DEF Promise!Alive, LifeIn
<1>7. Promise!Hear
  BY <1>3, <1>4, <1>5, <1>6 DEF Promise!Hear, SameEdges
<1>8. QED
  BY <1>7 DEF Promise!Next

LEMMA FinishPromised ==
  ASSUME IInv, NEW h \in HopId, FinishDraining(h)
  PROVE  Promise!Next
<1>1. TypeOK
  BY DEF IInv
<1>2. /\ h \in DOMAIN rows /\ DOMAIN rows' = DOMAIN rows \ {h}
      /\ rows[h].state = "draining"
      /\ \A g \in DOMAIN rows' : SameHop(rows'[g], rows[g])
  BY <1>1, FinishRows
<1>3. ~rows[h].active
  BY <1>2 DEF IInv, OneActiveEdge, Actives
<1>4. created' = created
  BY DEF FinishDraining
<1>5. QED
  BY <1>1, <1>2, <1>3, <1>4, Gone

LEMMA Unseen ==
  ASSUME created \in Nat, created' = created, SameEdges, \A g \in HopId : Untouched(g)
  PROVE  UNCHANGED Promise!vars
BY NoHopStep DEF Promise!vars, SameEdges

LEMMA RestartPromised ==
  ASSUME IInv, PanelRestart
  PROVE  Promise!Next \/ UNCHANGED Promise!vars
<1>1. TypeOK /\ created \in Nat
  BY DEF IInv, TypeOK
<1>2. CASE rows' = rows /\ created' = created
  BY <1>1, <1>2, Unseen DEF Untouched, SameBox, SameEdges
<1>3. CASE /\ DOMAIN rows = {} /\ DOMAIN rows' = {created + 1}
           /\ created' = created + 1 /\ IsTable(rows')
           /\ rows'[created + 1].role = "edge" /\ rows'[created + 1].state = "legacy"
           /\ rows'[created + 1].lastRevision = 0
  <2>1. PICK h \in HopId : h = created + 1
    BY <1>3 DEF IsTable
  <2>2. \A g \in HopId \ {h} : Untouched(g)
    BY <1>3, <2>1 DEF Untouched
  <2>3. Promise!Only(h) /\ Promise!Becomes(h, LifeOf(h)')
    BY <1>1, <1>3, <2>1, <2>2, OneHopStep
  <2>4. LifeOf(h)' = "entered"
    BY <1>3, <2>1, LifeCases DEF LifeIn
  <2>5. \A g \in HopId : LifeOf(g) = IF g > created THEN "none" ELSE "gone"
    BY <1>3, LifeCases DEF LifeIn
  <2>6. Promise!Alive = {} /\ Promise!Fresh(h)
    BY <1>1, <2>1, <2>5, MaxHopsAssumption DEF Promise!Alive, Promise!Fresh, HopId
  <2>7. Edges(rows') = {h} /\ Actives(rows') \subseteq {h}
    BY <1>3, <2>1 DEF Edges, Actives
  <2>8. Promise!Import(h)
    BY <2>3, <2>4, <2>6, <2>7 DEF Promise!Import
  <2>9. QED
    BY <2>8 DEF Promise!Next
<1>4. QED
  BY <1>1, <1>2, <1>3, RestartRows

-----------------------------------------------------------------------------
(* The refinement. *)

LEMMA PromiseInit == Init => Promise!Init
<1> SUFFICES ASSUME Init PROVE Promise!Init
  OBVIOUS
<1>1. DOMAIN rows = {} /\ created = 0
  BY DEF Init
<1>2. \A h \in HopId : LifeOf(h) = "none"
  BY <1>1, LifeCases, MaxHopsAssumption DEF LifeIn, HopId
<1>3. Edges(rows) = {} /\ Actives(rows) = {}
  BY <1>1 DEF Edges, Actives
<1>4. QED
  BY <1>1, <1>2, <1>3 DEF Promise!Init

LEMMA PromiseStep == IInv /\ [Next]_vars => [Promise!Next]_(Promise!vars)
<1> SUFFICES ASSUME IInv, [Next]_vars
             PROVE  Promise!Next \/ UNCHANGED Promise!vars
  OBVIOUS
<1>1. TypeOK /\ created \in Nat
  BY DEF IInv, TypeOK
<1>2. ASSUME created' = created, rows' = rows
      PROVE  UNCHANGED Promise!vars
  BY <1>1, <1>2, Unseen DEF Untouched, SameBox, SameEdges
<1>3. ASSUME NEW h \in HopId, ~ReissueToken(h), TokenExpires(h) \/ DrainDeadline(h)
      PROVE  UNCHANGED Promise!vars
  <2>1. /\ SamePlace
        /\ \A g \in DOMAIN rows \ {h} : rows'[g] = rows[g]
        /\ rows'[h].state = rows[h].state
        /\ SameBox(rows'[h], rows[h]) /\ rows'[h].active = rows[h].active
    BY <1>1, <1>3, OneFieldRows
  <2>2. DOMAIN rows' = DOMAIN rows
    BY <2>1 DEF SamePlace
  <2>3. \A g \in HopId : Untouched(g)
    BY <2>1, <2>2 DEF Untouched, SameBox
  <2>4. SameEdges
    BY <2>1, <2>2 DEF SameEdges, Edges, Actives, SameBox
  <2>5. created' = created
    BY <1>3 DEF TokenExpires, DrainDeadline
  <2>6. QED
    BY <1>1, <2>3, <2>4, <2>5, Unseen
<1>4. CASE Owner
  <2>1. CASE \E p \in Ports : PortsChanged(p)
    BY <1>2, <2>1 DEF PortsChanged
  <2>2. QED
    BY <1>4, <2>1, AddPromised, UpdatePromised, DeletePromised, StartDrainingPromised,
       SetActivePromised, ClearActivePromised, ReissuePromised DEF Owner
<1>5. CASE Boxes
  <2>1. CASE \E p \in Watched : MonReport(p)
    BY <1>2, <2>1 DEF MonReport
  <2>2. QED
    BY <1>1, <1>5, <2>1, PollsTyped, JoinPromised, RecordSeenPromised DEF Boxes, Poll
<1>6. CASE Clock
  <2>1. CASE SweepTick
    BY <1>2, <2>1 DEF SweepTick
  <2>2. CASE SweepStep
    BY <1>1, <1>2, <2>2, FinishPromised DEF SweepStep, TypeOK
  <2>3. QED
    BY <1>3, <1>6, <2>1, <2>2, ReissuePromised, RestartPromised DEF Clock
<1>7. CASE UNCHANGED vars
  BY <1>2, <1>7 DEF vars
<1>8. QED
  BY <1>4, <1>5, <1>6, <1>7 DEF Next

\* The registry keeps the promise of ChainPromise: ids never come back, a
\* departing hop stays what it is known as, freshness only grows, and the edge
\* in force goes only when no other could take over.
THEOREM Refinement == Spec => KeepsPromise
BY PromiseInit, PromiseStep, Invariance, PTL DEF Spec, KeepsPromise, Promise!Spec

-----------------------------------------------------------------------------
(* The inbounds that follow the chain. *)

\* Whoever is active was active before, with the same neighbour site.
NeighboursStay ==
  \A g \in DOMAIN rows' :
    rows'[g].active =>
      g \in DOMAIN rows /\ rows[g].active /\ rows'[g].target = rows[g].target

LEMMA FollowersKept ==
  ASSUME FollowersMatchActiveEdge, NeighboursStay, follow' = follow, cover' = cover
  PROVE  FollowersMatchActiveEdge'
BY DEF FollowersMatchActiveEdge, NeighboursStay, Actives

\* Once every follower has taken t, the edge with that neighbour may be active.
LEMMA FollowersTake ==
  ASSUME TypeOK, NEW t \in Target \cup {NoTarget}, FollowEdge(t),
         \A g \in Actives(rows') : rows'[g].target = t
  PROVE  FollowersMatchActiveEdge'
<1>1. follow' = follow /\ \A i \in follow : cover'[i] = t
  BY DEF FollowEdge, TypeOK
<1>2. QED
  BY <1>1 DEF FollowersMatchActiveEdge

LEMMA FollowersStep ==
  ASSUME IInv, FollowersMatchActiveEdge, [Next]_vars
  PROVE  FollowersMatchActiveEdge'
<1>1. TypeOK /\ ConfirmedRevisionsExist /\ OneActiveEdge
  BY DEF IInv
<1>2. ASSUME NEW n \in Name, NEW r \in Role, NEW a \in Addr, NEW t \in Target \cup {NoTarget},
             NEW p \in 0..MaxHops, Add(n, r, a, t, p)
      PROVE  FollowersMatchActiveEdge'
  <2>1. /\ DOMAIN rows' = DOMAIN rows \cup {created + 1} /\ ~rows'[created + 1].active
        /\ \A g \in DOMAIN rows : SameHop(rows'[g], rows[g])
    BY <1>1, <1>2, AddRows
  <2>2. NeighboursStay
    BY <2>1 DEF NeighboursStay, SameHop, SameBox
  <2>3. QED
    BY <1>2, <2>2, FollowersKept DEF Add, inboundVars
<1>3. ASSUME NEW h \in HopId, NEW n \in Name, NEW a \in Addr,
             NEW t \in Target \cup {NoTarget}, Update(h, n, a, t)
      PROVE  FollowersMatchActiveEdge'
  <2>1. /\ DOMAIN rows' = DOMAIN rows /\ h \in DOMAIN rows
        /\ \A g \in DOMAIN rows \ {h} : rows'[g] = rows[g]
        /\ rows'[h].active = rows[h].active /\ rows'[h].target = t
    BY <1>1, <1>3, UpdateRows DEF SamePlace
  <2>2. CASE t # rows[h].target /\ rows[h].active
    <3>1. FollowEdge(t)
      BY <1>3, <2>2 DEF Update
    <3>2. \A g \in Actives(rows') : g = h
      BY <1>1, <2>1, <2>2 DEF OneActiveEdge, Actives
    <3>3. QED
      BY <1>1, <2>1, <3>1, <3>2, FollowersTake
  <2>3. CASE ~(t # rows[h].target /\ rows[h].active)
    <3>1. NeighboursStay
      BY <2>1, <2>3 DEF NeighboursStay
    <3>2. follow' = follow /\ cover' = cover
      BY <1>3, <2>3 DEF Update, inboundVars
    <3>3. QED
      BY <3>1, <3>2, FollowersKept
  <2>4. QED
    BY <2>2, <2>3
<1>4. ASSUME NEW h \in HopId, NEW force \in BOOLEAN, NEW skipDrain \in BOOLEAN,
             DeleteNow(h, force, skipDrain)
      PROVE  FollowersMatchActiveEdge'
  <2>1. /\ DOMAIN rows' = DOMAIN rows \ {h}
        /\ \A g \in DOMAIN rows' : SameHop(rows'[g], rows[g])
    BY <1>1, <1>4, DeleteRows
  <2>2. NeighboursStay
    BY <2>1 DEF NeighboursStay, SameHop, SameBox
  <2>3. QED
    BY <1>4, <2>2, FollowersKept DEF DeleteNow, inboundVars
<1>5. ASSUME NEW h \in HopId, NEW force \in BOOLEAN, StartDraining(h, force)
      PROVE  FollowersMatchActiveEdge'
  <2>1. /\ DOMAIN rows' = DOMAIN rows
        /\ \A g \in DOMAIN rows \ {h} : SameHop(rows'[g], rows[g])
        /\ SameBox(rows'[h], rows[h]) /\ rows'[h].active = rows[h].active
    BY <1>1, <1>5, StartDrainingRows
  <2>2. NeighboursStay
    BY <2>1 DEF NeighboursStay, SameHop, SameBox
  <2>3. UNCHANGED inboundVars
    BY <1>5 DEF StartDraining
  <2>4. QED
    BY <2>2, <2>3, FollowersKept DEF inboundVars
<1>6. ASSUME NEW h \in HopId, SetActive(h)
      PROVE  FollowersMatchActiveEdge'
  <2>1. /\ DOMAIN rows' = DOMAIN rows /\ h \in DOMAIN rows
        /\ \A g \in DOMAIN rows :
             SameBox(rows'[g], rows[g]) /\ rows'[g].active = (g = h)
    BY <1>1, <1>6, SetActiveRows DEF SamePlace
  <2>2. \A g \in Actives(rows') : rows'[g].target = rows[h].target
    BY <2>1 DEF Actives, SameBox
  <2>3. rows[h].target \in Target \cup {NoTarget}
    BY <1>1, <2>1 DEF TypeOK, Row
  <2>4. QED
    BY <1>1, <1>6, <2>2, <2>3, FollowersTake DEF SetActive
<1>7. CASE ClearActive
  <2>1. DOMAIN rows' = DOMAIN rows /\ \A g \in DOMAIN rows : rows'[g].active = FALSE
    BY <1>1, <1>7, ClearActiveRows DEF SamePlace
  <2>2. NeighboursStay
    BY <2>1 DEF NeighboursStay
  <2>3. QED
    BY <1>7, <2>2, FollowersKept DEF ClearActive, inboundVars
<1>8. ASSUME NEW h \in HopId, ReissueToken(h) \/ TokenExpires(h) \/ DrainDeadline(h)
      PROVE  FollowersMatchActiveEdge'
  <2>1. /\ SamePlace
        /\ \A g \in DOMAIN rows \ {h} : rows'[g] = rows[g]
        /\ SameBox(rows'[h], rows[h]) /\ rows'[h].active = rows[h].active
    BY <1>1, <1>8, OneFieldRows
  <2>2. NeighboursStay
    BY <2>1 DEF NeighboursStay, SamePlace, SameBox
  <2>3. QED
    BY <1>8, <2>2, FollowersKept DEF ReissueToken, TokenExpires, DrainDeadline, inboundVars
<1>9. ASSUME NEW h \in HopId, NEW a \in Addr, Join(h, a)
      PROVE  FollowersMatchActiveEdge'
  <2>1. /\ DOMAIN rows' = DOMAIN rows
        /\ \A g \in DOMAIN rows \ {h} : SameHop(rows'[g], rows[g])
        /\ rows'[h].active = rows[h].active /\ rows'[h].target = rows[h].target
    BY <1>1, <1>9, JoinRows
  <2>2. NeighboursStay
    BY <2>1 DEF NeighboursStay, SameHop, SameBox
  <2>3. QED
    BY <1>9, <2>2, FollowersKept DEF Join, inboundVars
<1>10. ASSUME NEW h \in HopId, NEW seen \in Nat, NEW acks \in SUBSET (Name \X Nat),
              RecordSeen(h, seen, acks)
       PROVE  FollowersMatchActiveEdge'
  <2>1. /\ DOMAIN rows' = DOMAIN rows
        /\ \A g \in DOMAIN rows :
             Entry(rows', g) = Entry(rows, g) /\ rows'[g].active = rows[g].active
    BY <1>1, <1>10, RecordSeenRows
  <2>2. NeighboursStay
    BY <2>1 DEF NeighboursStay, Entry
  <2>3. QED
    BY <1>10, <2>2, FollowersKept DEF RecordSeen, inboundVars
<1>11. ASSUME NEW h \in HopId, FinishDraining(h)
       PROVE  FollowersMatchActiveEdge'
  <2>1. /\ DOMAIN rows' = DOMAIN rows \ {h}
        /\ \A g \in DOMAIN rows' : SameHop(rows'[g], rows[g])
    BY <1>1, <1>11, FinishRows
  <2>2. NeighboursStay
    BY <2>1 DEF NeighboursStay, SameHop, SameBox
  <2>3. QED
    BY <1>11, <2>2, FollowersKept DEF FinishDraining, inboundVars
<1>12. ASSUME rows' = rows, follow' = follow, cover' = cover
       PROVE  FollowersMatchActiveEdge'
  BY <1>12, FollowersKept DEF NeighboursStay
<1>13. CASE PanelRestart
  <2>1. follow' = follow /\ cover' = cover
    BY <1>13 DEF PanelRestart
  <2>2. CASE DOMAIN rows' = {created + 1} /\ rows'[created + 1].target = NoTarget
    BY <2>2 DEF FollowersMatchActiveEdge, Actives
  <2>3. QED
    BY <1>1, <1>12, <1>13, <2>1, <2>2, RestartRows
<1>14. QED
  <2>1. CASE SweepStep
    BY <1>1, <1>11, <1>12, <2>1 DEF SweepStep, TypeOK, inboundVars
  <2>2. CASE SweepTick \/ (\E p \in Watched : MonReport(p)) \/ UNCHANGED vars
    BY <1>12, <2>2 DEF SweepTick, MonReport, vars, inboundVars
  <2>3. CASE \E p \in Ports : PortsChanged(p)
    BY <1>12, <2>3 DEF PortsChanged, inboundVars
  <2>4. QED
    BY <1>1, <1>2, <1>3, <1>4, <1>5, <1>6, <1>7, <1>8, <1>9, <1>10, <1>13, <2>1, <2>2, <2>3,
       PollsTyped DEF Next, Owner, Boxes, Clock, Poll

\* Whatever edge is switched to, edited or imported, the inbounds that follow
\* the chain imitate its neighbour.
THEOREM FollowersMatch == Spec => []FollowersMatchActiveEdge
<1>1. Init => FollowersMatchActiveEdge
  BY DEF Init, FollowersMatchActiveEdge, Actives
<1>2. IInv /\ FollowersMatchActiveEdge /\ [Next]_vars => FollowersMatchActiveEdge'
  BY FollowersStep
<1>3. QED
  BY <1>1, <1>2, Invariance, PTL DEF Spec

-----------------------------------------------------------------------------
(* The monitoring targets. *)

\* Which paths are probed is a matter of the hops that are in, their names and
\* their roles.
LEMMA SameProbes ==
  ASSUME NEW T, NEW U,
         \A h : h \in DOMAIN T /\ T[h].state \in Entered <=>
                h \in DOMAIN U /\ U[h].state \in Entered,
         \A h \in DOMAIN T :
           T[h].state \in Entered => T[h].role = U[h].role /\ T[h].name = U[h].name
  PROVE  ProbedPaths(T) = ProbedPaths(U)
<1>1. Rows(T, Entered) = Rows(U, Entered)
  BY DEF Rows
<1>2. \A h \in Rows(T, Entered) : HopPath(T, h) = HopPath(U, h)
  BY DEF Rows, HopPath
<1>3. {HopPath(T, h) : h \in Rows(T, Entered)} = {HopPath(U, h) : h \in Rows(U, Entered)}
  BY <1>1, <1>2
<1>4. QED
  BY <1>1, <1>3 DEF ProbedPaths

\* A write that keeps every hop in or out, under its name and role, keeps the
\* probed paths.
LEMMA ProbesKept ==
  ASSUME \A h : h \in DOMAIN rows' /\ rows'[h].state \in Entered <=>
                h \in DOMAIN rows /\ rows[h].state \in Entered,
         \A h \in DOMAIN rows' :
           rows'[h].state \in Entered =>
             rows'[h].role = rows[h].role /\ rows'[h].name = rows[h].name
  PROVE  ProbedPaths(rows') = ProbedPaths(rows)
BY SameProbes

\* One step of the registry, as TargetsFollowProbedPaths speaks of it.
Followed == ProbedPaths(rows') # ProbedPaths(rows) => monTargets' \subseteq ProbedPaths(rows')

LEMMA TargetsStep ==
  ASSUME IInv, [Next]_vars
  PROVE  Followed
<1>1. TypeOK /\ ConfirmedRevisionsExist
  BY DEF IInv
<1>2. ASSUME NEW n \in Name, NEW r \in Role, NEW a \in Addr, NEW t \in Target \cup {NoTarget},
             NEW p \in 0..MaxHops, Add(n, r, a, t, p)
      PROVE  Followed
  <2>1. /\ DOMAIN rows' = DOMAIN rows \cup {created + 1} /\ created + 1 \notin DOMAIN rows
        /\ rows'[created + 1].state = "pending"
        /\ \A g \in DOMAIN rows : SameHop(rows'[g], rows[g])
    BY <1>1, <1>2, AddRows
  <2>2. ProbedPaths(rows') = ProbedPaths(rows)
    BY <2>1, ProbesKept DEF SameHop, SameBox, Entered
  <2>3. QED
    BY <2>2 DEF Followed
<1>3. ASSUME NEW h \in HopId, NEW force \in BOOLEAN, NEW skipDrain \in BOOLEAN,
             DeleteNow(h, force, skipDrain)
      PROVE  Followed
  <2>1. /\ DOMAIN rows' = DOMAIN rows \ {h}
        /\ \A g \in DOMAIN rows' : SameHop(rows'[g], rows[g])
    BY <1>1, <1>3, DeleteRows
  <2>2. /\ DOMAIN Without(rows, h) = DOMAIN rows \ {h}
        /\ \A g \in DOMAIN rows \ {h} : Without(rows, h)[g] = rows[g]
    BY DEF Without
  <2>3. ProbedPaths(rows') = ProbedPaths(Without(rows, h))
    BY <2>1, <2>2, SameProbes DEF SameHop, SameBox
  <2>4. monTargets' \subseteq ProbedPaths(Without(rows, h))
    BY <1>3 DEF DeleteNow, Prune
  <2>5. QED
    BY <2>3, <2>4 DEF Followed
<1>4. ASSUME NEW h \in HopId, NEW force \in BOOLEAN, StartDraining(h, force)
      PROVE  Followed
  <2> DEFINE departing == [rows EXCEPT ![h].state = "draining"]
  <2>1. /\ h \in DOMAIN rows /\ DOMAIN rows' = DOMAIN rows
        /\ \A g \in DOMAIN rows \ {h} : SameHop(rows'[g], rows[g])
        /\ rows'[h].state = "draining"
    BY <1>1, <1>4, StartDrainingRows
  <2>2. rows[h] \in Row
    BY <1>1, <2>1 DEF TypeOK
  <2>3. /\ DOMAIN departing = DOMAIN rows
        /\ \A g \in DOMAIN rows \ {h} : departing[g] = rows[g]
        /\ departing[h].state = "draining"
    BY <2>1, <2>2 DEF Row
  <2>4. monTargets' \subseteq ProbedPaths(departing)
    BY <1>4 DEF StartDraining, Prune
  <2> HIDE DEF departing
  <2>5. ProbedPaths(rows') = ProbedPaths(departing)
    BY <2>1, <2>3, SameProbes DEF SameHop, SameBox, Entered
  <2>6. QED
    BY <2>4, <2>5 DEF Followed
<1>5. ASSUME NEW h \in HopId, SetActive(h)
      PROVE  Followed
  <2>1. /\ DOMAIN rows' = DOMAIN rows
        /\ \A g \in DOMAIN rows : SameBox(rows'[g], rows[g]) /\ rows'[g].state = rows[g].state
    BY <1>1, <1>5, SetActiveRows DEF SamePlace
  <2>2. QED
    BY <2>1, ProbesKept DEF Followed, SameBox
<1>6. CASE ClearActive
  <2>1. /\ DOMAIN rows' = DOMAIN rows
        /\ \A g \in DOMAIN rows : SameBox(rows'[g], rows[g]) /\ rows'[g].state = rows[g].state
    BY <1>1, <1>6, ClearActiveRows DEF SamePlace
  <2>2. QED
    BY <2>1, ProbesKept DEF Followed, SameBox
<1>7. ASSUME monTargets' \subseteq ProbedPaths(rows')
      PROVE  Followed
  BY <1>7 DEF Followed
<1>8. ASSUME NEW h \in HopId, ~ReissueToken(h), TokenExpires(h) \/ DrainDeadline(h)
      PROVE  Followed
  <2>1. /\ SamePlace
        /\ \A g \in DOMAIN rows \ {h} : rows'[g] = rows[g]
        /\ rows'[h].state = rows[h].state /\ SameBox(rows'[h], rows[h])
    BY <1>1, <1>8, OneFieldRows
  <2>2. QED
    BY <2>1, ProbesKept DEF Followed, SameBox, SamePlace
<1>9. ASSUME NEW h \in HopId, NEW seen \in Nat, NEW acks \in SUBSET (Name \X Nat),
             RecordSeen(h, seen, acks)
      PROVE  Followed
  <2>1. /\ DOMAIN rows' = DOMAIN rows
        /\ \A g \in DOMAIN rows :
             /\ Entry(rows', g) = Entry(rows, g)
             /\ rows'[g].state = rows[g].state /\ rows'[g].role = rows[g].role
    BY <1>1, <1>9, RecordSeenRows
  <2>2. QED
    BY <2>1, ProbesKept DEF Followed, Entry
<1>10. ASSUME NEW h \in HopId, FinishDraining(h)
       PROVE  Followed
  <2>1. /\ DOMAIN rows' = DOMAIN rows \ {h} /\ rows[h].state = "draining"
        /\ \A g \in DOMAIN rows' : SameHop(rows'[g], rows[g])
    BY <1>1, <1>10, FinishRows
  <2>2. ProbedPaths(rows') = ProbedPaths(rows)
    BY <2>1, ProbesKept DEF SameHop, SameBox, Entered
  <2>3. QED
    BY <2>2 DEF Followed
<1>11. ASSUME rows' = rows
       PROVE  Followed
  BY <1>11 DEF Followed
<1>12. CASE PanelRestart
  BY <1>7, <1>11, <1>12 DEF PanelRestart, Prune
<1>13. CASE Owner
  <2>1. ASSUME NEW h \in HopId, NEW n \in Name, NEW a \in Addr,
               NEW t \in Target \cup {NoTarget}, Update(h, n, a, t)
        PROVE  Followed
    BY <1>7, <2>1 DEF Update, Prune
  <2>2. ASSUME NEW h \in HopId, ReissueToken(h)
        PROVE  Followed
    BY <1>7, <2>2 DEF ReissueToken, Prune
  <2>3. CASE \E p \in Ports : PortsChanged(p)
    BY <1>11, <2>3 DEF PortsChanged
  <2>4. QED
    BY <1>2, <1>3, <1>4, <1>5, <1>6, <1>13, <2>1, <2>2, <2>3 DEF Owner
<1>14. CASE Boxes
  <2>1. ASSUME NEW h \in HopId, NEW a \in Addr, Join(h, a)
        PROVE  Followed
    BY <1>7, <2>1 DEF Join, Prune
  <2>2. CASE \E p \in Watched : MonReport(p)
    BY <1>11, <2>2 DEF MonReport
  <2>3. QED
    BY <1>1, <1>9, <1>14, <2>1, <2>2, PollsTyped DEF Boxes, Poll
<1>15. CASE Clock
  <2>1. CASE SweepTick
    BY <1>11, <2>1 DEF SweepTick
  <2>2. CASE SweepStep
    BY <1>1, <1>10, <1>11, <2>2 DEF SweepStep, TypeOK
  <2>3. ASSUME NEW h \in HopId, ReissueToken(h)
        PROVE  Followed
    BY <1>7, <2>3 DEF ReissueToken, Prune
  <2>4. QED
    BY <1>8, <1>12, <1>15, <2>1, <2>2, <2>3 DEF Clock
<1>16. QED
  BY <1>11, <1>13, <1>14, <1>15 DEF Next, vars

\* A path nobody probes any more has no rows in mon_targets left behind by the
\* write that ended it.
THEOREM TargetsFollow == Spec => TargetsFollowProbedPaths
<1>1. IInv /\ [Next]_vars =>
        [ProbedPaths(rows') # ProbedPaths(rows) => monTargets' \subseteq ProbedPaths(rows')]_vars
  BY TargetsStep DEF Followed
<1>2. QED
  BY <1>1, Invariance, PTL DEF Spec, TargetsFollowProbedPaths
=============================================================================
