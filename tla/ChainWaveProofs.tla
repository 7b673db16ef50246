--------------------------- MODULE ChainWaveProofs ---------------------------
(***************************************************************************)
(* The wave: what every document in the chain - in force, on disk or on    *)
(* its way - has in common with the panel's table, however old it is.      *)
(* Then what moves and does not move back: what boxes have, what they are  *)
(* known by, what they and the panel believe of each other, and whom the   *)
(* documents list.                                                         *)
(***************************************************************************)
EXTENDS ChainWave, ChainTopologyProofs

-----------------------------------------------------------------------------
(* The names of the hops. *)

UniqueNames == \A g, h \in DOMAIN rows : rows[g].name = rows[h].name => g = h

LEMMA NamesKept ==
  ASSUME UniqueNames, DOMAIN rows' \subseteq DOMAIN rows,
         \A g \in DOMAIN rows' : rows'[g].name = rows[g].name
  PROVE  UniqueNames'
BY DEF UniqueNames

LEMMA NamesStep ==
  ASSUME IInv, UniqueNames, [Next]_vars \/ Heard
  PROVE  UniqueNames'
<1>1. TypeOK /\ ConfirmedRevisionsExist
  BY DEF IInv
<1> USE DEF SameHop, SameBox
<1>2. ASSUME NEW n \in Name, NEW r \in Role, NEW a \in Addr, NEW t \in Target \cup {NoTarget},
             NEW p \in 0..MaxHops, Add(n, r, a, t, p)
      PROVE  UniqueNames'
  <2>1. /\ DOMAIN rows' = DOMAIN rows \cup {created + 1}
        /\ \A g \in DOMAIN rows : rows'[g].name = rows[g].name
        /\ rows'[created + 1].name = n
    BY <1>1, <1>2, AddRows
  <2>2. \A g \in DOMAIN rows : rows[g].name # n
    BY <1>2 DEF Add, NameTaken
  <2>3. QED
    BY <2>1, <2>2 DEF UniqueNames
<1>3. ASSUME NEW h \in HopId, NEW n \in Name, NEW a \in Addr,
             NEW t \in Target \cup {NoTarget}, Update(h, n, a, t)
      PROVE  UniqueNames'
  <2>1. /\ h \in DOMAIN rows /\ DOMAIN rows' = DOMAIN rows
        /\ \A g \in DOMAIN rows \ {h} : rows'[g] = rows[g]
    BY <1>1, <1>3, UpdateRows DEF SamePlace
  <2>2. rows[h] \in Row /\ rows \in [DOMAIN rows -> Row]
    BY <1>1, <2>1 DEF TypeOK
  <2>3. rows'[h].name = n
    BY <1>3, <2>1, <2>2 DEF Update, Row
  <2>4. \A g \in DOMAIN rows \ {h} : rows[g].name # n
    BY <1>3 DEF Update
  <2>5. QED
    BY <2>1, <2>3, <2>4 DEF UniqueNames
<1>4. ASSUME NEW h \in HopId, NEW force \in BOOLEAN, NEW skipDrain \in BOOLEAN,
             DeleteNow(h, force, skipDrain)
      PROVE  UniqueNames'
  BY <1>1, <1>4, DeleteRows, NamesKept
<1>5. ASSUME NEW h \in HopId, NEW force \in BOOLEAN, StartDraining(h, force)
      PROVE  UniqueNames'
  BY <1>1, <1>5, StartDrainingRows, NamesKept
<1>6. ASSUME NEW h \in HopId, SetActive(h)
      PROVE  UniqueNames'
  BY <1>1, <1>6, SetActiveRows, NamesKept DEF SamePlace
<1>7. CASE ClearActive
  BY <1>1, <1>7, ClearActiveRows, NamesKept DEF SamePlace
<1>8. ASSUME NEW h \in HopId, ReissueToken(h) \/ TokenExpires(h) \/ DrainDeadline(h)
      PROVE  UniqueNames'
  BY <1>1, <1>8, OneFieldRows, NamesKept DEF SamePlace
<1>9. ASSUME NEW h \in HopId, NEW a \in Addr, Join(h, a)
      PROVE  UniqueNames'
  BY <1>1, <1>9, JoinRows, NamesKept
<1>10. ASSUME NEW h \in HopId, NEW seen \in Nat, NEW acks \in SUBSET (Name \X Nat),
              RecordSeen(h, seen, acks)
       PROVE  UniqueNames'
  <2>1. DOMAIN rows' = DOMAIN rows /\ \A g \in DOMAIN rows : Entry(rows', g) = Entry(rows, g)
    BY <1>1, <1>10, RecordSeenRows
  <2>2. QED
    BY <2>1, NamesKept DEF Entry
<1>11. ASSUME NEW h \in HopId, FinishDraining(h)
       PROVE  UniqueNames'
  BY <1>1, <1>11, FinishRows, NamesKept
<1>12. ASSUME rows' = rows
       PROVE  UniqueNames'
  BY <1>12 DEF UniqueNames
<1>13. CASE PanelRestart
  <2>1. rows' = rows \/ DOMAIN rows' = {created + 1}
    BY <1>1, <1>13, RestartRows
  <2>2. QED
    BY <1>12, <2>1 DEF UniqueNames
<1>14. CASE SweepStep
  BY <1>1, <1>11, <1>12, <1>14 DEF SweepStep, TypeOK
<1>15. CASE SweepTick \/ (\E p \in Watched : MonReport(p)) \/ UNCHANGED vars
  BY <1>12, <1>15 DEF SweepTick, MonReport, vars
<1>16. CASE \E p \in Ports : PortsChanged(p)
  BY <1>12, <1>16 DEF PortsChanged
<1>17. QED
  BY <1>1, <1>2, <1>3, <1>4, <1>5, <1>6, <1>7, <1>8, <1>9, <1>10, <1>13, <1>14, <1>15, <1>16,
     PollsTyped DEF Next, Owner, Boxes, Clock, Poll, Heard

-----------------------------------------------------------------------------
(* What a write of the panel can do to a document it knows nothing of. *)

\* Nobody leaves but under a revision of their own, no name of a departing hop
\* changes, and no secret does without a new revision.
TableMoves ==
  /\ revision' \in Nat /\ revision' >= revision
  /\ created' \in Nat /\ created' >= created
  /\ \A h \in Rows(rows', {"draining"}) :
       \/ rows'[h].drainRevision = revision + 1
       \/ /\ h \in Rows(rows, {"draining"})
          /\ rows'[h].drainRevision = rows[h].drainRevision
          /\ rows'[h].name = rows[h].name
  /\ revision' = revision =>
       \A h \in DOMAIN rows' :
         \/ h \in DOMAIN rows /\ rows'[h].secret = rows[h].secret
         \/ h = created + 1

LEMMA MovesKept ==
  ASSUME TypeOK, revision' \in {revision, revision + 1}, created' = created,
         DOMAIN rows' \subseteq DOMAIN rows,
         \A g \in DOMAIN rows' :
           /\ rows'[g].state = "draining" =>
                /\ rows[g].state = "draining"
                /\ rows'[g].drainRevision = rows[g].drainRevision
                /\ rows'[g].name = rows[g].name
           /\ rows'[g].secret = rows[g].secret
  PROVE  TableMoves
BY DEF TypeOK, TableMoves, Rows

LEMMA MovesStep ==
  ASSUME IInv, [Next]_vars \/ Heard
  PROVE  TableMoves
<1>1. TypeOK /\ ConfirmedRevisionsExist /\ revision \in Nat /\ created \in Nat
  BY DEF IInv, TypeOK
<1> USE DEF SameHop, SameBox
<1>2. ASSUME NEW n \in Name, NEW r \in Role, NEW a \in Addr, NEW t \in Target \cup {NoTarget},
             NEW p \in 0..MaxHops, Add(n, r, a, t, p)
      PROVE  TableMoves
  <2>1. /\ DOMAIN rows' = DOMAIN rows \cup {created + 1}
        /\ \A g \in DOMAIN rows : SameHop(rows'[g], rows[g])
        /\ rows'[created + 1].state = "pending"
    BY <1>1, <1>2, AddRows
  <2>2. created' = created + 1 /\ revision' = revision
    BY <1>2 DEF Add
  <2>3. QED
    BY <1>1, <2>1, <2>2 DEF TableMoves, Rows
<1>3. ASSUME NEW h \in HopId, NEW n \in Name, NEW a \in Addr,
             NEW t \in Target \cup {NoTarget}, Update(h, n, a, t)
      PROVE  TableMoves
  <2>1. /\ h \in DOMAIN rows /\ DOMAIN rows' = DOMAIN rows
        /\ \A g \in DOMAIN rows \ {h} : rows'[g] = rows[g]
        /\ rows'[h].state # "draining"
        /\ \A g \in DOMAIN rows : rows'[g].secret = rows[g].secret
    BY <1>1, <1>3, UpdateRows DEF SamePlace
  <2>2. revision' = revision + 1 /\ created' = created
    BY <1>3 DEF Update, Bump
  <2>3. QED
    BY <1>1, <2>1, <2>2, MovesKept
<1>4. ASSUME NEW h \in HopId, NEW force \in BOOLEAN, NEW skipDrain \in BOOLEAN,
             DeleteNow(h, force, skipDrain)
      PROVE  TableMoves
  <2>1. revision' = revision + 1 /\ created' = created
    BY <1>4 DEF DeleteNow, Bump
  <2>2. QED
    BY <1>1, <1>4, <2>1, DeleteRows, MovesKept
<1>5. ASSUME NEW h \in HopId, NEW force \in BOOLEAN, StartDraining(h, force)
      PROVE  TableMoves
  <2>1. revision' = revision + 1 /\ created' = created
    BY <1>5 DEF StartDraining, Bump
  <2>2. /\ h \in DOMAIN rows /\ DOMAIN rows' = DOMAIN rows
        /\ \A g \in DOMAIN rows \ {h} : SameHop(rows'[g], rows[g])
        /\ rows'[h].drainRevision = revision + 1
    BY <1>1, <1>5, StartDrainingRows
  <2>3. QED
    BY <1>1, <2>1, <2>2 DEF TableMoves, Rows
<1>6. ASSUME NEW h \in HopId, SetActive(h)
      PROVE  TableMoves
  <2>1. revision' = revision + 1 /\ created' = created
    BY <1>6 DEF SetActive, Bump
  <2>2. QED
    BY <1>1, <1>6, <2>1, SetActiveRows, MovesKept DEF SamePlace
<1>7. CASE ClearActive
  <2>1. revision' = revision + 1 /\ created' = created
    BY <1>7 DEF ClearActive, Bump
  <2>2. QED
    BY <1>1, <1>7, <2>1, ClearActiveRows, MovesKept DEF SamePlace
<1>8. ASSUME NEW h \in HopId, ReissueToken(h) \/ TokenExpires(h) \/ DrainDeadline(h)
      PROVE  TableMoves
  <2>1. revision' = revision /\ created' = created
    BY <1>8 DEF ReissueToken, TokenExpires, DrainDeadline
  <2>2. /\ h \in DOMAIN rows /\ DOMAIN rows' = DOMAIN rows
        /\ \A g \in DOMAIN rows \ {h} : rows'[g] = rows[g]
        /\ rows'[h].state \in {"pending", rows[h].state}
        /\ SameBox(rows'[h], rows[h]) /\ rows'[h].drainRevision = rows[h].drainRevision
    BY <1>1, <1>8, OneFieldRows DEF SamePlace
  <2>3. QED
    BY <1>1, <2>1, <2>2, MovesKept
<1>9. ASSUME NEW h \in HopId, NEW a \in Addr, Join(h, a)
      PROVE  TableMoves
  <2>1. revision' = revision + 1 /\ created' = created
    BY <1>9 DEF Join, Bump
  <2>2. /\ h \in DOMAIN rows /\ DOMAIN rows' = DOMAIN rows
        /\ \A g \in DOMAIN rows \ {h} : SameHop(rows'[g], rows[g])
        /\ rows'[h].state = "joined"
    BY <1>1, <1>9, JoinRows
  <2>3. QED
    BY <1>1, <2>1, <2>2 DEF TableMoves, Rows
<1>10. ASSUME NEW h \in HopId, NEW seen \in Nat, NEW acks \in SUBSET (Name \X Nat),
              RecordSeen(h, seen, acks)
       PROVE  TableMoves
  <2>1. revision' = revision /\ created' = created
    BY <1>10 DEF RecordSeen
  <2>2. /\ DOMAIN rows' = DOMAIN rows
        /\ \A g \in DOMAIN rows : /\ Entry(rows', g) = Entry(rows, g)
                                  /\ rows'[g].drainRevision = rows[g].drainRevision
    BY <1>1, <1>10, RecordSeenRows
  <2>3. \A g \in DOMAIN rows : /\ rows'[g].name = rows[g].name /\ rows'[g].state = rows[g].state
                               /\ <<g, rows'[g].secret>> = <<g, rows[g].secret>>
    BY <2>2 DEF Entry
  <2>4. QED
    BY <1>1, <2>1, <2>2, <2>3, MovesKept
<1>11. ASSUME NEW h \in HopId, FinishDraining(h)
       PROVE  TableMoves
  <2>1. revision' \in {revision, revision + 1} /\ created' = created
    BY <1>11 DEF FinishDraining
  <2>2. QED
    BY <1>1, <1>11, <2>1, FinishRows, MovesKept
<1>12. ASSUME rows' = rows, created' = created, revision' \in {revision, revision + 1}
       PROVE  TableMoves
  BY <1>1, <1>12, MovesKept
<1>13. CASE PanelRestart
  <2>1. CASE /\ DOMAIN rows' = {created + 1} /\ rows'[created + 1].state = "legacy"
             /\ created' = created + 1 /\ revision' = revision + 1
    BY <1>1, <2>1 DEF TableMoves, Rows
  <2>2. QED
    BY <1>1, <1>12, <1>13, <2>1, RestartRows
<1>14. CASE SweepStep
  BY <1>1, <1>11, <1>12, <1>14 DEF SweepStep, TypeOK
<1>15. CASE SweepTick \/ (\E p \in Watched : MonReport(p)) \/ UNCHANGED vars
  BY <1>12, <1>15 DEF SweepTick, MonReport, vars
<1>16. CASE \E p \in Ports : PortsChanged(p)
  BY <1>12, <1>16 DEF PortsChanged, Bump
<1>17. QED
  BY <1>1, <1>2, <1>3, <1>4, <1>5, <1>6, <1>7, <1>8, <1>9, <1>10, <1>13, <1>14, <1>15, <1>16,
     PollsTyped DEF Next, Owner, Boxes, Clock, Poll, Heard

-----------------------------------------------------------------------------
(* The documents the panel builds. *)

\* The order of the hops is strict and total.
LEMMA OrderTotal ==
  ASSUME NEW T, IsTable(T), NEW g \in DOMAIN T, NEW h \in DOMAIN T
  PROVE  /\ ~Before(T, h, h)
         /\ g # h => Before(T, g, h) \/ Before(T, h, g)
         /\ Before(T, g, h) => ~Before(T, h, g)
BY OrderTypes DEF Before

UpTo(T, S, g) == {i \in S : i = g \/ Before(T, i, g)}

\* Counting from the innermost, every place of a list of hops is somebody's.
LEMMA PlacesTaken ==
  ASSUME NEW T, IsTable(T), NEW S \in SUBSET DOMAIN T
  PROVE  /\ Cardinality(S) \in Nat
         /\ \A k \in 1..Cardinality(S) : \E g \in S : Cardinality(UpTo(T, S, g)) = k
<1> DEFINE rank(g) == Cardinality(UpTo(T, S, g))
           n == Cardinality(S)
<1>1. IsFiniteSet(S) /\ n \in Nat
  BY RowsFinite, FS_CardinalityType
<1>2. \A g \in S : UpTo(T, S, g) \in SUBSET S /\ g \in UpTo(T, S, g)
  BY DEF UpTo
<1>3. \A g \in S : /\ IsFiniteSet(UpTo(T, S, g)) /\ rank(g) \in Nat
                   /\ rank(g) <= n
  BY <1>1, <1>2, RowsFinite, FS_CardinalityType, FS_Subset
<1>4. \A g \in S : rank(g) # 0
  BY <1>2, <1>3, FS_EmptySet
<1>5. ASSUME NEW g \in S, NEW h \in S, Before(T, g, h)
      PROVE  rank(g) # rank(h)
  <2>1. g \in DOMAIN T /\ h \in DOMAIN T /\ S \subseteq DOMAIN T
    OBVIOUS
  <2>2. UpTo(T, S, g) \subseteq UpTo(T, S, h)
    BY <1>5, <2>1, BeforeTransitive DEF UpTo
  <2>3. h \in UpTo(T, S, h) /\ h \notin UpTo(T, S, g)
    BY <1>5, <2>1, OrderTotal DEF UpTo
  <2>4. QED
    BY <1>3, <2>2, <2>3, FS_Subset
<1>6. \A g, h \in S : rank(g) = rank(h) => g = h
  <2> HIDE DEF rank
  <2>1. \A g, h \in S : g # h => Before(T, g, h) \/ Before(T, h, g)
    BY OrderTotal
  <2>2. QED
    BY <1>5, <2>1
<1> DEFINE f == [g \in S |-> rank(g)]
<1> HIDE DEF rank, n
<1>7. f \in Injection(S, 1..n)
  BY <1>1, <1>3, <1>4, <1>6 DEF Injection, IsInjective
<1>8. IsFiniteSet(1..n) /\ Cardinality(1..n) = n
  BY <1>1, FS_Interval
<1>9. f \in Surjection(S, 1..n)
  BY <1>1, <1>7, <1>8, FS_Injection DEF n
<1>10. \A k \in 1..n : \E g \in S : rank(g) = k
  BY <1>9 DEF Surjection
<1>11. QED
  BY <1>1, <1>10 DEF rank, n

Wire(T, g) == [name |-> T[g].name, role |-> T[g].role, secret |-> <<g, T[g].secret>>,
               state |-> T[g].state]

LEMMA PanelDocumentIs ==
  ASSUME NEW T, Walkable(T), NEW r \in Nat, NEW h \in DOMAIN T
  PROVE  /\ PanelDocument(T, r, h) \in Doc
         /\ PanelDocument(T, r, h).revision = r
         /\ PanelDocument(T, r, h).state = T[h].state
         /\ \/ PanelDocument(T, r, h).nextHop = Panel
            \/ PanelDocument(T, r, h).nextHop \in LiveInners(T)
         /\ \A e \in Range(PanelDocument(T, r, h).hops) : \E g \in DOMAIN T : e = Wire(T, g)
<1> DEFINE S == {h} \cup Outward(T, h)
           n == Cardinality(S)
           at(k) == CHOOSE g \in S : Cardinality(UpTo(T, S, g)) = k
           hops == [k \in 1..n |-> Wire(T, at(k))]
           d == PanelDocument(T, r, h)
<1>1. IsTable(T)
  BY DEF Walkable
<1>2. S \in SUBSET DOMAIN T
  BY DEF Outward
<1>3. d = [revision |-> r, name |-> T[h].name, state |-> T[h].state,
           nextHop |-> Dialled(T, h), hops |-> hops]
  BY DEF PanelDocument, Wire, UpTo
<1>4. n \in Nat /\ \A k \in 1..n : at(k) \in DOMAIN T
  <2> HIDE DEF S
  <2>1. n \in Nat /\ \A k \in 1..n : \E g \in S : Cardinality(UpTo(T, S, g)) = k
    BY <1>1, <1>2, PlacesTaken
  <2>2. QED
    BY <1>2, <2>1
<1> HIDE DEF S, at, n, d
<1>5. \A g \in DOMAIN T : Wire(T, g) \in WireHop
  BY <1>1 DEF Wire, WireHop, IsTable, Row
<1>6. hops \in [1..n -> WireHop]
  BY <1>4, <1>5
<1>7. hops \in Seq(WireHop)
  <2> HIDE DEF hops
  <2>1. QED
    BY <1>4, <1>6
<1>8. \A e \in Range(hops) : \E g \in DOMAIN T : e = Wire(T, g)
  BY <1>4 DEF Range
<1>9. \/ Dialled(T, h) = Panel
      \/ Dialled(T, h) \in LiveInners(T)
  BY DialledIs, ReachedIn DEF VisibleLive
<1>10. Dialled(T, h) \in NextHop
  BY <1>1, <1>9 DEF LiveInners, Inners, IsTable, NextHop
<1>11. T[h].name \in Name /\ T[h].state \in State
  BY <1>1 DEF IsTable, Row
<1> HIDE DEF hops
<1>12. d \in Doc
  BY <1>3, <1>7, <1>10, <1>11 DEF Doc
<1>13. QED
  BY <1>3, <1>8, <1>9, <1>12 DEF d

\* What a box hands on is part of what it was handed.
LEMMA TruncateDocumentIs ==
  ASSUME NEW d \in Doc, NEW s \in HopId, NEW e \in Range(d.hops)
  PROVE  /\ TruncateDocument(d, s, e) \in Doc
         /\ TruncateDocument(d, s, e).revision = d.revision
         /\ TruncateDocument(d, s, e).state = e.state
         /\ TruncateDocument(d, s, e).nextHop = IF d.state = "draining" THEN d.nextHop ELSE s
         /\ Range(TruncateDocument(d, s, e).hops) \subseteq Range(d.hops)
<1> DEFINE from == {k \in DOMAIN d.hops : d.hops[k].name = e.name}
           first == CHOOSE k \in from : \A i \in from : k <= i
           suffix == IF from = {} THEN <<>> ELSE SubSeq(d.hops, first, Len(d.hops))
           hops == IF e.role = "edge" THEN <<e>> ELSE suffix
           t == TruncateDocument(d, s, e)
<1>1. t = [revision |-> d.revision, name |-> e.name, state |-> e.state,
           nextHop |-> IF d.state = "draining" THEN d.nextHop ELSE s, hops |-> hops]
  BY DEF TruncateDocument
<1>2. /\ d.hops \in Seq(WireHop) /\ d.revision \in Nat /\ d.nextHop \in NextHop
      /\ Len(d.hops) \in Nat /\ DOMAIN d.hops = 1..Len(d.hops)
      /\ \A k \in DOMAIN d.hops : d.hops[k] \in WireHop
  BY DEF Doc
<1>3. e \in WireHop
  BY <1>2 DEF Range
<1>4. ASSUME from # {}
      PROVE  first \in from
  <2>1. from \subseteq Nat
    BY <1>2
  <2>2. \E k \in from : \A j \in from : ~(<<j, k>> \in OpToRel(<, Nat))
    <3> HIDE DEF from
    <3>1. QED
      BY <1>4, <2>1, NatLessThanWellFounded, WFMin
  <2>3. PICK k \in from : \A j \in from : ~(j < k)
    <3> HIDE DEF from
    <3>1. QED
      BY <2>1, <2>2 DEF OpToRel
  <2>4. \A j \in from : k <= j
    BY <2>1, <2>3
  <2> HIDE DEF from
  <2>5. QED
    BY <2>4
<1>5. ASSUME from # {}
      PROVE  /\ SubSeq(d.hops, first, Len(d.hops)) \in Seq(WireHop)
             /\ Range(SubSeq(d.hops, first, Len(d.hops))) \subseteq Range(d.hops)
  <2>1. first \in 1..Len(d.hops)
    BY <1>2, <1>4, <1>5
  <2> HIDE DEF first
  <2> DEFINE tail == SubSeq(d.hops, first, Len(d.hops))
  <2>2. /\ tail \in Seq(WireHop)
        /\ Len(tail) = Len(d.hops) - first + 1
        /\ \A i \in 1..(Len(d.hops) - first + 1) : tail[i] = d.hops[first + i - 1]
    BY <1>2, <2>1
  <2> HIDE DEF tail
  <2>3. DOMAIN tail = 1..(Len(d.hops) - first + 1)
    BY <2>2
  <2>4. \A i \in DOMAIN tail : first + i - 1 \in DOMAIN d.hops /\ tail[i] = d.hops[first + i - 1]
    BY <1>2, <2>1, <2>2, <2>3
  <2>5. QED
    BY <2>2, <2>4 DEF Range, tail
<1>6. hops \in Seq(WireHop) /\ Range(hops) \subseteq Range(d.hops)
  <2>1. CASE e.role = "edge"
    <3>1. <<e>> \in Seq(WireHop) /\ DOMAIN <<e>> = {1} /\ <<e>>[1] = e
      BY <1>3
    <3>2. QED
      BY <2>1, <3>1 DEF Range
  <2>2. CASE e.role # "edge" /\ from = {}
    <3>1. <<>> \in Seq(WireHop) /\ DOMAIN <<>> = {}
      OBVIOUS
    <3>2. hops = <<>>
      BY <2>2
    <3>3. QED
      BY <3>1, <3>2 DEF Range
  <2>3. CASE e.role # "edge" /\ from # {}
    <3> HIDE DEF from, first
    <3>1. QED
      BY <1>5, <2>3
  <2>4. QED
    BY <2>1, <2>2, <2>3
<1>7. e.name \in Name /\ e.state \in State /\ s \in NextHop
  BY <1>3 DEF WireHop, NextHop
<1> HIDE DEF hops, t
<1>8. t \in Doc
  BY <1>1, <1>2, <1>6, <1>7 DEF Doc
<1>9. QED
  BY <1>1, <1>6, <1>8 DEF t

-----------------------------------------------------------------------------
(* What a document, whoever holds it, has in common with the table. *)

\* The document of box g has no revision the panel has not reached.  Where it has
\* the one a hop left at, or a later one, it does not dial that hop, and knows it
\* to be leaving.
LeavesBehind(T, g, d) ==
  \A h \in Rows(T, {"draining"}) :
    \/ d.revision < T[h].drainRevision
    \/ /\ d.nextHop # h
       /\ g = h => d.state = "draining"
       /\ \A e \in Range(d.hops) : e.secret[1] = h => e.state = "draining"

\* Where it has the current revision, it lists secrets that are current.
ListsCurrent(T, r, d) ==
  d.revision = r =>
    \A e \in Range(d.hops) :
      e.secret[1] \in DOMAIN T => T[e.secret[1]].secret = e.secret[2]

Fits(T, r, c, g, d) ==
  /\ d.revision <= r
  /\ \A e \in Range(d.hops) : e.secret[1] \in 1..c
  /\ LeavesBehind(T, g, d)
  /\ ListsCurrent(T, r, d)

\* A document goes on fitting whatever the panel writes.
LEMMA FitsKept ==
  ASSUME TableMoves, revision \in Nat, created \in Nat, rows \in [DOMAIN rows -> Row],
         NEW g \in HopId, NEW d \in Doc, Fits(rows, revision, created, g, d)
  PROVE  Fits(rows', revision', created', g, d)
<1>1. /\ d.revision \in Nat /\ d.revision <= revision
      /\ revision' \in Nat /\ revision' >= revision
      /\ created' \in Nat /\ created' >= created
  BY DEF Doc, Fits, TableMoves
<1>2. \A e \in Range(d.hops) : e.secret[1] \in 1..created
  BY DEF Fits
<1>3. LeavesBehind(rows', g, d)
  <2> SUFFICES ASSUME NEW h \in Rows(rows', {"draining"})
               PROVE  \/ d.revision < rows'[h].drainRevision
                      \/ /\ d.nextHop # h
                         /\ g = h => d.state = "draining"
                         /\ \A e \in Range(d.hops) : e.secret[1] = h => e.state = "draining"
    BY DEF LeavesBehind
  <2>1. CASE rows'[h].drainRevision = revision + 1
    BY <1>1, <2>1
  <2>2. CASE /\ h \in Rows(rows, {"draining"})
             /\ rows'[h].drainRevision = rows[h].drainRevision
    BY <2>2 DEF Fits, LeavesBehind
  <2>3. QED
    BY <2>1, <2>2 DEF TableMoves
<1>4. ListsCurrent(rows', revision', d)
  <2> SUFFICES ASSUME d.revision = revision', NEW e \in Range(d.hops),
                      e.secret[1] \in DOMAIN rows'
               PROVE  rows'[e.secret[1]].secret = e.secret[2]
    BY DEF ListsCurrent
  <2>1. revision' = revision /\ d.revision = revision
    BY <1>1
  <2>2. e.secret[1] # created + 1
    BY <1>2
  <2>3. /\ e.secret[1] \in DOMAIN rows
        /\ rows'[e.secret[1]].secret = rows[e.secret[1]].secret
    BY <2>1, <2>2 DEF TableMoves
  <2>4. QED
    BY <2>1, <2>3 DEF Fits, ListsCurrent
<1>5. \A e \in Range(d.hops) : e.secret[1] \in 1..created'
  <2> SUFFICES ASSUME NEW e \in Range(d.hops) PROVE e.secret[1] \in 1..created'
    OBVIOUS
  <2>1. created' \in Int
    BY DEF TableMoves
  <2>2. QED
    BY <1>1, <1>2, <2>1
<1>6. QED
  BY <1>1, <1>3, <1>4, <1>5 DEF Fits

\* What the panel builds for the row box g asked about fits, be the revision one
\* read earlier.
LEMMA PanelDocumentFits ==
  ASSUME NEW T, Walkable(T), NEW c \in Nat, DOMAIN T \subseteq 1..c,
         NEW q \in Nat, NEW r \in Nat, r <= q, NEW h \in DOMAIN T, NEW g \in HopId,
         g \in Rows(T, {"draining"}) /\ r >= T[g].drainRevision => h = g
  PROVE  Fits(T, q, c, g, PanelDocument(T, r, h))
<1> DEFINE d == PanelDocument(T, r, h)
<1>1. /\ d.revision = r /\ d.state = T[h].state
      /\ \/ d.nextHop = Panel
         \/ d.nextHop \in LiveInners(T)
      /\ \A e \in Range(d.hops) : \E i \in DOMAIN T : e = Wire(T, i)
  BY PanelDocumentIs
<1> HIDE DEF d
<1>2. \A e \in Range(d.hops) :
        /\ e.secret[1] \in DOMAIN T
        /\ T[e.secret[1]].secret = e.secret[2]
        /\ T[e.secret[1]].state = e.state
  BY <1>1 DEF Wire
<1>3. IsTable(T)
  BY DEF Walkable
<1>4. LeavesBehind(T, g, d)
  <2> SUFFICES ASSUME NEW k \in Rows(T, {"draining"}), ~(r < T[k].drainRevision)
               PROVE  /\ d.nextHop # k
                      /\ g = k => d.state = "draining"
                      /\ \A e \in Range(d.hops) : e.secret[1] = k => e.state = "draining"
    BY <1>1 DEF LeavesBehind
  <2>1. k \in HopId /\ T[k].state = "draining" /\ T[k].drainRevision \in Nat
    BY <1>3 DEF Rows, IsTable, Row
  <2>2. k # Panel /\ k \notin LiveInners(T)
    BY <2>1 DEF HopId, Panel, LiveInners
  <2>3. r >= T[k].drainRevision
    BY <2>1
  <2>4. QED
    BY <1>1, <1>2, <2>1, <2>2, <2>3
<1>5. ListsCurrent(T, q, d)
  BY <1>2 DEF ListsCurrent
<1>6. QED
  BY <1>1, <1>2, <1>4, <1>5 DEF Fits, d

\* What box s hands box h fits h, if what s has fits s.
LEMMA TruncateDocumentFits ==
  ASSUME NEW T, NEW r, NEW c, NEW s \in HopId, NEW h \in HopId,
         NEW d \in Doc, Fits(T, r, c, s, d),
         NEW e \in Range(d.hops), e.secret[1] = h
  PROVE  Fits(T, r, c, h, TruncateDocument(d, s, e))
<1> DEFINE t == TruncateDocument(d, s, e)
<1>1. /\ t.revision = d.revision /\ t.state = e.state
      /\ t.nextHop = IF d.state = "draining" THEN d.nextHop ELSE s
      /\ Range(t.hops) \subseteq Range(d.hops)
  BY TruncateDocumentIs
<1> HIDE DEF t
<1>2. LeavesBehind(T, h, t)
  BY <1>1 DEF Fits, LeavesBehind
<1>3. ListsCurrent(T, r, t)
  BY <1>1 DEF Fits, ListsCurrent
<1>4. QED
  BY <1>1, <1>2, <1>3 DEF Fits, t

-----------------------------------------------------------------------------
(* The invariant of the wave. *)

\* A poll the panel has admitted and not answered: where it read the revision a
\* hop leaves at, or a later one, it read the name that hop has.
AskFits(T, r, h, a) ==
  /\ a.revision <= r
  /\ h \in Rows(T, {"draining"}) /\ a.revision >= T[h].drainRevision => a.name = T[h].name

HeldFits(g, d) == Fits(rows, revision, created, g, d)

InForce ==
  /\ doc \in [HopId -> Doc \cup {NoDoc}]
  /\ \A g \in HopId : doc[g] # NoDoc => HeldFits(g, doc[g])

OnDisk ==
  /\ disk \in [HopId -> [secret : Nat, dial : NextHop, doc : Doc \cup {NoDoc}]]
  /\ \A g \in HopId : disk[g].doc # NoDoc => HeldFits(g, disk[g].doc)

Underway ==
  /\ reply \in [HopId -> Asked \cup Doc \cup {NoReply}]
  /\ \A g \in HopId : /\ reply[g] \in Doc => HeldFits(g, reply[g])
                      /\ reply[g] \in Asked => AskFits(rows, revision, g, reply[g])

BoxTypes ==
  /\ up \in [HopId -> BOOLEAN]
  /\ config \in [HopId -> Config]
  /\ outer \in [HopId -> [Name -> Nat]]

Registry == IInv /\ PathInv /\ UniqueNames

WaveInv == Registry /\ InForce /\ OnDisk /\ Underway /\ BoxTypes

LEMMA AskedIsNoDoc ==
  ASSUME NEW a \in Asked
  PROVE  a \notin Doc
<1>1. DOMAIN a = {"name", "revision", "seen", "acks"}
  BY DEF Asked
<1>2. ASSUME a \in Doc
      PROVE  "hops" \in DOMAIN a
  BY <1>2 DEF Doc
<1>3. QED
  BY <1>1, <1>2

LEMMA RevisionType ==
  ASSUME NEW d \in Doc \cup {NoDoc}
  PROVE  Revision(d) \in Nat
BY DEF Revision, Doc

\* What the panel writes in a step of the wave.
LEMMA PanelWrites ==
  ASSUME TypeOK, Underway, [WaveNext]_waveVars
  PROVE  \/ Owner \/ Clock \/ UNCHANGED vars \/ Heard
         \/ \E h \in HopId, a \in Addr : Join(h, a)
<1>1. ASSUME NEW h \in HopId, PanelAnswers(h)
      PROVE  UNCHANGED vars \/ Heard
  <2>1. ASSUME NEW g \in DOMAIN rows,
               RecordSeen(g, reply[h].seen, {<<n, reply[h].acks[n]>> : n \in Name})
        PROVE  Heard
    <3>1. g \in HopId
      BY RowsTable DEF IsTable
    <3>2. reply[h].seen \in Nat /\ reply[h].acks \in [Name -> Nat]
      BY <1>1 DEF PanelAnswers, Asked
    <3>3. {<<n, reply[h].acks[n]>> : n \in Name} \in SUBSET (Name \X Nat)
      BY <3>2
    <3>4. QED
      BY <2>1, <3>1, <3>2, <3>3 DEF Heard
  <2>2. QED
    BY <1>1, <2>1 DEF PanelAnswers
<1>2. CASE Polls
  BY <1>1, <1>2 DEF Polls, PollPanel, PollBox, Receive, Lose
<1>3. CASE Joins
  BY <1>3 DEF Joins, JoinPage, Rejoin, JoinLost
<1>4. CASE Processes
  BY <1>4 DEF Processes, Stop, Start
<1>5. QED
  BY <1>2, <1>3, <1>4 DEF WaveNext, Panels, waveVars

\* It is a step of the registry, or a poll.
LEMMA RegistryMoves ==
  ASSUME TypeOK, Underway, [WaveNext]_waveVars
  PROVE  [Next]_vars \/ Heard
BY PanelWrites DEF Next, Boxes

LEMMA RegistryStep ==
  ASSUME Registry, Underway, [WaveNext]_waveVars
  PROVE  Registry' /\ TableMoves
<1>1. IInv /\ PathInv /\ UniqueNames /\ TypeOK
  BY DEF Registry, IInv
<1>2. [Next]_vars \/ Heard
  BY <1>1, RegistryMoves
<1>3. QED
  BY <1>1, <1>2, InvStep, PathStep, NamesStep, MovesStep DEF Registry

\* What is held goes on fitting, and what is written has to fit.
LEMMA HeldKept ==
  ASSUME Registry, TableMoves, NEW g \in HopId, NEW d \in Doc, HeldFits(g, d)
  PROVE  Fits(rows', revision', created', g, d)
<1>1. revision \in Nat /\ created \in Nat /\ rows \in [DOMAIN rows -> Row]
  BY DEF Registry, IInv, TypeOK
<1>2. QED
  BY <1>1, FitsKept DEF HeldFits

LEMMA AskKept ==
  ASSUME TypeOK, TableMoves, NEW h \in HopId, NEW a \in Asked,
         AskFits(rows, revision, h, a)
  PROVE  AskFits(rows', revision', h, a)
<1>1. /\ a.revision \in Nat /\ revision \in Nat
      /\ a.revision <= revision
      /\ revision' \in Nat /\ revision' >= revision
  BY DEF Asked, TypeOK, TableMoves, AskFits
<1>2. ASSUME h \in Rows(rows', {"draining"}), a.revision >= rows'[h].drainRevision
      PROVE  a.name = rows'[h].name
  <2>1. rows'[h].drainRevision # revision + 1
    BY <1>1, <1>2
  <2>2. /\ h \in Rows(rows, {"draining"})
        /\ rows'[h].drainRevision = rows[h].drainRevision
        /\ rows'[h].name = rows[h].name
    BY <1>2, <2>1 DEF TableMoves
  <2>3. QED
    BY <1>2, <2>2 DEF AskFits
<1>3. QED
  BY <1>1, <1>2 DEF AskFits

LEMMA InForceStep ==
  ASSUME Registry, TableMoves, InForce, NEW h \in HopId, NEW d \in Doc \cup {NoDoc},
         d # NoDoc => Fits(rows', revision', created', h, d),
         doc' = doc \/ doc' = [doc EXCEPT ![h] = d]
  PROVE  InForce'
<1>1. doc \in [HopId -> Doc \cup {NoDoc}]
  BY DEF InForce
<1>2. doc' \in [HopId -> Doc \cup {NoDoc}]
  BY <1>1
<1>3. ASSUME NEW g \in HopId, doc'[g] # NoDoc
      PROVE  Fits(rows', revision', created', g, doc'[g])
  <2>1. CASE doc'[g] = doc[g]
    <3>1. doc[g] \in Doc /\ HeldFits(g, doc[g])
      BY <1>1, <1>3, <2>1 DEF InForce
    <3>2. QED
      BY <2>1, <3>1, HeldKept
  <2>2. CASE g = h /\ doc'[g] = d
    BY <1>3, <2>2
  <2>3. QED
    BY <1>1, <2>1, <2>2
<1>4. QED
  BY <1>2, <1>3 DEF InForce, HeldFits

LEMMA OnDiskStep ==
  ASSUME Registry, TableMoves, OnDisk, NEW h \in HopId,
         NEW f \in [secret : Nat, dial : NextHop, doc : Doc \cup {NoDoc}],
         f.doc # NoDoc => Fits(rows', revision', created', h, f.doc),
         disk' = disk \/ disk' = [disk EXCEPT ![h] = f]
  PROVE  OnDisk'
<1>1. disk \in [HopId -> [secret : Nat, dial : NextHop, doc : Doc \cup {NoDoc}]]
  BY DEF OnDisk
<1>2. disk' \in [HopId -> [secret : Nat, dial : NextHop, doc : Doc \cup {NoDoc}]]
  BY <1>1
<1>3. ASSUME NEW g \in HopId, disk'[g].doc # NoDoc
      PROVE  Fits(rows', revision', created', g, disk'[g].doc)
  <2>1. CASE disk'[g] = disk[g]
    <3>1. disk[g].doc \in Doc /\ HeldFits(g, disk[g].doc)
      BY <1>1, <1>3, <2>1 DEF OnDisk
    <3>2. QED
      BY <2>1, <3>1, HeldKept
  <2>2. CASE g = h /\ disk'[g] = f
    BY <1>3, <2>2
  <2>3. QED
    BY <1>1, <2>1, <2>2
<1>4. QED
  BY <1>2, <1>3 DEF OnDisk, HeldFits

LEMMA UnderwayStep ==
  ASSUME Registry, TableMoves, Underway, NEW h \in HopId,
         NEW m \in Asked \cup Doc \cup {NoReply},
         m \in Doc => Fits(rows', revision', created', h, m),
         m \in Asked => AskFits(rows', revision', h, m),
         reply' = reply \/ reply' = [reply EXCEPT ![h] = m]
  PROVE  Underway'
<1>1. reply \in [HopId -> Asked \cup Doc \cup {NoReply}] /\ TypeOK
  BY DEF Underway, Registry, IInv
<1>2. reply' \in [HopId -> Asked \cup Doc \cup {NoReply}]
  BY <1>1
<1>3. ASSUME NEW g \in HopId
      PROVE  /\ reply'[g] \in Doc => Fits(rows', revision', created', g, reply'[g])
             /\ reply'[g] \in Asked => AskFits(rows', revision', g, reply'[g])
  <2>1. CASE reply'[g] = reply[g]
    <3>1. ASSUME reply[g] \in Doc
          PROVE  Fits(rows', revision', created', g, reply[g])
      BY <3>1, HeldKept DEF Underway
    <3>2. ASSUME reply[g] \in Asked
          PROVE  AskFits(rows', revision', g, reply[g])
      BY <1>1, <3>2, AskKept DEF Underway
    <3>3. QED
      BY <2>1, <3>1, <3>2
  <2>2. CASE g = h /\ reply'[g] = m
    BY <2>2
  <2>3. QED
    BY <1>1, <2>1, <2>2
<1>4. QED
  BY <1>2, <1>3 DEF Underway, HeldFits

\* A box that joined writes a document of the table its join left.
LEMMA JoinedDocument ==
  ASSUME Registry, Registry', NEW h \in HopId, NEW a \in Addr, Join(h, a)
  PROVE  /\ PanelDocument(rows', revision', h) \in Doc
         /\ Fits(rows', revision', created', h, PanelDocument(rows', revision', h))
         /\ rows'[h].secret \in Nat
<1>1. /\ TypeOK /\ TypeOK' /\ NextHopsAreLive' /\ Apart(rows') /\ IsPath(rows')
      /\ ConfirmedRevisionsExist
  BY DEF Registry, IInv, PathInv
<1>2. /\ revision' \in Nat /\ created' \in Nat /\ DOMAIN rows' \subseteq 1..created'
      /\ rows' \in [DOMAIN rows' -> Row]
  BY <1>1 DEF TypeOK
<1>3. IsTable(rows')
  BY <1>1, MaxHopsAssumption DEF TypeOK, IsTable, HopId
<1>4. Walkable(rows')
  BY <1>1, <1>3 DEF Walkable, NextHopsAreLive
<1>5. h \in DOMAIN rows' /\ rows'[h].state = "joined"
  BY <1>1, JoinRows
<1>6. rows'[h].secret \in Nat
  BY <1>2, <1>5 DEF Row
<1>7. h \notin Rows(rows', {"draining"})
  BY <1>5 DEF Rows
<1>8. PanelDocument(rows', revision', h) \in Doc
  BY <1>2, <1>4, <1>5, PanelDocumentIs
<1>9. Fits(rows', revision', created', h, PanelDocument(rows', revision', h))
  BY <1>2, <1>4, <1>5, <1>7, PanelDocumentFits
<1>10. QED
  BY <1>6, <1>8, <1>9

LEMMA WaveStep ==
  ASSUME WaveInv, [WaveNext]_waveVars
  PROVE  WaveInv'
<1>1. /\ Registry /\ InForce /\ OnDisk /\ Underway /\ BoxTypes
      /\ Registry' /\ TableMoves
  BY RegistryStep DEF WaveInv
<1>2. /\ TypeOK /\ revision \in Nat /\ created \in Nat /\ DOMAIN rows \subseteq HopId
      /\ DOMAIN rows \subseteq 1..created /\ rows \in [DOMAIN rows -> Row]
  BY <1>1, RowsTable DEF Registry, IInv, TypeOK, IsTable
<1>3. /\ doc \in [HopId -> Doc \cup {NoDoc}]
      /\ disk \in [HopId -> [secret : Nat, dial : NextHop, doc : Doc \cup {NoDoc}]]
      /\ reply \in [HopId -> Asked \cup Doc \cup {NoReply}]
      /\ up \in [HopId -> BOOLEAN] /\ config \in [HopId -> Config]
      /\ outer \in [HopId -> [Name -> Nat]]
  BY <1>1 DEF InForce, OnDisk, Underway, BoxTypes
<1>4. /\ NoDoc \notin Doc /\ NoReply \notin Asked /\ NoReply \notin Doc
  BY NothingAssumption
<1>5. \A h \in HopId : Revision(doc[h]) \in Nat
  BY <1>3, RevisionType
<1>6. ASSUME NEW h \in HopId, UNCHANGED doc
      PROVE  InForce'
  BY <1>1, <1>4, <1>6, InForceStep
<1>7. ASSUME NEW h \in HopId, UNCHANGED disk
      PROVE  OnDisk'
  <2>1. disk[h] \in [secret : Nat, dial : NextHop, doc : Doc \cup {NoDoc}]
    BY <1>3
  <2>2. [disk[h] EXCEPT !.doc = NoDoc] \in [secret : Nat, dial : NextHop, doc : Doc \cup {NoDoc}]
    BY <2>1
  <2>3. [disk[h] EXCEPT !.doc = NoDoc].doc = NoDoc
    BY <2>1
  <2>4. QED
    BY <1>1, <1>7, <2>2, <2>3, OnDiskStep
<1>8. ASSUME NEW h \in HopId, reply' = reply \/ reply' = [reply EXCEPT ![h] = NoReply]
      PROVE  Underway'
  BY <1>1, <1>4, <1>8, UnderwayStep
<1>9. ASSUME UNCHANGED <<up, config, outer>>
      PROVE  BoxTypes'
  BY <1>1, <1>9 DEF BoxTypes
<1>10. ASSUME UNCHANGED boxVars
       PROVE  WaveInv'
  <2>1. CASE HopId = {}
    BY <1>1, <1>9, <1>10, <2>1 DEF boxVars, InForce, OnDisk, Underway, WaveInv
  <2>2. ASSUME NEW h \in HopId
        PROVE  WaveInv'
    BY <1>1, <1>6, <1>7, <1>8, <1>9, <1>10 DEF boxVars, WaveInv
  <2>3. QED
    BY <2>1, <2>2
<1>11. ASSUME NEW h \in HopId, PollPanel(h)
       PROVE  WaveInv'
  <2> DEFINE a == [name |-> rows[h].name, revision |-> revision,
                   seen |-> Revision(doc[h]), acks |-> outer[h]]
  <2>1. /\ h \in DOMAIN rows /\ reply' = [reply EXCEPT ![h] = a]
        /\ UNCHANGED <<vars, up, config, doc, outer, disk>>
    BY <1>11 DEF PollPanel, Authenticated
  <2>2. a \in Asked
    BY <1>2, <1>3, <1>5, <2>1 DEF Asked, Row
  <2>3. rows' = rows /\ revision' = revision
    BY <2>1 DEF vars
  <2>4. AskFits(rows', revision', h, a)
    BY <1>2, <2>3 DEF AskFits
  <2> HIDE DEF a
  <2>5. Underway'
    BY <1>1, <2>1, <2>2, <2>4, AskedIsNoDoc, UnderwayStep
  <2>6. QED
    BY <1>1, <1>6, <1>7, <1>9, <2>1, <2>5 DEF WaveInv
<1>12. ASSUME NEW h \in HopId, PanelAnswers(h)
       PROVE  WaveInv'
  <2> DEFINE a == reply[h]
             X(g) == PanelDocument(rows, a.revision, g)
  <2>1. a \in Asked /\ UNCHANGED <<up, config, doc, outer, disk>>
    BY <1>12 DEF PanelAnswers
  <2>2. a.revision \in Nat /\ a.revision <= revision /\ AskFits(rows, revision, h, a)
    BY <1>1, <2>1 DEF Underway, AskFits, Asked
  <2>3. ASSUME NEW g \in DOMAIN rows, rows[g].name = a.name
        PROVE  X(g) \in Doc /\ Fits(rows', revision', created', h, X(g))
    <3>1. Walkable(rows)
      BY <1>1, RowsWalkable DEF Registry
    <3>2. h \in Rows(rows, {"draining"}) /\ a.revision >= rows[h].drainRevision => g = h
      BY <1>1, <2>2, <2>3 DEF AskFits, Rows, Registry, UniqueNames
    <3>3. X(g) \in Doc
      BY <2>2, <3>1, PanelDocumentIs
    <3>4. Fits(rows, revision, created, h, X(g))
      BY <1>2, <2>2, <3>1, <3>2, PanelDocumentFits
    <3> HIDE DEF X
    <3>5. QED
      BY <1>1, <3>3, <3>4, HeldKept DEF HeldFits
  <2>4. ASSUME reply' = [reply EXCEPT ![h] = NoReply]
        PROVE  Underway'
    BY <1>8, <2>4
  <2>5. ASSUME NEW g \in DOMAIN rows, rows[g].name = a.name,
               reply' = [reply EXCEPT ![h] = X(g)]
        PROVE  Underway'
    <3>1. X(g) \in Doc /\ X(g) \notin Asked /\ Fits(rows', revision', created', h, X(g))
      BY <2>3, <2>5, AskedIsNoDoc
    <3> HIDE DEF X
    <3>2. QED
      BY <1>1, <2>5, <3>1, UnderwayStep
  <2>6. \/ reply' = [reply EXCEPT ![h] = NoReply]
        \/ \E g \in DOMAIN rows : rows[g].name = a.name /\ reply' = [reply EXCEPT ![h] = X(g)]
    BY <1>12 DEF PanelAnswers
  <2> HIDE DEF X
  <2>7. Underway'
    BY <2>4, <2>5, <2>6
  <2>8. QED
    BY <1>1, <1>6, <1>7, <1>9, <2>1, <2>7 DEF WaveInv
<1>13. ASSUME NEW h \in HopId, NEW s \in HopId \ {h}, PollBox(h, s)
       PROVE  WaveInv'
  <2>1. UNCHANGED <<vars, up, config, doc, disk>>
    BY <1>13 DEF PollBox
  <2>2. PICK e \in OuterNeighbour(doc[s], h) :
          /\ \E won \in SUBSET {n \in Name : outer[h][n] \notin {0, outer[s][n]} /\ n # e.name} :
               outer' = [outer EXCEPT ![s] =
                 [Recorded(@, outer[h], won) EXCEPT ![e.name] = Revision(doc[h])]]
          /\ reply' = [reply EXCEPT ![h] =
               IF Revision(doc[h]) = doc[s].revision THEN NoReply
               ELSE TruncateDocument(doc[s], s, e)]
    BY <1>13 DEF PollBox
  <2>3. /\ doc[s] \in Doc /\ e \in Range(doc[s].hops) /\ e.secret = <<h, config[h].secret>>
    BY <1>3, <2>2 DEF OuterNeighbour
  <2>4. Fits(rows, revision, created, s, doc[s])
    BY <1>1, <1>4, <2>3 DEF InForce, HeldFits
  <2> DEFINE t == TruncateDocument(doc[s], s, e)
  <2>5. t \in Doc
    BY <2>3, TruncateDocumentIs
  <2>6. Fits(rows, revision, created, h, t)
    BY <2>3, <2>4, TruncateDocumentFits
  <2>7. reply' = [reply EXCEPT ![h] = NoReply] \/ reply' = [reply EXCEPT ![h] = t]
    BY <2>2
  <2> HIDE DEF t
  <2>8. Fits(rows', revision', created', h, t)
    BY <1>1, <2>5, <2>6, HeldKept DEF HeldFits
  <2>9. Underway'
    BY <1>1, <1>8, <2>5, <2>7, <2>8, AskedIsNoDoc, UnderwayStep
  <2>10. outer' \in [HopId -> [Name -> Nat]]
    <3>1. PICK won \in SUBSET Name :
            outer' = [outer EXCEPT ![s] =
              [Recorded(@, outer[h], won) EXCEPT ![e.name] = Revision(doc[h])]]
      BY <2>2
    <3>2. outer[s] \in [Name -> Nat] /\ outer[h] \in [Name -> Nat]
      BY <1>3
    <3>3. Recorded(outer[s], outer[h], won) \in [Name -> Nat]
      BY <3>2 DEF Recorded
    <3> DEFINE f == [Recorded(outer[s], outer[h], won) EXCEPT ![e.name] = Revision(doc[h])]
    <3>4. f \in [Name -> Nat]
      BY <1>5, <3>3
    <3>5. outer' = [outer EXCEPT ![s] = f]
      BY <3>1
    <3> HIDE DEF f
    <3>6. QED
      BY <1>3, <3>4, <3>5
  <2>11. BoxTypes'
    BY <1>1, <2>1, <2>10 DEF BoxTypes
  <2>12. QED
    BY <1>1, <1>6, <1>7, <2>1, <2>9, <2>11 DEF WaveInv
<1>14. ASSUME NEW h \in HopId, Receive(h)
       PROVE  WaveInv'
  <2>1. /\ reply[h] \in Doc /\ reply' = [reply EXCEPT ![h] = NoReply]
        /\ UNCHANGED <<vars, up, config, outer>>
        /\ doc' \in {doc, [doc EXCEPT ![h] = reply[h]]}
        /\ disk' \in {disk, [disk EXCEPT ![h].doc = reply[h]]}
    BY <1>14 DEF Receive
  <2>2. Fits(rows', revision', created', h, reply[h])
    BY <1>1, <2>1, HeldKept DEF Underway
  <2>3. InForce'
    BY <1>1, <2>1, <2>2, InForceStep
  <2> DEFINE f == [disk[h] EXCEPT !.doc = reply[h]]
  <2>4. disk[h] \in [secret : Nat, dial : NextHop, doc : Doc \cup {NoDoc}]
    BY <1>3
  <2>5. f \in [secret : Nat, dial : NextHop, doc : Doc \cup {NoDoc}] /\ f.doc = reply[h]
    BY <2>1, <2>4
  <2>6. disk' = disk \/ disk' = [disk EXCEPT ![h] = f]
    BY <2>1
  <2> HIDE DEF f
  <2>7. OnDisk'
    BY <1>1, <2>2, <2>5, <2>6, OnDiskStep
  <2>8. QED
    BY <1>1, <1>8, <1>9, <2>1, <2>3, <2>7 DEF WaveInv
<1>15. ASSUME NEW h \in HopId, Lose(h)
       PROVE  WaveInv'
  BY <1>1, <1>6, <1>7, <1>8, <1>9, <1>15 DEF Lose, WaveInv
<1>16. ASSUME NEW h \in HopId, NEW d \in NextHop, NEW a \in Addr,
              JoinPage(h, d, a) \/ Rejoin(h, d, a)
       PROVE  WaveInv'
  <2> DEFINE X == PanelDocument(rows', revision', h)
             c == rows'[h].secret
  <2>1. Join(h, a)
    BY <1>16 DEF JoinPage, Rejoin
  <2>2. X \in Doc /\ Fits(rows', revision', created', h, X) /\ c \in Nat
    BY <1>1, <2>1, JoinedDocument
  <2>3. PICK d0 \in {disk[h].doc, X} :
          disk' = [disk EXCEPT ![h] = [secret |-> c, dial |-> d, doc |-> d0]]
    BY <1>16 DEF JoinPage, Rejoin, Accepted
  <2>4. UNCHANGED reply /\ doc' \in {doc, [doc EXCEPT ![h] = X]}
    BY <1>16 DEF JoinPage, Rejoin
  <2>5. /\ UNCHANGED <<up, outer, reply>>
        /\ config' = config \/ config' = [config EXCEPT ![h] = [secret |-> c, dial |-> d]]
    BY <1>16 DEF JoinPage, Rejoin
  <2> HIDE DEF X, c
  <2>6. /\ d0 \in Doc \cup {NoDoc}
        /\ d0 # NoDoc => Fits(rows', revision', created', h, d0)
    <3>1. disk[h].doc \in Doc \cup {NoDoc}
      BY <1>3
    <3>2. ASSUME disk[h].doc # NoDoc
          PROVE  Fits(rows', revision', created', h, disk[h].doc)
      BY <1>1, <3>1, <3>2, HeldKept DEF OnDisk
    <3>3. QED
      BY <2>2, <3>1, <3>2
  <2> DEFINE f == [secret |-> c, dial |-> d, doc |-> d0]
  <2>7. f \in [secret : Nat, dial : NextHop, doc : Doc \cup {NoDoc}] /\ f.doc = d0
    BY <2>2, <2>6
  <2>8. disk' = [disk EXCEPT ![h] = f]
    BY <2>3
  <2> HIDE DEF f
  <2>9. OnDisk'
    BY <1>1, <2>6, <2>7, <2>8, OnDiskStep
  <2>10. InForce'
    BY <1>1, <1>4, <2>2, <2>4, InForceStep
  <2>11. BoxTypes'
    <3>1. [secret |-> c, dial |-> d] \in Config
      BY <2>2 DEF Config
    <3>2. config' \in [HopId -> Config]
      BY <1>3, <2>5, <3>1
    <3>3. QED
      BY <1>1, <2>5, <3>2 DEF BoxTypes
  <2>12. QED
    BY <1>1, <1>8, <2>5, <2>9, <2>10, <2>11 DEF WaveInv
<1>17. ASSUME NEW h \in HopId, Stop(h)
       PROVE  WaveInv'
  <2>1. InForce'
    BY <1>1, <1>4, <1>17, InForceStep DEF Stop
  <2>2. OnDisk'
    BY <1>7, <1>17 DEF Stop
  <2>3. Underway'
    BY <1>8, <1>17 DEF Stop
  <2>4. [secret |-> 0, dial |-> Panel] \in Config /\ Silent \in [Name -> Nat]
    BY DEF Config, NextHop, Silent
  <2>5. BoxTypes'
    BY <1>3, <1>17, <2>4 DEF Stop, BoxTypes
  <2>6. QED
    BY <1>1, <2>1, <2>2, <2>3, <2>5 DEF WaveInv
<1>18. ASSUME NEW h \in HopId, Start(h)
       PROVE  WaveInv'
  <2>1. disk[h] \in [secret : Nat, dial : NextHop, doc : Doc \cup {NoDoc}]
    BY <1>3
  <2>2. ASSUME disk[h].doc # NoDoc
        PROVE  Fits(rows', revision', created', h, disk[h].doc)
    BY <1>1, <2>1, <2>2, HeldKept DEF OnDisk
  <2>3. InForce'
    BY <1>1, <1>18, <2>1, <2>2, InForceStep DEF Start
  <2>4. [secret |-> disk[h].secret, dial |-> disk[h].dial] \in Config
    BY <2>1 DEF Config
  <2>5. BoxTypes'
    BY <1>3, <1>18, <2>4 DEF Start, BoxTypes
  <2>6. QED
    BY <1>1, <1>7, <1>8, <1>18, <2>3, <2>5 DEF Start, WaveInv
<1>19. CASE Panels \/ UNCHANGED waveVars
  BY <1>10, <1>19 DEF Panels, waveVars
<1>20. CASE Polls
  BY <1>11, <1>12, <1>13, <1>14, <1>15, <1>20 DEF Polls
<1>21. CASE Joins
  BY <1>10, <1>16, <1>21 DEF Joins, JoinLost
<1>22. CASE Processes
  BY <1>17, <1>18, <1>22 DEF Processes
<1>23. QED
  BY <1>19, <1>20, <1>21, <1>22 DEF WaveNext

LEMMA WaveStart == WaveInit => WaveInv
<1> SUFFICES ASSUME WaveInit PROVE WaveInv
  OBVIOUS
<1>1. Init /\ rows = [h \in {} |-> Panel]
  BY DEF WaveInit, Init
<1>2. IInv /\ PathInv
  BY <1>1, InvInit, PathInit
<1>3. UniqueNames
  BY <1>1 DEF UniqueNames
<1>4. NoReply \notin Asked /\ NoReply \notin Doc
  BY NothingAssumption
<1>5. InForce
  BY DEF WaveInit, InForce
<1>6. OnDisk
  <2>1. [secret |-> 0, dial |-> Panel, doc |-> NoDoc]
          \in [secret : Nat, dial : NextHop, doc : Doc \cup {NoDoc}]
    BY DEF NextHop
  <2>2. \A g \in HopId : disk[g] = [secret |-> 0, dial |-> Panel, doc |-> NoDoc]
    BY DEF WaveInit
  <2>3. disk \in [HopId -> [secret : Nat, dial : NextHop, doc : Doc \cup {NoDoc}]]
    BY <2>1 DEF WaveInit
  <2>4. QED
    BY <2>2, <2>3 DEF OnDisk
<1>7. Underway
  BY <1>4 DEF WaveInit, Underway
<1>8. BoxTypes
  <2>1. [secret |-> 0, dial |-> Panel] \in Config /\ Silent \in [Name -> Nat]
    BY DEF Config, NextHop, Silent
  <2>2. QED
    BY <2>1 DEF WaveInit, BoxTypes
<1>9. QED
  BY <1>2, <1>3, <1>5, <1>6, <1>7, <1>8 DEF WaveInv, Registry

\* Every state of the wave has fitting documents: those of boxes that stopped, of
\* boxes that left and of answers on their way included.
THEOREM DocumentsFit == WaveSpec => []WaveInv
<1>1. WaveInv /\ [WaveNext]_waveVars => WaveInv'
  BY WaveStep
<1>2. QED
  BY <1>1, WaveStart, PTL DEF WaveSpec

\* The wave's variables keep their types: documents are built, cut and stored as
\* documents whatever was read before the rows changed.
THEOREM WaveTypes == WaveSpec => []WaveTypeOK
<1>1. WaveInv => WaveTypeOK
  BY DEF WaveInv, Registry, IInv, InForce, OnDisk, Underway, BoxTypes, WaveTypeOK
<1>2. QED
  BY <1>1, DocumentsFit, PTL

\* A box on the revision of a departure, or a later one, does not relay to the hop
\* that departs, whoever handed it its document and whatever it slept through.
THEOREM RelaysLeave == WaveSpec => []RelayLeavesDeparting
<1>1. ASSUME WaveInv
      PROVE  RelayLeavesDeparting
  <2> SUFFICES ASSUME NEW h \in Rows(rows, {"draining"}), NEW g \in DOMAIN rows,
                      g # h, doc[g] # NoDoc, Revision(doc[g]) >= rows[h].drainRevision
               PROVE  doc[g].nextHop # h
    BY DEF RelayLeavesDeparting
  <2>1. TypeOK /\ IsTable(rows) /\ InForce
    BY <1>1, RowsTable DEF WaveInv, Registry, IInv
  <2>2. g \in HopId /\ rows[h].drainRevision \in Nat
    BY <2>1 DEF IsTable, Rows, Row
  <2>3. doc[g] \in Doc /\ LeavesBehind(rows, g, doc[g])
    BY <2>1, <2>2 DEF InForce, HeldFits, Fits
  <2>4. doc[g].revision \in Nat /\ doc[g].revision >= rows[h].drainRevision
    BY <2>3 DEF Doc, Revision
  <2>5. QED
    BY <2>2, <2>3, <2>4 DEF LeavesBehind
<1>2. QED
  BY <1>1, DocumentsFit, PTL

\* A box on the current revision refuses a secret that a later join replaced,
\* though its revision and its rows were read at different times.
THEOREM SecretsAreCurrent == WaveSpec => []ReplacedSecretsAreRefused
<1>1. ASSUME WaveInv
      PROVE  ReplacedSecretsAreRefused
  <2> SUFFICES ASSUME NEW h \in DOMAIN rows, doc[h] # NoDoc, Revision(doc[h]) = revision,
                      NEW e \in Range(doc[h].hops), e.secret[1] \in DOMAIN rows
               PROVE  rows[e.secret[1]].secret = e.secret[2]
    BY DEF ReplacedSecretsAreRefused
  <2>1. IsTable(rows) /\ InForce
    BY <1>1, RowsTable DEF WaveInv, Registry, IInv
  <2>2. h \in HopId /\ doc[h].revision = revision
    BY <2>1 DEF IsTable, Revision
  <2>3. ListsCurrent(rows, revision, doc[h])
    BY <2>1, <2>2 DEF InForce, HeldFits, Fits
  <2>4. QED
    BY <2>2, <2>3 DEF ListsCurrent
<1>2. QED
  BY <1>1, DocumentsFit, PTL

-----------------------------------------------------------------------------
(* What a write of the panel does to what boxes registered and confirmed. *)

\* Secrets are only ever replaced by later ones, and a new row has none.
SecretsGrow ==
  \A g \in DOMAIN rows' :
    IF g \in DOMAIN rows THEN rows'[g].secret >= rows[g].secret
    ELSE g > created /\ rows'[g].secret = 0

\* Nothing is confirmed but by a poll.
FreshnessStays ==
  \A g \in DOMAIN rows' :
    rows'[g].lastRevision = IF g \in DOMAIN rows THEN rows[g].lastRevision ELSE 0

\* A departure waits for the neighbours it began with, by the names they had.
DeparturesStay ==
  \A h \in Rows(rows', {"draining"}) :
    \/ /\ h \in Rows(rows, {"draining"})
       /\ rows'[h].former = rows[h].former /\ rows'[h].drainOuter = rows[h].drainOuter
    \/ \A g \in rows'[h].former : g \in DOMAIN rows /\ rows[g].name \in rows'[h].drainOuter

Books == SecretsGrow /\ FreshnessStays /\ DeparturesStay

LEMMA BooksKept ==
  ASSUME TypeOK, DOMAIN rows' \subseteq DOMAIN rows,
         \A g \in DOMAIN rows' :
           /\ rows'[g].secret = rows[g].secret
           /\ rows'[g].lastRevision = rows[g].lastRevision
           /\ rows'[g].state = "draining" =>
                /\ rows[g].state = "draining"
                /\ rows'[g].former = rows[g].former /\ rows'[g].drainOuter = rows[g].drainOuter
  PROVE  Books
<1>1. \A g \in DOMAIN rows : rows[g].secret \in Nat
  BY DEF TypeOK, Row
<1>2. SecretsGrow
  BY <1>1 DEF SecretsGrow
<1>3. FreshnessStays
  BY DEF FreshnessStays
<1>4. DeparturesStay
  BY DEF DeparturesStay, Rows
<1>5. QED
  BY <1>2, <1>3, <1>4 DEF Books

LEMMA BooksStep ==
  ASSUME IInv,
         \/ Owner \/ Clock \/ UNCHANGED vars
         \/ \E h \in HopId, a \in Addr : Join(h, a)
  PROVE  Books
<1>1. /\ TypeOK /\ created \in Nat /\ DOMAIN rows \subseteq 1..created
      /\ \A g \in DOMAIN rows : rows[g] \in Row /\ rows[g].secret \in Nat
  BY DEF IInv, TypeOK, Row
<1> USE DEF SameHop, SameBox
<1>2. ASSUME NEW n \in Name, NEW r \in Role, NEW a \in Addr, NEW t \in Target \cup {NoTarget},
             NEW p \in 0..MaxHops, Add(n, r, a, t, p)
      PROVE  Books
  <2>1. /\ DOMAIN rows' = DOMAIN rows \cup {created + 1} /\ created + 1 \notin DOMAIN rows
        /\ \A g \in DOMAIN rows : SameHop(rows'[g], rows[g])
        /\ rows'[created + 1].state = "pending"
        /\ rows'[created + 1].secret = 0 /\ rows'[created + 1].lastRevision = 0
    BY <1>1, <1>2, AddRows
  <2>2. SecretsGrow
    BY <1>1, <2>1 DEF SecretsGrow
  <2>3. FreshnessStays
    BY <2>1 DEF FreshnessStays
  <2>4. DeparturesStay
    BY <2>1 DEF DeparturesStay, Rows
  <2>5. QED
    BY <2>2, <2>3, <2>4 DEF Books
<1>3. ASSUME NEW h \in HopId, NEW n \in Name, NEW a \in Addr,
             NEW t \in Target \cup {NoTarget}, Update(h, n, a, t)
      PROVE  Books
  <2>1. /\ h \in DOMAIN rows /\ DOMAIN rows' = DOMAIN rows
        /\ \A g \in DOMAIN rows \ {h} : rows'[g] = rows[g]
        /\ rows'[h].state # "draining" /\ rows'[h].lastRevision = rows[h].lastRevision
        /\ \A g \in DOMAIN rows : rows'[g].secret = rows[g].secret
    BY <1>1, <1>3, UpdateRows DEF SamePlace
  <2>2. QED
    BY <1>1, <2>1, BooksKept
<1>4. ASSUME NEW h \in HopId, NEW force \in BOOLEAN, NEW skipDrain \in BOOLEAN,
             DeleteNow(h, force, skipDrain)
      PROVE  Books
  BY <1>1, <1>4, DeleteRows, BooksKept
<1>5. ASSUME NEW h \in HopId, NEW force \in BOOLEAN, StartDraining(h, force)
      PROVE  Books
  <2> DEFINE served == LiveOuter(rows, h)
             table == Reconcile(Rechain([rows EXCEPT ![h].state = "draining"], served,
                                        rows[h].next))
  <2>1. /\ h \in DOMAIN rows /\ DOMAIN rows' = DOMAIN rows
        /\ \A g \in DOMAIN rows \ {h} : SameHop(rows'[g], rows[g])
        /\ SameBox(rows'[h], rows[h])
    BY <1>1, <1>5, StartDrainingRows
  <2>2. rows' = [table EXCEPT ![h].drainRevision = revision + 1,
                              ![h].due = FALSE,
                              ![h].drainOuter = {rows[g].name : g \in served},
                              ![h].former = served]
    BY <1>5 DEF StartDraining
  <2>3. served \subseteq DOMAIN rows
    BY DEF LiveOuter, HangOff
  <2>4. IsTable(table) /\ DOMAIN table = DOMAIN rows
    <3>1. IsTable([rows EXCEPT ![h].state = "draining"])
      BY <1>1, <2>1, RowsTable DEF IsTable, Row, State
    <3>2. rows[h].next \in NextHop
      BY <1>1, <2>1 DEF Row
    <3>3. QED
      BY <2>1, <2>3, <3>1, <3>2, ReconcileTable, RechainTable
  <2> HIDE DEF served, table
  <2>5. table[h] \in Row
    BY <2>1, <2>4 DEF IsTable
  <2>6. rows'[h].drainOuter = {rows[g].name : g \in served} /\ rows'[h].former = served
    BY <2>1, <2>2, <2>4, <2>5 DEF Row
  <2>7. SecretsGrow
    BY <1>1, <2>1 DEF SecretsGrow
  <2>8. FreshnessStays
    BY <2>1 DEF FreshnessStays
  <2>9. DeparturesStay
    BY <2>1, <2>3, <2>6 DEF DeparturesStay, Rows
  <2>10. QED
    BY <2>7, <2>8, <2>9 DEF Books
<1>6. ASSUME NEW h \in HopId, SetActive(h)
      PROVE  Books
  <2>1. rows' = [g \in DOMAIN rows |-> [rows[g] EXCEPT !.active = (g = h)]]
    BY <1>6 DEF SetActive
  <2>2. QED
    BY <1>1, <2>1, BooksKept DEF Row
<1>7. CASE ClearActive
  <2>1. rows' = [g \in DOMAIN rows |-> [rows[g] EXCEPT !.active = FALSE]]
    BY <1>7 DEF ClearActive
  <2>2. QED
    BY <1>1, <2>1, BooksKept DEF Row
<1>8. ASSUME NEW h \in HopId, ReissueToken(h) \/ TokenExpires(h) \/ DrainDeadline(h)
      PROVE  Books
  <2>1. /\ h \in DOMAIN rows /\ DOMAIN rows' = DOMAIN rows
        /\ \A g \in DOMAIN rows \ {h} : rows'[g] = rows[g]
        /\ rows'[h].state \in {"pending", rows[h].state}
        /\ SameBox(rows'[h], rows[h])
    BY <1>1, <1>8, OneFieldRows DEF SamePlace
  <2>2. \/ rows' = [rows EXCEPT ![h].token = TRUE, ![h].state = "pending"]
        \/ rows' = [rows EXCEPT ![h].token = FALSE]
        \/ rows' = [rows EXCEPT ![h].due = TRUE]
    BY <1>8 DEF ReissueToken, TokenExpires, DrainDeadline
  <2>3. rows'[h].former = rows[h].former /\ rows'[h].drainOuter = rows[h].drainOuter
    BY <1>1, <2>1, <2>2 DEF Row
  <2>4. QED
    BY <1>1, <2>1, <2>3, BooksKept
<1>9. ASSUME NEW h \in HopId, NEW a \in Addr, Join(h, a)
      PROVE  Books
  <2>1. /\ h \in DOMAIN rows /\ DOMAIN rows' = DOMAIN rows
        /\ \A g \in DOMAIN rows \ {h} : SameHop(rows'[g], rows[g])
        /\ rows'[h].state = "joined" /\ rows'[h].secret = rows[h].secret + 1
        /\ rows'[h].lastRevision = rows[h].lastRevision
    BY <1>1, <1>9, JoinRows
  <2>2. SecretsGrow
    BY <1>1, <2>1 DEF SecretsGrow
  <2>3. FreshnessStays
    BY <2>1 DEF FreshnessStays
  <2>4. DeparturesStay
    BY <2>1 DEF DeparturesStay, Rows
  <2>5. QED
    BY <2>2, <2>3, <2>4 DEF Books
<1>10. ASSUME NEW h \in HopId, FinishDraining(h)
       PROVE  Books
  BY <1>1, <1>10, FinishRows, BooksKept
<1>11. ASSUME rows' = rows
       PROVE  Books
  BY <1>1, <1>11, BooksKept
<1>12. CASE PanelRestart
  <2>1. CASE /\ DOMAIN rows = {}
             /\ \E a \in LegacyAddr, enabled \in BOOLEAN :
                  rows' = [h \in {created + 1} |->
                             [NewRow(LegacyName, "edge", a, NoTarget, 0)
                                EXCEPT !.state = "legacy", !.token = FALSE, !.active = enabled]]
    <3>1. PICK a \in LegacyAddr, enabled \in BOOLEAN :
            rows' = [h \in {created + 1} |->
                       [NewRow(LegacyName, "edge", a, NoTarget, 0)
                          EXCEPT !.state = "legacy", !.token = FALSE, !.active = enabled]]
      BY <2>1
    <3> DEFINE r == [NewRow(LegacyName, "edge", a, NoTarget, 0)
                       EXCEPT !.state = "legacy", !.token = FALSE, !.active = enabled]
    <3>2. r.state = "legacy" /\ r.secret = 0 /\ r.lastRevision = 0
      BY DEF NewRow
    <3> HIDE DEF r
    <3>3. DOMAIN rows' = {created + 1} /\ rows'[created + 1] = r
      BY <3>1 DEF r
    <3>4. QED
      BY <1>1, <2>1, <3>2, <3>3 DEF Books, SecretsGrow, FreshnessStays, DeparturesStay, Rows
  <2>2. QED
    BY <1>11, <1>12, <2>1 DEF PanelRestart
<1>13. CASE SweepStep
  BY <1>1, <1>10, <1>11, <1>13 DEF SweepStep, TypeOK
<1>14. CASE SweepTick \/ UNCHANGED vars
  BY <1>11, <1>14 DEF SweepTick, vars
<1>15. CASE \E p \in Ports : PortsChanged(p)
  BY <1>11, <1>15 DEF PortsChanged
<1>16. QED
  BY <1>2, <1>3, <1>4, <1>5, <1>6, <1>7, <1>8, <1>9, <1>12, <1>13, <1>14, <1>15 DEF Owner, Clock

-----------------------------------------------------------------------------
(* Who is known to whom by which secret, and since which revision. *)

\* The documents in force, on disk and on their way.
Held ==
  {d \in {doc[g] : g \in HopId} \cup {disk[g].doc : g \in HopId} \cup {reply[g] : g \in HopId} :
     d \in Doc}

\* A document of revision r lists box x under the k-th secret of its row, or the
\* panel has read r for one it has still to build from rows that say so.
Sighted(x, k, r) ==
  /\ k # 0
  /\ \/ \E d \in Held : d.revision = r /\ \E e \in Range(d.hops) : e.secret = <<x, k>>
     \/ \E g \in HopId : /\ reply[g] \in Asked /\ reply[g].revision = r
                         /\ x \in DOMAIN rows /\ rows[x].secret = k

\* Where a secret is replaced, no document with the new one is older than one with
\* the old one, ...
Ages ==
  \A x \in HopId, j, k, q, r \in Nat : Sighted(x, j, q) /\ Sighted(x, k, r) /\ j < k => q <= r

\* ... and none has one the row has not had.
Issued == \A x \in DOMAIN rows, k, r \in Nat : Sighted(x, k, r) => k <= rows[x].secret

\* The revision of what a hop, or the panel, would answer with, or will once it is
\* started again.
Cur(h) ==
  IF h = Panel THEN revision
  ELSE IF up[h] THEN Revision(doc[h]) ELSE Revision(disk[h].doc)

\* A box known as <<h, k>> that polls d finds nothing older than v there, unless it
\* is refused.
Ahead(h, k, d, v) == v <= Cur(d) \/ \A r \in Nat : Sighted(h, k, r) => v <= r

\* How box h is known, whom it polls and what it has: now, and once it is started.
Stands(h) ==
  {<<config[h].secret, config[h].dial, Revision(doc[h])>>,
   <<disk[h].secret, disk[h].dial, Revision(disk[h].doc)>>}

\* A box and its files.  What it has is on disk, and its next hop is ahead of it, in
\* memory as well as on disk.
Boxed(h) ==
  /\ up[h] => Revision(doc[h]) <= Revision(disk[h].doc)
  /\ ~up[h] => config[h].secret = 0
  /\ config[h].secret = 0 => doc[h] = NoDoc /\ reply[h] = NoReply
  /\ disk[h].secret = 0 => disk[h].doc = NoDoc
  /\ disk[h].secret # 0 => h <= created
  /\ h \in DOMAIN rows => disk[h].secret <= rows[h].secret
  /\ config[h].secret <= disk[h].secret
  /\ config[h].secret = disk[h].secret /\ up[h] => config[h].dial = disk[h].dial
  /\ \A k \in Nat \ {0}, d \in NextHop, v \in Nat : <<k, d, v>> \in Stands(h) => Ahead(h, k, d, v)

\* An answer on its way is no older than what the box has, nor newer than what its
\* next hop or a document that knows the box by a later secret has.
Answered(h) ==
  reply[h] \in Doc =>
    /\ config[h].secret # 0
    /\ Revision(doc[h]) <= reply[h].revision
    /\ \A d \in NextHop : config[h].dial = d => reply[h].revision <= Cur(d)
    /\ \A k, r \in Nat : Sighted(h, k, r) /\ config[h].secret < k => reply[h].revision <= r

\* While the panel builds an answer the caller's secret is the last one.
Asking(h) ==
  reply[h] \in Asked =>
    /\ config[h].secret # 0 /\ config[h].dial = Panel
    /\ Revision(doc[h]) <= reply[h].revision
    /\ h \in DOMAIN rows => rows[h].secret = config[h].secret
    /\ \A k, r \in Nat : Sighted(h, k, r) => k <= config[h].secret

Box(h) == Boxed(h) /\ Answered(h) /\ Asking(h)

FlowInv == Ages /\ Issued /\ \A h \in HopId : Box(h)

\* No secret is replaced between the two reads of a poll the panel answers.
JoinsMeetNoAnswer ==
  (\E g \in DOMAIN rows \cap DOMAIN rows' : rows'[g].secret # rows[g].secret)
    => \A g \in HopId : reply[g] \notin Asked

LEMMA SightedTypes ==
  ASSUME WaveInv, NEW x, NEW k, NEW r, Sighted(x, k, r)
  PROVE  x \in HopId /\ x <= created /\ k \in Nat /\ r \in Nat /\ r <= revision
<1>1. /\ TypeOK /\ IsTable(rows) /\ InForce /\ OnDisk /\ Underway
      /\ DOMAIN rows \subseteq 1..created /\ created \in Nat
  BY RowsTable DEF WaveInv, Registry, IInv, TypeOK
<1>2. \A g \in DOMAIN rows : g \in HopId /\ g <= created /\ rows[g].secret \in Nat
  BY <1>1 DEF IsTable, Row
<1>3. ASSUME NEW g \in HopId, reply[g] \in Asked
      PROVE  reply[g].revision \in Nat /\ reply[g].revision <= revision
  BY <1>1, <1>3 DEF Underway, AskFits, Asked
<1>4. ASSUME NEW d \in Held, NEW e \in Range(d.hops), e.secret = <<x, k>>
      PROVE  x \in HopId /\ x <= created /\ k \in Nat /\ d.revision \in Nat /\ d.revision <= revision
  <2>1. d \in Doc /\ \E g \in HopId : HeldFits(g, d)
    BY <1>1, NothingAssumption DEF Held, InForce, OnDisk, Underway
  <2>2. d.revision \in Nat /\ d.revision <= revision /\ e.secret[1] \in 1..created
    BY <2>1 DEF Doc, HeldFits, Fits
  <2>3. e \in WireHop
    BY <2>1 DEF Doc, Range
  <2>4. e.secret \in HopId \X Nat
    BY <2>3 DEF WireHop
  <2>5. x \in HopId /\ k \in Nat /\ x = e.secret[1]
    BY <1>4, <2>4
  <2>6. QED
    BY <1>1, <2>2, <2>5
<1>5. QED
  BY <1>2, <1>3, <1>4 DEF Sighted

LEMMA CurTypes ==
  ASSUME WaveInv, NEW h \in NextHop
  PROVE  Cur(h) \in Nat /\ Cur(h) <= revision
<1>1. /\ revision \in Nat /\ InForce /\ OnDisk
  BY DEF WaveInv, Registry, IInv, TypeOK
<1>2. \A d \in Doc \cup {NoDoc} : Revision(d) \in Nat
  BY RevisionType
<1>3. \A g \in HopId, d \in Doc : HeldFits(g, d) => Revision(d) <= revision
  BY NothingAssumption DEF HeldFits, Fits, Revision
<1>4. ASSUME NEW g \in HopId
      PROVE  /\ Revision(doc[g]) \in Nat /\ Revision(doc[g]) <= revision
             /\ Revision(disk[g].doc) \in Nat /\ Revision(disk[g].doc) <= revision
  <2>1. /\ doc[g] \in Doc \cup {NoDoc} /\ (doc[g] # NoDoc => HeldFits(g, doc[g]))
        /\ disk[g].doc \in Doc \cup {NoDoc} /\ (disk[g].doc # NoDoc => HeldFits(g, disk[g].doc))
    BY <1>1 DEF InForce, OnDisk
  <2>2. Revision(NoDoc) = 0
    BY DEF Revision
  <2>3. QED
    BY <1>1, <1>2, <1>3, <2>1, <2>2
<1>5. QED
  BY <1>1, <1>4 DEF Cur, NextHop

LEMMA CurTypesNext ==
  WaveInv' => (\A g \in NextHop : Cur(g) \in Nat /\ Cur(g) <= revision)'
<1>1. WaveInv => \A g \in NextHop : Cur(g) \in Nat /\ Cur(g) <= revision
  BY CurTypes
<1>2. QED
  BY <1>1, PTL

LEMMA RevisionTypes ==
  ASSUME WaveInv, NEW h \in HopId
  PROVE  /\ Revision(doc[h]) \in Nat /\ Revision(doc[h]) <= revision
         /\ Revision(disk[h].doc) \in Nat /\ Revision(disk[h].doc) <= revision
         /\ revision \in Nat /\ config[h].secret \in Nat /\ config[h].dial \in NextHop
         /\ disk[h].secret \in Nat /\ disk[h].dial \in NextHop
         /\ reply[h] \in Asked \cup Doc => reply[h].revision \in Nat
         /\ reply[h] \in Asked \cup Doc => reply[h].revision <= revision
         /\ reply[h] \in Asked => reply[h] \notin Doc /\ reply[h] # NoReply
         /\ reply[h] \in Doc => reply[h] # NoReply
<1>1. revision \in Nat /\ InForce /\ OnDisk /\ Underway /\ BoxTypes
  BY DEF WaveInv, Registry, IInv, TypeOK
<1>2. \A d \in Doc \cup {NoDoc} : Revision(d) \in Nat
  BY RevisionType
<1>3. \A g \in HopId, d \in Doc : HeldFits(g, d) => Revision(d) <= revision
  BY NothingAssumption DEF HeldFits, Fits, Revision
<1>4. /\ doc[h] \in Doc \cup {NoDoc} /\ (doc[h] # NoDoc => HeldFits(h, doc[h]))
      /\ disk[h] \in [secret : Nat, dial : NextHop, doc : Doc \cup {NoDoc}]
      /\ (disk[h].doc # NoDoc => HeldFits(h, disk[h].doc))
  BY <1>1 DEF InForce, OnDisk
<1>5. Revision(NoDoc) = 0
  BY DEF Revision
<1>6. config[h].secret \in Nat /\ config[h].dial \in NextHop
  BY <1>1 DEF BoxTypes, Config
<1>7. /\ reply[h] \in Asked => AskFits(rows, revision, h, reply[h])
      /\ reply[h] \in Doc => HeldFits(h, reply[h])
  BY <1>1 DEF Underway
<1>8. reply[h] \in Asked => reply[h] \notin Doc
  BY AskedIsNoDoc
<1>9. /\ reply[h] \in Asked => reply[h].revision \in Nat /\ reply[h].revision <= revision
      /\ reply[h] \in Doc => reply[h].revision \in Nat /\ reply[h].revision <= revision
  BY <1>7 DEF AskFits, Asked, Doc, HeldFits, Fits
<1>10. NoReply \notin Asked \cup Doc
  BY NothingAssumption
<1>11. QED
  BY <1>1, <1>2, <1>3, <1>4, <1>5, <1>6, <1>8, <1>9, <1>10

\* A step makes nobody known but by the last secret and under the last revision, ...
SightsMove ==
  \A x, k, r : Sighted(x, k, r)' =>
    \/ Sighted(x, k, r)
    \/ x \in DOMAIN rows' /\ rows'[x].secret = k /\ r = revision'

\* ... and takes nobody back.
Forward == \A h \in NextHop : Cur(h) <= Cur(h)'

\* What makes the first of these so: a new document lists what was known already,
\* or what the rows say now.
LEMMA SightsMoved ==
  ASSUME NEW X,
         \A d \in Held' : d \in Held \/ d = X,
         X \in Held' => \A e \in Range(X.hops) : \A x, k :
           e.secret = <<x, k>> /\ k # 0 =>
             \/ Sighted(x, k, X.revision)
             \/ x \in DOMAIN rows' /\ rows'[x].secret = k /\ X.revision = revision',
         \A g \in HopId : reply'[g] \in Asked =>
           \/ reply'[g].revision = revision'
           \/ /\ reply'[g] = reply[g]
              /\ \A x \in DOMAIN rows' : rows'[x].secret # 0 =>
                   x \in DOMAIN rows /\ rows[x].secret = rows'[x].secret
  PROVE  SightsMove
<1> SUFFICES ASSUME NEW x, NEW k, NEW r, Sighted(x, k, r)'
             PROVE  \/ Sighted(x, k, r)
                    \/ x \in DOMAIN rows' /\ rows'[x].secret = k /\ r = revision'
  BY DEF SightsMove
<1>1. k # 0
  BY DEF Sighted
<1>2. ASSUME NEW d \in Held', d.revision = r, NEW e \in Range(d.hops), e.secret = <<x, k>>
      PROVE  \/ Sighted(x, k, r)
             \/ x \in DOMAIN rows' /\ rows'[x].secret = k /\ r = revision'
  <2>1. CASE d \in Held
    BY <1>1, <1>2, <2>1 DEF Sighted
  <2>2. CASE d = X
    BY <1>1, <1>2, <2>2
  <2>3. QED
    BY <2>1, <2>2
<1>3. ASSUME NEW g \in HopId, reply'[g] \in Asked, reply'[g].revision = r,
             x \in DOMAIN rows', rows'[x].secret = k
      PROVE  \/ Sighted(x, k, r)
             \/ x \in DOMAIN rows' /\ rows'[x].secret = k /\ r = revision'
  BY <1>1, <1>3 DEF Sighted
<1>4. QED
  BY <1>2, <1>3 DEF Sighted

\* What follows from the two for the documents ...
LEMMA AgesStep ==
  ASSUME WaveInv, WaveInv', FlowInv, SecretsGrow, TableMoves, SightsMove
  PROVE  Ages' /\ Issued'
<1>1. /\ revision' \in Nat /\ revision \in Nat /\ revision <= revision'
      /\ created \in Nat
      /\ \A g \in DOMAIN rows' : g \in HopId /\ rows'[g].secret \in Nat
      /\ \A g \in DOMAIN rows : rows[g].secret \in Nat
  <2>1. TypeOK /\ TypeOK'
    BY DEF WaveInv, Registry, IInv
  <2>2. \A g \in DOMAIN rows' : g \in HopId /\ rows'[g] \in Row
    BY <2>1, MaxHopsAssumption DEF TypeOK, HopId
  <2>3. \A g \in DOMAIN rows : rows[g] \in Row
    BY <2>1 DEF TypeOK
  <2>4. QED
    BY <2>1, <2>2, <2>3 DEF TypeOK, TableMoves, Row
<1>2. ASSUME NEW x \in DOMAIN rows', NEW k \in Nat, NEW r \in Nat, Sighted(x, k, r)
      PROVE  x \in DOMAIN rows /\ k <= rows'[x].secret
  <2>1. x <= created /\ x \in Nat
    BY <1>2, SightedTypes DEF HopId
  <2>2. x \in DOMAIN rows /\ rows[x].secret <= rows'[x].secret
    BY <1>1, <1>2, <2>1 DEF SecretsGrow
  <2>3. k <= rows[x].secret
    BY <1>2, <2>2 DEF FlowInv, Issued
  <2>4. QED
    BY <1>1, <2>2, <2>3
<1>3. Issued'
  BY <1>1, <1>2 DEF Issued, SightsMove
<1>4. Ages'
  <2> SUFFICES ASSUME NEW x \in HopId, NEW j \in Nat, NEW k \in Nat, NEW q \in Nat, NEW r \in Nat,
                      Sighted(x, j, q)', Sighted(x, k, r)', j < k
               PROVE  q <= r
    BY DEF Ages
  <2>1. CASE Sighted(x, k, r)
    <3>1. ~(x \in DOMAIN rows' /\ rows'[x].secret = j)
      BY <1>1, <1>2, <2>1
    <3>2. Sighted(x, j, q)
      BY <3>1 DEF SightsMove
    <3>3. QED
      BY <2>1, <3>2 DEF FlowInv, Ages
  <2>2. CASE x \in DOMAIN rows' /\ rows'[x].secret = k /\ r = revision'
    <3>1. Sighted(x, j, q) => q <= revision
      BY SightedTypes
    <3>2. QED
      BY <1>1, <2>2, <3>1 DEF SightsMove
  <2>3. QED
    BY <2>1, <2>2 DEF SightsMove
<1>5. QED
  BY <1>3, <1>4

\* ... and for where a box stands.
LEMMA AheadStep ==
  ASSUME WaveInv, WaveInv', TableMoves, SightsMove, Forward,
         NEW h, NEW k, NEW d \in NextHop, NEW v \in Nat, v <= revision, Ahead(h, k, d, v)
  PROVE  Ahead(h, k, d, v)'
<1>1. revision' \in Nat /\ revision \in Nat /\ revision <= revision'
  BY DEF WaveInv, Registry, IInv, TypeOK, TableMoves
<1>2. Cur(d) \in Nat /\ (Cur(d))' \in Nat /\ Cur(d) <= Cur(d)'
  BY CurTypes, CurTypesNext DEF Forward
<1>3. CASE v <= Cur(d)
  BY <1>2, <1>3 DEF Ahead
<1>4. CASE \A r \in Nat : Sighted(h, k, r) => v <= r
  BY <1>1, <1>4 DEF Ahead, SightsMove
<1>5. QED
  BY <1>3, <1>4 DEF Ahead

\* A box whose machine a step leaves alone.
Still(h) ==
  /\ up'[h] = up[h] /\ config'[h] = config[h] /\ doc'[h] = doc[h]
  /\ disk'[h] = disk[h] /\ reply'[h] = reply[h]

Flows == SecretsGrow /\ TableMoves /\ SightsMove /\ Forward

LEMMA BoxedStep ==
  ASSUME WaveInv, WaveInv', Flows, NEW h \in HopId, Boxed(h),
         up'[h] = up[h], config'[h] = config[h], doc'[h] = doc[h], disk'[h] = disk[h],
         config[h].secret = 0 => reply'[h] = NoReply
  PROVE  Boxed(h)'
<1>1. /\ Revision(doc[h]) \in Nat /\ Revision(doc[h]) <= revision
      /\ Revision(disk[h].doc) \in Nat /\ Revision(disk[h].doc) <= revision
      /\ disk[h].secret \in Nat
  BY RevisionTypes
<1>2. Revision(doc[h])' = Revision(doc[h]) /\ Revision(disk[h].doc)' = Revision(disk[h].doc)
  BY DEF Revision
<1>3. \A k \in Nat \ {0}, d \in NextHop, v \in Nat :
        <<k, d, v>> \in Stands(h)' => Ahead(h, k, d, v)'
  <2> SUFFICES ASSUME NEW k \in Nat \ {0}, NEW d \in NextHop, NEW v \in Nat,
                      <<k, d, v>> \in Stands(h)'
               PROVE  Ahead(h, k, d, v)'
    OBVIOUS
  <2>1. <<k, d, v>> \in Stands(h)
    BY <1>2 DEF Stands
  <2>2. v <= revision
    BY <1>1, <2>1 DEF Stands
  <2>3. Ahead(h, k, d, v)
    BY <2>1 DEF Boxed
  <2>4. QED
    BY <2>2, <2>3, AheadStep DEF Flows
<1>4. h \in DOMAIN rows' => disk'[h].secret <= rows'[h].secret
  <2>1. TypeOK /\ TypeOK'
    BY DEF WaveInv, Registry, IInv
  <2>2. \A g \in DOMAIN rows : rows[g].secret \in Nat
    BY <2>1 DEF TypeOK, Row
  <2>3. \A g \in DOMAIN rows' : rows'[g].secret \in Nat
    BY <2>1 DEF TypeOK, Row
  <2>4. created \in Nat /\ h \in Nat
    BY <2>1 DEF TypeOK, HopId
  <2>5. QED
    BY <1>1, <2>2, <2>3, <2>4 DEF Flows, SecretsGrow, Boxed
<1>5. disk'[h].secret # 0 => h <= created'
  <2>1. created \in Nat /\ created' \in Nat /\ created <= created' /\ h \in Nat
    BY DEF Flows, TableMoves, HopId, WaveInv, Registry, IInv, TypeOK
  <2>2. QED
    BY <2>1 DEF Boxed
<1>6. QED
  BY <1>2, <1>3, <1>4, <1>5 DEF Boxed

LEMMA AnsweredStep ==
  ASSUME WaveInv, WaveInv', Flows, NEW h \in HopId, Answered(h),
         config'[h] = config[h], doc'[h] = doc[h], reply'[h] \in {reply[h], NoReply}
  PROVE  Answered(h)'
<1> SUFFICES ASSUME reply'[h] \in Doc
             PROVE  /\ config[h].secret # 0
                    /\ Revision(doc'[h]) <= reply[h].revision
                    /\ \A d \in NextHop : config[h].dial = d => reply[h].revision <= Cur(d)'
                    /\ \A k, r \in Nat :
                         Sighted(h, k, r)' /\ config[h].secret < k => reply[h].revision <= r
                    /\ reply'[h] = reply[h]
  BY NothingAssumption DEF Answered, Revision
<1>1. reply[h] \in Doc /\ reply'[h] = reply[h]
  BY NothingAssumption
<1>2. /\ reply[h].revision \in Nat /\ reply[h].revision <= revision
      /\ revision \in Nat /\ revision' \in Nat /\ revision <= revision'
  BY <1>1, RevisionTypes DEF Flows, TableMoves
<1>3. \A d \in NextHop : config[h].dial = d => reply[h].revision <= Cur(d)'
  <2> SUFFICES ASSUME NEW d \in NextHop, config[h].dial = d
               PROVE  reply[h].revision <= Cur(d)'
    OBVIOUS
  <2>1. reply[h].revision <= Cur(d) /\ Cur(d) <= Cur(d)'
    BY <1>1 DEF Answered, Flows, Forward
  <2>2. Cur(d) \in Nat /\ Cur(d)' \in Nat
    BY CurTypes, CurTypesNext
  <2>3. QED
    BY <1>2, <2>1, <2>2
<1>4. \A k, r \in Nat : Sighted(h, k, r)' /\ config[h].secret < k => reply[h].revision <= r
  BY <1>1, <1>2 DEF Answered, Flows, SightsMove
<1>5. QED
  BY <1>1, <1>3, <1>4 DEF Answered

LEMMA AskingStep ==
  ASSUME WaveInv, WaveInv', Flows, JoinsMeetNoAnswer, NEW h \in HopId, Asking(h), Boxed(h),
         config'[h] = config[h], doc'[h] = doc[h], reply'[h] \in {reply[h], NoReply}
  PROVE  Asking(h)'
<1> SUFFICES ASSUME reply'[h] \in Asked
             PROVE  /\ config[h].secret # 0 /\ config[h].dial = Panel
                    /\ Revision(doc'[h]) <= reply[h].revision
                    /\ h \in DOMAIN rows' => rows'[h].secret = config[h].secret
                    /\ \A k, r \in Nat : Sighted(h, k, r)' => k <= config[h].secret
                    /\ reply'[h] = reply[h]
  BY NothingAssumption DEF Asking, Revision
<1>1. reply[h] \in Asked /\ reply'[h] = reply[h]
  BY NothingAssumption
<1>2. /\ config[h].secret \in Nat /\ disk[h].secret \in Nat
      /\ created \in Nat /\ h \in Nat
  BY RevisionTypes DEF HopId, WaveInv, Registry, IInv, TypeOK
<1>3. h <= created
  BY <1>1, <1>2 DEF Asking, Boxed
<1>4. h \in DOMAIN rows' => h \in DOMAIN rows
  BY <1>2, <1>3 DEF Flows, SecretsGrow
<1>5. h \in DOMAIN rows' => rows'[h].secret = config[h].secret
  BY <1>1, <1>4 DEF Asking, JoinsMeetNoAnswer
<1>6. \A k, r \in Nat : Sighted(h, k, r)' => k <= config[h].secret
  BY <1>1, <1>2, <1>5 DEF Asking, Flows, SightsMove
<1>7. QED
  BY <1>1, <1>5, <1>6 DEF Asking

LEMMA BoxStep ==
  ASSUME WaveInv, WaveInv', Flows, JoinsMeetNoAnswer, NEW h \in HopId, Box(h), Still(h)
  PROVE  Box(h)'
<1>1. config[h].secret = 0 => reply'[h] = NoReply
  BY DEF Box, Boxed, Still
<1>2. QED
  BY <1>1, BoxedStep, AnsweredStep, AskingStep DEF Box, Still

-----------------------------------------------------------------------------
(* Step by step. *)

LEMMA GrowStep ==
  ASSUME WaveInv, [WaveNext]_waveVars
  PROVE  SecretsGrow
<1>1. IInv /\ TypeOK /\ ConfirmedRevisionsExist /\ Underway
  BY DEF WaveInv, Registry, IInv
<1>2. [Next]_vars \/ Heard
  BY <1>1, RegistryMoves
<1>3. ASSUME NEW h \in HopId, NEW seen \in Nat, NEW acks \in SUBSET (Name \X Nat),
             RecordSeen(h, seen, acks)
      PROVE  SecretsGrow
  <2>1. DOMAIN rows' = DOMAIN rows /\ \A g \in DOMAIN rows : Entry(rows', g) = Entry(rows, g)
    BY <1>1, <1>3, RecordSeenRows
  <2>2. \A g \in DOMAIN rows : rows'[g].secret = rows[g].secret /\ rows[g].secret \in Nat
    BY <1>1, <2>1 DEF Entry, TypeOK, Row
  <2>3. QED
    BY <2>1, <2>2 DEF SecretsGrow
<1>4. CASE Owner \/ Clock \/ UNCHANGED vars \/ \E h \in HopId, a \in Addr : Join(h, a)
  BY <1>1, <1>4, BooksStep DEF Books
<1>5. CASE \E p \in Watched : MonReport(p)
  <2>1. rows' = rows
    BY <1>5 DEF MonReport
  <2>2. \A g \in DOMAIN rows : rows[g].secret \in Nat
    BY <1>1 DEF TypeOK, Row
  <2>3. QED
    BY <2>1, <2>2 DEF SecretsGrow
<1>6. QED
  BY <1>1, <1>2, <1>3, <1>4, <1>5, PollsTyped DEF Next, Boxes, Poll, Heard

LEMMA ForwardStep ==
  ASSUME TableMoves, \A g \in HopId : Cur(g) <= Cur(g)'
  PROVE  Forward
BY DEF Forward, TableMoves, Cur, NextHop

LEMMA CurStays ==
  ASSUME WaveInv, NEW g \in HopId, up'[g] = up[g], doc'[g] = doc[g], disk'[g] = disk[g]
  PROVE  Cur(g) <= Cur(g)'
<1>1. Cur(g) \in Nat
  BY CurTypes DEF NextHop
<1>2. g # Panel
  BY DEF HopId, Panel
<1>3. Cur(g)' = Cur(g)
  BY <1>2 DEF Cur, Revision
<1>4. QED
  BY <1>1, <1>3

\* Every step of the panel, and every join whose answer is lost.
LEMMA PanelFlows ==
  ASSUME WaveInv, WaveInv', FlowInv, SecretsGrow, TableMoves, JoinsMeetNoAnswer,
         UNCHANGED boxVars
  PROVE  Flows /\ \A g \in HopId : Box(g)'
<1>1. \A d \in Held' : d \in Held \/ d = NoDoc
  BY DEF boxVars, Held
<1>2. NoDoc \notin Held'
  BY NothingAssumption DEF Held
<1>3. ASSUME NEW g \in HopId, reply'[g] \in Asked
      PROVE  /\ reply'[g] = reply[g]
             /\ \A x \in DOMAIN rows' : rows'[x].secret # 0 =>
                  x \in DOMAIN rows /\ rows[x].secret = rows'[x].secret
  BY <1>3 DEF boxVars, SecretsGrow, JoinsMeetNoAnswer
<1>4. SightsMove
  BY <1>1, <1>2, <1>3, SightsMoved
<1>5. Forward
  BY ForwardStep, CurStays DEF boxVars
<1>6. \A g \in HopId : Still(g)
  BY DEF Still, boxVars
<1>7. QED
  BY <1>4, <1>5, <1>6, BoxStep DEF Flows, FlowInv

LEMMA PollPanelFlows ==
  ASSUME WaveInv, WaveInv', FlowInv, SecretsGrow, TableMoves, JoinsMeetNoAnswer,
         NEW h \in HopId, PollPanel(h)
  PROVE  Flows /\ \A g \in HopId : Box(g)'
<1>1. /\ UNCHANGED <<up, config, doc, outer, disk>> /\ rows' = rows /\ revision' = revision
      /\ config[h].secret # 0 /\ config[h].dial = Panel /\ reply[h] = NoReply
      /\ h \in DOMAIN rows /\ rows[h].secret = config[h].secret
      /\ reply \in [HopId -> Asked \cup Doc \cup {NoReply}]
      /\ reply' \in [HopId -> Asked \cup Doc \cup {NoReply}]
  BY DEF PollPanel, Joined, Authenticated, vars, WaveInv, Underway
<1>2. reply' = [reply EXCEPT ![h] = [name |-> rows[h].name, revision |-> revision,
                                     seen |-> Revision(doc[h]), acks |-> outer[h]]]
  BY DEF PollPanel
<1>3. reply'[h].revision = revision /\ reply'[h] \notin Doc
  <2> DEFINE a == [name |-> rows[h].name, revision |-> revision,
                   seen |-> Revision(doc[h]), acks |-> outer[h]]
  <2>1. reply'[h] = a
    BY <1>1, <1>2
  <2>2. a.revision = revision /\ DOMAIN a = {"name", "revision", "seen", "acks"}
    OBVIOUS
  <2>3. \A d \in Doc : DOMAIN d = {"revision", "name", "state", "nextHop", "hops"}
    BY DEF Doc
  <2> HIDE DEF a
  <2>4. QED
    BY <2>1, <2>2, <2>3
<1>4. \A g \in HopId \ {h} : reply'[g] = reply[g]
  BY <1>1, <1>2
<1>5. \A d \in Held' : d \in Held \/ d = NoDoc
  BY <1>1, <1>3, <1>4 DEF Held
<1>6. NoDoc \notin Held'
  BY NothingAssumption DEF Held
<1>7. SightsMove
  <2>1. ASSUME NEW g \in HopId, reply'[g] \in Asked
        PROVE  \/ reply'[g].revision = revision'
               \/ /\ reply'[g] = reply[g]
                  /\ \A x \in DOMAIN rows' : rows'[x].secret # 0 =>
                       x \in DOMAIN rows /\ rows[x].secret = rows'[x].secret
    BY <1>1, <1>3, <1>4
  <2>2. QED
    BY <1>5, <1>6, <2>1, SightsMoved
<1>8. Forward
  BY <1>1, ForwardStep, CurStays
<1>9. Flows
  BY <1>7, <1>8 DEF Flows
<1>10. ASSUME NEW g \in HopId \ {h}
       PROVE  Box(g)'
  BY <1>1, <1>4, <1>9, BoxStep DEF Still, FlowInv
<1>11. Boxed(h)'
  BY <1>1, <1>9, BoxedStep DEF FlowInv, Box
<1>12. Answered(h)'
  BY <1>3 DEF Answered
<1>13. Asking(h)'
  <2>1. \A k, r \in Nat : Sighted(h, k, r)' => k <= config[h].secret
    <3>1. config[h].secret \in Nat
      BY RevisionTypes
    <3>2. QED
      BY <1>1, <1>7, <3>1 DEF SightsMove, FlowInv, Issued
  <2>2. Revision(doc[h]) <= revision
    BY RevisionTypes
  <2>3. QED
    BY <1>1, <1>3, <2>1, <2>2 DEF Asking, Revision
<1>14. QED
  BY <1>9, <1>10, <1>11, <1>12, <1>13 DEF Box

LEMMA PanelAnswersFlows ==
  ASSUME WaveInv, WaveInv', FlowInv, SecretsGrow, TableMoves, JoinsMeetNoAnswer,
         NEW h \in HopId, PanelAnswers(h)
  PROVE  Flows /\ \A g \in HopId : Box(g)'
<1>1. /\ UNCHANGED <<up, config, doc, outer, disk>> /\ reply[h] \in Asked
      /\ reply \in [HopId -> Asked \cup Doc \cup {NoReply}]
      /\ reply[h].revision \in Nat /\ reply[h].revision <= revision
      /\ revision \in Nat /\ reply[h] \notin Doc
  BY RevisionTypes DEF PanelAnswers, WaveInv, Underway
<1>2. PICK g \in HopId :
        \/ reply' = [reply EXCEPT ![h] = NoReply]
        \/ /\ g \in DOMAIN rows
           /\ reply' = [reply EXCEPT ![h] = PanelDocument(rows, reply[h].revision, g)]
  BY RowsTable DEF PanelAnswers, WaveInv, Registry, IInv, IsTable
<1>3. /\ DOMAIN rows' = DOMAIN rows /\ revision' = revision
      /\ \A x \in DOMAIN rows : rows'[x].secret = rows[x].secret
  <2>1. CASE UNCHANGED vars
    BY <2>1 DEF vars
  <2>2. ASSUME NEW i \in DOMAIN rows,
               RecordSeen(i, reply[h].seen, {<<n, reply[h].acks[n]>> : n \in Name})
        PROVE  /\ DOMAIN rows' = DOMAIN rows /\ revision' = revision
               /\ \A x \in DOMAIN rows : rows'[x].secret = rows[x].secret
    <3>1. i \in HopId
      BY RowsTable DEF IsTable, WaveInv, Registry, IInv
    <3>2. reply[h].seen \in Nat /\ reply[h].acks \in [Name -> Nat]
      BY <1>1 DEF Asked
    <3>3. {<<n, reply[h].acks[n]>> : n \in Name} \in SUBSET (Name \X Nat)
      BY <3>2
    <3>4. DOMAIN rows' = DOMAIN rows /\ \A x \in DOMAIN rows : Entry(rows', x) = Entry(rows, x)
      BY <2>2, <3>1, <3>2, <3>3, RecordSeenRows DEF WaveInv, Registry, IInv
    <3>5. QED
      BY <2>2, <3>4 DEF Entry, RecordSeen
  <2>3. QED
    BY <2>1, <2>2 DEF PanelAnswers
<1> DEFINE X == PanelDocument(rows, reply[h].revision, g)
<1>4. ASSUME g \in DOMAIN rows
      PROVE  /\ X \in Doc /\ X.revision = reply[h].revision
             /\ \A e \in Range(X.hops) : \E i \in DOMAIN rows : e.secret = <<i, rows[i].secret>>
  <2>1. Walkable(rows)
    BY RowsWalkable DEF WaveInv, Registry
  <2>2. X \in Doc /\ X.revision = reply[h].revision
        /\ \A e \in Range(X.hops) : \E i \in DOMAIN rows : e = Wire(rows, i)
    BY <1>1, <1>4, <2>1, PanelDocumentIs
  <2>3. QED
    BY <2>2 DEF Wire
<1> HIDE DEF X
<1>5. /\ reply'[h] \in {NoReply, X} /\ (reply'[h] = NoReply \/ g \in DOMAIN rows)
      /\ \A i \in HopId \ {h} : reply'[i] = reply[i]
  BY <1>1, <1>2 DEF X
<1>6. \A d \in Held' : d \in Held \/ d = X
  BY <1>1, <1>5, NothingAssumption DEF Held
<1>7. SightsMove
  <2>1. ASSUME X \in Held', NEW e \in Range(X.hops), NEW x, NEW k, e.secret = <<x, k>>, k # 0
        PROVE  Sighted(x, k, X.revision) \/ X \in Held
    <3>1. CASE g \notin DOMAIN rows
      BY <1>1, <1>5, <2>1, <3>1, NothingAssumption DEF Held
    <3>2. CASE g \in DOMAIN rows
      BY <1>1, <1>4, <2>1, <3>2 DEF Sighted
    <3>3. QED
      BY <3>1, <3>2
  <2>2. ASSUME X \in Held', NEW e \in Range(X.hops), NEW x, NEW k, e.secret = <<x, k>>, k # 0
        PROVE  Sighted(x, k, X.revision)
    BY <2>1, <2>2 DEF Sighted
  <2>3. ASSUME NEW i \in HopId, reply'[i] \in Asked
        PROVE  reply'[i] = reply[i]
    <3>1. X \notin Asked \/ g \notin DOMAIN rows
      BY <1>4, AskedIsNoDoc
    <3>2. QED
      BY <1>5, <2>3, <3>1, NothingAssumption
  <2>4. QED
    BY <1>3, <1>6, <2>2, <2>3, SightsMoved
<1>8. Forward
  BY <1>1, ForwardStep, CurStays
<1>9. Flows
  BY <1>7, <1>8 DEF Flows
<1>10. ASSUME NEW i \in HopId \ {h}
       PROVE  Box(i)'
  BY <1>1, <1>5, <1>9, BoxStep DEF Still, FlowInv
<1>11. /\ Boxed(h) /\ config[h].secret # 0 /\ config[h].dial = Panel
       /\ Revision(doc[h]) <= reply[h].revision
       /\ \A k, r \in Nat : Sighted(h, k, r) => k <= config[h].secret
       /\ h \in DOMAIN rows => rows[h].secret = config[h].secret
  BY <1>1 DEF FlowInv, Box, Asking
<1>12. Boxed(h)'
  BY <1>1, <1>9, <1>11, BoxedStep
<1>13. Answered(h)'
  <2> SUFFICES ASSUME reply'[h] \in Doc
               PROVE  Answered(h)'
    BY DEF Answered
  <2>1. reply'[h] = X /\ g \in DOMAIN rows /\ X.revision = reply[h].revision
    BY <1>4, <1>5, NothingAssumption
  <2>2. ASSUME NEW d \in NextHop, config[h].dial = d
        PROVE  X.revision <= Cur(d)'
    BY <1>1, <1>3, <1>11, <2>1, <2>2 DEF Cur
  <2>3. config[h].secret \in Nat
    BY RevisionTypes
  <2>4. ASSUME NEW k \in Nat, NEW r \in Nat, Sighted(h, k, r)', config[h].secret < k
        PROVE  X.revision <= r
    BY <1>1, <1>3, <1>7, <1>11, <2>1, <2>3, <2>4 DEF SightsMove
  <2>5. QED
    BY <1>1, <1>11, <2>1, <2>2, <2>4 DEF Answered, Revision
<1>14. Asking(h)'
  BY <1>4, <1>5, AskedIsNoDoc, NothingAssumption DEF Asking
<1>15. QED
  BY <1>9, <1>10, <1>12, <1>13, <1>14 DEF Box

LEMMA PollBoxFlows ==
  ASSUME WaveInv, WaveInv', FlowInv, SecretsGrow, TableMoves, JoinsMeetNoAnswer,
         NEW h \in HopId, NEW s \in HopId \ {h}, PollBox(h, s)
  PROVE  Flows /\ \A g \in HopId : Box(g)'
<1>1. /\ UNCHANGED <<vars, up, config, doc, disk>> /\ rows' = rows /\ revision' = revision
      /\ config[h].secret # 0 /\ config[h].dial = s /\ reply[h] = NoReply /\ up[s]
      /\ reply \in [HopId -> Asked \cup Doc \cup {NoReply}]
  BY DEF PollBox, Joined, vars, WaveInv, Underway
<1>2. PICK e \in OuterNeighbour(doc[s], h) :
        reply' = [reply EXCEPT ![h] =
          IF Revision(doc[h]) = doc[s].revision THEN NoReply
          ELSE TruncateDocument(doc[s], s, e)]
  BY DEF PollBox
<1>3. /\ doc[s] \in Doc /\ doc[s] # NoDoc /\ doc[s] \in Held
      /\ e \in Range(doc[s].hops) /\ e.secret = <<h, config[h].secret>>
  <2>1. doc[s] \in Doc \cup {NoDoc}
    BY DEF WaveInv, InForce
  <2>2. doc[s] # NoDoc /\ e \in Range(doc[s].hops) /\ e.secret = <<h, config[h].secret>>
    BY <1>2 DEF OuterNeighbour
  <2>3. QED
    BY <2>1, <2>2 DEF Held
<1> DEFINE X == TruncateDocument(doc[s], s, e)
<1>4. /\ X \in Doc /\ X.revision = doc[s].revision
      /\ Range(X.hops) \subseteq Range(doc[s].hops)
  BY <1>3, TruncateDocumentIs
<1> HIDE DEF X
<1>5. /\ reply'[h] \in {NoReply, X}
      /\ \A i \in HopId \ {h} : reply'[i] = reply[i]
  BY <1>1, <1>2 DEF X
<1>6. \A d \in Held' : d \in Held \/ d = X
  BY <1>1, <1>5, NothingAssumption DEF Held
<1>7. SightsMove
  <2>1. ASSUME NEW f \in Range(X.hops), NEW x, NEW k, f.secret = <<x, k>>, k # 0
        PROVE  Sighted(x, k, X.revision)
    BY <1>3, <1>4, <2>1 DEF Sighted
  <2>2. ASSUME NEW i \in HopId, reply'[i] \in Asked
        PROVE  reply'[i] = reply[i]
    BY <1>4, <1>5, <2>2, AskedIsNoDoc, NothingAssumption
  <2>3. QED
    BY <1>1, <1>6, <2>1, <2>2, SightsMoved
<1>8. Forward
  BY <1>1, ForwardStep, CurStays
<1>9. Flows
  BY <1>7, <1>8 DEF Flows
<1>10. ASSUME NEW i \in HopId \ {h}
       PROVE  Box(i)'
  BY <1>1, <1>5, <1>9, BoxStep DEF Still, FlowInv
<1>11. Boxed(h) /\ Ages
  BY DEF FlowInv, Box
<1>12. Boxed(h)'
  BY <1>1, <1>9, <1>11, BoxedStep
<1>13. /\ config[h].secret \in Nat /\ Revision(doc[h]) \in Nat
       /\ doc[s].revision \in Nat /\ doc[s].revision <= revision
       /\ revision \in Nat /\ Revision(doc[s]) = doc[s].revision /\ s \in NextHop
  BY <1>3, RevisionTypes DEF Revision, NextHop
<1>14. Sighted(h, config[h].secret, doc[s].revision)
  BY <1>1, <1>3 DEF Sighted
<1>15. Cur(s) = doc[s].revision
  BY <1>1, <1>13 DEF Cur, HopId, Panel
<1>16. Revision(doc[h]) <= doc[s].revision
  <2>1. Ahead(h, config[h].secret, s, Revision(doc[h]))
    <3>1. <<config[h].secret, s, Revision(doc[h])>> \in Stands(h)
      BY <1>1 DEF Stands
    <3>2. config[h].secret \in Nat \ {0}
      BY <1>1, <1>13
    <3>3. QED
      BY <1>11, <1>13, <3>1, <3>2 DEF Boxed
  <2>2. QED
    BY <1>13, <1>14, <1>15, <2>1 DEF Ahead
<1>17. Answered(h)'
  <2> SUFFICES ASSUME reply'[h] \in Doc
               PROVE  Answered(h)'
    BY DEF Answered
  <2>1. reply'[h] = X /\ reply'[h].revision = doc[s].revision
    BY <1>4, <1>5, NothingAssumption
  <2>2. ASSUME NEW d \in NextHop, config[h].dial = d
        PROVE  doc[s].revision <= Cur(d)'
    <3>1. d = s /\ Cur(d) <= Cur(d)'
      BY <1>1, <1>8, <2>2 DEF Forward
    <3>2. Cur(d)' \in Nat
      BY CurTypesNext
    <3>3. QED
      BY <1>13, <1>15, <3>1, <3>2
  <2>3. ASSUME NEW k \in Nat, NEW r \in Nat, Sighted(h, k, r)', config[h].secret < k
        PROVE  doc[s].revision <= r
    <3>1. Sighted(h, k, r) => doc[s].revision <= r
      BY <1>11, <1>13, <1>14, <2>3 DEF Ages
    <3>2. QED
      BY <1>1, <1>7, <1>13, <2>3, <3>1 DEF SightsMove
  <2>4. QED
    BY <1>1, <1>16, <2>1, <2>2, <2>3 DEF Answered, Revision
<1>18. Asking(h)'
  BY <1>4, <1>5, AskedIsNoDoc, NothingAssumption DEF Asking
<1>19. QED
  BY <1>9, <1>10, <1>12, <1>17, <1>18 DEF Box

\* Steps of a box that bring no document: an answer is applied, written, dropped, or
\* a process stops or starts.
LEMMA NothingSeen ==
  ASSUME WaveInv, UNCHANGED vars, \A d \in Held' : d \in Held,
         \A g \in HopId : reply'[g] \in {reply[g], NoReply}
  PROVE  SightsMove
<1>1. rows' = rows /\ revision' = revision
  BY DEF vars
<1>2. NoDoc \notin Held'
  BY NothingAssumption DEF Held
<1>3. \A g \in HopId : reply'[g] \in Asked => reply'[g] = reply[g]
  BY NothingAssumption
<1>4. QED
  BY <1>1, <1>2, <1>3, SightsMoved

LEMMA LoseFlows ==
  ASSUME WaveInv, WaveInv', FlowInv, SecretsGrow, TableMoves, JoinsMeetNoAnswer,
         NEW h \in HopId, Lose(h)
  PROVE  Flows /\ \A g \in HopId : Box(g)'
<1>1. /\ UNCHANGED <<vars, up, config, doc, outer, disk>>
      /\ reply' = [reply EXCEPT ![h] = NoReply]
      /\ reply \in [HopId -> Asked \cup Doc \cup {NoReply}]
  BY DEF Lose, WaveInv, Underway
<1>2. \A g \in HopId : reply'[g] \in {reply[g], NoReply} /\ (g # h => reply'[g] = reply[g])
  BY <1>1
<1>3. \A d \in Held' : d \in Held
  BY <1>1, <1>2, NothingAssumption DEF Held
<1>4. Flows
  BY <1>1, <1>2, <1>3, NothingSeen, ForwardStep, CurStays DEF Flows
<1>5. ASSUME NEW g \in HopId
      PROVE  Box(g)'
  <2>1. Boxed(g) /\ Answered(g) /\ Asking(g)
    BY DEF FlowInv, Box
  <2>2. config[g].secret = 0 => reply'[g] = NoReply
    BY <1>2, <2>1 DEF Boxed
  <2>3. QED
    BY <1>1, <1>2, <1>4, <2>1, <2>2, BoxedStep, AnsweredStep, AskingStep DEF Box
<1>6. QED
  BY <1>4, <1>5

LEMMA ReceiveFlows ==
  ASSUME WaveInv, WaveInv', FlowInv, SecretsGrow, TableMoves, JoinsMeetNoAnswer,
         Forgetful = {}, NEW h \in HopId, Receive(h)
  PROVE  Flows /\ (\A g \in HopId : Box(g)') /\ Revision(doc[h]) <= Revision(doc'[h])
<1> DEFINE m == reply[h]
<1>1. /\ UNCHANGED <<vars, up, config, outer>> /\ rows' = rows /\ revision' = revision
      /\ created' = created
      /\ m \in Doc /\ m # NoReply /\ m # NoDoc /\ reply' = [reply EXCEPT ![h] = NoReply]
      /\ \/ UNCHANGED <<doc, disk>>
         \/ doc' = [doc EXCEPT ![h] = m] /\ disk' = [disk EXCEPT ![h].doc = m]
      /\ reply \in [HopId -> Asked \cup Doc \cup {NoReply}]
      /\ doc \in [HopId -> Doc \cup {NoDoc}]
      /\ disk \in [HopId -> [secret : Nat, dial : NextHop, doc : Doc \cup {NoDoc}]]
  BY NothingAssumption DEF Receive, vars, WaveInv, Underway, InForce, OnDisk
<1>2. \A g \in HopId : reply'[g] \in {reply[g], NoReply} /\ (g # h => reply'[g] = reply[g])
  BY <1>1
<1>3. /\ \A g \in HopId \ {h} : doc'[g] = doc[g] /\ disk'[g] = disk[g]
      /\ \/ doc'[h] = doc[h] /\ disk'[h] = disk[h]
         \/ /\ doc'[h] = m /\ disk'[h].doc = m
            /\ disk'[h].secret = disk[h].secret /\ disk'[h].dial = disk[h].dial
  BY <1>1
<1> HIDE DEF m
<1>4. \A d \in Held' : d \in Held
  <2>1. m \in Held
    BY <1>1 DEF Held, m
  <2>2. \A g \in HopId : /\ doc'[g] \in {doc[g], m} /\ disk'[g].doc \in {disk[g].doc, m}
                         /\ reply'[g] \in {reply[g], NoReply}
    BY <1>2, <1>3
  <2>3. QED
    BY <2>1, <2>2, NothingAssumption DEF Held
<1>5. SightsMove
  BY <1>1, <1>2, <1>4, NothingSeen
<1>6. /\ Boxed(h) /\ config[h].secret # 0
      /\ Revision(doc[h]) <= m.revision
      /\ \A d \in NextHop : config[h].dial = d => m.revision <= Cur(d)
      /\ \A k, r \in Nat : Sighted(h, k, r) /\ config[h].secret < k => m.revision <= r
  BY <1>1 DEF FlowInv, Box, Answered, m
<1>7. /\ m.revision \in Nat /\ Revision(m) = m.revision /\ m.revision <= revision
      /\ Revision(doc[h]) \in Nat /\ Revision(disk[h].doc) \in Nat /\ config[h].secret \in Nat
      /\ disk[h].secret \in Nat /\ config[h].dial \in NextHop /\ disk[h].dial \in NextHop
  BY <1>1, RevisionTypes DEF Revision, m
<1>8. up[h]
  BY <1>6 DEF Boxed
<1>9. Revision(doc'[h]) \in {Revision(doc[h]), m.revision} /\ Revision(doc[h])' = Revision(doc'[h])
  BY <1>3, <1>7 DEF Revision
<1>10. Forward
  <2>1. \A g \in HopId \ {h} : Cur(g) <= Cur(g)'
    BY <1>1, <1>3, CurStays
  <2>2. Cur(h) = Revision(doc[h]) /\ Cur(h)' = Revision(doc'[h])
    BY <1>1, <1>8 DEF Cur, HopId, Panel, Revision
  <2>3. Cur(h) <= Cur(h)'
    BY <1>6, <1>7, <1>9, <2>2
  <2>4. QED
    BY <2>1, <2>3, ForwardStep
<1>11. Flows
  BY <1>5, <1>10 DEF Flows
<1>12. ASSUME NEW g \in HopId \ {h}
       PROVE  Box(g)'
  BY <1>1, <1>2, <1>3, <1>11, BoxStep DEF Still, FlowInv
<1>13. reply'[h] = NoReply /\ reply'[h] \notin Doc /\ reply'[h] \notin Asked
  BY <1>1, NothingAssumption
<1>14. Answered(h)' /\ Asking(h)'
  BY <1>13 DEF Answered, Asking
<1>15. CASE doc'[h] = doc[h] /\ disk'[h] = disk[h]
  BY <1>1, <1>6, <1>11, <1>12, <1>13, <1>14, <1>15, <1>7, BoxedStep DEF Box
<1>16. CASE /\ doc'[h] = m /\ disk'[h].doc = m
            /\ disk'[h].secret = disk[h].secret /\ disk'[h].dial = disk[h].dial
  <2>1. Revision(doc[h])' = m.revision /\ Revision(disk[h].doc)' = m.revision
    BY <1>7, <1>16 DEF Revision
  <2>2. disk[h].secret # 0
    BY <1>6, <1>7 DEF Boxed
  <2>3. \A d \in NextHop : config[h].dial = d => m.revision <= Cur(d)'
    <3>1. \A d \in NextHop : Cur(d) \in Nat /\ Cur(d)' \in Nat /\ Cur(d) <= Cur(d)'
      BY <1>10, CurTypes, CurTypesNext DEF Forward
    <3>2. QED
      BY <1>6, <1>7, <3>1
  <2>4. ASSUME NEW k \in Nat \ {0}, NEW d \in NextHop, NEW v \in Nat,
               <<k, d, v>> \in Stands(h)'
        PROVE  Ahead(h, k, d, v)'
    <3>1. /\ v = m.revision
          /\ \/ k = config[h].secret /\ d = config[h].dial
             \/ k = disk[h].secret /\ d = disk[h].dial
      BY <1>1, <1>16, <2>1, <2>4 DEF Stands
    <3>2. CASE d = config[h].dial
      BY <2>3, <3>1, <3>2 DEF Ahead
    <3>3. CASE d # config[h].dial
      <4>1. k = disk[h].secret /\ config[h].secret < k
        BY <1>6, <1>7, <1>8, <3>1, <3>3 DEF Boxed
      <4>2. ASSUME NEW r \in Nat, Sighted(h, k, r)'
            PROVE  v <= r
        BY <1>1, <1>5, <1>6, <1>7, <3>1, <4>1, <4>2 DEF SightsMove
      <4>3. QED
        BY <4>2 DEF Ahead
    <3>4. QED
      BY <3>2, <3>3
  <2>5. Boxed(h)'
    BY <1>1, <1>6, <1>7, <1>8, <1>16, <2>1, <2>2, <2>4 DEF Boxed
  <2>6. QED
    BY <1>6, <1>7, <1>9, <1>11, <1>12, <1>14, <1>16, <2>1, <2>5 DEF Box
<1>17. QED
  BY <1>3, <1>15, <1>16

\* What a join writes lists the rows as the join left them.
LEMMA JoinedSights ==
  ASSUME Registry, Registry', NEW h \in HopId, NEW a \in Addr, Join(h, a)
  PROVE  /\ PanelDocument(rows', revision', h) \in Doc
         /\ PanelDocument(rows', revision', h).revision = revision'
         /\ \A e \in Range(PanelDocument(rows', revision', h).hops) :
              \E i \in DOMAIN rows' : e = Wire(rows', i)
<1>1. /\ TypeOK /\ TypeOK' /\ NextHopsAreLive' /\ Apart(rows') /\ IsPath(rows')
  BY DEF Registry, IInv, PathInv
<1>2. revision' \in Nat /\ h \in DOMAIN rows'
  BY <1>1, JoinRows DEF TypeOK
<1>3. IsTable(rows')
  BY <1>1, MaxHopsAssumption DEF TypeOK, IsTable, HopId
<1>4. Walkable(rows')
  BY <1>1, <1>3 DEF Walkable, NextHopsAreLive
<1>5. QED
  BY <1>2, <1>4, PanelDocumentIs

LEMMA JoinFlows ==
  ASSUME WaveInv, WaveInv', FlowInv, SecretsGrow, TableMoves, JoinsMeetNoAnswer,
         Forgetful = {}, NEW h \in HopId, NEW d \in NextHop, NEW a \in Addr,
         JoinPage(h, d, a) \/ Rejoin(h, d, a)
  PROVE  Flows /\ (\A g \in HopId : Box(g)') /\ (doc[h] = NoDoc \/ doc'[h] = doc[h])
<1> DEFINE X == PanelDocument(rows', revision', h)
           c == rows'[h].secret
<1>1. /\ Join(h, a) /\ UNCHANGED <<up, outer, reply>>
      /\ disk' = [disk EXCEPT ![h] = [secret |-> c, dial |-> d, doc |-> X]]
      /\ \/ UNCHANGED <<config, doc>>
         \/ /\ up[h] /\ config[h].secret = 0
            /\ config' = [config EXCEPT ![h] = [secret |-> c, dial |-> d]]
            /\ doc' = [doc EXCEPT ![h] = X]
  BY DEF JoinPage, Rejoin, Accepted
<1>2. /\ X \in Doc /\ X.revision = revision'
      /\ \A e \in Range(X.hops) : \E i \in DOMAIN rows' : e.secret = <<i, rows'[i].secret>>
  <2>1. Registry /\ Registry'
    BY DEF WaveInv
  <2>2. /\ X \in Doc /\ X.revision = revision'
        /\ \A e \in Range(X.hops) : \E i \in DOMAIN rows' : e = Wire(rows', i)
    BY <1>1, <2>1, JoinedSights
  <2>3. QED
    BY <2>2 DEF Wire
<1>3. /\ h \in DOMAIN rows /\ h \in DOMAIN rows' /\ rows[h].secret \in Nat
      /\ c = rows[h].secret + 1
      /\ revision \in Nat /\ revision' \in Nat /\ revision <= revision'
      /\ created' = created /\ h <= created
  <2>1. TypeOK
    BY DEF WaveInv, Registry, IInv
  <2>2. QED
    <3>1. h \in DOMAIN rows /\ DOMAIN rows' = DOMAIN rows /\ c = rows[h].secret + 1
      BY <1>1, <2>1, JoinRows
    <3>2. rows[h] \in Row /\ revision \in Nat /\ DOMAIN rows \subseteq 1..created
      BY <2>1, <3>1 DEF TypeOK
    <3>3. created' = created
      BY <1>1 DEF Join
    <3> HIDE DEF c
    <3>4. QED
      BY <3>1, <3>2, <3>3 DEF Row, TableMoves
<1> HIDE DEF X, c
<1>4. /\ doc \in [HopId -> Doc \cup {NoDoc}] /\ config \in [HopId -> Config]
      /\ disk \in [HopId -> [secret : Nat, dial : NextHop, doc : Doc \cup {NoDoc}]]
  BY DEF WaveInv, InForce, OnDisk, BoxTypes
<1>5. /\ \A g \in HopId \ {h} : doc'[g] = doc[g] /\ disk'[g] = disk[g] /\ config'[g] = config[g]
      /\ disk'[h].secret = c /\ disk'[h].dial = d /\ disk'[h].doc = X
      /\ \/ doc'[h] = doc[h] /\ config'[h] = config[h]
         \/ /\ up[h] /\ config[h].secret = 0
            /\ doc'[h] = X /\ config'[h].secret = c /\ config'[h].dial = d
  BY <1>1, <1>4
<1>6. \A g \in HopId : reply[g] \notin Asked
  <2>1. rows'[h].secret # rows[h].secret
    BY <1>3 DEF c
  <2>2. QED
    BY <1>3, <2>1 DEF JoinsMeetNoAnswer
<1>7. \A f \in Held' : f \in Held \/ f = X
  BY <1>1, <1>5 DEF Held
<1>8. SightsMove
  <2>1. ASSUME NEW e \in Range(X.hops), NEW x, NEW k, e.secret = <<x, k>>, k # 0
        PROVE  x \in DOMAIN rows' /\ rows'[x].secret = k
    BY <1>2, <2>1
  <2>2. \A g \in HopId : reply'[g] \notin Asked
    BY <1>1, <1>6
  <2>3. QED
    BY <1>2, <1>7, <2>1, <2>2, SightsMoved
<1>9. /\ Boxed(h) /\ config[h].secret \in Nat /\ disk[h].secret \in Nat
      /\ Revision(doc[h]) \in Nat /\ Revision(doc[h]) <= revision
      /\ Revision(disk[h].doc) \in Nat /\ Revision(disk[h].doc) <= revision
      /\ Revision(X) = revision' /\ X # NoDoc /\ Revision(NoDoc) = 0
      /\ config[h].secret < c /\ disk[h].secret < c
  <2>1. Boxed(h) /\ config[h].secret \in Nat /\ disk[h].secret \in Nat
    BY RevisionTypes DEF FlowInv, Box
  <2>2. disk[h].secret <= rows[h].secret /\ config[h].secret <= disk[h].secret
    BY <1>3, <2>1 DEF Boxed
  <2>3. X # NoDoc
    BY <1>2, NothingAssumption
  <2>4. QED
    BY <1>2, <1>3, <2>1, <2>2, <2>3, RevisionTypes DEF Revision
<1>10. /\ Revision(doc[h])' \in {Revision(doc[h]), revision'}
       /\ Revision(disk[h].doc)' = revision'
       /\ doc'[h] = doc[h] \/ doc[h] = NoDoc
  BY <1>5, <1>9 DEF Revision, Boxed
<1>11. Forward
  <2>1. \A g \in HopId \ {h} : Cur(g) <= Cur(g)'
    BY <1>1, <1>5, CurStays
  <2>2. Cur(h) <= Cur(h)'
    <3>1. Cur(h) = IF up[h] THEN Revision(doc[h]) ELSE Revision(disk[h].doc)
      BY DEF Cur, HopId, Panel
    <3>2. Cur(h)' = IF up[h] THEN Revision(doc[h])' ELSE Revision(disk[h].doc)'
      BY <1>1 DEF Cur, HopId, Panel
    <3>3. QED
      BY <1>3, <1>9, <1>10, <3>1, <3>2
  <2>3. QED
    BY <2>1, <2>2, ForwardStep
<1>12. Flows
  BY <1>8, <1>11 DEF Flows
<1>13. ASSUME NEW g \in HopId \ {h}
       PROVE  Box(g)'
  BY <1>1, <1>5, <1>12, BoxStep DEF Still, FlowInv
<1>14. ASSUME NEW v \in Nat, v <= revision', NEW k, k = c, NEW e \in NextHop
       PROVE  Ahead(h, k, e, v)'
  <2>1. ASSUME NEW r \in Nat, Sighted(h, k, r)'
        PROVE  v <= r
    <3>1. ~Sighted(h, k, r)
      <4>1. k \in Nat /\ ~(k <= rows[h].secret)
        BY <1>3, <1>14
      <4>2. Issued
        BY DEF FlowInv
      <4>3. QED
        BY <1>3, <4>1, <4>2 DEF Issued
    <3>2. QED
      BY <1>14, <2>1, <3>1, <1>8 DEF SightsMove
  <2>2. QED
    BY <2>1 DEF Ahead
<1>15. ASSUME NEW k \in Nat \ {0}, NEW e \in NextHop, NEW v \in Nat, <<k, e, v>> \in Stands(h)'
       PROVE  Ahead(h, k, e, v)'
  <2>1. CASE k = disk'[h].secret /\ v = Revision(disk[h].doc)'
    BY <1>3, <1>5, <1>10, <1>14, <2>1
  <2>2. CASE k = config'[h].secret /\ e = config'[h].dial /\ v = Revision(doc[h])'
    <3>1. CASE doc'[h] = doc[h] /\ config'[h] = config[h]
      <4>1. v = Revision(doc[h])
        BY <2>2, <3>1 DEF Revision
      <4>2. <<k, e, v>> \in Stands(h) /\ v <= revision
        BY <1>9, <2>2, <3>1, <4>1 DEF Stands
      <4>3. Ahead(h, k, e, v)
        BY <1>9, <4>2 DEF Boxed
      <4>4. QED
        BY <4>2, <4>3, <1>12, AheadStep DEF Flows
    <3>2. CASE config'[h].secret = c
      <4>1. v <= revision'
        BY <1>3, <1>9, <1>10, <2>2
      <4>2. QED
        BY <1>14, <2>2, <3>2, <4>1
    <3>3. QED
      BY <1>5, <3>1, <3>2
  <2>3. QED
    BY <1>15, <2>1, <2>2 DEF Stands
<1>16. Boxed(h)'
  <2>1. Revision(doc[h])' <= Revision(disk[h].doc)'
    BY <1>3, <1>9, <1>10
  <2>2. /\ disk'[h].secret # 0 /\ disk'[h].secret <= rows'[h].secret
        /\ config'[h].secret <= disk'[h].secret
        /\ config'[h].secret = disk'[h].secret => config'[h].dial = disk'[h].dial
    BY <1>3, <1>5, <1>9 DEF c
  <2>3. /\ ~up'[h] => config'[h].secret = 0
        /\ config'[h].secret = 0 => doc'[h] = NoDoc /\ reply'[h] = NoReply
    BY <1>1, <1>3, <1>5, <1>9 DEF Boxed
  <2>4. QED
    BY <1>3, <1>15, <2>1, <2>2, <2>3 DEF Boxed
<1>17. Answered(h)' /\ Asking(h)'
  <2>1. reply'[h] = reply[h] /\ reply[h] \notin Asked
    BY <1>1, <1>6
  <2>2. CASE doc'[h] = doc[h] /\ config'[h] = config[h]
    BY <1>12, <2>1, <2>2, AnsweredStep DEF Asking, FlowInv, Box
  <2>3. CASE config[h].secret = 0
    BY <1>9, <2>1, <2>3, NothingAssumption DEF Boxed, Answered, Asking
  <2>4. QED
    BY <1>5, <2>2, <2>3
<1>18. QED
  BY <1>10, <1>12, <1>13, <1>16, <1>17 DEF Box

LEMMA StopFlows ==
  ASSUME WaveInv, WaveInv', FlowInv, SecretsGrow, TableMoves, JoinsMeetNoAnswer,
         NEW h \in HopId, Stop(h)
  PROVE  Flows /\ (\A g \in HopId : Box(g)') /\ doc'[h] = NoDoc
<1>1. /\ UNCHANGED <<vars, disk>> /\ rows' = rows /\ revision' = revision /\ created' = created
      /\ up[h] /\ up' = [up EXCEPT ![h] = FALSE]
      /\ config' = [config EXCEPT ![h] = [secret |-> 0, dial |-> Panel]]
      /\ doc' = [doc EXCEPT ![h] = NoDoc]
      /\ reply' = [reply EXCEPT ![h] = NoReply]
      /\ reply \in [HopId -> Asked \cup Doc \cup {NoReply}]
      /\ doc \in [HopId -> Doc \cup {NoDoc}] /\ config \in [HopId -> Config]
      /\ up \in [HopId -> BOOLEAN]
  BY DEF Stop, vars, WaveInv, InForce, Underway, BoxTypes
<1>2. /\ \A g \in HopId \ {h} : /\ doc'[g] = doc[g] /\ config'[g] = config[g]
                                /\ up'[g] = up[g] /\ reply'[g] = reply[g]
      /\ ~up'[h] /\ doc'[h] = NoDoc /\ reply'[h] = NoReply
      /\ config'[h].secret = 0 /\ config'[h].dial = Panel
  BY <1>1
<1>3. \A d \in Held' : d \in Held
  BY <1>1, <1>2, NothingAssumption DEF Held
<1>4. SightsMove
  BY <1>1, <1>2, <1>3, NothingSeen
<1>5. Boxed(h)
  BY DEF FlowInv, Box
<1>6. Forward
  <2>1. \A g \in HopId \ {h} : Cur(g) <= Cur(g)'
    BY <1>1, <1>2, CurStays
  <2>2. Cur(h) = Revision(doc[h]) /\ Cur(h)' = Revision(disk[h].doc)
    BY <1>1, <1>2 DEF Cur, HopId, Panel, Revision
  <2>3. QED
    BY <1>1, <1>5, <2>1, <2>2, ForwardStep DEF Boxed
<1>7. Flows
  BY <1>4, <1>6 DEF Flows
<1>8. ASSUME NEW g \in HopId \ {h}
      PROVE  Box(g)'
  BY <1>1, <1>2, <1>7, BoxStep DEF Still, FlowInv
<1>9. /\ disk[h].secret \in Nat /\ Revision(disk[h].doc) \in Nat
      /\ Revision(disk[h].doc) <= revision /\ Revision(disk[h].doc)' = Revision(disk[h].doc)
  BY <1>1, RevisionTypes DEF Revision
<1>10. ASSUME NEW k \in Nat \ {0}, NEW d \in NextHop, NEW v \in Nat, <<k, d, v>> \in Stands(h)'
       PROVE  Ahead(h, k, d, v)'
  <2>1. <<k, d, v>> \in Stands(h) /\ v <= revision
    BY <1>1, <1>2, <1>9, <1>10 DEF Stands
  <2>2. Ahead(h, k, d, v)
    BY <1>5, <2>1 DEF Boxed
  <2>3. QED
    BY <1>7, <2>1, <2>2, AheadStep DEF Flows
<1>11. Boxed(h)'
  BY <1>1, <1>2, <1>5, <1>9, <1>10 DEF Boxed
<1>12. Answered(h)' /\ Asking(h)'
  BY <1>2, NothingAssumption DEF Answered, Asking
<1>13. QED
  BY <1>2, <1>7, <1>8, <1>11, <1>12 DEF Box

LEMMA StartFlows ==
  ASSUME WaveInv, WaveInv', FlowInv, SecretsGrow, TableMoves, JoinsMeetNoAnswer,
         NEW h \in HopId, Start(h)
  PROVE  Flows /\ (\A g \in HopId : Box(g)') /\ doc[h] = NoDoc
<1>1. /\ UNCHANGED <<vars, outer, disk, reply>> /\ rows' = rows /\ revision' = revision
      /\ created' = created
      /\ ~up[h] /\ up' = [up EXCEPT ![h] = TRUE]
      /\ config' = [config EXCEPT ![h] = [secret |-> disk[h].secret, dial |-> disk[h].dial]]
      /\ doc' = [doc EXCEPT ![h] = disk[h].doc]
      /\ doc \in [HopId -> Doc \cup {NoDoc}] /\ config \in [HopId -> Config]
      /\ up \in [HopId -> BOOLEAN]
  BY DEF Start, vars, WaveInv, InForce, BoxTypes
<1>2. /\ \A g \in HopId \ {h} : doc'[g] = doc[g] /\ config'[g] = config[g] /\ up'[g] = up[g]
      /\ up'[h] /\ doc'[h] = disk[h].doc
      /\ config'[h].secret = disk[h].secret /\ config'[h].dial = disk[h].dial
  BY <1>1
<1>3. \A d \in Held' : d \in Held
  BY <1>1, <1>2 DEF Held
<1>4. SightsMove
  BY <1>1, <1>3, NothingSeen
<1>5. Boxed(h) /\ doc[h] = NoDoc /\ reply[h] = NoReply
  BY <1>1 DEF FlowInv, Box, Boxed
<1>6. Forward
  <2>1. \A g \in HopId \ {h} : Cur(g) <= Cur(g)'
    BY <1>1, <1>2, CurStays
  <2>2. Cur(h) = Revision(disk[h].doc) /\ Cur(h)' = Revision(disk[h].doc)
    BY <1>1, <1>2 DEF Cur, HopId, Panel, Revision
  <2>3. Revision(disk[h].doc) \in Nat
    BY RevisionTypes
  <2>4. QED
    BY <2>1, <2>2, <2>3, ForwardStep
<1>7. Flows
  BY <1>4, <1>6 DEF Flows
<1>8. ASSUME NEW g \in HopId \ {h}
      PROVE  Box(g)'
  BY <1>1, <1>2, <1>7, BoxStep DEF Still, FlowInv
<1>9. /\ disk[h].secret \in Nat /\ Revision(disk[h].doc) \in Nat
      /\ Revision(disk[h].doc) <= revision /\ Revision(disk[h].doc)' = Revision(disk[h].doc)
      /\ Revision(doc[h])' = Revision(disk[h].doc)
  BY <1>1, <1>2, RevisionTypes DEF Revision
<1>10. ASSUME NEW k \in Nat \ {0}, NEW d \in NextHop, NEW v \in Nat, <<k, d, v>> \in Stands(h)'
       PROVE  Ahead(h, k, d, v)'
  <2>1. <<k, d, v>> \in Stands(h) /\ v <= revision
    BY <1>1, <1>2, <1>9, <1>10 DEF Stands
  <2>2. Ahead(h, k, d, v)
    BY <1>5, <2>1 DEF Boxed
  <2>3. QED
    BY <1>7, <2>1, <2>2, AheadStep DEF Flows
<1>11. Boxed(h)'
  BY <1>1, <1>2, <1>5, <1>9, <1>10 DEF Boxed
<1>12. Answered(h)' /\ Asking(h)'
  BY <1>1, <1>5, NothingAssumption DEF Answered, Asking
<1>13. QED
  BY <1>5, <1>7, <1>8, <1>11, <1>12 DEF Box

\* No document in force gives way to an older one.
NoneOlder ==
  \A h \in HopId :
    doc[h] # NoDoc /\ doc'[h] # NoDoc => Revision(doc'[h]) >= Revision(doc[h])

LEMMA FlowStep ==
  ASSUME WaveInv, FlowInv, [WaveNext]_waveVars, JoinsMeetNoAnswer, Forgetful = {}
  PROVE  FlowInv' /\ Forward /\ NoneOlder
<1>1. WaveInv' /\ SecretsGrow
  BY WaveStep, GrowStep
<1>2. TableMoves
  BY RegistryStep DEF WaveInv
<1>3. /\ doc \in [HopId -> Doc \cup {NoDoc}]
      /\ \A h \in HopId : Revision(doc[h]) \in Nat
  BY RevisionTypes DEF WaveInv, InForce
<1>4. ASSUME Flows, \A g \in HopId : Box(g)'
      PROVE  FlowInv' /\ Forward
  BY <1>1, <1>2, <1>4, AgesStep DEF Flows, FlowInv
<1>5. ASSUME NEW h \in HopId,
             \A g \in HopId \ {h} : doc'[g] = doc[g],
             \/ doc'[h] = NoDoc \/ doc[h] = NoDoc
             \/ Revision(doc[h]) <= Revision(doc'[h])
      PROVE  NoneOlder
  BY <1>3, <1>5 DEF NoneOlder
<1>6. ASSUME UNCHANGED doc
      PROVE  NoneOlder
  BY <1>3, <1>6 DEF NoneOlder, Revision
<1>7. CASE UNCHANGED boxVars
  <2>1. Flows /\ \A g \in HopId : Box(g)'
    BY <1>1, <1>2, <1>7, PanelFlows
  <2>2. QED
    BY <1>4, <1>6, <1>7, <2>1 DEF boxVars
<1>8. ASSUME NEW h \in HopId, PollPanel(h) \/ PanelAnswers(h) \/ Lose(h)
      PROVE  FlowInv' /\ Forward /\ NoneOlder
  <2>1. Flows /\ \A g \in HopId : Box(g)'
    BY <1>1, <1>2, <1>8, PollPanelFlows, PanelAnswersFlows, LoseFlows
  <2>2. QED
    BY <1>4, <1>6, <1>8, <2>1 DEF PollPanel, PanelAnswers, Lose
<1>9. ASSUME NEW h \in HopId, NEW s \in HopId \ {h}, PollBox(h, s)
      PROVE  FlowInv' /\ Forward /\ NoneOlder
  <2>1. Flows /\ \A g \in HopId : Box(g)'
    BY <1>1, <1>2, <1>9, PollBoxFlows
  <2>2. QED
    BY <1>4, <1>6, <1>9, <2>1 DEF PollBox
<1>10. ASSUME NEW h \in HopId, Receive(h)
       PROVE  FlowInv' /\ Forward /\ NoneOlder
  <2>1. Flows /\ (\A g \in HopId : Box(g)') /\ Revision(doc[h]) <= Revision(doc'[h])
    BY <1>1, <1>2, <1>10, ReceiveFlows
  <2>2. \A g \in HopId \ {h} : doc'[g] = doc[g]
    BY <1>3, <1>10 DEF Receive
  <2>3. QED
    BY <1>4, <1>5, <2>1, <2>2
<1>11. ASSUME NEW h \in HopId, NEW d \in NextHop, NEW a \in Addr,
              JoinPage(h, d, a) \/ Rejoin(h, d, a)
       PROVE  FlowInv' /\ Forward /\ NoneOlder
  <2>1. Flows /\ (\A g \in HopId : Box(g)') /\ (doc[h] = NoDoc \/ doc'[h] = doc[h])
    BY <1>1, <1>2, <1>11, JoinFlows
  <2>2. \A g \in HopId \ {h} : doc'[g] = doc[g]
    BY <1>3, <1>11 DEF JoinPage, Rejoin
  <2>3. doc'[h] = doc[h] => Revision(doc[h]) <= Revision(doc'[h])
    BY <1>3
  <2>4. QED
    BY <1>4, <1>5, <2>1, <2>2, <2>3
<1>12. ASSUME NEW h \in HopId, Stop(h) \/ Start(h)
       PROVE  FlowInv' /\ Forward /\ NoneOlder
  <2>1. Flows /\ (\A g \in HopId : Box(g)') /\ (doc[h] = NoDoc \/ doc'[h] = NoDoc)
    BY <1>1, <1>2, <1>12, StopFlows, StartFlows
  <2>2. \A g \in HopId \ {h} : doc'[g] = doc[g]
    BY <1>3, <1>12 DEF Stop, Start
  <2>3. QED
    BY <1>4, <1>5, <2>1, <2>2
<1>13. CASE Panels \/ UNCHANGED waveVars
  BY <1>7, <1>13 DEF Panels, waveVars
<1>14. CASE Polls
  BY <1>8, <1>9, <1>10, <1>14 DEF Polls
<1>15. CASE Joins
  BY <1>7, <1>11, <1>15 DEF Joins, JoinLost
<1>16. CASE Processes
  BY <1>12, <1>16 DEF Processes
<1>17. QED
  BY <1>13, <1>14, <1>15, <1>16 DEF WaveNext

LEMMA FlowStart == WaveInit => FlowInv
<1> SUFFICES ASSUME WaveInit PROVE FlowInv
  OBVIOUS
<1>1. \A h \in HopId : /\ ~up[h] /\ doc[h] = NoDoc /\ reply[h] = NoReply
                       /\ config[h].secret = 0 /\ disk[h].secret = 0 /\ disk[h].doc = NoDoc
  BY DEF WaveInit
<1>2. DOMAIN rows = {}
  BY DEF WaveInit, Init
<1>3. Held = {}
  BY <1>1, NothingAssumption DEF Held
<1>4. \A x, k, r : ~Sighted(x, k, r)
  BY <1>1, <1>3, NothingAssumption DEF Sighted
<1>5. Ages /\ Issued
  BY <1>2, <1>4 DEF Ages, Issued
<1>6. ASSUME NEW h \in HopId
      PROVE  Box(h)
  <2>1. Boxed(h)
    <3>1. \A k, d, v : <<k, d, v>> \in Stands(h) => k = 0
      BY <1>1, <1>6 DEF Stands
    <3>2. QED
      BY <1>1, <1>2, <1>6, <3>1 DEF Boxed
  <2>2. Answered(h) /\ Asking(h)
    BY <1>1, <1>6, NothingAssumption DEF Answered, Asking
  <2>3. QED
    BY <2>1, <2>2 DEF Box
<1>7. QED
  BY <1>5, <1>6 DEF FlowInv

\* Documents go forward only, through polls, joins, departures, crashes and lost
\* answers, if every document is written to disk and no box registers again while
\* the panel is between the revision and the rows of an answer.
THEOREM DocumentsForward ==
  ASSUME Forgetful = {}
  PROVE  WaveSpec /\ [][JoinsMeetNoAnswer]_waveVars => DocumentsMoveForward
<1>1. WaveInv /\ FlowInv /\ [WaveNext]_waveVars /\ [JoinsMeetNoAnswer]_waveVars
        => FlowInv' /\ [NoneOlder]_waveVars
  <2>1. ASSUME WaveInv, FlowInv, UNCHANGED waveVars
        PROVE  JoinsMeetNoAnswer
    <3>1. rows' = rows
      BY <2>1 DEF waveVars, vars
    <3>2. QED
      BY <3>1 DEF JoinsMeetNoAnswer
  <2>2. QED
    BY <2>1, FlowStep
<1>2. DocumentsMoveForward <=> [][NoneOlder]_waveVars
  BY DEF DocumentsMoveForward, NoneOlder
<1>3. QED
  BY <1>1, <1>2, FlowStart, DocumentsFit, PTL DEF WaveSpec

-----------------------------------------------------------------------------
(* What boxes say of each other. *)

\* Every hop keeps one name, and a name that was used is not used again.
Named(f) == \A h \in DOMAIN rows : rows[h].name = f[h]

\* Nobody - a box, a poll on its way, the table - takes a box to be beyond what it
\* has; entries go by the names of the rows they speak of.
AckInv(f) ==
  /\ \A h \in DOMAIN rows : rows[h].lastRevision <= Cur(h)
  /\ \A s, h \in HopId : outer[s][f[h]] <= Cur(h)
  /\ \A g \in HopId : reply[g] \in Asked =>
       /\ reply[g].name = f[g] /\ reply[g].seen <= Cur(g)
       /\ \A h \in HopId : reply[g].acks[f[h]] <= Cur(h)
  /\ \A d \in Held : \A e \in Range(d.hops) : e.name = f[e.secret[1]]

\* An ack moves a row no further than one of those for its name.
LEMMA AcknowledgeBound ==
  ASSUME TypeOK, NEW acks \in SUBSET (Name \X Nat), NEW g \in DOMAIN rows,
         NEW c \in Nat, rows[g].lastRevision <= c,
         \A k \in acks : k[1] = rows[g].name => k[2] <= c
  PROVE  Acknowledge(acks)[g].lastRevision <= c
<1> DEFINE clamp(r) == IF r > revision THEN revision ELSE r
           heard == {clamp(k[2]) : k \in {x \in acks : x[1] = rows[g].name}}
           newest == {r \in heard : r > rows[g].lastRevision /\ \A q \in heard : q <= r}
<1>1. rows[g] \in Row /\ rows[g].lastRevision \in Nat /\ revision \in Nat
  BY DEF TypeOK, Row
<1>2. \A r \in heard : r \in Nat /\ r <= c
  BY <1>1
<1>3. CASE newest = {}
  <2>1. Acknowledge(acks)[g] = rows[g]
    BY <1>3 DEF Acknowledge
  <2>2. QED
    BY <2>1
<1>4. CASE newest # {}
  <2> DEFINE r == CHOOSE q \in newest : TRUE
  <2>1. r \in newest
    BY <1>4
  <2>2. Acknowledge(acks)[g] = [rows[g] EXCEPT !.lastRevision = r]
    BY <1>4 DEF Acknowledge
  <2> HIDE DEF r
  <2>3. r \in Nat /\ r <= c
    BY <1>2, <2>1
  <2>4. QED
    BY <1>1, <2>2, <2>3 DEF Row
<1>5. QED
  BY <1>3, <1>4

\* A poll: what it confirms was true when it was sent.
LEMMA HeardHonest ==
  ASSUME WaveInv, NEW f \in [HopId -> Name], Named(f), AckInv(f),
         \A g, h \in HopId : f[g] = f[h] => g = h,
         NEW h \in HopId, PanelAnswers(h)
  PROVE  /\ DOMAIN rows' = DOMAIN rows
         /\ \A g \in DOMAIN rows : rows'[g].lastRevision <= Cur(g)
<1>1. /\ TypeOK /\ ConfirmedRevisionsExist /\ reply[h] \in Asked
      /\ reply[h].seen \in Nat /\ reply[h].acks \in [Name -> Nat]
      /\ DOMAIN rows \subseteq HopId
  BY RowsTable DEF WaveInv, Registry, IInv, IsTable, PanelAnswers, Asked
<1>2. /\ reply[h].name = f[h] /\ reply[h].seen <= Cur(h)
      /\ \A i \in HopId : reply[h].acks[f[i]] <= Cur(i)
      /\ \A i \in DOMAIN rows : rows[i].lastRevision <= Cur(i)
  BY <1>1 DEF AckInv
<1> DEFINE sent == {<<n, reply[h].acks[n]>> : n \in Name}
<1>3. CASE UNCHANGED vars
  BY <1>2, <1>3 DEF vars
<1>4. ASSUME NEW i \in DOMAIN rows, rows[i].name = reply[h].name,
             RecordSeen(i, reply[h].seen, sent)
      PROVE  /\ DOMAIN rows' = DOMAIN rows
             /\ \A g \in DOMAIN rows : rows'[g].lastRevision <= Cur(g)
  <2>1. i = h
    BY <1>1, <1>2, <1>4 DEF Named
  <2> DEFINE all == {<<rows[i].name, reply[h].seen>>}
                      \cup {k \in sent : \E g \in Outward(rows, i) : rows[g].name = k[1]}
  <2>2. rows' = Acknowledge(all)
    BY <1>4 DEF RecordSeen
  <2>3. rows[i].name \in Name
    BY <1>1 DEF TypeOK, Row
  <2>4. all \in SUBSET (Name \X Nat)
    BY <1>1, <2>3
  <2>5. ASSUME NEW g \in DOMAIN rows
        PROVE  Acknowledge(all)[g].lastRevision <= Cur(g)
    <3>1. g \in HopId /\ g \in NextHop /\ rows[g].name = f[g]
      BY <1>1 DEF NextHop, Named
    <3>2. Cur(g) \in Nat
      BY <3>1, CurTypes
    <3>3. ASSUME NEW k \in all, k[1] = rows[g].name
          PROVE  k[2] <= Cur(g)
      <4>1. CASE k = <<rows[i].name, reply[h].seen>>
        BY <1>2, <1>4, <2>1, <3>1, <3>3, <4>1
      <4>2. CASE k \in sent
        BY <1>2, <3>1, <3>3, <4>2
      <4>3. QED
        BY <4>1, <4>2
    <3> HIDE DEF all
    <3>4. PICK c \in Nat : c = Cur(g)
      BY <3>2
    <3>5. QED
      BY <1>1, <1>2, <2>4, <3>3, <3>4, AcknowledgeBound
  <2> HIDE DEF all
  <2>6. DOMAIN rows' = DOMAIN rows
    BY <2>2 DEF Acknowledge
  <2>7. QED
    BY <2>2, <2>5, <2>6
<1>5. QED
  BY <1>3, <1>4 DEF PanelAnswers

\* Entries of a new document go by the names of the rows, as all others do.
LEMMA EntriesNamed ==
  ASSUME WaveInv, NEW f, AckInv(f), NEW X,
         \A d \in Held' : d \in Held \/ d = X,
         \A e \in Range(X.hops) : e.name = f[e.secret[1]]
  PROVE  \A d \in Held' : \A e \in Range(d.hops) : e.name = f[e.secret[1]]
BY DEF AckInv

LEMMA EntriesStep ==
  ASSUME WaveInv, WaveInv', NEW f \in [HopId -> Name], Named(f), Named(f)', AckInv(f),
         [WaveNext]_waveVars
  PROVE  \A d \in Held' : \A e \in Range(d.hops) : e.name = f[e.secret[1]]
<1>1. /\ reply \in [HopId -> Asked \cup Doc \cup {NoReply}]
      /\ doc \in [HopId -> Doc \cup {NoDoc}]
      /\ disk \in [HopId -> [secret : Nat, dial : NextHop, doc : Doc \cup {NoDoc}]]
      /\ NoReply \notin Doc /\ NoDoc \notin Doc
  BY NothingAssumption DEF WaveInv, Underway, InForce, OnDisk
<1>2. ASSUME \A d \in Held' : d \in Held
      PROVE  \A d \in Held' : \A e \in Range(d.hops) : e.name = f[e.secret[1]]
  BY <1>2 DEF AckInv
<1>3. CASE UNCHANGED <<doc, disk, reply>>
  BY <1>2, <1>3 DEF Held
<1>4. ASSUME NEW h \in HopId, PollPanel(h)
      PROVE  \A d \in Held' : d \in Held
  <2> DEFINE a == [name |-> rows[h].name, revision |-> revision,
                   seen |-> Revision(doc[h]), acks |-> outer[h]]
  <2>1. DOMAIN a = {"name", "revision", "seen", "acks"}
    OBVIOUS
  <2>2. \A d \in Doc : DOMAIN d = {"revision", "name", "state", "nextHop", "hops"}
    BY DEF Doc
  <2>3. reply' = [reply EXCEPT ![h] = a] /\ UNCHANGED <<doc, disk>>
    BY <1>4 DEF PollPanel
  <2> HIDE DEF a
  <2>4. a \notin Doc
    BY <2>1, <2>2
  <2>5. \A g \in HopId : reply'[g] \in {reply[g], a}
    BY <1>1, <2>3
  <2>6. QED
    BY <2>3, <2>4, <2>5 DEF Held
<1>5. ASSUME NEW h \in HopId, PanelAnswers(h)
      PROVE  \A d \in Held' : \A e \in Range(d.hops) : e.name = f[e.secret[1]]
  <2>1. CASE reply' = [reply EXCEPT ![h] = NoReply]
    <3>1. \A g \in HopId : reply'[g] \in {reply[g], NoReply}
      BY <1>1, <2>1
    <3>2. \A d \in Held' : d \in Held
      BY <1>1, <1>5, <3>1 DEF Held, PanelAnswers
    <3>3. QED
      BY <1>2, <3>2
  <2>2. ASSUME NEW g \in DOMAIN rows,
               reply' = [reply EXCEPT ![h] = PanelDocument(rows, reply[h].revision, g)]
        PROVE  \A d \in Held' : \A e \in Range(d.hops) : e.name = f[e.secret[1]]
    <3> DEFINE X == PanelDocument(rows, reply[h].revision, g)
    <3>1. Walkable(rows) /\ reply[h].revision \in Nat
      BY <1>5, RowsWalkable, RevisionTypes DEF WaveInv, Registry, PanelAnswers
    <3>2. X \in Doc /\ \A e \in Range(X.hops) : \E i \in DOMAIN rows : e = Wire(rows, i)
      BY <3>1, PanelDocumentIs
    <3>3. reply' = [reply EXCEPT ![h] = X]
      BY <2>2
    <3> HIDE DEF X
    <3>4. \A e \in Range(X.hops) : e.name = f[e.secret[1]]
      BY <3>2 DEF Wire, Named
    <3>5. \A i \in HopId : reply'[i] \in {reply[i], X}
      BY <1>1, <3>3
    <3>6. \A d \in Held' : d \in Held \/ d = X
      BY <1>5, <3>5 DEF Held, PanelAnswers
    <3>7. QED
      BY <3>4, <3>6, EntriesNamed
  <2>3. QED
    BY <1>5, <2>1, <2>2 DEF PanelAnswers
<1>6. ASSUME NEW h \in HopId, NEW s \in HopId \ {h}, PollBox(h, s)
      PROVE  \A d \in Held' : \A e \in Range(d.hops) : e.name = f[e.secret[1]]
  <2>1. PICK e \in OuterNeighbour(doc[s], h) :
          reply' = [reply EXCEPT ![h] =
            IF Revision(doc[h]) = doc[s].revision THEN NoReply
            ELSE TruncateDocument(doc[s], s, e)]
    BY <1>6 DEF PollBox
  <2>2. doc[s] \in Doc /\ doc[s] \in Held /\ e \in Range(doc[s].hops)
    BY <1>1, <2>1 DEF OuterNeighbour, Held
  <2> DEFINE X == TruncateDocument(doc[s], s, e)
  <2>3. Range(X.hops) \subseteq Range(doc[s].hops)
    BY <2>2, TruncateDocumentIs
  <2> HIDE DEF X
  <2>4. \A i \in HopId : reply'[i] \in {reply[i], NoReply, X}
    BY <1>1, <2>1 DEF X
  <2>5. \A d \in Held' : d \in Held \/ d = X
    BY <1>1, <1>6, <2>4 DEF Held, PollBox
  <2>6. \A i \in Range(X.hops) : i.name = f[i.secret[1]]
    BY <2>2, <2>3 DEF AckInv
  <2>7. QED
    BY <2>5, <2>6, EntriesNamed
<1>7. ASSUME NEW h \in HopId, Receive(h)
      PROVE  \A d \in Held' : d \in Held
  <2> DEFINE m == reply[h]
  <2>1. /\ m \in Doc /\ m \in Held /\ reply' = [reply EXCEPT ![h] = NoReply]
        /\ doc' \in {doc, [doc EXCEPT ![h] = m]}
        /\ disk' \in {disk, [disk EXCEPT ![h].doc = m]}
    BY <1>7 DEF Receive, Held
  <2> HIDE DEF m
  <2>2. \A g \in HopId : /\ doc'[g] \in {doc[g], m} /\ disk'[g].doc \in {disk[g].doc, m}
                         /\ reply'[g] \in {reply[g], NoReply}
    BY <1>1, <2>1
  <2>3. QED
    BY <1>1, <2>1, <2>2 DEF Held
<1>8. ASSUME NEW h \in HopId, Lose(h)
      PROVE  \A d \in Held' : d \in Held
  <2>1. UNCHANGED <<doc, disk>> /\ \A g \in HopId : reply'[g] \in {reply[g], NoReply}
    BY <1>1, <1>8 DEF Lose
  <2>2. QED
    BY <1>1, <2>1 DEF Held
<1>9. ASSUME NEW h \in HopId, NEW d \in NextHop, NEW a \in Addr,
             JoinPage(h, d, a) \/ Rejoin(h, d, a)
      PROVE  \A c \in Held' : \A e \in Range(c.hops) : e.name = f[e.secret[1]]
  <2> DEFINE X == PanelDocument(rows', revision', h)
  <2>1. Join(h, a) /\ Registry /\ Registry'
    BY <1>9 DEF JoinPage, Rejoin, WaveInv
  <2>2. \A e \in Range(X.hops) : \E i \in DOMAIN rows' : e = Wire(rows', i)
    BY <2>1, JoinedSights
  <2>3. PICK d0 \in {disk[h].doc, X} :
          disk' = [disk EXCEPT ![h] = [secret |-> rows'[h].secret, dial |-> d, doc |-> d0]]
    BY <1>9 DEF JoinPage, Rejoin, Accepted
  <2>4. UNCHANGED reply /\ doc' \in {doc, [doc EXCEPT ![h] = X]}
    BY <1>9 DEF JoinPage, Rejoin
  <2> HIDE DEF X
  <2>5. \A g \in HopId : doc'[g] \in {doc[g], X} /\ disk'[g].doc \in {disk[g].doc, X}
    BY <1>1, <2>3, <2>4
  <2>6. \A c \in Held' : c \in Held \/ c = X
    BY <2>4, <2>5 DEF Held
  <2>7. \A e \in Range(X.hops) : e.name = f[e.secret[1]]
    BY <2>2 DEF Wire, Named
  <2>8. QED
    BY <2>6, <2>7, EntriesNamed
<1>10. ASSUME NEW h \in HopId, Stop(h)
       PROVE  \A d \in Held' : d \in Held
  <2>1. /\ UNCHANGED disk
        /\ \A g \in HopId : doc'[g] \in {doc[g], NoDoc} /\ reply'[g] \in {reply[g], NoReply}
    BY <1>1, <1>10 DEF Stop
  <2>2. QED
    BY <1>1, <2>1 DEF Held
<1>11. ASSUME NEW h \in HopId, Start(h)
       PROVE  \A d \in Held' : d \in Held
  <2>1. UNCHANGED <<disk, reply>> /\ \A g \in HopId : doc'[g] \in {doc[g], disk[g].doc}
    BY <1>1, <1>11 DEF Start
  <2>2. QED
    BY <2>1 DEF Held
<1>12. CASE Panels \/ UNCHANGED waveVars
  BY <1>3, <1>12 DEF Panels, waveVars, boxVars
<1>13. CASE Polls
  BY <1>2, <1>4, <1>5, <1>6, <1>7, <1>8, <1>13 DEF Polls
<1>14. CASE Joins
  BY <1>3, <1>9, <1>14 DEF Joins, JoinLost, boxVars
<1>15. CASE Processes
  BY <1>2, <1>10, <1>11, <1>15 DEF Processes
<1>16. QED
  BY <1>12, <1>13, <1>14, <1>15 DEF WaveNext

LEMMA AckStep ==
  ASSUME WaveInv, WaveInv', Forward, NEW f \in [HopId -> Name],
         \A g, h \in HopId : f[g] = f[h] => g = h,
         Named(f), Named(f)', AckInv(f), [WaveNext]_waveVars
  PROVE  AckInv(f)'
<1>1. /\ reply \in [HopId -> Asked \cup Doc \cup {NoReply}]
      /\ outer \in [HopId -> [Name -> Nat]]
      /\ IInv /\ TypeOK /\ TypeOK' /\ DOMAIN rows' \subseteq HopId
  <2>1. IInv /\ TypeOK /\ TypeOK'
    BY DEF WaveInv, Registry, IInv
  <2>2. DOMAIN rows' \subseteq HopId
    BY <2>1, MaxHopsAssumption DEF TypeOK, HopId
  <2>3. reply \in [HopId -> Asked \cup Doc \cup {NoReply}] /\ outer \in [HopId -> [Name -> Nat]]
    BY DEF WaveInv, Underway, BoxTypes
  <2>4. QED
    BY <2>1, <2>2, <2>3
<1>2. \A h \in HopId : Cur(h) \in Nat /\ Cur(h)' \in Nat /\ Cur(h) <= Cur(h)'
  BY CurTypes, CurTypesNext DEF Forward, NextHop
<1>3. /\ \A h \in DOMAIN rows : rows[h].lastRevision <= Cur(h)
      /\ \A s, h \in HopId : outer[s][f[h]] <= Cur(h)
      /\ \A g \in HopId : reply[g] \in Asked =>
           /\ reply[g].name = f[g] /\ reply[g].seen <= Cur(g)
           /\ \A h \in HopId : reply[g].acks[f[h]] <= Cur(h)
  BY DEF AckInv
<1>4. \A h \in DOMAIN rows' : rows'[h].lastRevision <= Cur(h)'
  <2>1. ASSUME NEW h \in DOMAIN rows', Books
        PROVE  rows'[h].lastRevision <= Cur(h)'
    <3>1. h \in HopId
      BY <1>1
    <3>2. CASE h \in DOMAIN rows
      <4>1. rows'[h].lastRevision = rows[h].lastRevision /\ rows[h].lastRevision \in Nat
        BY <1>1, <2>1, <3>2 DEF Books, FreshnessStays, TypeOK, Row
      <4>2. QED
        BY <1>2, <1>3, <3>1, <3>2, <4>1
    <3>3. CASE h \notin DOMAIN rows
      BY <1>2, <2>1, <3>1, <3>3 DEF Books, FreshnessStays
    <3>4. QED
      BY <3>2, <3>3
  <2>2. ASSUME NEW h \in HopId, PanelAnswers(h), NEW g \in DOMAIN rows'
        PROVE  rows'[g].lastRevision <= Cur(g)'
    <3>1. g \in DOMAIN rows /\ rows'[g].lastRevision <= Cur(g)
      BY <2>2, HeardHonest
    <3>2. rows'[g].lastRevision \in Nat
      BY <1>1 DEF TypeOK, Row
    <3>3. QED
      BY <1>1, <1>2, <3>1, <3>2
  <2>3. CASE UNCHANGED vars
    BY <1>1, <2>1, <2>3, BooksStep
  <2>4. CASE Panels
    BY <1>1, <2>1, <2>4, BooksStep DEF Panels
  <2>5. CASE Joins
    <3>1. \E h \in HopId, a \in Addr : Join(h, a)
      BY <2>5 DEF Joins, JoinPage, Rejoin, JoinLost
    <3>2. QED
      BY <1>1, <2>1, <3>1, BooksStep
  <2>6. CASE Polls
    BY <2>2, <2>3, <2>6 DEF Polls, PollPanel, PollBox, Receive, Lose
  <2>7. CASE Processes
    BY <2>3, <2>7 DEF Processes, Stop, Start
  <2>8. QED
    BY <2>3, <2>4, <2>5, <2>6, <2>7 DEF WaveNext, waveVars
<1>5. ASSUME NEW s \in HopId, NEW h \in HopId
      PROVE  outer'[s][f[h]] <= Cur(h)'
  <2>1. f[h] \in Name /\ outer[s] \in [Name -> Nat] /\ outer[s][f[h]] \in Nat
    BY <1>1
  <2>2. outer[s][f[h]] <= Cur(h)
    BY <1>3
  <2>3. CASE outer' = outer
    BY <1>2, <2>1, <2>2, <2>3
  <2>4. ASSUME NEW g \in HopId, NEW t \in HopId \ {g}, PollBox(g, t)
        PROVE  outer'[s][f[h]] <= Cur(h)'
    <3>1. PICK e \in OuterNeighbour(doc[t], g), won \in SUBSET Name :
            outer' = [outer EXCEPT ![t] =
              [Recorded(@, outer[g], won) EXCEPT ![e.name] = Revision(doc[g])]]
      BY <2>4 DEF PollBox
    <3>2. CASE s # t
      <4>1. outer'[s] = outer[s]
        BY <1>1, <3>1, <3>2
      <4>2. QED
        BY <1>2, <2>1, <2>2, <4>1
    <3>3. CASE s = t
      <4> DEFINE r == Recorded(outer[t], outer[g], won)
      <4>1. r \in [Name -> Nat] /\ r[f[h]] \in {outer[g][f[h]], outer[s][f[h]]}
        BY <1>1, <2>1, <3>3 DEF Recorded
      <4>2. outer'[t] = [r EXCEPT ![e.name] = Revision(doc[g])]
        BY <1>1, <3>1
      <4> HIDE DEF r
      <4>3. outer[g][f[h]] <= Cur(h) /\ outer[g][f[h]] \in Nat
        BY <1>1, <1>3, <2>1
      <4>4. CASE f[h] # e.name
        <5>1. outer'[s][f[h]] = r[f[h]]
          BY <2>1, <3>3, <4>1, <4>2, <4>4
        <5>2. QED
          BY <1>2, <2>1, <2>2, <4>1, <4>3, <5>1
      <4>5. CASE f[h] = e.name
        <5>1. outer'[s][f[h]] = Revision(doc[g])
          BY <2>1, <3>3, <4>1, <4>2, <4>5
        <5>2. /\ doc[t] \in Doc /\ doc[t] # NoDoc /\ e \in Range(doc[t].hops)
              /\ e.secret = <<g, config[g].secret>>
          BY <3>1 DEF OuterNeighbour, WaveInv, InForce
        <5>3. doc[t] \in Held
          BY <5>2 DEF Held
        <5>4. e.name = f[g]
          BY <5>2, <5>3 DEF AckInv
        <5>5. h = g
          BY <4>5, <5>4
        <5>6. Cur(g) = Revision(doc[g])
          BY <2>4 DEF PollBox, Joined, Cur, HopId, Panel
        <5>7. QED
          BY <1>2, <5>1, <5>5, <5>6
      <4>6. QED
        BY <4>4, <4>5
    <3>4. QED
      BY <3>2, <3>3
  <2>5. ASSUME NEW g \in HopId, Stop(g)
        PROVE  outer'[s][f[h]] <= Cur(h)'
    <3>1. outer'[s] \in {outer[s], Silent}
      BY <1>1, <2>5 DEF Stop
    <3>2. Silent[f[h]] = 0
      BY <2>1 DEF Silent
    <3>3. QED
      BY <1>2, <2>1, <2>2, <3>1, <3>2
  <2>6. CASE Polls
    BY <2>3, <2>4, <2>6 DEF Polls, PollPanel, PanelAnswers, Receive, Lose
  <2>7. CASE Joins
    BY <2>3, <2>7 DEF Joins, JoinPage, Rejoin, JoinLost, boxVars
  <2>8. CASE Processes
    BY <2>3, <2>5, <2>8 DEF Processes, Start
  <2>9. QED
    BY <2>3, <2>6, <2>7, <2>8 DEF WaveNext, Panels, waveVars, boxVars
<1>6. ASSUME NEW g \in HopId, reply'[g] \in Asked
      PROVE  /\ reply'[g].name = f[g] /\ reply'[g].seen <= Cur(g)'
             /\ \A h \in HopId : reply'[g].acks[f[h]] <= Cur(h)'
  <2>1. CASE reply'[g] = reply[g]
    <3>1. /\ reply[g].seen \in Nat /\ reply[g].acks \in [Name -> Nat]
          /\ \A h \in HopId : reply[g].acks[f[h]] \in Nat
      BY <1>6, <2>1 DEF Asked
    <3>2. QED
      BY <1>2, <1>3, <1>6, <2>1, <3>1
  <2>2. CASE PollPanel(g)
    <3> DEFINE a == [name |-> rows[g].name, revision |-> revision,
                     seen |-> Revision(doc[g]), acks |-> outer[g]]
    <3>1. reply'[g] = a
      BY <1>1, <2>2 DEF PollPanel
    <3>2. a.name = rows[g].name /\ a.seen = Revision(doc[g]) /\ a.acks = outer[g]
      OBVIOUS
    <3> HIDE DEF a
    <3>3. rows[g].name = f[g]
      BY <2>2 DEF PollPanel, Authenticated, Named
    <3>4. Cur(g) = Revision(doc[g])
      BY <2>2 DEF PollPanel, Joined, Cur, HopId, Panel
    <3>5. \A h \in HopId : outer[g][f[h]] \in Nat
      BY <1>1
    <3>6. QED
      BY <1>2, <1>3, <3>1, <3>2, <3>3, <3>4, <3>5
  <2>3. reply'[g] = reply[g] \/ PollPanel(g)
    <3>1. ASSUME NEW h \in HopId, NEW m, m \notin Asked, reply' = [reply EXCEPT ![h] = m]
          PROVE  reply'[g] = reply[g]
      BY <1>1, <1>6, <3>1
    <3>2. ASSUME NEW h \in HopId, PanelAnswers(h)
          PROVE  reply'[g] = reply[g]
      <4>1. ASSUME NEW i \in DOMAIN rows,
                   reply' = [reply EXCEPT ![h] = PanelDocument(rows, reply[h].revision, i)]
            PROVE  reply'[g] = reply[g]
        <5>1. Walkable(rows) /\ reply[h].revision \in Nat
          BY <3>2, RowsWalkable, RevisionTypes DEF WaveInv, Registry, PanelAnswers
        <5>2. PanelDocument(rows, reply[h].revision, i) \in Doc
          BY <5>1, PanelDocumentIs
        <5>3. PanelDocument(rows, reply[h].revision, i) \notin Asked
          BY <5>2, AskedIsNoDoc
        <5>4. QED
          BY <3>1, <4>1, <5>3
      <4>2. CASE reply' = [reply EXCEPT ![h] = NoReply]
        BY <3>1, <4>2, NothingAssumption
      <4>3. QED
        BY <3>2, <4>1, <4>2 DEF PanelAnswers
    <3>3. ASSUME NEW h \in HopId, NEW s \in HopId \ {h}, PollBox(h, s)
          PROVE  reply'[g] = reply[g]
      <4>1. PICK e \in OuterNeighbour(doc[s], h) :
              reply' = [reply EXCEPT ![h] =
                IF Revision(doc[h]) = doc[s].revision THEN NoReply
                ELSE TruncateDocument(doc[s], s, e)]
        BY <3>3 DEF PollBox
      <4>2. doc[s] \in Doc /\ e \in Range(doc[s].hops)
        BY <4>1 DEF OuterNeighbour, WaveInv, InForce
      <4>3. TruncateDocument(doc[s], s, e) \notin Asked
        BY <4>2, TruncateDocumentIs, AskedIsNoDoc
      <4>4. QED
        BY <3>1, <4>1, <4>3, NothingAssumption
    <3>4. ASSUME NEW h \in HopId, PollPanel(h)
          PROVE  reply'[g] = reply[g] \/ PollPanel(g)
      BY <1>1, <3>4 DEF PollPanel
    <3>5. ASSUME NEW h \in HopId, Receive(h) \/ Lose(h) \/ Stop(h)
          PROVE  reply'[g] = reply[g]
      BY <3>1, <3>5, NothingAssumption DEF Receive, Lose, Stop
    <3>6. CASE Polls
      BY <3>2, <3>3, <3>4, <3>5, <3>6 DEF Polls
    <3>7. CASE Joins
      BY <3>7 DEF Joins, JoinPage, Rejoin, JoinLost, boxVars
    <3>8. CASE Processes
      BY <3>5, <3>8 DEF Processes, Start
    <3>9. QED
      BY <3>6, <3>7, <3>8 DEF WaveNext, Panels, waveVars, boxVars
  <2>4. QED
    BY <2>1, <2>2, <2>3
<1>7. QED
  BY <1>4, <1>5, <1>6, EntriesStep DEF AckInv

LEMMA AckStart ==
  ASSUME NEW f \in [HopId -> Name]
  PROVE  WaveInit => AckInv(f)
<1> SUFFICES ASSUME WaveInit PROVE AckInv(f)
  OBVIOUS
<1>1. /\ \A h \in HopId : ~up[h] /\ doc[h] = NoDoc /\ reply[h] = NoReply /\ disk[h].doc = NoDoc
      /\ \A s \in HopId : outer[s] = Silent
      /\ DOMAIN rows = {}
  BY DEF WaveInit, Init
<1>2. Held = {}
  BY <1>1, NothingAssumption DEF Held
<1>3. \A h \in HopId : Cur(h) = 0
  BY <1>1 DEF Cur, Revision, HopId, Panel
<1>4. \A s, h \in HopId : outer[s][f[h]] = 0
  BY <1>1 DEF Silent
<1>5. QED
  BY <1>1, <1>2, <1>3, <1>4, NothingAssumption DEF AckInv

\* The registry never takes a box to be on a revision it has not applied, whoever
\* passed its ack on, if names are not changed or used again, every document is
\* written to disk and no box registers again while the panel is between the revision
\* and the rows of an answer.
THEOREM AcksHonest ==
  ASSUME Forgetful = {}, NEW NameOf \in [HopId -> Name],
         \A g, h \in HopId : NameOf[g] = NameOf[h] => g = h
  PROVE  WaveSpec /\ [][JoinsMeetNoAnswer]_waveVars /\ []Named(NameOf) => []AcksAreHonest
<1>1. (/\ WaveInv /\ WaveInv' /\ FlowInv /\ Named(NameOf) /\ Named(NameOf)' /\ AckInv(NameOf)
       /\ [WaveNext]_waveVars /\ [JoinsMeetNoAnswer]_waveVars)
        => FlowInv' /\ AckInv(NameOf)'
  <2> SUFFICES ASSUME WaveInv, WaveInv', FlowInv, Named(NameOf), Named(NameOf)', AckInv(NameOf),
                      [WaveNext]_waveVars, [JoinsMeetNoAnswer]_waveVars
               PROVE  FlowInv' /\ AckInv(NameOf)'
    OBVIOUS
  <2>1. JoinsMeetNoAnswer
    <3>1. CASE UNCHANGED waveVars
      <4>1. rows' = rows
        BY <3>1 DEF waveVars, vars
      <4>2. QED
        BY <4>1 DEF JoinsMeetNoAnswer
    <3>2. QED
      BY <3>1
  <2>2. FlowInv' /\ Forward
    BY <2>1, FlowStep
  <2>3. QED
    BY <2>2, AckStep
<1>2. WaveInv /\ AckInv(NameOf) => AcksAreHonest
  <2> SUFFICES ASSUME WaveInv, AckInv(NameOf), NEW h \in DOMAIN rows
               PROVE  rows[h].lastRevision <= IF up[h] THEN Revision(doc[h])
                                              ELSE Revision(disk[h].doc)
    BY DEF AcksAreHonest
  <2>1. h \in HopId
    BY RowsTable DEF WaveInv, Registry, IInv, IsTable
  <2>2. QED
    BY <2>1 DEF AckInv, Cur, HopId, Panel
<1>3. WaveInit => AckInv(NameOf)
  BY AckStart
<1>4. QED
  BY <1>1, <1>2, <1>3, FlowStart, DocumentsFit, PTL DEF WaveSpec

-----------------------------------------------------------------------------
(* How a departure ends. *)

\* A departure waits for the names of all it began with.
AwaitedByName(f) ==
  \A h \in Rows(rows, {"draining"}) : \A g \in rows[h].former : f[g] \in rows[h].drainOuter

\* Confirmations change no departure ...
LEMMA HeardDepartures ==
  ASSUME WaveInv, NEW h \in HopId, PanelAnswers(h)
  PROVE  /\ DOMAIN rows' = DOMAIN rows
         /\ \A g \in DOMAIN rows :
              /\ rows'[g].state = rows[g].state
              /\ rows'[g].former = rows[g].former /\ rows'[g].drainOuter = rows[g].drainOuter
<1>1. /\ TypeOK /\ ConfirmedRevisionsExist
      /\ reply[h].seen \in Nat /\ reply[h].acks \in [Name -> Nat]
  BY DEF WaveInv, Registry, IInv, PanelAnswers, Asked
<1> DEFINE sent == {<<n, reply[h].acks[n]>> : n \in Name}
<1>2. CASE UNCHANGED vars
  BY <1>2 DEF vars
<1>3. ASSUME NEW i \in DOMAIN rows, RecordSeen(i, reply[h].seen, sent)
      PROVE  /\ DOMAIN rows' = DOMAIN rows
             /\ \A g \in DOMAIN rows :
                  /\ rows'[g].state = rows[g].state
                  /\ rows'[g].former = rows[g].former
                  /\ rows'[g].drainOuter = rows[g].drainOuter
  <2> DEFINE all == {<<rows[i].name, reply[h].seen>>}
                      \cup {k \in sent : \E g \in Outward(rows, i) : rows[g].name = k[1]}
  <2>1. rows' = Acknowledge(all)
    BY <1>3 DEF RecordSeen
  <2>2. rows[i].name \in Name
    BY <1>1 DEF TypeOK, Row
  <2>3. all \in SUBSET (Name \X Nat)
    BY <1>1, <2>2
  <2> HIDE DEF all
  <2>4. DOMAIN rows' = DOMAIN rows
    BY <2>1 DEF Acknowledge
  <2>5. ASSUME NEW g \in DOMAIN rows
        PROVE  /\ rows'[g].state = rows[g].state
               /\ rows'[g].former = rows[g].former /\ rows'[g].drainOuter = rows[g].drainOuter
    <3>1. PICK r \in Nat : rows'[g] = [rows[g] EXCEPT !.lastRevision = r]
      BY <1>1, <2>1, <2>3, AcknowledgeRows
    <3>2. rows[g] \in Row
      BY <1>1 DEF TypeOK
    <3>3. QED
      BY <3>1, <3>2 DEF Row
  <2>6. QED
    BY <2>4, <2>5
<1>4. QED
  BY <1>2, <1>3 DEF PanelAnswers

\* ... and no other step does but the one that begins it.
LEMMA AwaitedStep ==
  ASSUME WaveInv, NEW f, Named(f), AwaitedByName(f), [WaveNext]_waveVars
  PROVE  AwaitedByName(f)'
<1>1. IInv
  BY DEF WaveInv, Registry
<1>2. ASSUME Books
      PROVE  AwaitedByName(f)'
  BY <1>2 DEF Books, DeparturesStay, AwaitedByName, Named
<1>3. ASSUME NEW h \in HopId, PanelAnswers(h)
      PROVE  AwaitedByName(f)'
  BY <1>3, HeardDepartures DEF AwaitedByName, Rows
<1>4. CASE UNCHANGED vars
  BY <1>1, <1>2, <1>4, BooksStep
<1>5. CASE Panels
  BY <1>1, <1>2, <1>5, BooksStep DEF Panels
<1>6. CASE Joins
  <2>1. \E h \in HopId, a \in Addr : Join(h, a)
    BY <1>6 DEF Joins, JoinPage, Rejoin, JoinLost
  <2>2. QED
    BY <1>1, <1>2, <2>1, BooksStep
<1>7. CASE Polls
  BY <1>3, <1>4, <1>7 DEF Polls, PollPanel, PollBox, Receive, Lose
<1>8. CASE Processes
  BY <1>4, <1>8 DEF Processes, Stop, Start
<1>9. QED
  BY <1>4, <1>5, <1>6, <1>7, <1>8 DEF WaveNext, waveVars

\* A row that goes as it is struck off the sweep's list went by the sweep.
LEMMA SweptAway ==
  ASSUME TypeOK, [WaveNext]_waveVars,
         NEW h \in DOMAIN rows \ DOMAIN rows', h \in sweep \ sweep'
  PROVE  FinishDraining(h)
<1>1. rows' # rows /\ ~(sweep \subseteq sweep')
  OBVIOUS
<1>2. ASSUME NEW T, sweep' = StartSweep(T)
      PROVE  FALSE
  BY <1>1, <1>2 DEF StartSweep
<1>3. ~(UNCHANGED sweep) /\ ~(UNCHANGED rows)
  BY <1>1
<1>4. ~(UNCHANGED vars)
  BY <1>3 DEF vars
<1>5. ~Owner
  BY <1>3 DEF Owner, Add, Update, DeleteNow, StartDraining, SetActive, ClearActive,
              ReissueToken, PortsChanged
<1>6. CASE Clock
  <2>1. ~SweepTick
    BY <1>2 DEF SweepTick
  <2>2. \A g \in HopId : ~DrainDeadline(g) /\ ~TokenExpires(g)
    BY <1>3 DEF DrainDeadline, TokenExpires
  <2>3. ~PanelRestart
    BY <1>3 DEF PanelRestart
  <2>4. SweepStep
    BY <1>6, <2>1, <2>2, <2>3 DEF Clock
  <2>5. QED
    BY <1>3, <2>4 DEF SweepStep
<1>7. \A g \in HopId : ~PanelAnswers(g)
  BY <1>2, <1>4 DEF PanelAnswers, RecordSeen
<1>8. ~Polls
  BY <1>4, <1>7 DEF Polls, PollPanel, PollBox, Receive, Lose
<1>9. ~Joins
  <2>1. \A g \in HopId, a \in Addr : ~Join(g, a)
    BY <1>3 DEF Join
  <2>2. QED
    BY <2>1 DEF Joins, JoinPage, Rejoin, JoinLost
<1>10. ~Processes
  BY <1>4 DEF Processes, Stop, Start
<1>11. QED
  BY <1>4, <1>5, <1>6, <1>8, <1>9, <1>10 DEF WaveNext, Panels, waveVars

\* What the sweep may count on when nobody is waited for.
NobodyBehind ==
  \A h \in Rows(rows, {"draining"}) \ DOMAIN rows' :
    h \in sweep \ sweep' /\ ~rows[h].due =>
      \A g \in rows[h].former \cap DOMAIN rows' : doc[g] = NoDoc \/ doc[g].nextHop # h

LEMMA NobodyBehindStep ==
  ASSUME WaveInv, FlowInv, NEW f, Named(f), AckInv(f), AwaitedByName(f),
         RelayLeavesDeparting, [WaveNext]_waveVars
  PROVE  NobodyBehind
<1> SUFFICES ASSUME NEW h \in Rows(rows, {"draining"}), h \notin DOMAIN rows',
                    h \in sweep, h \notin sweep', ~rows[h].due,
                    NEW g \in rows[h].former, g \in DOMAIN rows', doc[g] # NoDoc
             PROVE  doc[g].nextHop # h
  BY DEF NobodyBehind
<1>1. TypeOK /\ IsTable(rows)
  BY RowsTable DEF WaveInv, Registry, IInv
<1>2. /\ h \in DOMAIN rows /\ h \in HopId
      /\ rows[h].drainRevision \in Nat
  BY <1>1 DEF Rows, IsTable, Row
<1>3. FinishDraining(h)
  BY <1>1, <1>2, SweptAway
<1>4. Waiting(rows, h) = {}
  BY <1>3 DEF FinishDraining, Finished
<1>5. g \in DOMAIN rows /\ g # h /\ g \in HopId
  BY <1>1, <1>2, <1>3, FinishRows DEF IsTable
<1>6. rows[g].name = f[g] /\ f[g] \in rows[h].drainOuter
  BY <1>5 DEF Named, AwaitedByName
<1>7. ~(rows[g].lastRevision < rows[h].drainRevision)
  BY <1>4, <1>5, <1>6 DEF Waiting
<1>8. up[g]
  BY <1>5 DEF FlowInv, Box, Boxed
<1>9. rows[g].lastRevision <= Revision(doc[g])
  BY <1>5, <1>8 DEF AckInv, Cur, HopId, Panel
<1>10. rows[g].lastRevision \in Nat /\ Revision(doc[g]) \in Nat
  BY <1>1, <1>5, RevisionTypes DEF IsTable, Row
<1>11. Revision(doc[g]) >= rows[h].drainRevision
  BY <1>2, <1>7, <1>9, <1>10
<1>12. QED
  BY <1>5, <1>11 DEF RelayLeavesDeparting

\* A departure that ends before its deadline leaves no former neighbour relaying to
\* the box that left: under the hypotheses of AcksHonest nobody can be taken to have
\* moved who has not.
THEOREM DepartureLeaves ==
  ASSUME Forgetful = {}, NEW NameOf \in [HopId -> Name],
         \A g, h \in HopId : NameOf[g] = NameOf[h] => g = h
  PROVE  WaveSpec /\ [][JoinsMeetNoAnswer]_waveVars /\ []Named(NameOf) => DepartureLeavesNobody
<1>1. (/\ WaveInv /\ WaveInv' /\ FlowInv /\ Named(NameOf) /\ Named(NameOf)' /\ AckInv(NameOf)
       /\ AwaitedByName(NameOf) /\ RelayLeavesDeparting
       /\ [WaveNext]_waveVars /\ [JoinsMeetNoAnswer]_waveVars)
        => /\ FlowInv' /\ AckInv(NameOf)' /\ AwaitedByName(NameOf)'
           /\ [NobodyBehind]_waveVars
  <2> SUFFICES ASSUME WaveInv, WaveInv', FlowInv, Named(NameOf), Named(NameOf)', AckInv(NameOf),
                      AwaitedByName(NameOf), RelayLeavesDeparting,
                      [WaveNext]_waveVars, [JoinsMeetNoAnswer]_waveVars
               PROVE  /\ FlowInv' /\ AckInv(NameOf)' /\ AwaitedByName(NameOf)'
                      /\ [NobodyBehind]_waveVars
    OBVIOUS
  <2>1. JoinsMeetNoAnswer
    <3>1. CASE UNCHANGED waveVars
      <4>1. rows' = rows
        BY <3>1 DEF waveVars, vars
      <4>2. QED
        BY <4>1 DEF JoinsMeetNoAnswer
    <3>2. QED
      BY <3>1
  <2>2. FlowInv' /\ Forward
    BY <2>1, FlowStep
  <2>3. AckInv(NameOf)'
    BY <2>2, AckStep
  <2>4. AwaitedByName(NameOf)'
    BY AwaitedStep
  <2>5. NobodyBehind
    BY NobodyBehindStep
  <2>6. QED
    BY <2>2, <2>3, <2>4, <2>5
<1>2. DepartureLeavesNobody <=> [][NobodyBehind]_waveVars
  BY DEF DepartureLeavesNobody, NobodyBehind
<1>3. WaveInit => AckInv(NameOf) /\ AwaitedByName(NameOf)
  <2>1. WaveInit => AwaitedByName(NameOf)
    BY DEF WaveInit, Init, AwaitedByName, Rows
  <2>2. QED
    BY <2>1, AckStart
<1>4. QED
  BY <1>1, <1>2, <1>3, FlowStart, DocumentsFit, RelaysLeave, PTL DEF WaveSpec

-----------------------------------------------------------------------------
(* What lies outward of whom, whatever the panel writes. *)

\* A sweep leaves inward of a row every live front that was inward of it: fronts
\* only close up, and what departs stays where it is.
LEMMA SweptOrder ==
  ASSUME NEW T, IsTable(T), Apart(T), NEW a \in LiveInners(T), NEW b \in DOMAIN T,
         T[a].role = T[b].role => T[a].position < T[b].position
  PROVE  Before(Reconcile(T), a, b)
<1> DEFINE U == Reconcile(T)
           rank(h) == Cardinality(LiveBefore(T, h))
<1>1. /\ a \in DOMAIN T /\ T[a].role = "inner" /\ T[a].state # "draining"
      /\ T[a].position \in Nat /\ T[b].position \in Nat /\ T[b].role \in {"inner", "edge"}
  BY LiveRows, OrderTypes
<1>2. U[a].role = "inner" /\ U[b].role = T[b].role
  BY <1>1, ReconcileTable DEF SameHop, SameBox
<1>3. U[a].position = rank(a) /\ rank(a) \in Nat /\ rank(a) <= T[a].position
  BY <1>1, ReconciledPlaces, RankBound
<1>4. CASE T[b].role = "edge"
  BY <1>2, <1>4 DEF Before
<1>5. CASE T[b].role = "inner"
  <2>1. T[a].position < T[b].position
    BY <1>1, <1>5
  <2>2. CASE T[b].state = "draining"
    <3>1. U[b].position = T[b].position
      BY <2>2, ReconciledPlaces
    <3>2. rank(a) < T[b].position
      <4> HIDE DEF rank
      <4>1. QED
        BY <1>1, <1>3, <2>1
    <3>3. U[a].position < U[b].position
      BY <1>3, <3>1, <3>2
    <3>4. QED
      BY <1>2, <1>5, <3>3 DEF Before
  <2>3. CASE T[b].state # "draining"
    <3>1. b \in LiveInners(T)
      BY <1>5, <2>3 DEF LiveInners, Inners, Rows
    <3>2. PathBefore(T, a, b)
      BY <2>1 DEF PathBefore
    <3>3. rank(a) < rank(b)
      BY <3>1, <3>2, Ranks
    <3>4. U[b].position = rank(b)
      BY <3>1, ReconciledPlaces
    <3>5. QED
      BY <1>2, <1>3, <1>5, <3>3, <3>4 DEF Before
  <2>4. QED
    BY <2>2, <2>3
<1>6. QED
  BY <1>1, <1>4, <1>5

\* A live front stands before a row of its own kind by its position alone.
LEMMA BeforePlace ==
  ASSUME NEW T, IsTable(T), Apart(T), NEW a \in LiveInners(T), NEW b \in DOMAIN T,
         Before(T, a, b), T[a].role = T[b].role
  PROVE  T[a].position < T[b].position
<1>1. /\ a \in DOMAIN T /\ T[a].role = "inner" /\ T[a].state # "draining"
      /\ T[a].position \in Nat /\ T[b].position \in Nat
  BY LiveRows, OrderTypes
<1>2. ASSUME T[a].position = T[b].position
      PROVE  FALSE
  <2>1. T[b].state # "draining" /\ a < b
    BY <1>1, <1>2 DEF Before
  <2>2. b \in LiveInners(T)
    BY <1>1, <2>1 DEF LiveInners, Inners, Rows
  <2>3. a = b
    BY <1>2, <2>2 DEF Apart
  <2>4. a \in Nat
    BY LiveRows
  <2>5. QED
    BY <2>1, <2>3, <2>4
<1>3. QED
  BY <1>1, <1>2 DEF Before

\* What is outward of a live front stays outward of it.
OrderStays ==
  \A a, b \in DOMAIN rows \cap DOMAIN rows' :
    a \in LiveInners(rows') /\ Before(rows, a, b) => Before(rows', a, b)

LEMMA SweptStays ==
  ASSUME IsTable(rows), Apart(rows), NEW T, IsTable(T), Apart(T), rows' = Reconcile(T),
         DOMAIN T \subseteq DOMAIN rows,
         \A g \in DOMAIN T :
           /\ T[g].role = rows[g].role /\ T[g].position = rows[g].position
           /\ rows[g].state = "draining" => T[g].state = "draining"
  PROVE  OrderStays
<1> SUFFICES ASSUME NEW a \in DOMAIN rows \cap DOMAIN rows', NEW b \in DOMAIN rows \cap DOMAIN rows',
                    a \in LiveInners(rows'), Before(rows, a, b)
             PROVE  Before(rows', a, b)
  BY DEF OrderStays
<1>1. a \in LiveInners(T) /\ b \in DOMAIN T
  BY ReconcileLive, ReconcileTable
<1>2. a \in LiveInners(rows)
  BY <1>1 DEF LiveInners, Inners, Rows
<1>3. T[a].role = T[b].role => T[a].position < T[b].position
  BY <1>1, <1>2, BeforePlace DEF LiveInners, Inners
<1>4. QED
  BY <1>1, <1>3, SweptOrder

\* Who has not left does not come back as another kind of row: a role stays, a
\* departure is for good, and only who has a secret is invited again.
StatesMove ==
  \A g \in DOMAIN rows' :
    IF g \in DOMAIN rows
      THEN /\ rows'[g].role = rows[g].role
           /\ rows[g].state = "draining" => rows'[g].state = "draining"
           /\ rows'[g].state = "pending" => rows[g].state \in {"pending", "joined"}
           /\ rows'[g].state = "joined" => rows[g].state = "joined" \/ rows'[g].secret # 0
           /\ rows'[g].secret >= rows[g].secret
      ELSE g > created /\ rows'[g].state # "joined"

\* No invitation is issued again for a front that was imported and never joined.
NoImportReopened == \A h \in HopId : ReissueToken(h) => rows[h].state # "legacy"

LEMMA StatesKept ==
  ASSUME TypeOK, DOMAIN rows' \subseteq DOMAIN rows,
         \A g \in DOMAIN rows' :
           /\ rows'[g].role = rows[g].role /\ rows'[g].secret = rows[g].secret
           /\ \/ rows'[g].state = rows[g].state
              \/ rows[g].state # "draining" /\ rows'[g].state = "draining"
              \/ rows'[g].state = "pending" /\ rows[g].state \in {"pending", "joined"}
  PROVE  StatesMove
<1>1. \A g \in DOMAIN rows : rows[g].secret \in Nat
  BY DEF TypeOK, Row
<1>2. QED
  BY <1>1 DEF StatesMove

LEMMA PlaceStays ==
  ASSUME DOMAIN rows' \subseteq DOMAIN rows,
         \A g \in DOMAIN rows' :
           /\ rows'[g].role = rows[g].role /\ rows'[g].position = rows[g].position
           /\ rows'[g].state = "draining" <=> rows[g].state = "draining"
  PROVE  OrderStays
<1>1. RolesKept
  BY DEF RolesKept
<1>2. OrderKept
  BY <1>1, PlacesKeepOrder
<1>3. QED
  BY <1>2 DEF OrderKept, OrderStays

LEMMA OutwardStep ==
  ASSUME IInv, PathInv, NoImportReopened,
         \/ Owner \/ Clock \/ UNCHANGED vars \/ Heard
         \/ \E h \in HopId, a \in Addr : Join(h, a)
  PROVE  StatesMove /\ OrderStays
<1>1. /\ TypeOK /\ ConfirmedRevisionsExist /\ NextHopsAreLive /\ IsTable(rows)
      /\ Apart(rows) /\ IsPath(rows) /\ LeavesInward(rows)
      /\ created \in Nat /\ DOMAIN rows \subseteq 1..created
      /\ \A g \in DOMAIN rows : rows[g] \in Row /\ rows[g].secret \in Nat /\ rows[g].state \in State
  BY RowsTable DEF IInv, PathInv, TypeOK, Row
<1> USE DEF SameHop, SameBox
<1>2. ASSUME NEW n \in Name, NEW r \in Role, NEW a \in Addr, NEW t \in Target \cup {NoTarget},
             NEW p \in 0..MaxHops, Add(n, r, a, t, p)
      PROVE  StatesMove /\ OrderStays
  <2>1. /\ DOMAIN rows' = DOMAIN rows \cup {created + 1} /\ created + 1 \notin DOMAIN rows
        /\ \A g \in DOMAIN rows : SameHop(rows'[g], rows[g])
        /\ rows'[created + 1].state = "pending"
    BY <1>1, <1>2, AddRows
  <2>2. StatesMove
    BY <1>1, <2>1 DEF StatesMove
  <2>3. OrderKept
    BY <1>2, AddOrder
  <2>4. QED
    BY <2>2, <2>3 DEF OrderKept, OrderStays
<1>3. ASSUME SamePlace, \A g \in DOMAIN rows : rows'[g].state = rows[g].state
      PROVE  StatesMove /\ OrderStays
  BY <1>1, <1>3, StatesKept, PlaceStays DEF SamePlace
<1>4. ASSUME NEW h \in HopId, NEW n \in Name, NEW a \in Addr,
             NEW t \in Target \cup {NoTarget}, Update(h, n, a, t)
      PROVE  StatesMove /\ OrderStays
  BY <1>1, <1>3, <1>4, UpdateRows DEF SamePlace
<1>5. ASSUME NEW h \in HopId, SetActive(h)
      PROVE  StatesMove /\ OrderStays
  BY <1>1, <1>3, <1>5, SetActiveRows
<1>6. CASE ClearActive
  BY <1>1, <1>3, <1>6, ClearActiveRows
<1>7. ASSUME NEW h \in HopId, ReissueToken(h) \/ TokenExpires(h) \/ DrainDeadline(h)
      PROVE  StatesMove /\ OrderStays
  <2>1. /\ SamePlace
        /\ \A g \in DOMAIN rows \ {h} : rows'[g] = rows[g]
        /\ h \in DOMAIN rows
        /\ rows'[h].state = IF ReissueToken(h) THEN "pending" ELSE rows[h].state
        /\ ReissueToken(h) => rows[h].state # "draining" /\ rows[h].state # "legacy"
    BY <1>1, <1>7, OneFieldRows DEF NoImportReopened
  <2>2. \/ rows'[h].state = rows[h].state
        \/ rows'[h].state = "pending" /\ rows[h].state \in {"pending", "joined"}
    BY <1>1, <2>1 DEF State
  <2>3. QED
    BY <1>1, <2>1, <2>2, StatesKept, PlaceStays DEF SamePlace
<1>8. ASSUME NEW h \in HopId, NEW force \in BOOLEAN, NEW skipDrain \in BOOLEAN,
             DeleteNow(h, force, skipDrain)
      PROVE  StatesMove /\ OrderStays
  <2>1. h \in DOMAIN rows /\ rows' = Reconcile(Rehung(h))
    BY <1>8 DEF DeleteNow, Rehung
  <2>2. StatesMove
    BY <1>1, <1>8, DeleteRows, StatesKept
  <2>3. IsTable(Rehung(h)) /\ Apart(Rehung(h))
    BY <1>1, <2>1, RehungShape
  <2>4. /\ DOMAIN Rehung(h) = DOMAIN rows \ {h}
        /\ \A g \in DOMAIN rows \ {h} :
             Rehung(h)[g] \in {rows[g], [rows[g] EXCEPT !.next = rows[h].next]}
    BY DEF Rehung, Rechain, Without
  <2>5. \A g \in DOMAIN Rehung(h) :
          /\ Rehung(h)[g].role = rows[g].role /\ Rehung(h)[g].position = rows[g].position
          /\ Rehung(h)[g].state = rows[g].state
    BY <1>1, <2>4 DEF Row
  <2>6. OrderStays
    BY <1>1, <2>1, <2>3, <2>4, <2>5, SweptStays
  <2>7. QED
    BY <2>2, <2>6
<1>9. ASSUME NEW h \in HopId, NEW force \in BOOLEAN, StartDraining(h, force)
      PROVE  StatesMove /\ OrderStays
  <2> DEFINE R == Reconcile(Handed(h))
  <2>1. /\ h \in DOMAIN rows /\ rows[h].state # "draining" /\ LiveOuter(rows, h) # {}
        /\ rows' = [R EXCEPT ![h].drainRevision = revision + 1,
                             ![h].due = FALSE,
                             ![h].drainOuter = {rows[g].name : g \in LiveOuter(rows, h)},
                             ![h].former = LiveOuter(rows, h)]
    BY <1>9 DEF StartDraining, NotDraining, Handed, Departing
  <2>2. StatesMove
    <3>1. /\ DOMAIN rows' = DOMAIN rows
          /\ \A g \in DOMAIN rows \ {h} : SameHop(rows'[g], rows[g])
          /\ SameBox(rows'[h], rows[h]) /\ rows'[h].state = "draining"
      BY <1>1, <1>9, StartDrainingRows
    <3>2. QED
      BY <1>1, <2>1, <3>1, StatesKept
  <2>3. IsTable(Handed(h)) /\ Apart(Handed(h)) /\ LeavesInward(Handed(h))
    BY <1>1, <2>1, HandedShape
  <2>4. /\ DOMAIN Handed(h) = DOMAIN rows
        /\ \A g \in DOMAIN rows :
             Handed(h)[g] \in {Departing(h)[g], [Departing(h)[g] EXCEPT !.next = rows[h].next]}
        /\ \A g \in DOMAIN rows :
             Departing(h)[g] = IF g = h THEN [rows[g] EXCEPT !.state = "draining"] ELSE rows[g]
    BY DEF Handed, Rechain, Departing
  <2>5. \A g \in DOMAIN rows :
          /\ Departing(h)[g].role = rows[g].role /\ Departing(h)[g].position = rows[g].position
          /\ Departing(h)[g].state = IF g = h THEN "draining" ELSE rows[g].state
          /\ Departing(h)[g] \in Row
    <3>1. \A g \in DOMAIN rows : [rows[g] EXCEPT !.state = "draining"] \in Row
      BY <1>1 DEF Row, State
    <3>2. QED
      BY <1>1, <2>4, <3>1 DEF Row
  <2>6. \A g \in DOMAIN rows :
          /\ Handed(h)[g].role = rows[g].role /\ Handed(h)[g].position = rows[g].position
          /\ Handed(h)[g].state = IF g = h THEN "draining" ELSE rows[g].state
    BY <2>4, <2>5 DEF Row
  <2>7. ASSUME NEW a \in DOMAIN rows, NEW b \in DOMAIN rows,
               a \in LiveInners(Handed(h)), Before(rows, a, b)
        PROVE  Before(R, a, b)
    <3>1. a \in LiveInners(rows)
      BY <2>4, <2>6, <2>7 DEF LiveInners, Inners, Rows
    <3>2. Handed(h)[a].role = Handed(h)[b].role => Handed(h)[a].position < Handed(h)[b].position
      BY <1>1, <2>6, <2>7, <3>1, BeforePlace
    <3>3. QED
      BY <2>3, <2>4, <2>7, <3>2, SweptOrder
  <2>8. /\ DOMAIN R = DOMAIN rows /\ LiveInners(R) = LiveInners(Handed(h))
        /\ R[h].state = "draining" /\ \A g \in DOMAIN rows : R[g] \in Row
    <3> DEFINE T == Handed(h)
    <3>1. IsTable(T) /\ DOMAIN T = DOMAIN rows
      BY <2>3, <2>4
    <3> HIDE DEF T
    <3>2. DOMAIN Reconcile(T) = DOMAIN rows /\ LiveInners(Reconcile(T)) = LiveInners(T)
      BY <3>1, ReconcileTable, ReconcileLive
    <3>3. IsTable(Reconcile(T))
      BY <3>1, ReconcileTable
    <3>4. Reconcile(T)[h].state = T[h].state
      <4>1. h \in DOMAIN T
        BY <2>1, <3>1
      <4>2. SameHop(Reconcile(T)[h], T[h])
        BY <3>1, <4>1, ReconcileTable
      <4>3. QED
        BY <4>2
    <3>5. QED
      BY <2>1, <2>6, <3>2, <3>3, <3>4 DEF IsTable, T
  <2> HIDE DEF R
  <2>9. /\ DOMAIN rows' = DOMAIN rows
        /\ \A g \in DOMAIN rows : SameSpot(R[g], rows'[g])
    BY <2>1, <2>8 DEF Row, SameSpot
  <2>10. LiveInners(rows') = LiveInners(R)
    BY <2>8, <2>9, SameShape
  <2>11. \A a, b \in DOMAIN rows : Before(R, a, b) <=> Before(rows', a, b)
    BY <2>9, SameOrder DEF SameSpot
  <2>12. OrderStays
    BY <2>7, <2>8, <2>9, <2>10, <2>11 DEF OrderStays
  <2>13. QED
    BY <2>2, <2>12
<1>10. ASSUME NEW h \in HopId, NEW a \in Addr, Join(h, a)
       PROVE  StatesMove /\ OrderStays
  <2>1. h \in DOMAIN rows /\ rows[h].state = "pending" /\ rows' = Reconcile(Admitted(h, a))
    BY <1>10 DEF Join, Admitted
  <2>2. /\ IsTable(Admitted(h, a)) /\ DOMAIN Admitted(h, a) = DOMAIN rows
        /\ \A g \in DOMAIN rows : SameSpot(rows[g], Admitted(h, a)[g])
    BY <1>1, <2>1, AdmittedRows
  <2>3. Apart(Admitted(h, a))
    BY <1>1, <2>2, SameShape
  <2>4. OrderStays
    BY <1>1, <2>1, <2>2, <2>3, SweptStays DEF SameSpot
  <2>5. /\ DOMAIN rows' = DOMAIN rows
        /\ \A g \in DOMAIN rows \ {h} : SameHop(rows'[g], rows[g])
        /\ rows'[h].state = "joined" /\ rows'[h].secret = rows[h].secret + 1
        /\ rows'[h].role = rows[h].role
    BY <1>1, <1>10, JoinRows
  <2>6. StatesMove
    BY <1>1, <2>1, <2>5 DEF StatesMove
  <2>7. QED
    BY <2>4, <2>6
<1>11. ASSUME NEW h \in HopId, NEW seen \in Nat, NEW acks \in SUBSET (Name \X Nat),
              RecordSeen(h, seen, acks)
       PROVE  StatesMove /\ OrderStays
  <2>1. /\ DOMAIN rows' = DOMAIN rows
        /\ \A g \in DOMAIN rows :
             /\ Entry(rows', g) = Entry(rows, g)
             /\ rows'[g].position = rows[g].position /\ rows'[g].role = rows[g].role
             /\ rows'[g].state = rows[g].state
    BY <1>1, <1>11, RecordSeenRows
  <2>2. \A g \in DOMAIN rows : rows'[g].secret = rows[g].secret
    BY <2>1 DEF Entry
  <2>3. QED
    BY <1>1, <2>1, <2>2, StatesKept, PlaceStays
<1>12. ASSUME NEW h \in HopId, FinishDraining(h)
       PROVE  StatesMove /\ OrderStays
  <2>1. /\ DOMAIN rows' = DOMAIN rows \ {h}
        /\ \A g \in DOMAIN rows' : SameHop(rows'[g], rows[g])
    BY <1>1, <1>12, FinishRows
  <2>2. \A g \in DOMAIN rows' : rows'[g].position = rows[g].position
    BY <1>12, FinishPlaces
  <2>3. QED
    BY <1>1, <2>1, <2>2, StatesKept, PlaceStays
<1>13. ASSUME rows' = rows
       PROVE  StatesMove /\ OrderStays
  BY <1>1, <1>13, StatesKept, PlaceStays
<1>14. CASE PanelRestart
  <2>1. ASSUME DOMAIN rows = {}, DOMAIN rows' = {created + 1},
               rows'[created + 1].state = "legacy"
        PROVE  StatesMove /\ OrderStays
    BY <1>1, <2>1 DEF StatesMove, OrderStays
  <2>2. QED
    BY <1>1, <1>13, <1>14, <2>1, RestartRows
<1>15. CASE SweepStep
  BY <1>1, <1>12, <1>13, <1>15 DEF SweepStep, TypeOK
<1>16. CASE SweepTick \/ UNCHANGED vars
  BY <1>13, <1>16 DEF SweepTick, vars
<1>17. CASE \E p \in Ports : PortsChanged(p)
  BY <1>13, <1>17 DEF PortsChanged
<1>18. QED
  BY <1>2, <1>4, <1>5, <1>6, <1>7, <1>8, <1>9, <1>10, <1>11, <1>14, <1>15, <1>16, <1>17
     DEF Owner, Clock, Heard

-----------------------------------------------------------------------------
(* Whom a document may list. *)

\* Entries of one name speak of one row, entries know the roles of the rows they
\* speak of, and stand in the order of the chain as far as live fronts go.
Tells(T, d) ==
  /\ \A e, i \in Range(d.hops) : e.name = i.name => e.secret[1] = i.secret[1]
  /\ \A e \in Range(d.hops) :
       e.secret[1] \in DOMAIN T => e.role = T[e.secret[1]].role /\ Visible(T, e.secret[1])
  /\ \A i, j \in DOMAIN d.hops :
       LET a == d.hops[i].secret[1]
           b == d.hops[j].secret[1]
       IN  i < j /\ a \in LiveInners(T) /\ b \in DOMAIN T => Before(T, a, b)

\* It looks outward from box h, unless h is leaving or gone.
Looks(T, h, d) ==
  h \in DOMAIN T /\ T[h].state # "draining" =>
    \A e \in Range(d.hops) : e.secret[1] \in DOMAIN T => e.secret[1] \in {h} \cup Outward(T, h)

\* What box h may hold.
Clear(T, c, h, d) ==
  /\ h \in 1..c /\ \A e \in Range(d.hops) : e.secret[1] \in 1..c
  /\ Tells(T, d)
  /\ Looks(T, h, d)

\* Who has joined has a secret.
Registered == \A h \in DOMAIN rows : rows[h].state = "joined" => rows[h].secret # 0

LEMMA RegisteredStep ==
  ASSUME TypeOK, TypeOK', Registered, StatesMove
  PROVE  Registered'
<1> SUFFICES ASSUME NEW h \in DOMAIN rows', rows'[h].state = "joined"
             PROVE  rows'[h].secret # 0
  BY DEF Registered
<1>1. h \in DOMAIN rows
  BY DEF StatesMove
<1>2. rows[h].secret \in Nat /\ rows'[h].secret \in Nat /\ rows'[h].secret >= rows[h].secret
  BY <1>1 DEF TypeOK, Row, StatesMove
<1>3. rows[h].state = "joined" => rows[h].secret # 0
  BY <1>1 DEF Registered
<1>4. rows[h].state = "joined" \/ rows'[h].secret # 0
  BY <1>1 DEF StatesMove
<1>5. QED
  BY <1>2, <1>3, <1>4

LEMMA VisibleStays ==
  ASSUME TypeOK, TypeOK', Registered, StatesMove, NEW g \in DOMAIN rows, g \in DOMAIN rows',
         Visible(rows, g)
  PROVE  Visible(rows', g)
<1>1. rows[g].secret \in Nat /\ rows'[g].secret \in Nat /\ rows'[g].secret >= rows[g].secret
  BY DEF TypeOK, Row, StatesMove
<1>2. rows'[g].state = "pending" => rows[g].state \in {"pending", "joined"}
  BY DEF StatesMove
<1>3. CASE rows'[g].state = "pending"
  <2>1. rows[g].secret # 0
    BY <1>2, <1>3 DEF Visible, Registered
  <2>2. QED
    BY <1>1, <2>1 DEF Visible
<1>4. QED
  BY <1>3 DEF Visible

\* A document goes on looking outward whatever the panel writes.
LEMMA ClearKept ==
  ASSUME TypeOK, TypeOK', Registered, StatesMove, OrderStays, created' >= created,
         NEW h \in HopId, NEW d \in Doc, Clear(rows, created, h, d)
  PROVE  Clear(rows', created', h, d)
<1>1. /\ created \in Nat /\ created' \in Nat /\ created' >= created
      /\ DOMAIN d.hops = 1..Len(d.hops)
  BY DEF TypeOK, Doc
<1>2. ASSUME NEW g \in 1..created, g \in DOMAIN rows'
      PROVE  /\ g \in DOMAIN rows /\ rows'[g].role = rows[g].role
             /\ rows[g].state = "draining" => rows'[g].state = "draining"
  BY <1>1, <1>2 DEF StatesMove
<1>3. ASSUME NEW g \in 1..created, g \in LiveInners(rows')
      PROVE  g \in LiveInners(rows)
  BY <1>2, <1>3 DEF LiveInners, Inners, Rows
<1>4. h \in 1..created' /\ \A e \in Range(d.hops) : e.secret[1] \in 1..created /\ e.secret[1] \in 1..created'
  BY <1>1 DEF Clear
<1>5. ASSUME NEW e \in Range(d.hops)
      PROVE  e.secret[1] \in DOMAIN rows' =>
               e.role = rows'[e.secret[1]].role /\ Visible(rows', e.secret[1])
  BY <1>2, <1>4, VisibleStays DEF Clear, Tells
<1>6. ASSUME NEW i \in DOMAIN d.hops, NEW j \in DOMAIN d.hops, i < j,
             d.hops[i].secret[1] \in LiveInners(rows'), d.hops[j].secret[1] \in DOMAIN rows'
      PROVE  Before(rows', d.hops[i].secret[1], d.hops[j].secret[1])
  <2> DEFINE a == d.hops[i].secret[1]
             b == d.hops[j].secret[1]
  <2>1. a \in 1..created /\ b \in 1..created
    BY <1>4 DEF Range
  <2>2. a \in LiveInners(rows) /\ b \in DOMAIN rows /\ a \in DOMAIN rows /\ a \in DOMAIN rows'
    BY <1>2, <1>3, <1>6, <2>1 DEF LiveInners, Inners
  <2>3. Before(rows, a, b)
    BY <1>6, <2>2 DEF Clear, Tells
  <2> HIDE DEF a, b
  <2>4. QED
    BY <1>6, <2>2, <2>3 DEF OrderStays, a, b
<1>7. Tells(rows', d)
  BY <1>5, <1>6 DEF Clear, Tells
<1>8. ASSUME h \in DOMAIN rows', rows'[h].state # "draining",
             NEW e \in Range(d.hops), e.secret[1] \in DOMAIN rows', e.secret[1] # h
      PROVE  e.secret[1] \in Outward(rows', h)
  <2> DEFINE b == e.secret[1]
  <2>1. h \in DOMAIN rows /\ rows[h].state # "draining" /\ rows'[h].role = rows[h].role
    BY <1>2, <1>8 DEF Clear
  <2>2. b \in DOMAIN rows
    BY <1>2, <1>4, <1>8
  <2>3. b \in Outward(rows, h)
    BY <1>8, <2>1, <2>2 DEF Clear, Looks
  <2>4. rows[h].role # "edge" /\ Visible(rows, b) /\ Before(rows, h, b)
    BY <2>3 DEF Outward
  <2>5. rows[h].role \in Role
    BY <2>1 DEF TypeOK, Row
  <2>6. h \in LiveInners(rows')
    BY <1>8, <2>1, <2>4, <2>5 DEF LiveInners, Inners, Rows, Role
  <2>7. Visible(rows', b)
    BY <1>8, <2>2, <2>4, VisibleStays
  <2> HIDE DEF b
  <2>8. Before(rows', h, b)
    BY <1>8, <2>1, <2>2, <2>4, <2>6 DEF OrderStays, b
  <2>9. QED
    BY <1>8, <2>1, <2>4, <2>7, <2>8 DEF Outward, b
<1>9. Looks(rows', h, d)
  BY <1>8 DEF Looks
<1>10. QED
  BY <1>4, <1>7, <1>9 DEF Clear

\* What the panel builds for a hop lists it and who is outward of it, in order.
LEMMA PanelDocumentClear ==
  ASSUME NEW T, Walkable(T), NEW r \in Nat, NEW h \in DOMAIN T, Visible(T, h),
         NEW c \in Nat, DOMAIN T \subseteq 1..c,
         \A g, i \in DOMAIN T : T[g].name = T[i].name => g = i
  PROVE  Clear(T, c, h, PanelDocument(T, r, h))
<1> DEFINE S == {h} \cup Outward(T, h)
           n == Cardinality(S)
           rank(g) == Cardinality(UpTo(T, S, g))
           at(k) == CHOOSE g \in S : rank(g) = k
           d == PanelDocument(T, r, h)
<1>1. IsTable(T)
  BY DEF Walkable
<1>2. S \in SUBSET DOMAIN T /\ \A g \in S : Visible(T, g)
  BY DEF Outward
<1>3. d.hops = [k \in 1..n |-> Wire(T, at(k))]
  BY DEF PanelDocument, Wire, UpTo
<1>4. n \in Nat /\ \A k \in 1..n : at(k) \in S /\ rank(at(k)) = k
  <2>1. n \in Nat /\ \A k \in 1..n : \E g \in S : rank(g) = k
    <3> HIDE DEF S
    <3>1. QED
      BY <1>1, <1>2, PlacesTaken
  <2> HIDE DEF S, rank, n
  <2>2. QED
    BY <2>1
<1>5. ASSUME NEW a \in S, NEW b \in S, Before(T, a, b)
      PROVE  rank(a) \in Nat /\ rank(b) \in Nat /\ rank(a) <= rank(b)
  <2> HIDE DEF S
  <2>1. a \in DOMAIN T /\ b \in DOMAIN T /\ S \subseteq DOMAIN T
    BY <1>2
  <2>2. UpTo(T, S, a) \subseteq UpTo(T, S, b)
    BY <1>1, <1>5, <2>1, BeforeTransitive DEF UpTo
  <2>3. UpTo(T, S, b) \in SUBSET DOMAIN T /\ UpTo(T, S, a) \in SUBSET DOMAIN T
    BY <2>1 DEF UpTo
  <2>4. IsFiniteSet(UpTo(T, S, a)) /\ IsFiniteSet(UpTo(T, S, b))
    BY <1>1, <2>3, RowsFinite
  <2>5. QED
    BY <2>2, <2>4, FS_CardinalityType, FS_Subset
<1> HIDE DEF S, rank, at, d
<1>6. ASSUME NEW i \in 1..n, NEW j \in 1..n, i < j
      PROVE  Before(T, at(i), at(j))
  <2>1. at(i) \in S /\ at(j) \in S /\ rank(at(i)) = i /\ rank(at(j)) = j
    BY <1>4
  <2>2. at(i) # at(j) /\ at(i) \in DOMAIN T /\ at(j) \in DOMAIN T
    BY <1>2, <1>6, <2>1
  <2>3. ~Before(T, at(j), at(i))
    BY <1>4, <1>5, <1>6, <2>1
  <2>4. QED
    BY <1>1, <2>2, <2>3, OrderTotal
<1> HIDE DEF n
<1>7. /\ DOMAIN d.hops = 1..n
      /\ \A k \in 1..n : /\ at(k) \in S /\ at(k) \in DOMAIN T /\ Visible(T, at(k))
                         /\ d.hops[k].name = T[at(k)].name /\ d.hops[k].role = T[at(k)].role
                         /\ d.hops[k].secret[1] = at(k)
  BY <1>2, <1>3, <1>4 DEF Wire
<1>8. ASSUME NEW e \in Range(d.hops)
      PROVE  /\ e.secret[1] \in S /\ e.secret[1] \in DOMAIN T /\ Visible(T, e.secret[1])
             /\ e.name = T[e.secret[1]].name /\ e.role = T[e.secret[1]].role
  BY <1>7 DEF Range
<1>9. Tells(T, d)
  BY <1>6, <1>7, <1>8 DEF Tells
<1>10. Looks(T, h, d)
  BY <1>8 DEF Looks, S
<1>11. QED
  BY <1>8, <1>9, <1>10 DEF Clear, d

\* What a box hands its outer neighbour starts at that neighbour's own entry, so it
\* looks outward from there.
LEMMA TruncateDocumentClear ==
  ASSUME NEW T, NEW c, NEW s \in HopId, NEW d \in Doc, Clear(T, c, s, d),
         NEW e \in Range(d.hops), NEW h, e.secret[1] = h
  PROVE  Clear(T, c, h, TruncateDocument(d, s, e))
<1> DEFINE t == TruncateDocument(d, s, e)
           from == {k \in DOMAIN d.hops : d.hops[k].name = e.name}
           m == CHOOSE k \in from : \A i \in from : k <= i
           suffix == IF from = {} THEN <<>> ELSE SubSeq(d.hops, m, Len(d.hops))
<1>1. /\ d.hops \in Seq(WireHop) /\ Len(d.hops) \in Nat /\ DOMAIN d.hops = 1..Len(d.hops)
      /\ \A k \in DOMAIN d.hops : d.hops[k] \in WireHop
  BY DEF Doc
<1>2. e \in WireHop /\ e.role \in {"inner", "edge"}
  BY <1>1 DEF Range, WireHop, Role
<1>3. t.hops = IF e.role = "edge" THEN <<e>> ELSE suffix
  BY DEF TruncateDocument
<1>4. /\ Range(t.hops) \subseteq Range(d.hops)
      /\ h \in 1..c /\ \A i \in Range(d.hops) : i.secret[1] \in 1..c
  BY TruncateDocumentIs DEF Clear
<1>6. CASE e.role = "edge"
  <2>1. t.hops = <<e>>
    BY <1>3, <1>6
  <2>2. DOMAIN t.hops = {1} /\ Range(t.hops) = {e}
    BY <2>1 DEF Range
  <2> HIDE DEF t
  <2>3. Tells(T, t)
    BY <2>2 DEF Clear, Tells
  <2>4. Looks(T, h, t)
    BY <2>2 DEF Looks
  <2>5. QED
    BY <1>4, <2>3, <2>4 DEF Clear, t
<1>7. CASE e.role # "edge"
  <2>1. from # {} /\ from \subseteq Nat
    BY <1>1 DEF Range
  <2>2. m \in from
    <3>1. \E k \in from : \A j \in from : ~(<<j, k>> \in OpToRel(<, Nat))
      <4> HIDE DEF from
      <4>1. QED
        BY <2>1, NatLessThanWellFounded, WFMin
    <3>2. PICK k \in from : \A j \in from : ~(j < k)
      <4> HIDE DEF from
      <4>1. QED
        BY <2>1, <3>1 DEF OpToRel
    <3>3. \A j \in from : k <= j
      BY <2>1, <3>2
    <3> HIDE DEF from
    <3>4. QED
      BY <3>3
  <2>3. t.hops = SubSeq(d.hops, m, Len(d.hops))
    BY <1>3, <1>7, <2>1
  <2>4. m \in 1..Len(d.hops) /\ d.hops[m].name = e.name
    BY <1>1, <2>2
  <2> HIDE DEF m, from, t
  <2> DEFINE n == Len(d.hops) - m + 1
  <2>5. /\ DOMAIN t.hops = 1..n
        /\ \A k \in 1..n : t.hops[k] = d.hops[m + k - 1]
    BY <1>1, <2>3, <2>4
  <2>6. \A k \in 1..n : m + k - 1 \in DOMAIN d.hops
    BY <1>1, <2>4
  <2>7. \A i, j \in 1..n : i < j => m + i - 1 < m + j - 1
    BY <1>1, <2>4
  <2>8. 1 \in 1..n /\ t.hops[1] = d.hops[m] /\ n \in Nat
    BY <1>1, <2>4, <2>5
  <2>9. d.hops[m].secret[1] = h
    <3>1. d.hops[m] \in Range(d.hops)
      BY <1>1, <2>4 DEF Range
    <3>2. QED
      BY <2>4, <3>1 DEF Clear, Tells
  <2> HIDE DEF n
  <2>10. ASSUME NEW i \in DOMAIN t.hops, NEW j \in DOMAIN t.hops, i < j,
                t.hops[i].secret[1] \in LiveInners(T), t.hops[j].secret[1] \in DOMAIN T
         PROVE  Before(T, t.hops[i].secret[1], t.hops[j].secret[1])
    BY <2>5, <2>6, <2>7, <2>10 DEF Clear, Tells
  <2>11. Tells(T, t)
    <3>1. \A i \in Range(t.hops) :
            /\ i.secret[1] \in DOMAIN T => i.role = T[i.secret[1]].role /\ Visible(T, i.secret[1])
            /\ \A j \in Range(t.hops) : i.name = j.name => i.secret[1] = j.secret[1]
      BY <1>4 DEF Clear, Tells, t
    <3>2. QED
      BY <2>10, <3>1 DEF Tells
  <2>12. ASSUME h \in DOMAIN T, T[h].state # "draining",
                NEW i \in Range(t.hops), i.secret[1] \in DOMAIN T, i.secret[1] # h
         PROVE  i.secret[1] \in Outward(T, h)
    <3>1. T[h].role = e.role /\ T[h].role = "inner"
      BY <1>2, <1>7, <2>12 DEF Clear, Tells
    <3>2. h \in LiveInners(T)
      BY <2>12, <3>1 DEF LiveInners, Inners, Rows
    <3>3. PICK k \in 1..n : i = t.hops[k]
      BY <2>5, <2>12 DEF Range
    <3>4. k # 1
      BY <2>8, <2>9, <2>12, <3>3
    <3>5. 1 < k
      BY <2>8, <3>4
    <3>6. Before(T, h, i.secret[1])
      <4>1. /\ 1 \in DOMAIN t.hops /\ k \in DOMAIN t.hops
            /\ t.hops[1].secret[1] = h /\ t.hops[k].secret[1] = i.secret[1]
        BY <2>5, <2>8, <2>9, <3>3
      <4>2. Before(T, t.hops[1].secret[1], t.hops[k].secret[1])
        BY <2>10, <2>12, <3>2, <3>5, <4>1
      <4>3. QED
        BY <4>1, <4>2
    <3>7. Visible(T, i.secret[1])
      BY <1>4, <2>12 DEF Clear, Tells, t
    <3>8. QED
      BY <2>12, <3>1, <3>6, <3>7 DEF Outward
  <2>13. Looks(T, h, t)
    BY <2>12 DEF Looks
  <2>14. \A i \in Range(t.hops) : i.secret[1] \in 1..c
    BY <1>4 DEF t
  <2>15. QED
    BY <1>4, <2>11, <2>13, <2>14 DEF Clear, t
<1>8. QED
  BY <1>6, <1>7

\* The documents box h has, and what a step gives it.
Has(h) == {doc[h], disk[h].doc, reply[h]} \cap Doc

Gets(h, d) ==
  \/ d \in Has(h)
  \/ /\ reply[h] \in Asked
     /\ \E g \in DOMAIN rows :
          /\ rows[g].name = reply[h].name /\ Visible(rows, g)
          /\ d = PanelDocument(rows, reply[h].revision, g)
  \/ \E s \in HopId : \E e \in OuterNeighbour(doc[s], h) : d = TruncateDocument(doc[s], s, e)
  \/ (\E a \in Addr : Join(h, a)) /\ d = PanelDocument(rows', revision', h)

LEMMA HasStep ==
  ASSUME WaveInv, WaveInv', [WaveNext]_waveVars, NEW h \in HopId, NEW d \in Has(h)'
  PROVE  Gets(h, d)
<1>1. /\ reply \in [HopId -> Asked \cup Doc \cup {NoReply}]
      /\ doc \in [HopId -> Doc \cup {NoDoc}]
      /\ disk \in [HopId -> [secret : Nat, dial : NextHop, doc : Doc \cup {NoDoc}]]
      /\ NoReply \notin Doc /\ NoDoc \notin Doc /\ d \in Doc
  BY NothingAssumption DEF WaveInv, Underway, InForce, OnDisk, Has
<1>2. ASSUME UNCHANGED <<doc, disk, reply>>
      PROVE  Gets(h, d)
  BY <1>2 DEF Has, Gets
<1>3. ASSUME NEW g \in HopId, NEW m, reply' = [reply EXCEPT ![g] = m], UNCHANGED <<doc, disk>>
      PROVE  d \in Has(h) \/ (g = h /\ d = m)
  <2>1. reply'[h] = IF g = h THEN m ELSE reply[h]
    BY <1>1, <1>3
  <2>2. QED
    BY <1>3, <2>1 DEF Has
<1>4. ASSUME NEW g \in HopId, PollPanel(g)
      PROVE  Gets(h, d)
  <2> DEFINE a == [name |-> rows[g].name, revision |-> revision,
                   seen |-> Revision(doc[g]), acks |-> outer[g]]
  <2>1. DOMAIN a = {"name", "revision", "seen", "acks"}
    OBVIOUS
  <2>2. \A x \in Doc : DOMAIN x = {"revision", "name", "state", "nextHop", "hops"}
    BY DEF Doc
  <2>3. reply' = [reply EXCEPT ![g] = a] /\ UNCHANGED <<doc, disk>>
    BY <1>4 DEF PollPanel
  <2> HIDE DEF a
  <2>4. a \notin Doc
    BY <2>1, <2>2
  <2>5. d \in Has(h) \/ (g = h /\ d = a)
    BY <1>3, <2>3
  <2>6. QED
    BY <1>1, <2>4, <2>5 DEF Gets
<1>5. ASSUME NEW g \in HopId, PanelAnswers(g)
      PROVE  Gets(h, d)
  <2>1. reply[g] \in Asked /\ UNCHANGED <<doc, disk>>
    BY <1>5 DEF PanelAnswers
  <2>2. ASSUME reply' = [reply EXCEPT ![g] = NoReply]
        PROVE  Gets(h, d)
    BY <1>1, <1>3, <2>1, <2>2 DEF Gets
  <2>3. ASSUME NEW i \in DOMAIN rows, rows[i].name = reply[g].name, Visible(rows, i),
               reply' = [reply EXCEPT ![g] = PanelDocument(rows, reply[g].revision, i)]
        PROVE  Gets(h, d)
    BY <1>3, <2>1, <2>3 DEF Gets
  <2>4. \/ reply' = [reply EXCEPT ![g] = NoReply]
        \/ \E i \in DOMAIN rows :
             /\ rows[i].name = reply[g].name /\ Visible(rows, i)
             /\ reply' = [reply EXCEPT ![g] = PanelDocument(rows, reply[g].revision, i)]
    BY <1>5 DEF PanelAnswers
  <2>5. QED
    BY <2>2, <2>3, <2>4
<1>6. ASSUME NEW g \in HopId, NEW s \in HopId \ {g}, PollBox(g, s)
      PROVE  Gets(h, d)
  <2>1. PICK e \in OuterNeighbour(doc[s], g) :
          reply' = [reply EXCEPT ![g] =
            IF Revision(doc[g]) = doc[s].revision THEN NoReply
            ELSE TruncateDocument(doc[s], s, e)]
    BY <1>6 DEF PollBox
  <2>2. UNCHANGED <<doc, disk>>
    BY <1>6 DEF PollBox
  <2>3. \/ reply' = [reply EXCEPT ![g] = NoReply]
        \/ reply' = [reply EXCEPT ![g] = TruncateDocument(doc[s], s, e)]
    BY <2>1
  <2>4. d \in Has(h) \/ (g = h /\ d = TruncateDocument(doc[s], s, e))
    BY <1>1, <1>3, <2>2, <2>3
  <2>5. QED
    BY <2>1, <2>4 DEF Gets
<1>7. ASSUME NEW g \in HopId, Receive(g)
      PROVE  Gets(h, d)
  <2>1. /\ reply[g] \in Doc /\ reply' = [reply EXCEPT ![g] = NoReply]
        /\ doc' \in {doc, [doc EXCEPT ![g] = reply[g]]}
        /\ disk' \in {disk, [disk EXCEPT ![g].doc = reply[g]]}
    BY <1>7 DEF Receive
  <2>2. reply'[h] \in {reply[h], NoReply} /\ doc'[h] \in {doc[h], reply[h]}
    BY <1>1, <2>1
  <2>3. disk'[h].doc \in {disk[h].doc, reply[h]}
    <3>1. disk[h] \in [secret : Nat, dial : NextHop, doc : Doc \cup {NoDoc}]
      BY <1>1
    <3>2. disk'[h] \in {disk[h], [disk[h] EXCEPT !.doc = reply[h]]}
      BY <1>1, <2>1
    <3>3. QED
      BY <3>1, <3>2
  <2>4. QED
    BY <1>1, <2>2, <2>3 DEF Has, Gets
<1>8. ASSUME NEW g \in HopId, Lose(g)
      PROVE  Gets(h, d)
  BY <1>1, <1>3, <1>8 DEF Lose, Gets
<1>9. ASSUME NEW g \in HopId, NEW p \in NextHop, NEW a \in Addr,
             JoinPage(g, p, a) \/ Rejoin(g, p, a)
      PROVE  Gets(h, d)
  <2> DEFINE X == PanelDocument(rows', revision', g)
  <2>1. Join(g, a) /\ UNCHANGED reply /\ doc' \in {doc, [doc EXCEPT ![g] = X]}
    BY <1>9 DEF JoinPage, Rejoin
  <2>2. PICK d0 \in {disk[g].doc, X} :
          disk' = [disk EXCEPT ![g] = [secret |-> rows'[g].secret, dial |-> p, doc |-> d0]]
    BY <1>9 DEF JoinPage, Rejoin, Accepted
  <2> HIDE DEF X
  <2>3. doc'[h] = doc[h] \/ (g = h /\ doc'[h] = X)
    BY <1>1, <2>1
  <2>4. disk'[h] = disk[h] \/ (g = h /\ disk'[h].doc = d0)
    BY <1>1, <2>2
  <2>5. d \in Has(h) \/ (g = h /\ d = X)
    BY <1>1, <2>1, <2>2, <2>3, <2>4 DEF Has
  <2>6. QED
    BY <2>1, <2>5 DEF Gets, X
<1>10. ASSUME NEW g \in HopId, Stop(g)
       PROVE  Gets(h, d)
  <2>1. reply'[h] \in {reply[h], NoReply} /\ doc'[h] \in {doc[h], NoDoc} /\ disk' = disk
    BY <1>1, <1>10 DEF Stop
  <2>2. QED
    BY <1>1, <2>1 DEF Has, Gets
<1>11. ASSUME NEW g \in HopId, Start(g)
       PROVE  Gets(h, d)
  <2>1. reply' = reply /\ doc'[h] \in {doc[h], disk[h].doc} /\ disk' = disk
    BY <1>1, <1>11 DEF Start
  <2>2. QED
    BY <1>1, <2>1 DEF Has, Gets
<1>12. CASE Polls
  BY <1>4, <1>5, <1>6, <1>7, <1>8, <1>12 DEF Polls
<1>13. CASE Joins
  BY <1>2, <1>9, <1>13 DEF Joins, JoinLost, boxVars
<1>14. CASE Processes
  BY <1>10, <1>11, <1>14 DEF Processes
<1>15. QED
  BY <1>2, <1>12, <1>13, <1>14 DEF WaveNext, Panels, waveVars, boxVars

\* Nobody else goes by the name a box asked under before the panel has answered it.
NamesReachAskers ==
  \A h \in HopId : reply[h] \in Asked =>
    \A g \in DOMAIN rows : rows[g].name = reply[h].name => g = h

\* Whatever a box has looks outward.
ClearInv == Registered /\ \A h \in HopId : \A d \in Has(h) : Clear(rows, created, h, d)

LEMMA ClearStep ==
  ASSUME WaveInv, WaveInv', ClearInv, NamesReachAskers, NoImportReopened, [WaveNext]_waveVars
  PROVE  ClearInv'
<1>1. /\ TypeOK /\ TypeOK' /\ IInv /\ PathInv /\ Walkable(rows) /\ Walkable(rows') /\ Underway
      /\ DOMAIN rows \subseteq 1..created /\ DOMAIN rows' \subseteq 1..created'
      /\ created \in Nat /\ created' \in Nat
      /\ \A g, h \in DOMAIN rows : rows[g].name = rows[h].name => g = h
      /\ \A g, h \in DOMAIN rows' : rows'[g].name = rows'[h].name => g = h
  <2>1. TypeOK /\ IInv /\ PathInv /\ Underway /\ Walkable(rows) /\ UniqueNames
    BY RowsWalkable DEF WaveInv, Registry, IInv
  <2>2. TypeOK' /\ NextHopsAreLive' /\ PathInv' /\ UniqueNames'
    BY DEF WaveInv, Registry, IInv
  <2>3. IsTable(rows')
    BY <2>2, MaxHopsAssumption DEF TypeOK, IsTable, HopId
  <2>4. Walkable(rows')
    BY <2>2, <2>3 DEF Walkable, NextHopsAreLive, PathInv
  <2>5. QED
    BY <2>1, <2>2, <2>4 DEF TypeOK, UniqueNames
<1>2. StatesMove /\ OrderStays
  BY <1>1, OutwardStep, PanelWrites
<1>3. created' >= created
  BY RegistryStep DEF WaveInv, TableMoves
<1>4. Registered'
  BY <1>1, <1>2, RegisteredStep DEF ClearInv
<1>5. ASSUME NEW h \in HopId, NEW d \in Doc, Clear(rows, created, h, d)
      PROVE  Clear(rows', created', h, d)
  BY <1>1, <1>2, <1>3, <1>5, ClearKept DEF ClearInv
<1>6. ASSUME NEW h \in HopId, NEW d \in Has(h)'
      PROVE  Clear(rows', created', h, d)
  <2>1. d \in Doc /\ Gets(h, d)
    BY <1>6, HasStep DEF Has
  <2>2. CASE d \in Has(h)
    BY <1>5, <2>1, <2>2 DEF ClearInv
  <2>3. ASSUME reply[h] \in Asked, NEW g \in DOMAIN rows, rows[g].name = reply[h].name,
               Visible(rows, g), d = PanelDocument(rows, reply[h].revision, g)
        PROVE  Clear(rows', created', h, d)
    <3>1. g = h
      BY <2>3 DEF NamesReachAskers
    <3>2. reply[h].revision \in Nat
      BY <2>3 DEF Asked
    <3>3. Clear(rows, created, g, PanelDocument(rows, reply[h].revision, g))
      BY <1>1, <2>3, <3>2, PanelDocumentClear
    <3>4. QED
      BY <1>5, <2>1, <2>3, <3>1, <3>3
  <2>4. ASSUME NEW s \in HopId, NEW e \in OuterNeighbour(doc[s], h),
               d = TruncateDocument(doc[s], s, e)
        PROVE  Clear(rows', created', h, d)
    <3>1. /\ doc[s] \in Doc /\ doc[s] \in Has(s) /\ e \in Range(doc[s].hops)
          /\ e.secret[1] = h
      BY <2>4 DEF OuterNeighbour, WaveInv, InForce, Has
    <3>2. Clear(rows, created, s, doc[s])
      BY <3>1 DEF ClearInv
    <3>3. Clear(rows, created, h, TruncateDocument(doc[s], s, e))
      BY <3>1, <3>2, TruncateDocumentClear
    <3>4. QED
      BY <1>5, <2>1, <2>4, <3>3
  <2>5. ASSUME NEW a \in Addr, Join(h, a), d = PanelDocument(rows', revision', h)
        PROVE  Clear(rows', created', h, d)
    <3>1. h \in DOMAIN rows' /\ rows'[h].state = "joined"
      BY <1>1, <2>5, JoinRows
    <3>2. revision' \in Nat /\ Visible(rows', h)
      BY <1>1, <3>1 DEF TypeOK, Visible
    <3>3. Clear(rows', created', h, PanelDocument(rows', revision', h))
      BY <1>1, <3>1, <3>2, PanelDocumentClear
    <3>4. QED
      BY <2>5, <3>3
  <2>6. QED
    BY <2>1, <2>2, <2>3, <2>4, <2>5 DEF Gets
<1>7. QED
  BY <1>4, <1>6 DEF ClearInv

\* A box's document lists nobody but the box and what lies outward of it, and an
\* edge's the edge alone, whatever was read when it was built, whoever cut it and
\* however long a box sat on it: if no name passes to another hop while the panel
\* answers who asked under it, and no front that was imported is invited like a new
\* one.
THEOREM DocumentsOutward ==
  WaveSpec /\ []NamesReachAskers /\ [][NoImportReopened]_waveVars => []DocumentsLookOutward
<1>1. (/\ WaveInv /\ WaveInv' /\ ClearInv /\ NamesReachAskers
       /\ [WaveNext]_waveVars /\ [NoImportReopened]_waveVars)
        => ClearInv'
  <2> SUFFICES ASSUME WaveInv, WaveInv', ClearInv, NamesReachAskers,
                      [WaveNext]_waveVars, [NoImportReopened]_waveVars
               PROVE  ClearInv'
    OBVIOUS
  <2>1. CASE NoImportReopened
    BY <2>1, ClearStep
  <2>2. CASE UNCHANGED waveVars
    BY <2>2 DEF waveVars, vars, boxVars, ClearInv, Registered, Has
  <2>3. QED
    BY <2>1, <2>2
<1>2. WaveInv /\ ClearInv => DocumentsLookOutward
  <2> SUFFICES ASSUME WaveInv, ClearInv,
                      NEW h \in DOMAIN rows, h \notin Rows(rows, {"draining"}), doc[h] # NoDoc,
                      NEW e \in Range(doc[h].hops), e.secret[1] \in DOMAIN rows
               PROVE  e.secret[1] \in {h} \cup Outward(rows, h)
    BY DEF DocumentsLookOutward
  <2>1. h \in HopId
    BY RowsTable DEF WaveInv, Registry, IInv, IsTable
  <2>2. doc[h] \in Has(h)
    BY <2>1 DEF WaveInv, InForce, Has
  <2>3. rows[h].state # "draining"
    BY DEF Rows
  <2>4. QED
    BY <2>1, <2>2, <2>3 DEF ClearInv, Clear, Looks
<1>3. WaveInit => ClearInv
  <2> SUFFICES ASSUME WaveInit PROVE ClearInv
    OBVIOUS
  <2>1. DOMAIN rows = {}
    BY DEF WaveInit, Init
  <2>2. \A h \in HopId : doc[h] = NoDoc /\ reply[h] = NoReply /\ disk[h].doc = NoDoc
    BY DEF WaveInit
  <2>3. \A h \in HopId : Has(h) = {}
    BY <2>2, NothingAssumption DEF Has
  <2>4. QED
    BY <2>1, <2>3 DEF ClearInv, Registered
<1>4. QED
  BY <1>1, <1>2, <1>3, DocumentsFit, PTL DEF WaveSpec
=============================================================================
