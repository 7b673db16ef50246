------------------------- MODULE ChainTopologyProofs -------------------------
(***************************************************************************)
(* The shape of the chain and what its documents make of it, for every     *)
(* number of hops: the live inner fronts are one gapless path, every next  *)
(* hop lies inward of its row, the hop a document says to dial knows its   *)
(* caller, and a box is asked to admit a new secret, or is shown another   *)
(* document at all, by a new revision only.                                *)
(***************************************************************************)
EXTENDS ChainRegistryProofs, WellFoundedInduction

\* No two live inner fronts share a position.
Apart(T) ==
  \A g, h \in LiveInners(T) : T[g].position = T[h].position => g = h

\* What OnePath says, of any table.
IsPath(T) ==
  LET live == LiveInners(T)
  IN  /\ {T[h].position : h \in live} = 0..(Cardinality(live) - 1)
      /\ \A h \in live :
           IF T[h].position = 0 THEN T[h].next = Panel
           ELSE T[h].next \in live /\ T[T[h].next].position = T[h].position - 1

\* A departing front's next hop lies strictly inward of it.
LeavesInward(T) ==
  \A d \in Inners(T) :
    T[d].state = "draining" =>
      \/ T[d].next = Panel
      \/ T[d].next \in LiveInners(T) /\ T[T[d].next].position < T[d].position

\* Two rows at the same place in the chain.
SameSpot(r, s) ==
  /\ r.role = s.role /\ r.position = s.position /\ r.next = s.next
  /\ (r.state = "draining" <=> s.state = "draining")

-----------------------------------------------------------------------------
(* Positions and ranks. *)

LEMMA LiveRows ==
  ASSUME NEW T, IsTable(T), NEW h \in LiveInners(T)
  PROVE  /\ h \in DOMAIN T /\ h \in HopId /\ h \in Nat /\ T[h] \in Row
         /\ T[h].position \in Nat /\ T[h].role = "inner" /\ T[h].state # "draining"
BY DEF LiveInners, Inners, Rows, IsTable, Row, HopId

\* The path order is a strict total order of the live fronts.
LEMMA PathOrder ==
  ASSUME NEW T, IsTable(T)
  PROVE  /\ \A g \in LiveInners(T) : ~PathBefore(T, g, g)
         /\ \A g, h \in LiveInners(T) : g = h \/ PathBefore(T, g, h) \/ PathBefore(T, h, g)
         /\ \A g, h \in LiveInners(T) : PathBefore(T, g, h) => ~PathBefore(T, h, g)
         /\ \A f, g, h \in LiveInners(T) :
              PathBefore(T, f, g) /\ PathBefore(T, g, h) => PathBefore(T, f, h)
<1>1. \A g \in LiveInners(T) : g \in Nat /\ T[g].position \in Nat
  BY LiveRows
<1>2. QED
  BY <1>1 DEF PathBefore

\* Where positions differ, a front's rank is at most its position, and equal to
\* it if every position below is taken.
LEMMA RankBound ==
  ASSUME NEW T, IsTable(T), Apart(T), NEW h \in LiveInners(T)
  PROVE  /\ Cardinality(LiveBefore(T, h)) \in Nat
         /\ Cardinality(LiveBefore(T, h)) <= T[h].position
         /\ (\A k \in 0..(T[h].position - 1) : \E g \in LiveInners(T) : T[g].position = k)
              => Cardinality(LiveBefore(T, h)) = T[h].position
<1> DEFINE S == LiveBefore(T, h)
           k == T[h].position
           f == [g \in S |-> T[g].position]
<1>1. k \in Nat /\ \A g \in LiveInners(T) : T[g].position \in Nat
  BY LiveRows
<1>2. S = {g \in LiveInners(T) : T[g].position < k}
  <2>1. \A g \in LiveInners(T) : PathBefore(T, g, h) <=> T[g].position < k
    BY <1>1, LiveRows DEF PathBefore, Apart
  <2>2. QED
    BY <2>1 DEF LiveBefore
<1>3. f \in Injection(S, 0..(k - 1))
  <2>1. f \in [S -> 0..(k - 1)]
    BY <1>1, <1>2
  <2>2. IsInjective(f)
    BY <1>2 DEF IsInjective, Apart
  <2>3. QED
    BY <2>1, <2>2 DEF Injection
<1>4. IsFiniteSet(0..(k - 1)) /\ Cardinality(0..(k - 1)) = k
  <2> HIDE DEF k
  <2>1. 0 \in Int /\ k - 1 \in Int /\ k \in Nat
    BY <1>1
  <2>2. Cardinality(0..(k - 1)) = IF 0 > k - 1 THEN 0 ELSE (k - 1) - 0 + 1
    BY <2>1, FS_Interval
  <2>3. IsFiniteSet(0..(k - 1))
    BY <2>1, FS_Interval
  <2>4. QED
    BY <2>1, <2>2, <2>3
<1>5. IsFiniteSet(S)
  BY RowsFinite DEF LiveBefore, LiveInners, Inners
<1>6. /\ Cardinality(S) <= k
      /\ Cardinality(S) = k <=> f \in Surjection(S, 0..(k - 1))
  <2> HIDE DEF f, S, k
  <2>1. QED
    BY <1>3, <1>4, FS_Injection
<1>7. ASSUME \A j \in 0..(k - 1) : \E g \in LiveInners(T) : T[g].position = j
      PROVE  f \in Surjection(S, 0..(k - 1))
  <2>1. ASSUME NEW j \in 0..(k - 1)
        PROVE  \E g \in S : f[g] = j
    <3>1. PICK g \in LiveInners(T) : T[g].position = j
      BY <1>7
    <3>2. g \in S
      BY <1>1, <1>2, <3>1
    <3>3. QED
      BY <3>1, <3>2
  <2>2. f \in [S -> 0..(k - 1)]
    BY <1>3 DEF Injection
  <2>3. QED
    BY <2>1, <2>2 DEF Surjection
<1>8. Cardinality(S) \in Nat
  BY <1>5, FS_CardinalityType
<1>9. QED
  BY <1>6, <1>7, <1>8

\* On one path every front's rank is its position.
LEMMA PathRank ==
  ASSUME NEW T, IsTable(T), Apart(T), IsPath(T), NEW h \in LiveInners(T)
  PROVE  Cardinality(LiveBefore(T, h)) = T[h].position
<1> DEFINE n == Cardinality(LiveInners(T))
<1>1. n \in Nat /\ T[h].position \in Nat
  BY RowsFinite, FS_CardinalityType, LiveRows DEF LiveInners, Inners
<1>2. {T[g].position : g \in LiveInners(T)} = 0..(n - 1)
  BY DEF IsPath
<1>3. T[h].position \in 0..(n - 1)
  BY <1>2
<1>4. \A k \in 0..(T[h].position - 1) : k \in 0..(n - 1)
  BY <1>1, <1>3
<1>5. \A k \in 0..(T[h].position - 1) : \E g \in LiveInners(T) : T[g].position = k
  BY <1>2, <1>4
<1>6. QED
  BY <1>5, RankBound

\* Ranks are in the order of the path, distinct, and from 0 without gaps.
LEMMA Ranks ==
  ASSUME NEW T, IsTable(T)
  PROVE  LET live == LiveInners(T)
             rank(h) == Cardinality(LiveBefore(T, h))
         IN  /\ \A h \in live : rank(h) \in Nat
             /\ \A g, h \in live : PathBefore(T, g, h) <=> rank(g) < rank(h)
             /\ \A g, h \in live : rank(g) = rank(h) => g = h
             /\ {rank(h) : h \in live} = 0..(Cardinality(live) - 1)
<1> DEFINE live == LiveInners(T)
           rank(h) == Cardinality(LiveBefore(T, h))
           n == Cardinality(live)
<1>1. IsFiniteSet(live) /\ n \in Nat
  BY RowsFinite, FS_CardinalityType DEF LiveInners, Inners
<1>2. \A h \in live : IsFiniteSet(LiveBefore(T, h)) /\ rank(h) \in Nat
  BY RowsFinite, FS_CardinalityType DEF LiveBefore, LiveInners, Inners
<1>3. ASSUME NEW g \in live, NEW h \in live, PathBefore(T, g, h)
      PROVE  rank(g) < rank(h)
  <2>1. LiveBefore(T, g) \subseteq LiveBefore(T, h)
    BY <1>3, PathOrder DEF LiveBefore
  <2>2. g \in LiveBefore(T, h) /\ g \notin LiveBefore(T, g)
    BY <1>3, PathOrder DEF LiveBefore
  <2>3. rank(g) <= rank(h) /\ rank(g) # rank(h)
    BY <1>2, <2>1, <2>2, FS_Subset
  <2>4. QED
    BY <1>2, <2>3
<1>4. \A g, h \in live : PathBefore(T, g, h) <=> rank(g) < rank(h)
  <2> HIDE DEF rank, live
  <2>1. QED
    BY <1>2, <1>3, PathOrder DEF live
<1>5. \A g, h \in live : rank(g) = rank(h) => g = h
  <2> HIDE DEF rank
  <2>1. QED
    BY <1>2, <1>3, PathOrder
<1>6. \A h \in live : rank(h) < n
  <2> TAKE h \in live
  <2>1. LiveBefore(T, h) \subseteq live /\ h \notin LiveBefore(T, h)
    BY PathOrder DEF LiveBefore
  <2>2. QED
    BY <1>1, <1>2, <2>1, FS_Subset
<1>7. {rank(h) : h \in live} = 0..(n - 1)
  <2> DEFINE f == [h \in live |-> rank(h)]
  <2> HIDE DEF rank, live, n
  <2>1. f \in Injection(live, 0..(n - 1))
    BY <1>1, <1>2, <1>5, <1>6 DEF Injection, IsInjective
  <2>2. IsFiniteSet(0..(n - 1)) /\ Cardinality(0..(n - 1)) = n
    BY <1>1, FS_Interval
  <2>3. f \in Surjection(live, 0..(n - 1))
    BY <1>1, <2>1, <2>2, FS_Injection DEF n
  <2>4. QED
    BY <2>3 DEF Surjection
<1>8. QED
  BY <1>2, <1>4, <1>5, <1>7

\* Outermost finds the last front along the path, if there is one.
LEMMA OutermostIs ==
  ASSUME NEW T, IsTable(T), NEW S \in SUBSET LiveInners(T)
  PROVE  /\ S = {} => Outermost(T, S) = Panel
         /\ \A h \in S :
              (\A g \in S : g = h \/ PathBefore(T, g, h)) => Outermost(T, S) = h
<1>1. ASSUME NEW h \in S, \A g \in S : g = h \/ PathBefore(T, g, h)
      PROVE  Outermost(T, S) = h
  <2>1. {i \in S : \A g \in S : g = i \/ PathBefore(T, g, i)} = {h}
    <3>1. ASSUME NEW i \in S, \A g \in S : g = i \/ PathBefore(T, g, i)
          PROVE  i = h
      BY <1>1, <3>1, PathOrder
    <3>2. QED
      BY <1>1, <3>1
  <2>2. QED
    BY <2>1 DEF Outermost
<1>2. QED
  BY <1>1 DEF Outermost

-----------------------------------------------------------------------------
(* The topology sweep. *)

\* What the sweep makes of each row's place.
LEMMA ReconciledPlaces ==
  ASSUME NEW T, IsTable(T), NEW h \in DOMAIN T
  PROVE  /\ T[h].state = "draining" => Reconcile(T)[h] = T[h]
         /\ h \in LiveInners(T) =>
              /\ Reconcile(T)[h].position = Cardinality(LiveBefore(T, h))
              /\ Reconcile(T)[h].next = Outermost(T, LiveBefore(T, h))
         /\ T[h].state # "draining" /\ T[h].role = "edge" =>
              /\ Reconcile(T)[h].position = T[h].position
              /\ Reconcile(T)[h].next = Outermost(T, EnteredInners(T))
<1>1. T[h] \in Row
  BY DEF IsTable
<1>2. T[h].state = "draining" => Reconcile(T)[h] = T[h]
  BY DEF Reconcile
<1>3. ASSUME h \in LiveInners(T)
      PROVE  /\ Reconcile(T)[h].position = Cardinality(LiveBefore(T, h))
             /\ Reconcile(T)[h].next = Outermost(T, LiveBefore(T, h))
  <2>1. T[h].state # "draining" /\ T[h].role # "edge"
    BY <1>3, LiveRows
  <2>2. Reconcile(T)[h] = [T[h] EXCEPT !.position = Cardinality(LiveBefore(T, h)),
                                       !.next = Outermost(T, LiveBefore(T, h))]
    BY <2>1 DEF Reconcile
  <2>3. QED
    BY <1>1, <2>2 DEF Row
<1>4. ASSUME T[h].state # "draining", T[h].role = "edge"
      PROVE  /\ Reconcile(T)[h].position = T[h].position
             /\ Reconcile(T)[h].next = Outermost(T, EnteredInners(T))
  <2>1. Reconcile(T)[h] = [T[h] EXCEPT !.next = Outermost(T, EnteredInners(T))]
    BY <1>4 DEF Reconcile
  <2>2. QED
    BY <1>1, <2>1 DEF Row
<1>5. QED
  BY <1>2, <1>3, <1>4

\* After the sweep the live fronts are one path, in the order they were in.
LEMMA ReconciledPath ==
  ASSUME NEW T, IsTable(T)
  PROVE  IsPath(Reconcile(T)) /\ Apart(Reconcile(T))
<1> DEFINE R == Reconcile(T)
           live == LiveInners(T)
           rank(h) == Cardinality(LiveBefore(T, h))
<1>1. /\ IsTable(R) /\ LiveInners(R) = live
      /\ \A h \in live : R[h].position = rank(h) /\ R[h].next = Outermost(T, LiveBefore(T, h))
  BY ReconcileTable, ReconcileLive, ReconciledPlaces, LiveRows
<1>2. /\ \A h \in live : rank(h) \in Nat
      /\ \A g, h \in live : PathBefore(T, g, h) <=> rank(g) < rank(h)
      /\ \A g, h \in live : rank(g) = rank(h) => g = h
      /\ {rank(h) : h \in live} = 0..(Cardinality(live) - 1)
  BY Ranks
<1>3. \A h \in live : LiveBefore(T, h) = {g \in live : rank(g) < rank(h)}
  BY <1>2 DEF LiveBefore
<1> HIDE DEF R, live, rank
<1>4. Apart(R)
  BY <1>1, <1>2 DEF Apart
<1>5. {R[h].position : h \in live} = 0..(Cardinality(live) - 1)
  BY <1>1, <1>2
<1>6. ASSUME NEW h \in live
      PROVE  IF R[h].position = 0 THEN R[h].next = Panel
             ELSE R[h].next \in live /\ R[R[h].next].position = R[h].position - 1
  <2>1. CASE rank(h) = 0
    <3>1. LiveBefore(T, h) = {}
      BY <1>2, <1>3, <2>1
    <3>2. QED
      BY <1>1, <2>1, <3>1, OutermostIs DEF live
  <2>2. CASE rank(h) # 0
    <3>1. Cardinality(live) \in Nat
      BY RowsFinite, FS_CardinalityType DEF live, LiveInners, Inners
    <3>2. rank(h) \in 0..(Cardinality(live) - 1)
      BY <1>2
    <3>3. rank(h) - 1 \in 0..(Cardinality(live) - 1)
      BY <2>2, <3>1, <3>2
    <3>4. PICK g \in live : rank(g) = rank(h) - 1
      BY <1>2, <3>3
    <3>5. g \in LiveBefore(T, h)
      BY <1>2, <1>3, <3>4
    <3>6. ASSUME NEW f \in LiveBefore(T, h)
          PROVE  f = g \/ PathBefore(T, f, g)
      BY <1>2, <1>3, <3>4
    <3>7. LiveBefore(T, h) \in SUBSET LiveInners(T)
      BY DEF LiveBefore
    <3>8. Outermost(T, LiveBefore(T, h)) = g
      BY <3>5, <3>6, <3>7, OutermostIs
    <3>9. QED
      BY <1>1, <2>2, <3>4, <3>8
  <2>3. QED
    BY <2>1, <2>2
<1>7. IsPath(R)
  BY <1>1, <1>5, <1>6 DEF IsPath
<1>8. QED
  BY <1>4, <1>7 DEF R

\* The sweep moves a live front inward or not at all, so what departs stays
\* outward of its next hop.
LEMMA ReconciledInward ==
  ASSUME NEW T, IsTable(T), Apart(T), LeavesInward(T)
  PROVE  LeavesInward(Reconcile(T))
<1> DEFINE R == Reconcile(T)
<1>1. /\ DOMAIN R = DOMAIN T /\ LiveInners(R) = LiveInners(T)
      /\ \A d \in DOMAIN T : R[d].role = T[d].role /\ R[d].state = T[d].state
  BY ReconcileTable, ReconcileLive DEF SameHop, SameBox
<1>2. \A d \in DOMAIN T : T[d].state = "draining" => R[d] = T[d]
  BY ReconciledPlaces
<1>3. \A n \in LiveInners(T) : R[n].position \in Nat /\ R[n].position <= T[n].position
  BY RankBound, ReconciledPlaces, LiveRows
<1>4. \A d \in DOMAIN T : T[d].position \in Nat
  BY DEF IsTable, Row
<1> HIDE DEF R
<1>5. ASSUME NEW d \in Inners(R), R[d].state = "draining", R[d].next # Panel
      PROVE  R[d].next \in LiveInners(R) /\ R[R[d].next].position < R[d].position
  <2>1. d \in Inners(T) /\ T[d].state = "draining" /\ R[d] = T[d] /\ d \in DOMAIN T
    BY <1>1, <1>2, <1>5 DEF Inners
  <2>2. T[d].next \in LiveInners(T) /\ T[T[d].next].position < T[d].position
    BY <1>5, <2>1 DEF LeavesInward
  <2>3. T[T[d].next].position \in Nat
    BY <2>2, LiveRows
  <2>4. QED
    BY <1>1, <1>3, <1>4, <2>1, <2>2, <2>3
<1>6. QED
  BY <1>5 DEF LeavesInward, R

\* Tables whose rows stand at the same places have the same shape.
LEMMA SameShape ==
  ASSUME NEW T, NEW U, DOMAIN T = DOMAIN U, \A h \in DOMAIN T : SameSpot(T[h], U[h])
  PROVE  /\ LiveInners(T) = LiveInners(U)
         /\ IsPath(T) => IsPath(U)
         /\ Apart(T) => Apart(U)
         /\ LeavesInward(T) => LeavesInward(U)
<1>1. LiveInners(T) = LiveInners(U) /\ Inners(T) = Inners(U)
  BY DEF LiveInners, Inners, Rows, SameSpot
<1>2. \A h \in LiveInners(T) : h \in DOMAIN T
  BY DEF LiveInners, Inners
<1>3. \A h \in DOMAIN T : T[h].position = U[h].position /\ T[h].next = U[h].next
  BY DEF SameSpot
<1>4. {T[h].position : h \in LiveInners(T)} = {U[h].position : h \in LiveInners(U)}
  BY <1>1, <1>2, <1>3
<1>5. IsPath(T) => IsPath(U)
  BY <1>1, <1>2, <1>3, <1>4 DEF IsPath
<1>6. Apart(T) => Apart(U)
  BY <1>1, <1>2, <1>3 DEF Apart
<1>7. ASSUME LeavesInward(T), NEW d \in Inners(U), U[d].state = "draining", U[d].next # Panel
      PROVE  U[d].next \in LiveInners(U) /\ U[U[d].next].position < U[d].position
  <2>1. d \in DOMAIN T /\ d \in Inners(T)
    BY <1>1, <1>7 DEF Inners
  <2>2. T[d].state = "draining"
    BY <1>7, <2>1 DEF SameSpot
  <2>3. T[d].next = U[d].next /\ T[d].position = U[d].position
    BY <1>3, <2>1
  <2>4. T[d].next \in LiveInners(T) /\ T[T[d].next].position < T[d].position
    BY <1>7, <2>1, <2>2, <2>3 DEF LeavesInward
  <2>5. QED
    BY <1>1, <1>2, <1>3, <2>3, <2>4
<1>8. LeavesInward(T) => LeavesInward(U)
  BY <1>7 DEF LeavesInward
<1>9. QED
  BY <1>1, <1>5, <1>6, <1>8

-----------------------------------------------------------------------------
(* The table each write hands to the sweep. *)

\* What Add sweeps: the table with room made and the new row in it.
Widened(n, r, a, t, p) ==
  [g \in DOMAIN rows \cup {created + 1} |->
     IF g = created + 1 THEN NewRow(n, r, a, t, p)
     ELSE IF r = "inner" THEN MakeRoom(p)[g] ELSE rows[g]]

\* Where a row stands after room was made.
Shifted(h, r, p) ==
  IF r = "inner" /\ rows[h].role = "inner" /\ rows[h].position >= p
    THEN rows[h].position + 1 ELSE rows[h].position

LEMMA WidenedRows ==
  ASSUME TypeOK, NEW n \in Name, NEW r \in Role, NEW a \in Addr,
         NEW t \in Target \cup {NoTarget}, NEW p \in 0..MaxHops, Add(n, r, a, t, p)
  PROVE  LET W == Widened(n, r, a, t, p)
         IN  /\ rows' = Reconcile(W) /\ IsTable(W)
             /\ DOMAIN W = DOMAIN rows \cup {created + 1} /\ created + 1 \notin DOMAIN rows
             /\ created + 1 \in HopId
             /\ \A h \in DOMAIN rows :
                  /\ SameHop(W[h], rows[h]) /\ W[h].next = rows[h].next
                  /\ W[h].position = Shifted(h, r, p)
             /\ W[created + 1] = NewRow(n, r, a, t, p)
<1> DEFINE W == Widened(n, r, a, t, p)
<1>1. created + 1 \in HopId /\ created + 1 \notin DOMAIN rows
  BY MaxHopsAssumption DEF Add, TypeOK, HopId
<1>2. NewRow(n, r, a, t, p) \in Row
  BY DEF NewRow, Row, State, NextHop, Role
<1>3. DOMAIN W = DOMAIN rows \cup {created + 1} /\ W[created + 1] = NewRow(n, r, a, t, p)
  BY DEF Widened
<1>4. ASSUME NEW h \in DOMAIN rows
      PROVE  /\ W[h] \in Row
             /\ SameHop(W[h], rows[h]) /\ W[h].next = rows[h].next
             /\ W[h].position = Shifted(h, r, p)
  <2>1. rows[h] \in Row /\ h # created + 1
    BY <1>1 DEF TypeOK
  <2>2. CASE r = "inner" /\ rows[h].role = "inner" /\ rows[h].position >= p
    <3> DEFINE k == rows[h].position + 1
    <3>1. W[h] = [rows[h] EXCEPT !.position = k]
      BY <2>1, <2>2 DEF Widened, MakeRoom
    <3>2. k \in Nat /\ k = Shifted(h, r, p)
      BY <2>1, <2>2 DEF Row, Shifted
    <3> HIDE DEF k, W
    <3>3. QED
      BY <2>1, <3>1, <3>2 DEF Row, SameHop, SameBox
  <2>3. CASE ~(r = "inner" /\ rows[h].role = "inner" /\ rows[h].position >= p)
    <3>1. W[h] = rows[h]
      BY <2>1, <2>3 DEF Widened, MakeRoom
    <3> HIDE DEF W
    <3>2. QED
      BY <2>1, <2>3, <3>1 DEF SameHop, SameBox, Shifted
  <2>4. QED
    BY <2>2, <2>3
<1>5. IsTable(W)
  <2>1. W \in [DOMAIN rows \cup {created + 1} -> Row]
    BY <1>1, <1>2, <1>3, <1>4 DEF Widened
  <2>2. QED
    BY <1>1, <1>3, <2>1, RowsTable DEF IsTable
<1>6. rows' = Reconcile(W)
  <2>1. W = [g \in DOMAIN rows \cup {created + 1} |->
               IF g = created + 1 THEN NewRow(n, r, a, t, p)
               ELSE (IF r = "inner" THEN MakeRoom(p) ELSE rows)[g]]
    BY DEF Widened
  <2>2. QED
    BY <2>1 DEF Add
<1> HIDE DEF W
<1>7. QED
  BY <1>1, <1>3, <1>4, <1>5, <1>6 DEF W

\* Making room keeps the order of the rows, and their distances.
LEMMA ShiftedOrder ==
  ASSUME TypeOK, NEW r \in Role, NEW p \in 0..MaxHops,
         NEW g \in Inners(rows), NEW h \in Inners(rows)
  PROVE  /\ Shifted(g, r, p) \in Nat
         /\ Shifted(g, r, p) < Shifted(h, r, p) <=> rows[g].position < rows[h].position
         /\ Shifted(g, r, p) = Shifted(h, r, p) <=> rows[g].position = rows[h].position
         /\ r = "inner" => Shifted(g, r, p) # p
<1>1. rows[g].position \in Nat /\ rows[h].position \in Nat /\ p \in Nat
  BY DEF TypeOK, Row, Inners
<1>2. rows[g].role = "inner" /\ rows[h].role = "inner"
  BY DEF Inners
<1>3. QED
  BY <1>1, <1>2 DEF Shifted

\* Where the live fronts stand apart and what departs leads inward, room for a
\* new row keeps it so.
LEMMA WidenedShape ==
  ASSUME TypeOK, NEW n \in Name, NEW r \in Role, NEW a \in Addr,
         NEW t \in Target \cup {NoTarget}, NEW p \in 0..MaxHops, Add(n, r, a, t, p),
         Apart(rows), LeavesInward(rows)
  PROVE  Apart(Widened(n, r, a, t, p)) /\ LeavesInward(Widened(n, r, a, t, p))
<1> DEFINE W == Widened(n, r, a, t, p)
           id == created + 1
<1>1. /\ DOMAIN W = DOMAIN rows \cup {id} /\ id \notin DOMAIN rows
      /\ \A h \in DOMAIN rows :
           /\ SameHop(W[h], rows[h]) /\ W[h].next = rows[h].next
           /\ W[h].position = Shifted(h, r, p)
      /\ W[id] = NewRow(n, r, a, t, p)
  BY WidenedRows
<1>2. W[id].role = r /\ W[id].state = "pending" /\ W[id].position = p
  BY <1>1 DEF NewRow
<1> HIDE DEF W, id
<1>3. \A h \in DOMAIN rows : W[h].role = rows[h].role /\ W[h].state = rows[h].state
  BY <1>1 DEF SameHop, SameBox
<1>4. \A h \in LiveInners(W) : h \in LiveInners(rows) \/ (h = id /\ r = "inner")
  BY <1>1, <1>2, <1>3 DEF LiveInners, Inners, Rows
<1>5. \A h \in LiveInners(rows) : h \in LiveInners(W) /\ h \in Inners(rows) /\ h \in DOMAIN rows
  BY <1>1, <1>3 DEF LiveInners, Inners, Rows
<1>6. Apart(W)
  <2> SUFFICES ASSUME NEW g \in LiveInners(W), NEW h \in LiveInners(W),
                      W[g].position = W[h].position
               PROVE  g = h
    BY DEF Apart
  <2>1. CASE g \in LiveInners(rows) /\ h \in LiveInners(rows)
    BY <1>1, <1>5, <2>1, ShiftedOrder DEF Apart
  <2>2. CASE g \notin LiveInners(rows) \/ h \notin LiveInners(rows)
    BY <1>1, <1>2, <1>4, <1>5, <2>2, ShiftedOrder
  <2>3. QED
    BY <2>1, <2>2
<1>7. ASSUME NEW d \in Inners(W), W[d].state = "draining", W[d].next # Panel
      PROVE  W[d].next \in LiveInners(W) /\ W[W[d].next].position < W[d].position
  <2>1. d \in Inners(rows) /\ rows[d].state = "draining" /\ W[d].next = rows[d].next
    BY <1>1, <1>2, <1>3, <1>7 DEF Inners
  <2>2. rows[d].next \in LiveInners(rows) /\ rows[rows[d].next].position < rows[d].position
    BY <1>7, <2>1 DEF LeavesInward
  <2>3. d \in DOMAIN rows
    BY <2>1 DEF Inners
  <2>4. QED
    BY <1>1, <1>5, <2>1, <2>2, <2>3, ShiftedOrder
<1>8. LeavesInward(W)
  BY <1>7 DEF LeavesInward
<1>9. QED
  BY <1>6, <1>8 DEF W

\* What DeleteNow sweeps.
Rehung(h) ==
  LET gone == Without(rows, h) IN Rechain(gone, HangOff(gone, h), rows[h].next)

LEMMA RehungShape ==
  ASSUME TypeOK, NextHopsAreLive, NEW h \in DOMAIN rows,
         Apart(rows), IsPath(rows), LeavesInward(rows)
  PROVE  IsTable(Rehung(h)) /\ Apart(Rehung(h)) /\ LeavesInward(Rehung(h))
<1> DEFINE gone == Without(rows, h)
           T == Rehung(h)
<1>1. rows[h].next \in NextHop /\ h \in HopId
  BY RowsTable DEF IsTable, Row
<1>2. /\ IsTable(gone) /\ DOMAIN gone = DOMAIN rows \ {h}
      /\ \A g \in DOMAIN rows \ {h} : gone[g] = rows[g]
  BY RowsTable, WithoutTable
<1>3. /\ IsTable(T) /\ DOMAIN T = DOMAIN gone
      /\ \A g \in DOMAIN gone :
           /\ SameHop(T[g], gone[g])
           /\ T[g].next = IF g \in HangOff(gone, h) THEN rows[h].next ELSE gone[g].next
  <2> HIDE DEF gone
  <2>1. QED
    BY <1>1, <1>2, RechainTable DEF Rehung, gone
<1>4. \A g \in DOMAIN T : T[g].position = rows[g].position
  <2>1. \A g \in DOMAIN gone : gone[g] \in Row
    BY <1>2 DEF IsTable
  <2>2. QED
    BY <1>2, <1>3, <2>1 DEF Rehung, Rechain, Row
<1> HIDE DEF gone, T
<1>5. /\ DOMAIN T = DOMAIN rows \ {h}
      /\ \A g \in DOMAIN T :
           /\ T[g].role = rows[g].role /\ T[g].state = rows[g].state
           /\ T[g].next = IF rows[g].next = h THEN rows[h].next ELSE rows[g].next
  BY <1>2, <1>3 DEF SameHop, SameBox, HangOff
<1>6. LiveInners(T) = LiveInners(rows) \ {h}
  BY <1>5 DEF LiveInners, Inners, Rows
<1>7. Apart(T)
  BY <1>4, <1>5, <1>6 DEF Apart, LiveInners, Inners
<1>8. ASSUME NEW d \in Inners(T), T[d].state = "draining", T[d].next # Panel
      PROVE  T[d].next \in LiveInners(T) /\ T[T[d].next].position < T[d].position
  <2>1. d \in Inners(rows) /\ rows[d].state = "draining" /\ d \in DOMAIN T
    BY <1>5, <1>8 DEF Inners
  <2>2. CASE rows[d].next = h
    <3>1. h \in LiveInners(rows) /\ rows[h].position < rows[d].position
      BY <1>1, <2>1, <2>2 DEF LeavesInward, HopId, Panel
    <3>2. T[d].next = rows[h].next
      BY <1>5, <2>1, <2>2
    <3>3. /\ rows[h].next \in LiveInners(rows)
          /\ rows[rows[h].next].position = rows[h].position - 1
      BY <1>8, <3>1, <3>2 DEF IsPath
    <3>4. rows[h].position \in Nat /\ rows[d].position \in Nat
      BY <2>1 DEF TypeOK, Row, Inners
    <3>5. rows[h].next # h
      BY <3>3, <3>4
    <3>6. T[d].next \in LiveInners(T) /\ T[d].next \in DOMAIN T
      BY <1>6, <3>2, <3>3, <3>5 DEF LiveInners, Inners
    <3>7. QED
      BY <1>4, <2>1, <3>1, <3>2, <3>3, <3>4, <3>6
  <2>3. CASE rows[d].next # h
    <3>1. T[d].next = rows[d].next
      BY <1>5, <2>1, <2>3
    <3>2. rows[d].next \in LiveInners(rows) /\ rows[rows[d].next].position < rows[d].position
      BY <1>8, <2>1, <3>1 DEF LeavesInward
    <3>3. rows[d].next \in LiveInners(T) /\ rows[d].next \in DOMAIN T
      BY <1>6, <2>3, <3>2 DEF LiveInners, Inners
    <3>4. QED
      BY <1>4, <2>1, <3>1, <3>2, <3>3
  <2>4. QED
    BY <2>2, <2>3
<1>9. LeavesInward(T)
  BY <1>8 DEF LeavesInward
<1>10. QED
  BY <1>3, <1>7, <1>9 DEF T

\* What StartDraining sweeps.
Departing(h) == [rows EXCEPT ![h].state = "draining"]
Handed(h) == Rechain(Departing(h), LiveOuter(rows, h), rows[h].next)

LEMMA HandedShape ==
  ASSUME TypeOK, NextHopsAreLive, NEW h \in DOMAIN rows,
         rows[h].state # "draining", LiveOuter(rows, h) # {},
         Apart(rows), IsPath(rows), LeavesInward(rows)
  PROVE  IsTable(Handed(h)) /\ Apart(Handed(h)) /\ LeavesInward(Handed(h))
<1> DEFINE D == Departing(h)
           T == Handed(h)
<1>1. rows[h].next \in NextHop /\ h \in HopId /\ rows[h] \in Row
  BY RowsTable DEF IsTable, Row
<1>2. /\ DOMAIN D = DOMAIN rows /\ D[h] = [rows[h] EXCEPT !.state = "draining"]
      /\ \A g \in DOMAIN rows \ {h} : D[g] = rows[g]
  BY DEF Departing
<1>3. D[h] \in Row
  <2> HIDE DEF D
  <2>1. QED
    BY <1>1, <1>2 DEF Row, State
<1>4. IsTable(D)
  <2>1. D \in [DOMAIN rows -> Row \cup {D[h]}]
    BY <1>2, RowsTable DEF Departing, IsTable
  <2> HIDE DEF D
  <2>2. QED
    BY <1>2, <1>3, <2>1, RowsTable DEF IsTable
<1>5. /\ IsTable(T) /\ DOMAIN T = DOMAIN D
      /\ \A g \in DOMAIN D :
           /\ SameHop(T[g], D[g])
           /\ T[g].next = IF g \in LiveOuter(rows, h) THEN rows[h].next ELSE D[g].next
  <2> HIDE DEF D
  <2>1. QED
    BY <1>1, <1>4, RechainTable DEF Handed, D
<1>6. \A g \in DOMAIN D : T[g].position = D[g].position
  <2>1. \A g \in DOMAIN D : D[g] \in Row
    BY <1>4 DEF IsTable
  <2>2. QED
    BY <1>5, <2>1 DEF Handed, Rechain, Row
<1> HIDE DEF D, T
<1>7. D[h].position = rows[h].position /\ D[h].next = rows[h].next /\ D[h].role = rows[h].role
      /\ D[h].state = "draining"
  BY <1>1, <1>2 DEF Row
<1>8. /\ DOMAIN T = DOMAIN rows
      /\ \A g \in DOMAIN rows :
           /\ T[g].role = rows[g].role /\ T[g].position = rows[g].position
           /\ T[g].state = IF g = h THEN "draining" ELSE rows[g].state
           /\ T[g].next = IF g \in LiveOuter(rows, h) THEN rows[h].next ELSE rows[g].next
  <2>1. DOMAIN T = DOMAIN rows
    BY <1>2, <1>5
  <2>2. ASSUME NEW g \in DOMAIN rows
        PROVE  /\ T[g].role = rows[g].role /\ T[g].position = rows[g].position
               /\ T[g].state = IF g = h THEN "draining" ELSE rows[g].state
               /\ T[g].next = IF g \in LiveOuter(rows, h) THEN rows[h].next ELSE rows[g].next
    <3>1. /\ T[g].role = D[g].role /\ T[g].position = D[g].position /\ T[g].state = D[g].state
          /\ T[g].next = IF g \in LiveOuter(rows, h) THEN rows[h].next ELSE D[g].next
      BY <1>2, <1>5, <1>6 DEF SameHop, SameBox
    <3>2. CASE g = h
      BY <1>7, <3>1, <3>2
    <3>3. CASE g # h
      BY <1>2, <3>1, <3>3
    <3>4. QED
      BY <3>2, <3>3
  <2>3. QED
    BY <2>1, <2>2
<1>9. LiveInners(T) = LiveInners(rows) \ {h}
  BY <1>8 DEF LiveInners, Inners, Rows
<1>10. \A g \in LiveInners(rows) : g \in DOMAIN rows
  BY DEF LiveInners, Inners
<1>11. Apart(T)
  BY <1>8, <1>9, <1>10 DEF Apart
<1>12. h \in LiveInners(rows)
  <2>1. PICK g \in DOMAIN rows : rows[g].next = h
    BY DEF LiveOuter, HangOff
  <2>2. QED
    BY <1>1, <2>1 DEF NextHopsAreLive, Panel, HopId
<1>13. \A g \in DOMAIN rows : rows[g].position \in Nat
  BY DEF TypeOK, Row
<1>14. rows[h].next # Panel =>
         /\ rows[h].next \in LiveInners(rows) \ {h}
         /\ rows[rows[h].next].position < rows[h].position
  BY <1>10, <1>12, <1>13 DEF IsPath, NextHopsAreLive
<1>15. ASSUME NEW d \in Inners(T), T[d].state = "draining", T[d].next # Panel
       PROVE  T[d].next \in LiveInners(T) /\ T[T[d].next].position < T[d].position
  <2>1. d \in Inners(rows) /\ d \in DOMAIN rows
    BY <1>8, <1>15 DEF Inners
  <2>2. CASE d = h
    <3>1. T[d].next = rows[h].next
      BY <1>8, <2>1, <2>2
    <3>2. QED
      BY <1>8, <1>9, <1>10, <1>14, <1>15, <2>2, <3>1
  <2>3. CASE d # h
    <3>1. rows[d].state = "draining"
      BY <1>8, <1>15, <2>1, <2>3
    <3>2. rows[d].next = h <=> d \in LiveOuter(rows, h)
      BY <2>1, <3>1 DEF LiveOuter, HangOff, Visible
    <3>3. CASE rows[d].next = h
      <4>1. T[d].next = rows[h].next
        BY <1>8, <2>1, <3>2, <3>3
      <4>2. rows[h].position < rows[d].position
        BY <1>1, <2>1, <3>1, <3>3 DEF LeavesInward, HopId, Panel
      <4>3. rows[h].next \in LiveInners(rows) \ {h} /\ rows[h].next \in DOMAIN rows
        BY <1>10, <1>14, <1>15, <4>1
      <4>4. rows[rows[h].next].position < rows[d].position
        BY <1>13, <1>14, <1>15, <2>1, <4>1, <4>2, <4>3
      <4>5. QED
        BY <1>8, <1>9, <2>1, <4>1, <4>3, <4>4
    <3>4. CASE rows[d].next # h
      <4>1. T[d].next = rows[d].next
        BY <1>8, <2>1, <3>2, <3>4
      <4>2. rows[d].next \in LiveInners(rows) /\ rows[rows[d].next].position < rows[d].position
        BY <1>15, <2>1, <3>1, <4>1 DEF LeavesInward
      <4>3. QED
        BY <1>8, <1>9, <1>10, <2>1, <3>4, <4>1, <4>2
    <3>5. QED
      BY <3>3, <3>4
  <2>4. QED
    BY <2>2, <2>3
<1>16. LeavesInward(T)
  BY <1>15 DEF LeavesInward
<1>17. QED
  BY <1>5, <1>11, <1>16 DEF T

\* Taking a departing row out leaves the others where they are.
LEMMA GoneShape ==
  ASSUME TypeOK, NEW h \in DOMAIN rows, rows[h].state = "draining",
         Apart(rows), LeavesInward(rows)
  PROVE  LET gone == Without(rows, h)
         IN  /\ IsTable(gone) /\ Apart(gone) /\ LeavesInward(gone)
             /\ LiveInners(gone) = LiveInners(rows)
             /\ IsPath(rows) => IsPath(gone)
<1> DEFINE gone == Without(rows, h)
<1>1. /\ IsTable(gone) /\ DOMAIN gone = DOMAIN rows \ {h}
      /\ \A g \in DOMAIN rows \ {h} : gone[g] = rows[g]
  BY RowsTable, WithoutTable
<1> HIDE DEF gone
<1>2. LiveInners(gone) = LiveInners(rows)
  BY <1>1 DEF LiveInners, Inners, Rows
<1>3. \A g \in LiveInners(rows) : g \in DOMAIN gone /\ gone[g] = rows[g]
  BY <1>1, <1>2 DEF LiveInners, Inners
<1>4. Apart(gone)
  BY <1>2, <1>3 DEF Apart
<1>5. \A d \in Inners(gone) : d \in Inners(rows) /\ gone[d] = rows[d]
  BY <1>1 DEF Inners
<1>6. LeavesInward(gone)
  BY <1>2, <1>3, <1>5 DEF LeavesInward
<1>7. ASSUME IsPath(rows)
      PROVE  IsPath(gone)
  <2>1. {gone[g].position : g \in LiveInners(gone)} = {rows[g].position : g \in LiveInners(rows)}
    BY <1>2, <1>3
  <2>2. QED
    BY <1>2, <1>3, <1>7, <2>1 DEF IsPath
<1>8. QED
  BY <1>1, <1>2, <1>4, <1>6, <1>7 DEF gone

\* What Join sweeps.
Admitted(h, a) ==
  [rows EXCEPT ![h].state = "joined", ![h].addr = a, ![h].secret = @ + 1, ![h].token = FALSE]

LEMMA AdmittedRows ==
  ASSUME TypeOK, NEW h \in DOMAIN rows, rows[h].state = "pending", NEW a \in Addr
  PROVE  LET T == Admitted(h, a)
         IN  /\ IsTable(T) /\ DOMAIN T = DOMAIN rows
             /\ \A g \in DOMAIN rows : SameSpot(rows[g], T[g])
             /\ \A g \in DOMAIN rows \ {h} : T[g] = rows[g]
<1> DEFINE k == rows[h].secret + 1
           new == [rows[h] EXCEPT !.state = "joined", !.addr = a, !.secret = k, !.token = FALSE]
           T == Admitted(h, a)
<1>1. IsTable(rows) /\ rows[h] \in Row
  BY RowsTable DEF IsTable
<1>2. k \in Nat
  BY <1>1 DEF Row
<1>3. T = [rows EXCEPT ![h] = new]
  BY DEF Admitted
<1> HIDE DEF k
<1>4. new \in Row /\ SameSpot(rows[h], new)
  BY <1>1, <1>2 DEF Row, State, SameSpot
<1> HIDE DEF new, T
<1>5. /\ IsTable(T) /\ DOMAIN T = DOMAIN rows /\ T[h] = new
      /\ \A g \in DOMAIN rows \ {h} : T[g] = rows[g]
  BY <1>1, <1>3, <1>4 DEF IsTable
<1>6. \A g \in DOMAIN rows : SameSpot(rows[g], T[g])
  BY <1>4, <1>5 DEF SameSpot
<1>7. QED
  BY <1>5, <1>6 DEF T

-----------------------------------------------------------------------------
(* The shape of the chain is kept. *)

PathInv == Apart(rows) /\ IsPath(rows) /\ LeavesInward(rows)

\* After the sweep of a table where the fronts stand apart and what departs
\* leads inward, the chain has its shape.
LEMMA SweptShape ==
  ASSUME NEW T, IsTable(T), Apart(T), LeavesInward(T), rows' = Reconcile(T)
  PROVE  PathInv'
BY ReconciledPath, ReconciledInward DEF PathInv

\* Where every row stays where it is, so does the shape.
LEMMA ShapeKept ==
  ASSUME PathInv, DOMAIN rows' = DOMAIN rows, \A g \in DOMAIN rows : SameSpot(rows[g], rows'[g])
  PROVE  PathInv'
BY SameShape DEF PathInv

LEMMA PathStep ==
  ASSUME IInv, PathInv, [Next]_vars \/ Heard
  PROVE  PathInv'
<1>1. /\ TypeOK /\ ConfirmedRevisionsExist /\ NextHopsAreLive
      /\ Apart(rows) /\ IsPath(rows) /\ LeavesInward(rows)
  BY DEF IInv, PathInv
<1>2. ASSUME NEW n \in Name, NEW r \in Role, NEW a \in Addr, NEW t \in Target \cup {NoTarget},
             NEW p \in 0..MaxHops, Add(n, r, a, t, p)
      PROVE  PathInv'
  BY <1>1, <1>2, WidenedRows, WidenedShape, SweptShape
<1>3. ASSUME NEW h \in HopId, NEW force \in BOOLEAN, NEW skipDrain \in BOOLEAN,
             DeleteNow(h, force, skipDrain)
      PROVE  PathInv'
  <2>1. h \in DOMAIN rows /\ rows' = Reconcile(Rehung(h))
    BY <1>3 DEF DeleteNow, Rehung
  <2>2. QED
    BY <1>1, <2>1, RehungShape, SweptShape
<1>4. ASSUME NEW h \in HopId, NEW force \in BOOLEAN, StartDraining(h, force)
      PROVE  PathInv'
  <2> DEFINE R == Reconcile(Handed(h))
  <2>1. /\ h \in DOMAIN rows /\ rows[h].state # "draining" /\ LiveOuter(rows, h) # {}
        /\ rows' = [R EXCEPT ![h].drainRevision = revision + 1,
                             ![h].due = FALSE,
                             ![h].drainOuter = {rows[g].name : g \in LiveOuter(rows, h)},
                             ![h].former = LiveOuter(rows, h)]
    BY <1>4 DEF StartDraining, NotDraining, Handed, Departing
  <2>2. IsTable(Handed(h)) /\ Apart(Handed(h)) /\ LeavesInward(Handed(h))
    BY <1>1, <2>1, HandedShape
  <2>3. /\ IsTable(R) /\ Apart(R) /\ IsPath(R) /\ LeavesInward(R)
        /\ \A g \in DOMAIN R : R[g] \in Row
    BY <2>2, ReconcileTable, ReconciledPath, ReconciledInward DEF IsTable
  <2> HIDE DEF R
  <2>4. /\ DOMAIN rows' = DOMAIN R
        /\ \A g \in DOMAIN R : SameSpot(R[g], rows'[g])
    BY <2>1, <2>3 DEF Row, SameSpot
  <2>5. QED
    BY <2>3, <2>4, SameShape DEF PathInv
<1>5. ASSUME SamePlace, \A g \in DOMAIN rows : rows'[g].state = "draining" <=> rows[g].state = "draining"
      PROVE  PathInv'
  BY <1>5, ShapeKept DEF SamePlace, SameSpot
<1>6. ASSUME NEW h \in HopId, NEW n \in Name, NEW a \in Addr,
             NEW t \in Target \cup {NoTarget}, Update(h, n, a, t)
      PROVE  PathInv'
  BY <1>1, <1>5, <1>6, UpdateRows DEF SamePlace
<1>7. ASSUME NEW h \in HopId, SetActive(h)
      PROVE  PathInv'
  BY <1>1, <1>5, <1>7, SetActiveRows
<1>8. CASE ClearActive
  BY <1>1, <1>5, <1>8, ClearActiveRows
<1>9. ASSUME NEW h \in HopId, ReissueToken(h) \/ TokenExpires(h) \/ DrainDeadline(h)
      PROVE  PathInv'
  <2>1. /\ SamePlace
        /\ \A g \in DOMAIN rows \ {h} : rows'[g] = rows[g]
        /\ rows'[h].state = "draining" <=> rows[h].state = "draining"
    BY <1>1, <1>9, OneFieldRows
  <2>2. QED
    BY <1>5, <2>1
<1>10. ASSUME NEW h \in HopId, NEW a \in Addr, Join(h, a)
       PROVE  PathInv'
  <2>1. h \in DOMAIN rows /\ rows[h].state = "pending" /\ rows' = Reconcile(Admitted(h, a))
    BY <1>10 DEF Join, Admitted
  <2>2. /\ IsTable(Admitted(h, a)) /\ DOMAIN Admitted(h, a) = DOMAIN rows
        /\ \A g \in DOMAIN rows : SameSpot(rows[g], Admitted(h, a)[g])
    BY <1>1, <2>1, AdmittedRows
  <2>3. Apart(Admitted(h, a)) /\ LeavesInward(Admitted(h, a))
    BY <1>1, <2>2, SameShape
  <2>4. QED
    BY <2>1, <2>2, <2>3, SweptShape
<1>11. ASSUME NEW h \in HopId, NEW seen \in Nat, NEW acks \in SUBSET (Name \X Nat),
              RecordSeen(h, seen, acks)
       PROVE  PathInv'
  <2>1. /\ DOMAIN rows' = DOMAIN rows
        /\ \A g \in DOMAIN rows :
             /\ rows'[g].next = rows[g].next /\ rows'[g].role = rows[g].role
             /\ rows'[g].position = rows[g].position /\ rows'[g].state = rows[g].state
    BY <1>1, <1>11, RecordSeenRows
  <2>2. QED
    BY <2>1, ShapeKept DEF SameSpot
<1>12. ASSUME NEW h \in HopId, FinishDraining(h)
       PROVE  PathInv'
  <2>1. h \in DOMAIN rows /\ rows[h].state = "draining" /\ rows' = Reconcile(Without(rows, h))
    BY <1>12 DEF FinishDraining, Rows
  <2>2. QED
    BY <1>1, <2>1, GoneShape, SweptShape
<1>13. ASSUME rows' = rows
       PROVE  PathInv'
  BY <1>13, ShapeKept DEF SameSpot
<1>14. CASE PanelRestart
  <2>1. CASE \A g \in DOMAIN rows' : rows'[g].role = "edge"
    <3>1. LiveInners(rows') = {} /\ Inners(rows') = {}
      BY <2>1 DEF LiveInners, Inners
    <3>2. 0..(0 - 1) = {}
      OBVIOUS
    <3>3. QED
      BY <3>1, <3>2, FS_EmptySet DEF PathInv, Apart, IsPath, LeavesInward
  <2>2. QED
    BY <1>1, <1>13, <1>14, <2>1, RestartRows
<1>15. CASE SweepStep
  BY <1>1, <1>12, <1>13, <1>15 DEF SweepStep, TypeOK
<1>16. CASE SweepTick \/ (\E p \in Watched : MonReport(p)) \/ UNCHANGED vars
  BY <1>13, <1>16 DEF SweepTick, MonReport, vars
<1>17. CASE \E p \in Ports : PortsChanged(p)
  BY <1>13, <1>17 DEF PortsChanged
<1>18. QED
  BY <1>1, <1>2, <1>3, <1>4, <1>6, <1>7, <1>8, <1>9, <1>10, <1>11, <1>14, <1>15, <1>16, <1>17,
     PollsTyped DEF Next, Owner, Boxes, Clock, Poll, Heard

LEMMA PathInit == Init => PathInv
<1> SUFFICES ASSUME Init PROVE PathInv
  OBVIOUS
<1>1. LiveInners(rows) = {} /\ Inners(rows) = {}
  BY DEF Init, LiveInners, Inners
<1>2. 0..(0 - 1) = {}
  OBVIOUS
<1>3. QED
  BY <1>1, <1>2, FS_EmptySet DEF PathInv, Apart, IsPath, LeavesInward

\* The chain has its shape throughout.
THEOREM ShapeInvariance == Spec => [](IInv /\ PathInv)
<1>1. IInv /\ PathInv /\ [Next]_vars => PathInv'
  BY PathStep
<1>2. QED
  BY <1>1, PathInit, Invariance, PTL DEF Spec

\* The live inner fronts are one gapless path, whatever was inserted, taken
\* out or left departing beside them.
THEOREM PathIsOne == Spec => []OnePath
<1>1. PathInv => OnePath
  BY DEF PathInv, IsPath, OnePath
<1>2. QED
  BY <1>1, ShapeInvariance, PTL

\* In such a chain every next hop is listed before the rows that dial it.
LEMMA InwardShape ==
  ASSUME IInv, PathInv
  PROVE  NextHopsLeadInward
<1> SUFFICES ASSUME NEW h \in DOMAIN rows, rows[h].next \in DOMAIN rows
             PROVE  Before(rows, rows[h].next, h)
  BY DEF NextHopsLeadInward
<1>1. /\ IsTable(rows) /\ rows[h] \in Row /\ rows[h].position \in Nat
      /\ rows[h].role \in {"inner", "edge"}
  BY RowsTable DEF IInv, IsTable, Row, Role
<1>2. rows[h].next # Panel
  BY <1>1 DEF IsTable, HopId, Panel
<1>3. rows[h].next \in LiveInners(rows)
  BY <1>2 DEF IInv, NextHopsAreLive
<1>4. rows[rows[h].next].role = "inner"
  BY <1>1, <1>3, LiveRows
<1>5. CASE rows[h].role = "edge"
  BY <1>4, <1>5 DEF Before
<1>6. CASE rows[h].role = "inner"
  <2>1. rows[rows[h].next].position < rows[h].position
    <3>1. CASE rows[h].state = "draining"
      BY <1>2, <1>6, <3>1 DEF PathInv, LeavesInward, Inners
    <3>2. CASE rows[h].state # "draining"
      <4>1. h \in LiveInners(rows)
        BY <1>6, <3>2 DEF LiveInners, Inners, Rows
      <4>2. QED
        BY <1>1, <1>2, <4>1 DEF PathInv, IsPath
    <3>3. QED
      BY <3>1, <3>2
  <2>2. QED
    BY <1>4, <1>6, <2>1 DEF Before
<1>7. QED
  BY <1>1, <1>5, <1>6

\* Every next hop comes before the rows that dial it in the order of the hops:
\* there is no loop, and no way back outward.
THEOREM HopsLeadInward == Spec => []NextHopsLeadInward
<1>1. IInv /\ PathInv => NextHopsLeadInward
  BY InwardShape
<1>2. QED
  BY <1>1, ShapeInvariance, PTL

-----------------------------------------------------------------------------
(* The order of the hops. *)

\* A table's rows have the types Before compares.
LEMMA OrderTypes ==
  ASSUME NEW T, IsTable(T), NEW h \in DOMAIN T
  PROVE  /\ h \in Nat /\ T[h] \in Row /\ T[h].position \in Nat
         /\ T[h].role \in {"inner", "edge"}
BY DEF IsTable, Row, Role, HopId

\* Before is transitive.
LEMMA BeforeTransitive ==
  ASSUME NEW T, IsTable(T), NEW f \in DOMAIN T, NEW g \in DOMAIN T, NEW h \in DOMAIN T,
         Before(T, f, g), Before(T, g, h)
  PROVE  Before(T, f, h)
BY OrderTypes DEF Before

\* The order of two rows depends on nothing but how their positions compare,
\* their roles and which of them is departing.
LEMMA SameOrder ==
  ASSUME NEW T, NEW U, NEW g, NEW h,
         T[g].role = U[g].role, T[h].role = U[h].role,
         T[g].state = "draining" <=> U[g].state = "draining",
         T[h].state = "draining" <=> U[h].state = "draining",
         T[g].role = T[h].role =>
           /\ T[g].position < T[h].position <=> U[g].position < U[h].position
           /\ T[g].position = T[h].position <=> U[g].position = U[h].position
  PROVE  Before(T, g, h) <=> Before(U, g, h)
BY DEF Before

\* Rows keep their places relative to each other.
OrderKept ==
  \A g, h \in DOMAIN rows \cap DOMAIN rows' : Before(rows', g, h) <=> Before(rows, g, h)

\* No row changes its role or whether it is departing.
RolesKept ==
  \A g \in DOMAIN rows \cap DOMAIN rows' :
    /\ rows'[g].role = rows[g].role
    /\ rows'[g].state = "draining" <=> rows[g].state = "draining"

LEMMA PlacesKeepOrder ==
  ASSUME RolesKept,
         \A g \in DOMAIN rows \cap DOMAIN rows' : rows'[g].position = rows[g].position
  PROVE  OrderKept
BY SameOrder DEF OrderKept, RolesKept

\* Add moves every row to where room was made for it: the fronts outward of the
\* new one by one, all others not at all.
LEMMA AddPlaces ==
  ASSUME IInv, PathInv, NEW n \in Name, NEW r \in Role, NEW a \in Addr,
         NEW t \in Target \cup {NoTarget}, NEW p \in 0..MaxHops, Add(n, r, a, t, p),
         NEW h \in DOMAIN rows
  PROVE  rows'[h].position = Shifted(h, r, p)
<1> DEFINE W == Widened(n, r, a, t, p)
           id == created + 1
           live == LiveInners(rows)
           c == Cardinality(live)
<1>1. TypeOK /\ IsTable(rows) /\ Apart(rows) /\ LeavesInward(rows) /\ IsPath(rows)
  BY RowsTable DEF IInv, PathInv
<1>2. /\ rows' = Reconcile(W) /\ IsTable(W)
      /\ DOMAIN W = DOMAIN rows \cup {id} /\ id \notin DOMAIN rows
      /\ \A g \in DOMAIN rows : SameHop(W[g], rows[g]) /\ W[g].position = Shifted(g, r, p)
      /\ W[id] = NewRow(n, r, a, t, p)
  <2>1. TypeOK
    BY <1>1
  <2>2. rows' = Reconcile(W) /\ IsTable(W)
    BY <2>1, WidenedRows
  <2>3. DOMAIN W = DOMAIN rows \cup {id}
    BY <2>1, WidenedRows
  <2>4. id \notin DOMAIN rows
    BY <2>1, WidenedRows
  <2>5. W[id] = NewRow(n, r, a, t, p)
    BY <2>1, WidenedRows
  <2>6. \A g \in DOMAIN rows : SameHop(W[g], rows[g]) /\ W[g].position = Shifted(g, r, p)
    BY <2>1, WidenedRows
  <2>7. QED
    BY <2>2, <2>3, <2>4, <2>5, <2>6
<1>3. Apart(W)
  BY <1>1, WidenedShape
<1>4. W[id].role = r /\ W[id].state = "pending" /\ W[id].position = p
  BY <1>2 DEF NewRow
<1> HIDE DEF W, id, live, c
<1>5. /\ \A g \in DOMAIN rows : W[g].role = rows[g].role /\ W[g].state = rows[g].state
      /\ h \in DOMAIN W /\ W[h].position = Shifted(h, r, p)
      /\ rows[h].role \in {"inner", "edge"}
  BY <1>1, <1>2, OrderTypes DEF SameHop, SameBox
<1>6. CASE rows[h].state = "draining"
  BY <1>2, <1>5, <1>6, ReconciledPlaces
<1>7. CASE rows[h].state # "draining" /\ rows[h].role = "edge"
  BY <1>2, <1>5, <1>7, ReconciledPlaces
<1>8. CASE rows[h].state # "draining" /\ rows[h].role = "inner"
  <2>1. h \in live /\ h \in LiveInners(W) /\ live \subseteq LiveInners(W)
    BY <1>2, <1>5, <1>8 DEF live, LiveInners, Inners, Rows
  <2>2. r = "inner" => id \in LiveInners(W)
    BY <1>2, <1>4 DEF LiveInners, Inners, Rows
  <2>3. c \in Nat /\ {rows[g].position : g \in live} = 0..(c - 1)
    BY <1>1, RowsFinite, FS_CardinalityType DEF IsPath, c, live, LiveInners, Inners
  <2>4. \A k \in 0..(c - 1) : \E g \in live : rows[g].position = k
    BY <2>3
  <2>5. rows[h].position \in 0..(c - 1) /\ p \in Nat
    BY <2>1, <2>3
  <2>6. \A g \in live : g \in DOMAIN rows /\ rows[g].role = "inner"
    BY DEF live, LiveInners, Inners
  <2>7. ASSUME NEW k \in 0..(W[h].position - 1)
        PROVE  \E g \in LiveInners(W) : W[g].position = k
    <3>1. k \in Nat /\ k < Shifted(h, r, p)
      BY <1>5, <1>8, <2>3, <2>5 DEF Shifted
    <3>2. CASE r = "inner" /\ k = p
      BY <1>4, <2>2, <3>2
    <3>3. CASE ~(r = "inner" /\ k >= p)
      <4>1. k \in 0..(c - 1)
        BY <2>3, <2>5, <3>1, <3>3, <1>8 DEF Shifted
      <4>2. PICK g \in live : rows[g].position = k
        BY <2>4, <4>1
      <4>3. Shifted(g, r, p) = k
        BY <3>3, <4>2 DEF Shifted
      <4>4. QED
        BY <1>2, <2>1, <2>6, <4>3
    <3>4. CASE r = "inner" /\ k > p
      <4>1. k - 1 \in 0..(c - 1) /\ k - 1 >= p
        BY <2>3, <2>5, <3>1, <3>4, <1>8 DEF Shifted
      <4>2. PICK g \in live : rows[g].position = k - 1
        BY <2>4, <4>1
      <4>3. Shifted(g, r, p) = k
        BY <2>6, <3>1, <3>4, <4>1, <4>2 DEF Shifted
      <4>4. QED
        BY <1>2, <2>1, <2>6, <4>3
    <3>5. QED
      BY <2>5, <3>1, <3>2, <3>3, <3>4
  <2>8. Cardinality(LiveBefore(W, h)) = W[h].position
    BY <1>2, <1>3, <2>1, <2>7, RankBound
  <2>9. QED
    BY <1>2, <1>5, <2>1, <2>8, ReconciledPlaces
<1>9. QED
  BY <1>5, <1>6, <1>7, <1>8

\* So an insertion never changes the order of the rows there are.
LEMMA AddOrder ==
  ASSUME IInv, PathInv, NEW n \in Name, NEW r \in Role, NEW a \in Addr,
         NEW t \in Target \cup {NoTarget}, NEW p \in 0..MaxHops, Add(n, r, a, t, p)
  PROVE  OrderKept
<1>1. TypeOK /\ IsTable(rows)
  BY RowsTable DEF IInv
<1>2. \A g \in DOMAIN rows : SameHop(rows'[g], rows[g])
  BY <1>1, AddRows
<1>3. \A g \in DOMAIN rows : rows'[g].role = rows[g].role /\ rows'[g].state = rows[g].state
  BY <1>2 DEF SameHop, SameBox
<1>4. ASSUME NEW g \in DOMAIN rows, NEW h \in DOMAIN rows, rows[g].role = rows[h].role
      PROVE  /\ rows'[g].position < rows'[h].position <=> rows[g].position < rows[h].position
             /\ rows'[g].position = rows'[h].position <=> rows[g].position = rows[h].position
  <2>1. rows'[g].position = Shifted(g, r, p) /\ rows'[h].position = Shifted(h, r, p)
    BY AddPlaces
  <2>2. CASE rows[g].role = "inner"
    <3>1. g \in Inners(rows) /\ h \in Inners(rows)
      BY <1>4, <2>2 DEF Inners
    <3>2. /\ Shifted(g, r, p) < Shifted(h, r, p) <=> rows[g].position < rows[h].position
          /\ Shifted(g, r, p) = Shifted(h, r, p) <=> rows[g].position = rows[h].position
      BY <1>1, <3>1, ShiftedOrder
    <3>3. QED
      BY <2>1, <3>2
  <2>3. CASE rows[g].role # "inner"
    BY <1>4, <2>1, <2>3 DEF Shifted
  <2>4. QED
    BY <2>2, <2>3
<1>5. QED
  BY <1>3, <1>4, SameOrder DEF OrderKept

\* Nor does the end of a departure.
LEMMA FinishPlaces ==
  ASSUME IInv, PathInv, NEW h \in HopId, FinishDraining(h), NEW g \in DOMAIN rows'
  PROVE  rows'[g].position = rows[g].position
<1> DEFINE gone == Without(rows, h)
<1>1. h \in DOMAIN rows /\ rows[h].state = "draining" /\ rows' = Reconcile(gone)
  BY DEF FinishDraining, Rows
<1>2. /\ IsTable(gone) /\ Apart(gone) /\ IsPath(gone)
      /\ DOMAIN gone = DOMAIN rows \ {h} /\ \A f \in DOMAIN gone : gone[f] = rows[f]
  BY <1>1, GoneShape, WithoutTable, RowsTable DEF IInv, PathInv
<1> HIDE DEF gone
<1>3. g \in DOMAIN gone /\ gone[g] = rows[g] /\ rows[g].role \in {"inner", "edge"}
  BY <1>1, <1>2, ReconcileTable, OrderTypes
<1>4. CASE gone[g].state = "draining"
  BY <1>1, <1>2, <1>3, <1>4, ReconciledPlaces
<1>5. CASE gone[g].state # "draining" /\ gone[g].role = "edge"
  BY <1>1, <1>2, <1>3, <1>5, ReconciledPlaces
<1>6. CASE gone[g].state # "draining" /\ gone[g].role = "inner"
  <2>1. g \in LiveInners(gone)
    BY <1>3, <1>6 DEF LiveInners, Inners, Rows
  <2>2. QED
    BY <1>1, <1>2, <1>3, <2>1, PathRank, ReconciledPlaces
<1>7. QED
  BY <1>3, <1>4, <1>5, <1>6

-----------------------------------------------------------------------------
(* Secrets. *)

\* One step of the registry, as NewSecretMovesRevision speaks of it.
NothingNewToAdmit ==
  \A h \in Inners(rows) \cap DOMAIN rows' :
    Visible(rows, h) /\ Visible(rows', h) =>
      LET known == Outward(rows, h)
      IN  \A g \in Outward(rows', h) :
            rows'[g].secret # 0 => g \in known /\ rows[g].secret = rows'[g].secret

\* A step that gives nobody a secret, and nobody another place, is of that kind.
LEMMA NobodyNew ==
  ASSUME RolesKept, OrderKept,
         \A g \in DOMAIN rows' :
           rows'[g].secret # 0 => g \in DOMAIN rows /\ rows[g].secret = rows'[g].secret
  PROVE  NothingNewToAdmit
<1> SUFFICES ASSUME NEW h \in Inners(rows) \cap DOMAIN rows', NEW g \in Outward(rows', h),
                    rows'[g].secret # 0
             PROVE  g \in Outward(rows, h) /\ rows[g].secret = rows'[g].secret
  BY DEF NothingNewToAdmit
<1>1. h \in DOMAIN rows /\ rows[h].role = "inner" /\ rows'[h].role = "inner"
  BY DEF Inners, RolesKept
<1>2. g \in DOMAIN rows' /\ Before(rows', h, g)
  BY <1>1 DEF Outward
<1>3. g \in DOMAIN rows /\ rows[g].secret = rows'[g].secret
  BY <1>2
<1>4. Before(rows, h, g) /\ Visible(rows, g)
  BY <1>1, <1>2, <1>3 DEF OrderKept, Visible
<1>5. QED
  BY <1>1, <1>3, <1>4 DEF Outward

LEMMA SecretStep ==
  ASSUME IInv, PathInv, [Next]_vars, revision' = revision
  PROVE  NothingNewToAdmit
<1>1. TypeOK /\ ConfirmedRevisionsExist /\ revision \in Nat /\ ~Bump
  BY DEF IInv, TypeOK, Bump
<1>2. ASSUME NEW n \in Name, NEW r \in Role, NEW a \in Addr, NEW t \in Target \cup {NoTarget},
             NEW p \in 0..MaxHops, Add(n, r, a, t, p)
      PROVE  NothingNewToAdmit
  <2>1. /\ DOMAIN rows' = DOMAIN rows \cup {created + 1}
        /\ rows'[created + 1].secret = 0
        /\ \A g \in DOMAIN rows : SameHop(rows'[g], rows[g])
    BY <1>1, <1>2, AddRows
  <2>2. RolesKept
    BY <2>1 DEF RolesKept, SameHop, SameBox
  <2>3. OrderKept
    BY <1>2, AddOrder
  <2>4. \A g \in DOMAIN rows' :
          rows'[g].secret # 0 => g \in DOMAIN rows /\ rows[g].secret = rows'[g].secret
    BY <2>1 DEF SameHop, SameBox
  <2>5. QED
    BY <2>2, <2>3, <2>4, NobodyNew
<1>3. ASSUME NEW h \in HopId, ReissueToken(h) \/ TokenExpires(h) \/ DrainDeadline(h)
      PROVE  NothingNewToAdmit
  <2>1. /\ SamePlace
        /\ \A g \in DOMAIN rows \ {h} : rows'[g] = rows[g]
        /\ rows'[h].state = "draining" <=> rows[h].state = "draining"
    BY <1>1, <1>3, OneFieldRows
  <2>2. RolesKept
    BY <2>1 DEF RolesKept, SamePlace
  <2>3. OrderKept
    BY <2>1, <2>2, PlacesKeepOrder DEF SamePlace
  <2>4. QED
    BY <2>1, <2>2, <2>3, NobodyNew DEF SamePlace
<1>4. ASSUME NEW h \in HopId, NEW seen \in Nat, NEW acks \in SUBSET (Name \X Nat),
             RecordSeen(h, seen, acks)
      PROVE  NothingNewToAdmit
  <2>1. /\ DOMAIN rows' = DOMAIN rows
        /\ \A g \in DOMAIN rows :
             /\ Entry(rows', g) = Entry(rows, g)
             /\ rows'[g].position = rows[g].position /\ rows'[g].role = rows[g].role
             /\ rows'[g].state = rows[g].state
    BY <1>1, <1>4, RecordSeenRows
  <2>2. RolesKept
    BY <2>1 DEF RolesKept
  <2>3. OrderKept
    BY <2>1, <2>2, PlacesKeepOrder
  <2>4. \A g \in DOMAIN rows : rows'[g].secret = rows[g].secret
    BY <2>1 DEF Entry
  <2>5. QED
    BY <2>1, <2>2, <2>3, <2>4, NobodyNew
<1>5. ASSUME NEW h \in HopId, FinishDraining(h)
      PROVE  NothingNewToAdmit
  <2>1. /\ DOMAIN rows' = DOMAIN rows \ {h}
        /\ \A g \in DOMAIN rows' : SameHop(rows'[g], rows[g])
    BY <1>1, <1>5, FinishRows
  <2>2. RolesKept
    BY <2>1 DEF RolesKept, SameHop, SameBox
  <2>3. OrderKept
    BY <1>5, <2>1, <2>2, FinishPlaces, PlacesKeepOrder
  <2>4. \A g \in DOMAIN rows' : rows'[g].secret = rows[g].secret /\ g \in DOMAIN rows
    BY <2>1 DEF SameHop, SameBox
  <2>5. QED
    BY <2>2, <2>3, <2>4, NobodyNew
<1>6. ASSUME rows' = rows
      PROVE  NothingNewToAdmit
  <2>1. RolesKept /\ OrderKept
    BY <1>6 DEF RolesKept, OrderKept
  <2>2. QED
    BY <1>6, <2>1, NobodyNew
<1>7. CASE Owner
  <2>1. CASE \E p \in Ports : PortsChanged(p)
    BY <1>6, <2>1 DEF PortsChanged
  <2>2. \A h \in HopId, force \in BOOLEAN : ~StartDraining(h, force)
    BY <1>1 DEF StartDraining
  <2>3. QED
    BY <1>1, <1>2, <1>3, <1>7, <2>1, <2>2 DEF Owner, Update, DeleteNow, SetActive, ClearActive
<1>8. CASE Boxes
  <2>1. CASE \E p \in Watched : MonReport(p)
    BY <1>6, <2>1 DEF MonReport
  <2>2. QED
    BY <1>1, <1>4, <1>8, <2>1, PollsTyped DEF Boxes, Poll, Join
<1>9. CASE Clock
  <2>1. CASE SweepTick
    BY <1>6, <2>1 DEF SweepTick
  <2>2. CASE SweepStep
    BY <1>1, <1>5, <1>6, <2>2 DEF SweepStep, TypeOK
  <2>3. CASE PanelRestart
    BY <1>1, <1>6, <2>3 DEF PanelRestart
  <2>4. QED
    BY <1>3, <1>9, <2>1, <2>2, <2>3 DEF Clock
<1>10. QED
  BY <1>6, <1>7, <1>8, <1>9 DEF Next, vars

\* No box has to admit a secret it was not told of by a new revision: what is
\* written without one leaves every hops[] without a new key in it.
THEOREM SecretsMoveRevision == Spec => NewSecretMovesRevision
<1>1. IInv /\ PathInv /\ [Next]_vars =>
        [revision' = revision => NothingNewToAdmit]_vars
  BY SecretStep
<1>2. NewSecretMovesRevision <=> [][revision' = revision => NothingNewToAdmit]_vars
  BY DEF NewSecretMovesRevision, NothingNewToAdmit
<1>3. QED
  BY <1>1, <1>2, ShapeInvariance, PTL DEF Spec

-----------------------------------------------------------------------------
(* The hop a document says to dial. *)

\* The step Dialled's walk takes at i.
WalkStep(T, f, i) ==
  IF i = Panel \/ i \notin DOMAIN T THEN Panel
  ELSE IF Visible(T, i) /\ T[i].state # "draining" THEN i
  ELSE f[T[i].next]

\* The fronts a walk may end at, and the outermost of them not beyond i.
VisibleLive(T) == {g \in LiveInners(T) : Visible(T, g)}
Reached(T, i) ==
  IF i \in LiveInners(T)
    THEN Outermost(T, {g \in VisibleLive(T) : T[g].position <= T[i].position})
    ELSE Panel

\* Where walks are known to lead: a path to walk along and next hops on it.
Walkable(T) ==
  /\ IsTable(T) /\ Apart(T) /\ IsPath(T)
  /\ \A h \in DOMAIN T : T[h].next = Panel \/ T[h].next \in LiveInners(T)

\* The walk without recursion: the first step is taken, the rest is Reached.
Walk(T) ==
  [i \in NextHop |->
     IF i = Panel \/ i \notin DOMAIN T THEN Panel
     ELSE IF Visible(T, i) /\ T[i].state # "draining" THEN i
     ELSE Reached(T, T[i].next)]

\* Where a live front's walk ends: at itself if it is visible, else where the
\* walk of the front inward of it ends.
LEMMA ReachedStep ==
  ASSUME NEW T, Walkable(T), NEW i \in LiveInners(T)
  PROVE  Reached(T, i) = IF Visible(T, i) THEN i ELSE Reached(T, T[i].next)
<1> DEFINE S(k) == {g \in VisibleLive(T) : T[g].position <= k}
<1>1. IsTable(T) /\ Apart(T) /\ IsPath(T)
  BY DEF Walkable
<1>2. \A g \in LiveInners(T) : T[g].position \in Nat
  BY <1>1, LiveRows
<1>3. \A k : S(k) \in SUBSET LiveInners(T)
  BY DEF VisibleLive
<1>4. Reached(T, i) = Outermost(T, S(T[i].position))
  BY DEF Reached
<1>5. CASE Visible(T, i)
  <2>1. i \in S(T[i].position)
    BY <1>2, <1>5 DEF VisibleLive
  <2>2. \A g \in S(T[i].position) : g = i \/ PathBefore(T, g, i)
    BY <1>1, <1>2 DEF VisibleLive, Apart, PathBefore
  <2> HIDE DEF S
  <2>3. QED
    BY <1>1, <1>3, <1>4, <1>5, <2>1, <2>2, OutermostIs
<1>6. CASE ~Visible(T, i) /\ T[i].position = 0
  <2>1. S(0) = {}
    <3>1. \A g \in LiveInners(T) : T[g].position <= 0 => g = i
      BY <1>1, <1>2, <1>6 DEF Apart
    <3>2. QED
      BY <1>6, <3>1 DEF VisibleLive
  <2>2. T[i].next = Panel
    BY <1>1, <1>6 DEF IsPath
  <2>3. Panel \notin LiveInners(T)
    BY <1>1, LiveRows DEF Panel, HopId
  <2> HIDE DEF S
  <2>4. QED
    BY <1>1, <1>3, <1>4, <1>6, <2>1, <2>2, <2>3, OutermostIs DEF Reached
<1>7. CASE ~Visible(T, i) /\ T[i].position # 0
  <2>1. T[i].next \in LiveInners(T) /\ T[T[i].next].position = T[i].position - 1
    BY <1>1, <1>7 DEF IsPath
  <2>2. S(T[i].position) = S(T[i].position - 1)
    <3>1. \A g \in VisibleLive(T) : g \in LiveInners(T) /\ g # i
      BY <1>7 DEF VisibleLive
    <3>2. \A g \in VisibleLive(T) : T[g].position # T[i].position
      BY <1>1, <3>1 DEF Apart
    <3>3. \A g \in VisibleLive(T) :
            T[g].position <= T[i].position <=> T[g].position <= T[i].position - 1
      BY <1>2, <3>1, <3>2
    <3>4. QED
      BY <3>3
  <2>3. QED
    BY <1>4, <1>7, <2>1, <2>2 DEF Reached
<1>8. QED
  BY <1>5, <1>6, <1>7

\* The walk without recursion takes the steps of the recursive one.
LEMMA WalkEquation ==
  ASSUME NEW T, Walkable(T)
  PROVE  /\ Walk(T) = [i \in NextHop |-> WalkStep(T, Walk(T), i)]
         /\ \A h \in DOMAIN T : Walk(T)[T[h].next] = Reached(T, T[h].next)
<1>1. IsTable(T)
  BY DEF Walkable
<1>2. \A i \in LiveInners(T) : i \in NextHop /\ i # Panel /\ i \in DOMAIN T
                               /\ T[i].state # "draining"
  BY <1>1, LiveRows DEF NextHop, HopId, Panel
<1>3. Panel \in NextHop /\ Walk(T)[Panel] = Panel /\ Reached(T, Panel) = Panel
  BY <1>2 DEF Walk, Reached, NextHop
<1>4. ASSUME NEW i \in LiveInners(T)
      PROVE  Walk(T)[i] = Reached(T, i)
  BY <1>2, ReachedStep DEF Walk
<1>5. \A h \in DOMAIN T : Walk(T)[T[h].next] = Reached(T, T[h].next)
  BY <1>3, <1>4 DEF Walkable
<1>6. \A i \in NextHop : Walk(T)[i] = WalkStep(T, Walk(T), i)
  BY <1>5 DEF Walk, WalkStep
<1>7. QED
  BY <1>5, <1>6 DEF Walk

\* There is only one such walk: where two differ, take the innermost front they
\* differ at.
LEMMA WalkUnique ==
  ASSUME NEW T, Walkable(T), NEW f, f = [i \in NextHop |-> WalkStep(T, f, i)]
  PROVE  \A h \in DOMAIN T : f[T[h].next] = Walk(T)[T[h].next]
<1> DEFINE w == Walk(T)
           differ == {i \in LiveInners(T) : f[i] # w[i]}
           B == {T[i].position : i \in differ}
<1>1. IsTable(T) /\ IsPath(T) /\ w = [i \in NextHop |-> WalkStep(T, w, i)]
  BY WalkEquation DEF Walkable
<1>2. \A i \in LiveInners(T) : /\ i \in NextHop /\ i # Panel /\ i \in DOMAIN T
                               /\ T[i].state # "draining" /\ T[i].position \in Nat
  BY <1>1, LiveRows DEF NextHop, HopId, Panel
<1> HIDE DEF w
<1>3. Panel \in NextHop /\ f[Panel] = Panel /\ w[Panel] = Panel
  BY <1>1 DEF WalkStep, NextHop
<1>4. ASSUME B # {}
      PROVE  FALSE
  <2>1. B \subseteq Nat
    BY <1>2
  <2>2. \E k \in B : \A j \in B : ~(<<j, k>> \in OpToRel(<, Nat))
    <3> HIDE DEF B
    <3>1. QED
      BY <1>4, <2>1, NatLessThanWellFounded, WFMin
  <2>3. PICK k \in B : \A j \in B : ~(j < k)
    <3> HIDE DEF B
    <3>1. QED
      BY <2>1, <2>2 DEF OpToRel
  <2>4. PICK i \in differ : T[i].position = k
    BY <2>3
  <2>5. i \in LiveInners(T) /\ f[i] # w[i]
    BY <2>4
  <2>6. f[i] = WalkStep(T, f, i) /\ w[i] = WalkStep(T, w, i)
    BY <1>1, <1>2, <2>5
  <2>7. f[T[i].next] # w[T[i].next]
    BY <1>2, <2>5, <2>6 DEF WalkStep
  <2>8. T[i].next \in LiveInners(T) /\ T[T[i].next].position = k - 1 /\ k \in Nat
    BY <1>1, <1>2, <1>3, <2>4, <2>5, <2>7 DEF IsPath
  <2>9. k - 1 \in B
    BY <2>7, <2>8
  <2>10. QED
    BY <2>3, <2>8, <2>9
<1>5. \A i \in LiveInners(T) : f[i] = w[i]
  BY <1>4
<1>6. QED
  BY <1>3, <1>5 DEF Walkable, w

\* So a document's nextHop is the outermost visible front inward of its hop.
LEMMA DialledIs ==
  ASSUME NEW T, Walkable(T), NEW h \in DOMAIN T
  PROVE  Dialled(T, h) = Reached(T, T[h].next)
<1> DEFINE IsWalk(f) ==
             f = [i \in NextHop |->
                    IF i = Panel \/ i \notin DOMAIN T THEN Panel
                    ELSE IF Visible(T, i) /\ T[i].state # "draining" THEN i
                    ELSE f[T[i].next]]
           walk == CHOOSE f : IsWalk(f)
<1>1. \A f : IsWalk(f) <=> f = [i \in NextHop |-> WalkStep(T, f, i)]
  BY DEF WalkStep
<1>2. IsWalk(Walk(T))
  BY <1>1, WalkEquation
<1>3. IsWalk(walk)
  <2> HIDE DEF IsWalk
  <2>1. QED
    BY <1>2
<1>4. Dialled(T, h) = walk[T[h].next]
  BY DEF Dialled
<1>5. walk = [i \in NextHop |-> WalkStep(T, walk, i)]
  <2> HIDE DEF IsWalk, walk
  <2>1. QED
    BY <1>1, <1>3
<1> HIDE DEF walk
<1>6. QED
  BY <1>4, <1>5, WalkUnique, WalkEquation

\* What is dialled is a visible live front, no further out than the next hop.
LEMMA ReachedIn ==
  ASSUME NEW T, NEW i
  PROVE  \/ Reached(T, i) = Panel
         \/ /\ i \in LiveInners(T) /\ Reached(T, i) \in VisibleLive(T)
            /\ T[Reached(T, i)].position <= T[i].position
BY OutermostIn DEF Reached

LEMMA RowsWalkable ==
  ASSUME IInv, PathInv
  PROVE  Walkable(rows)
BY RowsTable DEF IInv, PathInv, Walkable, NextHopsAreLive

LEMMA CallerKnown ==
  ASSUME IInv, PathInv
  PROVE  NextHopKnowsCaller
<1> SUFFICES ASSUME NEW h \in DOMAIN rows, Visible(rows, h), Dialled(rows, h) # Panel
             PROVE  {h} \cup Outward(rows, h) \subseteq Outward(rows, Dialled(rows, h))
  BY DEF NextHopKnowsCaller
<1> DEFINE n == rows[h].next
           d == Dialled(rows, h)
<1>1. IsTable(rows) /\ Walkable(rows) /\ NextHopsLeadInward
  BY RowsTable, RowsWalkable, InwardShape DEF IInv
<1>2. d = Reached(rows, n)
  BY <1>1, DialledIs
<1> HIDE DEF d
<1>3. /\ n \in LiveInners(rows) /\ d \in VisibleLive(rows)
      /\ rows[d].position <= rows[n].position
  BY <1>2, ReachedIn DEF d
<1>4. /\ n \in DOMAIN rows /\ d \in DOMAIN rows
      /\ rows[n].role = "inner" /\ rows[d].role = "inner"
      /\ rows[n].state # "draining" /\ rows[d].state # "draining"
  BY <1>1, <1>3, LiveRows DEF VisibleLive
<1>5. Before(rows, n, h)
  BY <1>1, <1>4 DEF NextHopsLeadInward
<1>6. Before(rows, d, h)
  <2>1. CASE rows[d].position = rows[n].position
    <3>1. d = n
      BY <1>1, <1>3, <2>1 DEF VisibleLive, Walkable, Apart
    <3>2. QED
      BY <1>5, <3>1
  <2>2. CASE rows[d].position < rows[n].position
    <3>1. Before(rows, d, n)
      BY <1>4, <2>2 DEF Before
    <3>2. QED
      BY <1>1, <1>4, <1>5, <3>1, BeforeTransitive
  <2>3. QED
    BY <1>1, <1>3, <1>4, <2>1, <2>2, OrderTypes
<1>7. \A g \in Outward(rows, h) :
        g \in DOMAIN rows /\ Visible(rows, g) /\ Before(rows, h, g)
  BY DEF Outward
<1>8. \A g \in Outward(rows, h) : Before(rows, d, g)
  BY <1>1, <1>4, <1>6, <1>7, BeforeTransitive
<1>9. QED
  BY <1>4, <1>6, <1>7, <1>8 DEF Outward, d

\* The hop a document says to dial lists its caller and all the caller speaks
\* for, so it can admit the secret it is shown and pass the acks on.
THEOREM CallersKnown == Spec => []NextHopKnowsCaller
<1>1. IInv /\ PathInv => NextHopKnowsCaller
  BY CallerKnown
<1>2. QED
  BY <1>1, ShapeInvariance, PTL

-----------------------------------------------------------------------------
(* Documents. *)

\* In a quiet table a hop that is visible has entered.
LEMMA QuietVisible ==
  ASSUME NEW T, IsTable(T), Quiet(T), NEW h \in DOMAIN T
  PROVE  /\ T[h].state # "draining"
         /\ Visible(T, h) <=> T[h].state \in Entered
BY DEF IsTable, Row, State, Quiet, Visible, Entered

\* Two tables with the same visible hops, in the same order, hanging in the same
\* way: what documents are made of.
Alike(T, U) ==
  /\ Rows(T, Entered) = Rows(U, Entered)
  /\ \A h \in Rows(T, Entered) :
       Entry(T, h) = Entry(U, h) /\ T[h].active = U[h].active
  /\ \A g, h \in Rows(T, Entered) : Before(T, g, h) <=> Before(U, g, h)
  /\ \A h \in Rows(T, Entered) : Dialled(T, h) = Dialled(U, h)

LEMMA SameDocuments ==
  ASSUME NEW T, NEW U, IsTable(T), IsTable(U), Quiet(T), Quiet(U), Alike(T, U), NEW p,
         \A h \in Rows(T, Entered) : Dialled(T, h) # Panel => Dialled(T, h) \in Rows(T, Entered),
         NEW h \in DOMAIN T, Visible(T, h)
  PROVE  Document(U, p, h) = Document(T, p, h)
<1>1. h \in Rows(T, Entered) /\ h \in Rows(U, Entered)
  BY QuietVisible DEF Rows, Alike
<1>2. \A g \in Rows(T, Entered) :
        /\ g \in DOMAIN T /\ g \in DOMAIN U /\ T[g].role = U[g].role /\ T[g].name = U[g].name
        /\ T[g].addr = U[g].addr /\ T[g].active = U[g].active
        /\ Visible(T, g) /\ Visible(U, g)
  BY QuietVisible DEF Rows, Alike, Entry
<1>3. \A g : g \in DOMAIN T /\ Visible(T, g) <=> g \in DOMAIN U /\ Visible(U, g)
  <2>1. \A g : g \in DOMAIN T /\ Visible(T, g) <=> g \in Rows(T, Entered)
    BY QuietVisible DEF Rows
  <2>2. \A g : g \in DOMAIN U /\ Visible(U, g) <=> g \in Rows(U, Entered)
    BY QuietVisible DEF Rows
  <2>3. QED
    BY <2>1, <2>2 DEF Alike
<1>4. \A g : g \in DOMAIN T /\ Visible(T, g) => g \in Rows(T, Entered)
  BY QuietVisible DEF Rows
<1>5. Outward(U, h) = Outward(T, h)
  <2>1. \A g \in Rows(T, Entered) : Before(T, h, g) <=> Before(U, h, g)
    BY <1>1 DEF Alike
  <2>2. QED
    BY <1>1, <1>2, <1>3, <1>4, <2>1 DEF Outward
<1>6. ActiveEdgeName(U) = ActiveEdgeName(T)
  <2> DEFINE A == {g \in Edges(T) : T[g].active /\ Visible(T, g)}
             B == {g \in Edges(U) : U[g].active /\ Visible(U, g)}
  <2>1. A = B
    BY <1>2, <1>3, <1>4 DEF Edges
  <2>2. \A g \in A : g \in Rows(T, Entered)
    BY <1>4 DEF Edges
  <2>3. {T[g].name : g \in A} = {U[g].name : g \in B}
    <3> HIDE DEF A, B
    <3>1. QED
      BY <1>2, <2>1, <2>2
  <2>4. QED
    BY <2>3 DEF ActiveEdgeName
<1>7. {Entry(U, g) : g \in {h} \cup Outward(U, h)} = {Entry(T, g) : g \in {h} \cup Outward(T, h)}
  <2>1. \A g \in {h} \cup Outward(T, h) : g \in Rows(T, Entered)
    BY <1>1, <1>4 DEF Outward
  <2>2. \A g \in {h} \cup Outward(T, h) : Entry(U, g) = Entry(T, g)
    BY <2>1 DEF Alike
  <2>3. QED
    BY <1>5, <2>2
<1>8. Dialled(U, h) = Dialled(T, h)
  BY <1>1 DEF Alike
<1>9. Dialled(T, h) # Panel => T[Dialled(T, h)].addr = U[Dialled(T, h)].addr
  BY <1>1, <1>2
<1>10. Entry(U, h) = Entry(T, h) /\ U[h].role = T[h].role /\ U[h].active = T[h].active
  BY <1>1, <1>2 DEF Alike
<1>11. (IF Dialled(U, h) = Panel THEN {} ELSE {U[Dialled(U, h)].addr})
         = IF Dialled(T, h) = Panel THEN {} ELSE {T[Dialled(T, h)].addr}
  BY <1>8, <1>9
<1>12. (IF U[h].role = "inner" \/ U[h].active THEN ActiveEdgeName(U) ELSE {})
         = IF T[h].role = "inner" \/ T[h].active THEN ActiveEdgeName(T) ELSE {}
  BY <1>6, <1>10
<1>13. QED
  BY <1>7, <1>10, <1>11, <1>12 DEF Document

\* Every live edge hangs off the last front that has entered.
EdgesHang(T) ==
  \A h \in Edges(T) : T[h].state # "draining" => T[h].next = Outermost(T, EnteredInners(T))

\* Who has joined has a secret; only an edge is ever imported.
JoinedKnown(T) ==
  \A h \in DOMAIN T :
    /\ T[h].state = "joined" => T[h].secret # 0
    /\ T[h].state = "legacy" => T[h].role = "edge"

\* A set has the same outermost front in tables that order it alike.
LEMMA SameOutermost ==
  ASSUME NEW T, NEW U, NEW S,
         \A g, h \in S : PathBefore(T, g, h) <=> PathBefore(U, g, h)
  PROVE  Outermost(T, S) = Outermost(U, S)
<1> DEFINE last(V) == {h \in S : \A g \in S : g = h \/ PathBefore(V, g, h)}
<1>1. last(T) = last(U)
  OBVIOUS
<1>2. \A V : Outermost(V, S) = IF last(V) = {} THEN Panel ELSE CHOOSE h \in last(V) : TRUE
  BY DEF Outermost
<1> HIDE DEF last
<1>3. QED
  BY <1>1, <1>2

\* The sweep hangs the edges where they belong.
LEMMA ReconciledHang ==
  ASSUME NEW T, IsTable(T)
  PROVE  EdgesHang(Reconcile(T))
<1> DEFINE R == Reconcile(T)
           E == EnteredInners(T)
<1>1. /\ IsTable(R) /\ DOMAIN R = DOMAIN T /\ LiveInners(R) = LiveInners(T)
      /\ \A h \in DOMAIN T : R[h].role = T[h].role /\ R[h].state = T[h].state
  BY ReconcileTable, ReconcileLive DEF SameHop, SameBox
<1>2. ASSUME NEW g \in LiveInners(T), NEW h \in LiveInners(T)
      PROVE  PathBefore(T, g, h) <=> PathBefore(R, g, h)
  <2> DEFINE i == Cardinality(LiveBefore(T, g))
             j == Cardinality(LiveBefore(T, h))
  <2>1. i \in Nat /\ j \in Nat /\ (i = j => g = h) /\ (PathBefore(T, g, h) <=> i < j)
    BY Ranks
  <2>2. R[g].position = i /\ R[h].position = j /\ g \in Nat /\ h \in Nat
    BY LiveRows, ReconciledPlaces
  <2> HIDE DEF i, j, R
  <2>3. PathBefore(R, g, h) <=> i < j
    BY <2>1, <2>2 DEF PathBefore
  <2>4. QED
    BY <2>1, <2>3
<1>3. EnteredInners(R) = E /\ E \subseteq LiveInners(T)
  BY <1>1 DEF EnteredInners, LiveInners, Inners
<1> HIDE DEF E
<1>4. Outermost(R, E) = Outermost(T, E)
  BY <1>2, <1>3, SameOutermost
<1>5. ASSUME NEW h \in Edges(R), R[h].state # "draining"
      PROVE  R[h].next = Outermost(R, EnteredInners(R))
  <2>1. h \in DOMAIN T /\ T[h].state # "draining" /\ T[h].role = "edge"
    BY <1>1, <1>5 DEF Edges
  <2>2. R[h].next = Outermost(T, E)
    BY <2>1, ReconciledPlaces DEF E
  <2>3. QED
    BY <1>3, <1>4, <2>2
<1>6. QED
  BY <1>5 DEF EdgesHang

\* The fronts in their place that stand inward of h.
Inside(T, h) == {g \in EnteredInners(T) : T[g].position < T[h].position}


\* In a quiet table an edge dials the last front that has entered, and a front
\* the last one of these inward of it.
LEMMA DialledQuiet ==
  ASSUME NEW T, Walkable(T), Quiet(T), EdgesHang(T), NEW h \in Rows(T, Entered)
  PROVE  Dialled(T, h) = IF T[h].role = "edge" THEN Outermost(T, EnteredInners(T))
                         ELSE Outermost(T, Inside(T, h))
<1> DEFINE n == T[h].next
           E == EnteredInners(T)
<1>1. IsTable(T) /\ IsPath(T) /\ Apart(T) /\ h \in DOMAIN T
  BY DEF Walkable, Rows
<1>2. VisibleLive(T) = E /\ E \in SUBSET LiveInners(T)
  <2>1. \A g \in LiveInners(T) : g \in DOMAIN T
    BY DEF LiveInners, Inners
  <2>2. QED
    BY <1>1, <2>1, QuietVisible DEF VisibleLive, EnteredInners
<1>3. Dialled(T, h) = Reached(T, n)
  BY <1>1, DialledIs
<1>4. T[h].role \in {"inner", "edge"} /\ T[h].state # "draining" /\ T[h].position \in Nat
  BY <1>1, OrderTypes, QuietVisible
<1>5. \A g \in LiveInners(T) : T[g].position \in Nat /\ g \in HopId
  BY <1>1, LiveRows
<1>6. CASE T[h].role = "edge"
  <2>1. n = Outermost(T, E)
    BY <1>1, <1>4, <1>6 DEF EdgesHang, Edges
  <2>2. CASE n \in E
    <3>1. n \in LiveInners(T) /\ Visible(T, n)
      BY <1>2, <2>2 DEF VisibleLive
    <3>2. QED
      BY <1>3, <1>6, <2>1, <3>1, ReachedStep
  <2>3. CASE n \notin E
    <3>1. n = Panel
      BY <2>1, <2>3, OutermostIn
    <3>2. Panel \notin LiveInners(T)
      BY <1>5 DEF HopId, Panel
    <3>3. QED
      BY <1>3, <1>6, <2>1, <3>1, <3>2 DEF Reached
  <2>4. QED
    BY <2>2, <2>3
<1>7. CASE T[h].role = "inner"
  <2>1. h \in LiveInners(T)
    BY <1>1, <1>4, <1>7 DEF LiveInners, Inners, Rows
  <2>2. CASE T[h].position = 0
    <3>1. n = Panel /\ Panel \notin LiveInners(T)
      BY <1>1, <1>5, <2>1, <2>2 DEF IsPath, HopId, Panel
    <3>2. Inside(T, h) = {}
      BY <1>2, <1>5, <2>2 DEF Inside
    <3>3. QED
      BY <1>1, <1>3, <1>7, <3>1, <3>2, OutermostIs DEF Reached
  <2>3. CASE T[h].position # 0
    <3>1. n \in LiveInners(T) /\ T[n].position = T[h].position - 1
      BY <1>1, <2>1, <2>3 DEF IsPath
    <3>2. {g \in E : T[g].position <= T[n].position} = Inside(T, h)
      BY <1>2, <1>4, <1>5, <3>1 DEF Inside
    <3>3. QED
      BY <1>2, <1>3, <1>7, <3>1, <3>2 DEF Reached
  <2>4. QED
    BY <2>2, <2>3
<1>8. QED
  BY <1>4, <1>6, <1>7

\* Two quiet tables are alike where the same hops have entered and stand in the
\* same order.
LEMMA QuietAlike ==
  ASSUME NEW T, NEW U, Walkable(T), Walkable(U), Quiet(T), Quiet(U),
         EdgesHang(T), EdgesHang(U), Rows(T, Entered) = Rows(U, Entered),
         \A h \in Rows(T, Entered) : Entry(T, h) = Entry(U, h) /\ T[h].active = U[h].active,
         \A g, h \in Rows(T, Entered) :
           T[g].role = T[h].role =>
             /\ T[g].position < T[h].position <=> U[g].position < U[h].position
             /\ T[g].position = T[h].position <=> U[g].position = U[h].position
  PROVE  Alike(T, U)
<1>1. \A h \in Rows(T, Entered) :
        /\ h \in DOMAIN T /\ h \in DOMAIN U /\ T[h].role = U[h].role /\ T[h].state = U[h].state
  BY DEF Rows, Entry
<1>2. \A g, h \in Rows(T, Entered) : Before(T, g, h) <=> Before(U, g, h)
  BY <1>1, SameOrder
<1>3. EnteredInners(T) = EnteredInners(U) /\ EnteredInners(T) \subseteq Rows(T, Entered)
  <2>1. EnteredInners(T) = {h \in Rows(T, Entered) : T[h].role = "inner"}
    BY DEF EnteredInners, LiveInners, Inners, Rows, Entered
  <2>2. EnteredInners(U) = {h \in Rows(U, Entered) : U[h].role = "inner"}
    BY DEF EnteredInners, LiveInners, Inners, Rows, Entered
  <2>3. QED
    BY <1>1, <2>1, <2>2
<1>4. \A g \in EnteredInners(T) : T[g].role = "inner"
  BY DEF EnteredInners, LiveInners, Inners
<1>5. \A g, h \in EnteredInners(T) : PathBefore(T, g, h) <=> PathBefore(U, g, h)
  BY <1>3, <1>4 DEF PathBefore
<1>6. ASSUME NEW h \in Rows(T, Entered)
      PROVE  Dialled(T, h) = Dialled(U, h)
  <2>1. CASE T[h].role = "edge"
    <3>1. Outermost(T, EnteredInners(T)) = Outermost(U, EnteredInners(T))
      BY <1>5, SameOutermost
    <3>2. Dialled(T, h) = Outermost(T, EnteredInners(T))
      BY <2>1, DialledQuiet
    <3>3. Dialled(U, h) = Outermost(U, EnteredInners(U))
      <4>1. h \in Rows(U, Entered) /\ U[h].role = "edge"
        BY <1>1, <2>1
      <4>2. QED
        BY <4>1, DialledQuiet
    <3>4. QED
      BY <1>3, <3>1, <3>2, <3>3
  <2>2. CASE T[h].role # "edge"
    <3>1. T[h].role = "inner"
      BY <1>1, <2>2, OrderTypes DEF Walkable
    <3>2. Inside(T, h) = Inside(U, h)
      BY <1>3, <1>4, <3>1 DEF Inside
    <3>3. Outermost(T, Inside(T, h)) = Outermost(U, Inside(T, h))
      BY <1>5, SameOutermost DEF Inside
    <3>4. Dialled(T, h) = Outermost(T, Inside(T, h))
      BY <2>2, DialledQuiet
    <3>5. h \in Rows(U, Entered) /\ U[h].role # "edge"
      BY <1>1, <2>2
    <3>6. Dialled(U, h) = Outermost(U, Inside(U, h))
      BY <3>5, DialledQuiet
    <3>7. QED
      BY <3>2, <3>3, <3>4, <3>6
  <2>3. QED
    BY <2>1, <2>2
<1>7. QED
  BY <1>2, <1>6 DEF Alike

-----------------------------------------------------------------------------
(* The edges hang where they belong whenever the table is quiet. *)

HangInv == (Quiet(rows) => EdgesHang(rows)) /\ JoinedKnown(rows)

\* A write that moves nobody and lets nobody in keeps the edges where they are:
\* if it re-opens the invitation of a front that had entered, the table is not
\* quiet until that front is back.
LEMMA HangKept ==
  ASSUME IInv, HangInv, SamePlace,
         \A g \in DOMAIN rows :
           \/ rows'[g].state = rows[g].state
           \/ rows'[g].state = "pending" /\ rows[g].state # "draining"
  PROVE  HangInv'
<1>1. JoinedKnown(rows) /\ (Quiet(rows) => EdgesHang(rows))
  BY DEF HangInv
<1>2. /\ DOMAIN rows' = DOMAIN rows
      /\ \A g \in DOMAIN rows :
           /\ rows'[g].next = rows[g].next /\ rows'[g].position = rows[g].position
           /\ rows'[g].role = rows[g].role /\ rows'[g].secret = rows[g].secret
  BY DEF SamePlace
<1>3. JoinedKnown(rows')
  BY <1>1, <1>2 DEF JoinedKnown
<1>4. ASSUME Quiet(rows')
      PROVE  EdgesHang(rows')
  <2>1. Quiet(rows)
    BY <1>2, <1>4 DEF Quiet
  <2>2. \A g \in DOMAIN rows :
          rows[g].role = "inner" /\ rows[g].state \in Entered => rows'[g].state = rows[g].state
    BY <1>1, <1>2, <1>4 DEF Quiet, JoinedKnown, Entered
  <2>3. EnteredInners(rows') = EnteredInners(rows)
    BY <1>2, <2>2 DEF EnteredInners, LiveInners, Inners, Rows, Entered
  <2>4. \A g \in EnteredInners(rows) : g \in DOMAIN rows
    BY DEF EnteredInners, LiveInners, Inners
  <2>5. Outermost(rows', EnteredInners(rows)) = Outermost(rows, EnteredInners(rows))
    BY <1>2, <2>4, SameOutermost DEF PathBefore
  <2>6. \A g \in Edges(rows') : g \in Edges(rows) /\ rows'[g].next = rows[g].next
    BY <1>2 DEF Edges
  <2>7. \A g \in Edges(rows) : rows[g].state # "draining"
    BY <2>1 DEF Quiet, Edges
  <2>8. QED
    BY <1>1, <2>1, <2>3, <2>5, <2>6, <2>7 DEF EdgesHang
<1>5. QED
  BY <1>3, <1>4 DEF HangInv

LEMMA HangStep ==
  ASSUME IInv, PathInv, HangInv, [Next]_vars
  PROVE  HangInv'
<1>1. /\ TypeOK /\ ConfirmedRevisionsExist /\ NextHopsAreLive /\ JoinedKnown(rows)
      /\ IsTable(rows)
  BY RowsTable DEF IInv, HangInv
<1>2. ASSUME NEW T, IsTable(T), rows' = Reconcile(T), JoinedKnown(T)
      PROVE  HangInv'
  <2>1. EdgesHang(rows')
    BY <1>2, ReconciledHang
  <2>2. JoinedKnown(rows')
    BY <1>2, ReconcileTable DEF JoinedKnown, SameHop, SameBox
  <2>3. QED
    BY <2>1, <2>2 DEF HangInv
<1>3. ASSUME NEW n \in Name, NEW r \in Role, NEW a \in Addr, NEW t \in Target \cup {NoTarget},
             NEW p \in 0..MaxHops, Add(n, r, a, t, p)
      PROVE  HangInv'
  <2> DEFINE W == Widened(n, r, a, t, p)
  <2>1. rows' = Reconcile(W) /\ IsTable(W)
    BY <1>1, <1>3, WidenedRows
  <2>2. /\ DOMAIN rows' = DOMAIN rows \cup {created + 1}
        /\ rows'[created + 1].state = "pending"
        /\ \A g \in DOMAIN rows : SameHop(rows'[g], rows[g])
    BY <1>1, <1>3, AddRows
  <2>3. JoinedKnown(rows')
    BY <1>1, <2>2 DEF JoinedKnown, SameHop, SameBox
  <2> HIDE DEF W
  <2>4. EdgesHang(rows')
    BY <2>1, ReconciledHang
  <2>5. QED
    BY <2>3, <2>4 DEF HangInv
<1>4. ASSUME NEW h \in HopId, NEW force \in BOOLEAN, NEW skipDrain \in BOOLEAN,
             DeleteNow(h, force, skipDrain)
      PROVE  HangInv'
  <2>1. h \in DOMAIN rows /\ rows' = Reconcile(Rehung(h))
    BY <1>4 DEF DeleteNow, Rehung
  <2>2. IsTable(Rehung(h))
    BY <1>1, <2>1, RehungShape DEF PathInv
  <2>3. \A g \in DOMAIN rows' : g \in DOMAIN rows /\ SameHop(rows'[g], rows[g])
    BY <1>1, <1>4, DeleteRows
  <2>4. JoinedKnown(rows')
    BY <1>1, <2>3 DEF JoinedKnown, SameHop, SameBox
  <2>5. QED
    BY <2>1, <2>2, <2>4, ReconciledHang DEF HangInv
<1>5. ASSUME NEW h \in HopId, NEW force \in BOOLEAN, StartDraining(h, force)
      PROVE  HangInv'
  <2>1. /\ h \in DOMAIN rows /\ DOMAIN rows' = DOMAIN rows /\ rows'[h].state = "draining"
        /\ \A g \in DOMAIN rows \ {h} : SameHop(rows'[g], rows[g])
    BY <1>1, <1>5, StartDrainingRows
  <2>2. JoinedKnown(rows')
    BY <1>1, <2>1 DEF JoinedKnown, SameHop, SameBox
  <2>3. ~Quiet(rows')
    BY <2>1 DEF Quiet
  <2>4. QED
    BY <2>2, <2>3 DEF HangInv
<1>6. ASSUME NEW h \in HopId, NEW n \in Name, NEW a \in Addr,
             NEW t \in Target \cup {NoTarget}, Update(h, n, a, t)
      PROVE  HangInv'
  <2>1. /\ SamePlace /\ rows'[h].state = rows[h].state
        /\ \A g \in DOMAIN rows \ {h} : rows'[g] = rows[g]
    BY <1>1, <1>6, UpdateRows
  <2>2. \A g \in DOMAIN rows : rows'[g].state = rows[g].state
    BY <2>1
  <2>3. QED
    BY <2>1, <2>2, HangKept
<1>7. ASSUME NEW h \in HopId, SetActive(h)
      PROVE  HangInv'
  BY <1>1, <1>7, SetActiveRows, HangKept
<1>8. CASE ClearActive
  BY <1>1, <1>8, ClearActiveRows, HangKept
<1>9. ASSUME NEW h \in HopId, ReissueToken(h) \/ TokenExpires(h) \/ DrainDeadline(h)
      PROVE  HangInv'
  <2>1. /\ SamePlace
        /\ \A g \in DOMAIN rows \ {h} : rows'[g] = rows[g]
        /\ \/ rows'[h].state = rows[h].state
           \/ rows'[h].state = "pending" /\ rows[h].state # "draining"
    BY <1>1, <1>9, OneFieldRows
  <2>2. QED
    BY <2>1, HangKept
<1>10. ASSUME NEW h \in HopId, NEW a \in Addr, Join(h, a)
       PROVE  HangInv'
  <2>1. h \in DOMAIN rows /\ rows[h].state = "pending" /\ rows' = Reconcile(Admitted(h, a))
    BY <1>10 DEF Join, Admitted
  <2>2. IsTable(Admitted(h, a))
    BY <1>1, <2>1, AdmittedRows
  <2>3. /\ DOMAIN rows' = DOMAIN rows
        /\ \A g \in DOMAIN rows \ {h} : SameHop(rows'[g], rows[g])
        /\ rows'[h].state = "joined" /\ rows'[h].secret = rows[h].secret + 1
    BY <1>1, <1>10, JoinRows
  <2>4. rows[h].secret \in Nat
    BY <1>1, <2>1 DEF IsTable, Row
  <2>5. JoinedKnown(rows')
    BY <1>1, <2>3, <2>4 DEF JoinedKnown, SameHop, SameBox
  <2>6. QED
    BY <2>1, <2>2, <2>5, ReconciledHang DEF HangInv
<1>11. ASSUME NEW h \in HopId, NEW seen \in Nat, NEW acks \in SUBSET (Name \X Nat),
              RecordSeen(h, seen, acks)
       PROVE  HangInv'
  <2>1. /\ DOMAIN rows' = DOMAIN rows
        /\ \A g \in DOMAIN rows :
             /\ Entry(rows', g) = Entry(rows, g)
             /\ rows'[g].next = rows[g].next /\ rows'[g].position = rows[g].position
             /\ rows'[g].role = rows[g].role /\ rows'[g].state = rows[g].state
    BY <1>1, <1>11, RecordSeenRows
  <2>2. SamePlace
    BY <2>1 DEF SamePlace, Entry
  <2>3. QED
    BY <2>1, <2>2, HangKept
<1>12. ASSUME NEW h \in HopId, FinishDraining(h)
       PROVE  HangInv'
  <2>1. h \in DOMAIN rows /\ rows' = Reconcile(Without(rows, h))
    BY <1>12 DEF FinishDraining, Rows
  <2> DEFINE gone == Without(rows, h)
  <2>2. IsTable(gone) /\ DOMAIN gone = DOMAIN rows \ {h} /\ \A g \in DOMAIN gone : gone[g] = rows[g]
    BY <1>1, WithoutTable
  <2> HIDE DEF gone
  <2>3. JoinedKnown(gone)
    BY <1>1, <2>2 DEF JoinedKnown
  <2>4. rows' = Reconcile(gone)
    BY <2>1 DEF gone
  <2>5. QED
    BY <1>2, <2>2, <2>3, <2>4
<1>13. ASSUME rows' = rows
       PROVE  HangInv'
  BY <1>13, HangKept DEF SamePlace
<1>14. CASE PanelRestart
  <2>1. CASE /\ DOMAIN rows' = {created + 1}
             /\ rows'[created + 1].role = "edge" /\ rows'[created + 1].state = "legacy"
             /\ rows'[created + 1].next = Panel
    <3>1. EnteredInners(rows') = {}
      BY <2>1 DEF EnteredInners, LiveInners, Inners
    <3>2. Outermost(rows', {}) = Panel
      BY DEF Outermost
    <3>3. EdgesHang(rows') /\ JoinedKnown(rows')
      BY <2>1, <3>1, <3>2 DEF EdgesHang, JoinedKnown, Edges
    <3>4. QED
      BY <3>3 DEF HangInv
  <2>2. QED
    BY <1>1, <1>13, <1>14, <2>1, RestartRows
<1>15. CASE SweepStep
  BY <1>1, <1>12, <1>13, <1>15 DEF SweepStep, TypeOK
<1>16. CASE SweepTick \/ (\E p \in Watched : MonReport(p)) \/ UNCHANGED vars
  BY <1>13, <1>16 DEF SweepTick, MonReport, vars
<1>17. CASE \E p \in Ports : PortsChanged(p)
  BY <1>13, <1>17 DEF PortsChanged
<1>18. QED
  BY <1>1, <1>3, <1>4, <1>5, <1>6, <1>7, <1>8, <1>9, <1>10, <1>11, <1>14, <1>15, <1>16, <1>17,
     PollsTyped DEF Next, Owner, Boxes, Clock, Poll

LEMMA HangInit == Init => HangInv
<1> SUFFICES ASSUME Init PROVE HangInv
  OBVIOUS
<1>1. DOMAIN rows = {}
  BY DEF Init
<1>2. QED
  BY <1>1 DEF HangInv, EdgesHang, JoinedKnown, Edges

-----------------------------------------------------------------------------
(* Documents change with the revision only. *)

\* What every hop that has entered is shown stays the same.
EnteredKept ==
  \A h \in Rows(rows, Entered) :
    /\ h \in DOMAIN rows' /\ rows'[h].state \in Entered
    /\ Entry(rows', h) = Entry(rows, h) /\ rows'[h].active = rows[h].active

\* Nobody enters, and nobody starts to depart.
NobodyEnters ==
  \A h \in DOMAIN rows' :
    IF h \in DOMAIN rows THEN rows'[h].state = rows[h].state /\ rows'[h].secret = rows[h].secret
    ELSE rows'[h].state = "pending" /\ rows'[h].secret = 0

PlacesKept ==
  \A g, h \in Rows(rows, Entered) :
    rows[g].role = rows[h].role =>
      /\ rows[g].position < rows[h].position <=> rows'[g].position < rows'[h].position
      /\ rows[g].position = rows[h].position <=> rows'[g].position = rows'[h].position

LEMMA DocumentsKept ==
  ASSUME IInv, PathInv, HangInv, [Next]_vars, Quiet(rows),
         EnteredKept, NobodyEnters, PlacesKept, ports' = ports
  PROVE  \A h \in DOMAIN rows :
           Visible(rows, h) => Document(rows', ports', h) = Document(rows, ports, h)
<1>1. Walkable(rows) /\ IsTable(rows) /\ EdgesHang(rows)
  BY RowsWalkable DEF HangInv, Walkable
<1>2. IInv' /\ PathInv' /\ HangInv'
  BY InvStep, PathStep, HangStep
<1>3. Quiet(rows')
  BY DEF Quiet, NobodyEnters
<1>4. Walkable(rows') /\ IsTable(rows') /\ EdgesHang(rows')
  <2>1. TypeOK' /\ NextHopsAreLive' /\ Apart(rows') /\ IsPath(rows')
    BY <1>2 DEF IInv, PathInv
  <2>2. IsTable(rows')
    BY <2>1, MaxHopsAssumption DEF TypeOK, IsTable, HopId
  <2>3. EdgesHang(rows')
    BY <1>2, <1>3 DEF HangInv
  <2>4. QED
    BY <2>1, <2>2, <2>3 DEF Walkable, NextHopsAreLive
<1>5. Rows(rows, Entered) = Rows(rows', Entered)
  BY DEF Rows, Entered, EnteredKept, NobodyEnters
<1>6. Alike(rows, rows')
  BY <1>1, <1>3, <1>4, <1>5, QuietAlike DEF EnteredKept, PlacesKept
<1>7. ASSUME NEW h \in Rows(rows, Entered), Dialled(rows, h) # Panel
      PROVE  Dialled(rows, h) \in Rows(rows, Entered)
  <2>1. \/ Dialled(rows, h) = Outermost(rows, EnteredInners(rows))
        \/ Dialled(rows, h) = Outermost(rows, Inside(rows, h))
    BY <1>1, DialledQuiet
  <2>2. Dialled(rows, h) \in EnteredInners(rows)
    BY <1>7, <2>1, OutermostIn DEF Inside
  <2>3. QED
    BY <2>2 DEF EnteredInners, LiveInners, Inners, Rows
<1>8. QED
  BY <1>1, <1>3, <1>4, <1>6, <1>7, SameDocuments

LEMMA DocumentStep ==
  ASSUME IInv, PathInv, HangInv, [Next]_vars, revision' = revision,
         Quiet(rows), Rows(rows, Entered) \subseteq Rows(rows', Entered),
         PortClash \notin {ports, ports'}
  PROVE  \A h \in DOMAIN rows :
           Visible(rows, h) => Document(rows', ports', h) = Document(rows, ports, h)
<1> DEFINE Same == \A h \in DOMAIN rows :
                     Visible(rows, h) => Document(rows', ports', h) = Document(rows, ports, h)
<1> SUFFICES Same
  OBVIOUS
<1>1. /\ TypeOK /\ ConfirmedRevisionsExist /\ IsTable(rows) /\ revision \in Nat
      /\ revision + 1 # revision
  BY RowsTable DEF IInv, TypeOK
<1>2. \A h \in Rows(rows, Entered) :
        /\ h \in DOMAIN rows /\ h \in DOMAIN rows' /\ rows'[h].state \in Entered
        /\ rows[h].position \in Nat
  BY <1>1, OrderTypes DEF Rows
<1> HIDE DEF Same
<1>3. ASSUME DOMAIN rows' = DOMAIN rows, ports' = ports,
             \A g \in DOMAIN rows :
               /\ rows'[g].position = rows[g].position /\ Entry(rows', g) = Entry(rows, g)
               /\ rows'[g].active = rows[g].active
      PROVE  Same
  <2>1. EnteredKept
    BY <1>2, <1>3 DEF EnteredKept
  <2>2. NobodyEnters
    BY <1>3 DEF NobodyEnters, Entry
  <2>3. PlacesKept
    BY <1>2, <1>3 DEF PlacesKept
  <2>4. QED
    BY <1>3, <2>1, <2>2, <2>3, DocumentsKept DEF Same
<1>4. ASSUME rows' = rows, ports' = ports
      PROVE  Same
  BY <1>4 DEF Same
<1>5. ASSUME NEW n \in Name, NEW r \in Role, NEW a \in Addr, NEW t \in Target \cup {NoTarget},
             NEW p \in 0..MaxHops, Add(n, r, a, t, p)
      PROVE  Same
  <2>1. /\ DOMAIN rows' = DOMAIN rows \cup {created + 1}
        /\ rows'[created + 1].state = "pending" /\ rows'[created + 1].secret = 0
        /\ \A g \in DOMAIN rows : SameHop(rows'[g], rows[g])
    BY <1>1, <1>5, AddRows
  <2>2. EnteredKept
    BY <1>2, <2>1 DEF EnteredKept, Entry, SameHop, SameBox
  <2>3. NobodyEnters
    BY <2>1 DEF NobodyEnters, SameHop, SameBox
  <2>4. \A g \in DOMAIN rows : rows'[g].position = Shifted(g, r, p)
    BY <1>5, AddPlaces
  <2>5. ASSUME NEW g \in Rows(rows, Entered), NEW h \in Rows(rows, Entered),
               rows[g].role = rows[h].role
        PROVE  /\ rows[g].position < rows[h].position <=> rows'[g].position < rows'[h].position
               /\ rows[g].position = rows[h].position <=> rows'[g].position = rows'[h].position
    <3>1. CASE rows[g].role = "inner"
      <4>1. g \in Inners(rows) /\ h \in Inners(rows)
        BY <1>2, <2>5, <3>1 DEF Inners
      <4>2. QED
        BY <1>1, <1>2, <2>4, <4>1, ShiftedOrder
    <3>2. CASE rows[g].role # "inner"
      BY <1>2, <2>4, <2>5, <3>2 DEF Shifted
    <3>3. QED
      BY <3>1, <3>2
  <2>6. PlacesKept
    BY <2>5 DEF PlacesKept
  <2>7. ports' = ports
    BY <1>5 DEF Add
  <2>8. QED
    BY <2>2, <2>3, <2>6, <2>7, DocumentsKept DEF Same
<1>6. ASSUME NEW h \in HopId, ReissueToken(h) \/ TokenExpires(h)
      PROVE  Same
  <2>1. /\ SamePlace /\ h \in DOMAIN rows
        /\ \A g \in DOMAIN rows \ {h} : rows'[g] = rows[g]
        /\ rows'[h].state = rows[h].state \/ rows'[h].state = "pending"
        /\ SameBox(rows'[h], rows[h]) /\ rows'[h].active = rows[h].active
    BY <1>1, <1>6, OneFieldRows
  <2>2. rows'[h].state = rows[h].state
    <3>1. CASE rows'[h].state = rows[h].state
      BY <3>1
    <3>2. CASE rows'[h].state = "pending"
      <4>1. rows[h].state \notin Entered
        BY <1>2, <2>1, <3>2 DEF Rows, Entered
      <4>2. rows[h].state \in State /\ rows[h].state # "draining"
        BY <1>1, <2>1 DEF IsTable, Row, Quiet
      <4>3. QED
        BY <3>2, <4>1, <4>2 DEF State, Entered
    <3>3. QED
      BY <2>1, <3>1, <3>2
  <2>3. \A g \in DOMAIN rows :
          /\ rows'[g].position = rows[g].position /\ Entry(rows', g) = Entry(rows, g)
          /\ rows'[g].active = rows[g].active
    BY <2>1, <2>2 DEF SamePlace, SameBox, Entry
  <2>4. ports' = ports
    BY <1>6 DEF ReissueToken, TokenExpires
  <2>5. QED
    BY <1>3, <2>1, <2>3, <2>4 DEF SamePlace
<1>7. ASSUME NEW h \in HopId, NEW seen \in Nat, NEW acks \in SUBSET (Name \X Nat),
             RecordSeen(h, seen, acks)
      PROVE  Same
  <2>1. ports' = ports
    BY <1>7 DEF RecordSeen
  <2>2. QED
    BY <1>1, <1>3, <1>7, <2>1, RecordSeenRows
<1>8. ASSUME NEW h \in HopId
      PROVE  ~DrainDeadline(h) /\ ~FinishDraining(h)
  BY DEF Quiet, DrainDeadline, FinishDraining, Rows
<1>9. CASE SweepStep
  BY <1>1, <1>4, <1>8, <1>9 DEF SweepStep, TypeOK
<1>10. CASE SweepTick \/ (\E p \in Watched : MonReport(p)) \/ UNCHANGED vars
  BY <1>4, <1>10 DEF SweepTick, MonReport, vars
<1>11. ASSUME NEW p \in Ports, PortsChanged(p)
       PROVE  Same
  <2>1. DOMAIN rows = {}
    BY <1>1, <1>11 DEF PortsChanged, Bump
  <2>2. QED
    BY <2>1 DEF Same
<1>12. CASE PanelRestart
  <2>1. rows' = rows
    BY <1>1, <1>12, RestartRows
  <2>2. ports' = ports
    BY <1>12 DEF PanelRestart
  <2>3. QED
    BY <1>4, <2>1, <2>2
<1>13. ~Bump
  BY <1>1 DEF Bump
<1>14. /\ \A h \in HopId, n \in Name, a \in Addr, t \in Target \cup {NoTarget} : ~Update(h, n, a, t)
       /\ \A h \in HopId, force, skipDrain \in BOOLEAN : ~DeleteNow(h, force, skipDrain)
       /\ \A h \in HopId, force \in BOOLEAN : ~StartDraining(h, force)
       /\ \A h \in HopId, a \in Addr : ~Join(h, a)
       /\ \A h \in HopId : ~SetActive(h)
       /\ ~ClearActive
  BY <1>13 DEF Update, DeleteNow, StartDraining, Join, SetActive, ClearActive
<1>15. CASE Owner
  BY <1>5, <1>6, <1>11, <1>14, <1>15 DEF Owner
<1>16. CASE Boxes
  BY <1>1, <1>7, <1>10, <1>14, <1>16, PollsTyped DEF Boxes, Poll
<1>17. CASE Clock
  BY <1>6, <1>8, <1>9, <1>10, <1>12, <1>17 DEF Clock
<1>18. QED
  BY <1>10, <1>15, <1>16, <1>17 DEF Next

\* While nobody departs or is let in again, a box that is told its revision is
\* current holds the very document it would be sent.
THEOREM DocumentsMoveRevision == Spec => DocumentsChangeWithRevision
<1>1. IInv /\ PathInv /\ HangInv /\ [Next]_vars => HangInv'
  BY HangStep
<1>2. IInv /\ PathInv /\ HangInv /\ [Next]_vars =>
        [(/\ revision' = revision
          /\ Quiet(rows) /\ Rows(rows, Entered) \subseteq Rows(rows', Entered)
          /\ PortClash \notin {ports, ports'})
          => \A h \in DOMAIN rows :
               Visible(rows, h) => Document(rows', ports', h) = Document(rows, ports, h)]_vars
  BY DocumentStep
<1>3. QED
  BY <1>1, <1>2, HangInit, ShapeInvariance, PTL DEF Spec, DocumentsChangeWithRevision
=============================================================================
