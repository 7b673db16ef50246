------------------------ MODULE ChainRegistryProofs ------------------------
(***************************************************************************)
(* Theorems about ChainRegistry, for every number of hops, set of names,   *)
(* bound on revisions and so on.                                           *)
(***************************************************************************)
EXTENDS ChainRegistry, FiniteSetTheorems, TLAPS

IsTable(T) == DOMAIN T \subseteq HopId /\ T \in [DOMAIN T -> Row]

\* What only an owner's edit, a join or an ack changes in a row, ...
SameBox(r, s) ==
  /\ r.name = s.name /\ r.role = s.role /\ r.addr = s.addr /\ r.target = s.target
  /\ r.secret = s.secret /\ r.lastRevision = s.lastRevision

\* ... and what no topology sweep changes: all but the row's place in the chain.
SameHop(r, s) ==
  /\ SameBox(r, s)
  /\ r.state = s.state /\ r.active = s.active /\ r.token = s.token
  /\ r.drainRevision = s.drainRevision /\ r.due = s.due
  /\ r.drainOuter = s.drainOuter /\ r.former = s.former

-----------------------------------------------------------------------------
(* The functions on tables. *)

\* A set of rows of a table is finite.
LEMMA RowsFinite ==
  ASSUME NEW T, IsTable(T), NEW S \in SUBSET DOMAIN T
  PROVE  IsFiniteSet(S)
<1>1. IsFiniteSet(HopId)
  BY FS_Interval, MaxHopsAssumption DEF HopId
<1>2. QED
  BY <1>1, FS_Subset DEF IsTable

\* What Outermost picks is in the set, or the panel.
LEMMA OutermostIn ==
  ASSUME NEW T, NEW S
  PROVE  Outermost(T, S) \in S \cup {Panel}
BY DEF Outermost

\* The topology sweep keeps the rows and changes only their place; a live
\* row's next hop is then a live inner other than itself or the panel.
LEMMA ReconcileTable ==
  ASSUME NEW T, IsTable(T)
  PROVE  /\ DOMAIN Reconcile(T) = DOMAIN T
         /\ IsTable(Reconcile(T))
         /\ \A h \in DOMAIN T :
              /\ SameHop(Reconcile(T)[h], T[h])
              /\ T[h].state = "draining" => Reconcile(T)[h].next = T[h].next
              /\ T[h].state # "draining" =>
                   Reconcile(T)[h].next \in (LiveInners(T) \ {h}) \cup {Panel}
<1>1. DOMAIN Reconcile(T) = DOMAIN T
  BY DEF Reconcile
<1>2. ASSUME NEW h \in DOMAIN T
      PROVE  /\ Reconcile(T)[h] \in Row
             /\ SameHop(Reconcile(T)[h], T[h])
             /\ T[h].state = "draining" => Reconcile(T)[h].next = T[h].next
             /\ T[h].state # "draining" =>
                  Reconcile(T)[h].next \in (LiveInners(T) \ {h}) \cup {Panel}
  <2>1. T[h] \in Row /\ h \in HopId
    BY DEF IsTable
  <2>2. CASE T[h].state = "draining"
    BY <2>1, <2>2 DEF Reconcile, SameHop, SameBox
  <2>3. CASE T[h].state # "draining" /\ T[h].role = "edge"
    <3> DEFINE n == Outermost(T, EnteredInners(T))
    <3>1. n \in (LiveInners(T) \ {h}) \cup {Panel}
      BY <2>3, OutermostIn DEF EnteredInners, LiveInners, Inners
    <3>2. n \in NextHop
      BY <3>1 DEF LiveInners, Inners, IsTable, NextHop
    <3>3. Reconcile(T)[h] = [T[h] EXCEPT !.next = n]
      BY <2>3 DEF Reconcile
    <3> HIDE DEF n
    <3>4. QED
      BY <2>1, <2>3, <3>1, <3>2, <3>3 DEF Row, SameHop, SameBox
  <2>4. CASE T[h].state # "draining" /\ T[h].role # "edge"
    <3> DEFINE n == Outermost(T, LiveBefore(T, h))
               k == Cardinality(LiveBefore(T, h))
    <3>1. h \notin LiveBefore(T, h)
      BY <2>1 DEF LiveBefore, PathBefore, Row, HopId
    <3>2. n \in (LiveInners(T) \ {h}) \cup {Panel}
      BY <3>1, OutermostIn DEF LiveBefore
    <3>3. n \in NextHop
      BY <3>2 DEF LiveInners, Inners, IsTable, NextHop
    <3>4. k \in Nat
      BY RowsFinite, FS_CardinalityType DEF LiveBefore, LiveInners, Inners
    <3>5. Reconcile(T)[h] = [T[h] EXCEPT !.position = k, !.next = n]
      BY <2>4 DEF Reconcile
    <3> HIDE DEF n, k
    <3>6. QED
      BY <2>1, <2>4, <3>2, <3>3, <3>4, <3>5 DEF Row, SameHop, SameBox
  <2>5. QED
    BY <2>2, <2>3, <2>4
<1>3. IsTable(Reconcile(T))
  BY <1>1, <1>2 DEF IsTable, Reconcile
<1>4. QED
  BY <1>1, <1>2, <1>3

\* The sweep moves no hop in or out of the live inner path.
LEMMA ReconcileLive ==
  ASSUME NEW T, IsTable(T)
  PROVE  LiveInners(Reconcile(T)) = LiveInners(T)
BY ReconcileTable DEF LiveInners, Inners, Rows, SameHop, SameBox

\* A table without one of its rows is a table.
LEMMA WithoutTable ==
  ASSUME NEW T, IsTable(T), NEW h
  PROVE  /\ IsTable(Without(T, h))
         /\ DOMAIN Without(T, h) = DOMAIN T \ {h}
         /\ \A g \in DOMAIN T \ {h} : Without(T, h)[g] = T[g]
BY DEF IsTable, Without

\* Rows that are given another next hop change in nothing else.
LEMMA RechainTable ==
  ASSUME NEW T, IsTable(T), NEW S, NEW n \in NextHop
  PROVE  /\ IsTable(Rechain(T, S, n))
         /\ DOMAIN Rechain(T, S, n) = DOMAIN T
         /\ \A g \in DOMAIN T :
              /\ SameHop(Rechain(T, S, n)[g], T[g])
              /\ Rechain(T, S, n)[g].next = IF g \in S THEN n ELSE T[g].next
<1>1. DOMAIN Rechain(T, S, n) = DOMAIN T
  BY DEF Rechain
<1>2. ASSUME NEW g \in DOMAIN T
      PROVE  /\ Rechain(T, S, n)[g] \in Row
             /\ SameHop(Rechain(T, S, n)[g], T[g])
             /\ Rechain(T, S, n)[g].next = IF g \in S THEN n ELSE T[g].next
  <2>1. T[g] \in Row
    BY DEF IsTable
  <2>2. CASE g \in S
    <3>1. Rechain(T, S, n)[g] = [T[g] EXCEPT !.next = n]
      BY <2>2 DEF Rechain
    <3>2. QED
      BY <2>1, <2>2, <3>1 DEF Row, SameHop, SameBox
  <2>3. CASE g \notin S
    BY <2>1, <2>3 DEF Rechain, SameHop, SameBox
  <2>4. QED
    BY <2>2, <2>3
<1>3. IsTable(Rechain(T, S, n))
  BY <1>1, <1>2 DEF IsTable, Rechain
<1>4. QED
  BY <1>1, <1>2, <1>3

-----------------------------------------------------------------------------
(* What each write does to the table, field by field. *)

LEMMA RowsTable == TypeOK => IsTable(rows)
BY MaxHopsAssumption DEF TypeOK, IsTable, HopId

\* Add keeps every row but for its place, and brings one pending row.
LEMMA AddRows ==
  ASSUME TypeOK, NEW n \in Name, NEW r \in Role, NEW a \in Addr,
         NEW t \in Target \cup {NoTarget}, NEW p \in 0..MaxHops, Add(n, r, a, t, p)
  PROVE  /\ IsTable(rows')
         /\ DOMAIN rows' = DOMAIN rows \cup {created + 1} /\ created + 1 \notin DOMAIN rows
         /\ \A h \in DOMAIN rows :
              /\ SameHop(rows'[h], rows[h])
              /\ rows[h].state = "draining" => rows'[h].next = rows[h].next
         /\ rows'[created + 1].state = "pending" /\ ~rows'[created + 1].active
         /\ rows'[created + 1].lastRevision = 0 /\ rows'[created + 1].drainRevision = 0
         /\ rows'[created + 1].secret = 0 /\ rows'[created + 1].name = n
         /\ \A h \in DOMAIN rows' :
              rows'[h].state # "draining" =>
                rows'[h].next \in (LiveInners(rows') \ {h}) \cup {Panel}
<1> DEFINE shifted == IF r = "inner" THEN MakeRoom(p) ELSE rows
           table == [g \in DOMAIN rows \cup {created + 1} |->
                       IF g = created + 1 THEN NewRow(n, r, a, t, p) ELSE shifted[g]]
<1>1. created + 1 \in HopId /\ created + 1 \notin DOMAIN rows
  BY MaxHopsAssumption DEF Add, TypeOK, HopId
<1>2. NewRow(n, r, a, t, p) \in Row
  BY DEF NewRow, Row, State, NextHop, Role
<1>3. ASSUME NEW h \in DOMAIN rows
      PROVE  /\ shifted[h] \in Row
             /\ SameHop(shifted[h], rows[h])
             /\ shifted[h].next = rows[h].next
  <2>1. rows[h] \in Row
    BY DEF TypeOK
  <2>2. CASE r = "inner" /\ rows[h].role = "inner" /\ rows[h].position >= p
    <3> DEFINE k == rows[h].position + 1
    <3>1. shifted[h] = [rows[h] EXCEPT !.position = k]
      BY <2>2 DEF MakeRoom
    <3>2. k \in Nat
      BY <2>1 DEF Row
    <3> HIDE DEF k, shifted
    <3>3. QED
      BY <2>1, <3>1, <3>2 DEF Row, SameHop, SameBox
  <2>3. CASE ~(r = "inner" /\ rows[h].role = "inner" /\ rows[h].position >= p)
    BY <2>1, <2>3 DEF MakeRoom, SameHop, SameBox
  <2>4. QED
    BY <2>2, <2>3
<1>4. table \in [DOMAIN rows \cup {created + 1} -> Row]
  BY <1>2, <1>3
<1>5. IsTable(table) /\ DOMAIN table = DOMAIN rows \cup {created + 1}
  BY <1>1, <1>4, RowsTable DEF IsTable
<1>6. \A h \in DOMAIN rows : table[h] = shifted[h]
  BY <1>1
<1>7. table[created + 1] = NewRow(n, r, a, t, p)
  OBVIOUS
<1>8. rows' = Reconcile(table)
  BY DEF Add
<1> HIDE DEF table, shifted
<1>9. LiveInners(rows') = LiveInners(table)
  BY <1>5, <1>8, ReconcileLive
<1>10. SameHop(rows'[created + 1], NewRow(n, r, a, t, p))
  BY <1>5, <1>7, <1>8, ReconcileTable
<1>11. /\ rows'[created + 1].state = "pending" /\ ~rows'[created + 1].active
       /\ rows'[created + 1].lastRevision = 0 /\ rows'[created + 1].drainRevision = 0
       /\ rows'[created + 1].secret = 0 /\ rows'[created + 1].name = n
  BY <1>10 DEF SameHop, SameBox, NewRow
<1>12. QED
  BY <1>1, <1>3, <1>5, <1>6, <1>8, <1>9, <1>11, ReconcileTable DEF SameHop, SameBox

\* DeleteNow takes one row; what hung off it hangs off its next hop.
LEMMA DeleteRows ==
  ASSUME TypeOK, NEW h \in HopId, NEW force \in BOOLEAN, NEW skipDrain \in BOOLEAN,
         DeleteNow(h, force, skipDrain)
  PROVE  /\ IsTable(rows')
         /\ h \in DOMAIN rows /\ DOMAIN rows' = DOMAIN rows \ {h}
         /\ \A g \in DOMAIN rows' :
              /\ SameHop(rows'[g], rows[g])
              /\ rows[g].state = "draining" =>
                   rows'[g].next = IF rows[g].next = h THEN rows[h].next ELSE rows[g].next
              /\ rows[g].state # "draining" =>
                   rows'[g].next \in (LiveInners(rows') \ {g}) \cup {Panel}
<1> DEFINE gone == Without(rows, h)
           table == Rechain(gone, HangOff(gone, h), rows[h].next)
<1>1. h \in DOMAIN rows /\ rows' = Reconcile(table)
  BY DEF DeleteNow
<1>2. rows[h].next \in NextHop
  BY <1>1 DEF TypeOK, Row
<1>3. /\ IsTable(gone) /\ DOMAIN gone = DOMAIN rows \ {h}
      /\ \A g \in DOMAIN rows \ {h} : gone[g] = rows[g]
  BY RowsTable, WithoutTable
<1> HIDE DEF gone
<1>4. /\ IsTable(table) /\ DOMAIN table = DOMAIN gone
      /\ \A g \in DOMAIN gone :
           /\ SameHop(table[g], gone[g])
           /\ table[g].next = IF g \in HangOff(gone, h) THEN rows[h].next ELSE gone[g].next
  BY <1>2, <1>3, RechainTable
<1> HIDE DEF table
<1>5. LiveInners(rows') = LiveInners(table)
  BY <1>1, <1>4, ReconcileLive
<1>6. QED
  BY <1>1, <1>3, <1>4, <1>5, ReconcileTable DEF SameHop, SameBox, HangOff

\* StartDraining turns one row into a departing one that keeps its next hop;
\* everyone it serves hangs off that next hop instead.
LEMMA StartDrainingRows ==
  ASSUME TypeOK, NEW h \in HopId, NEW force \in BOOLEAN, StartDraining(h, force)
  PROVE  /\ IsTable(rows')
         /\ h \in DOMAIN rows /\ DOMAIN rows' = DOMAIN rows
         /\ rows[h].state # "draining" /\ LiveOuter(rows, h) # {}
         /\ \A g \in DOMAIN rows \ {h} : SameHop(rows'[g], rows[g])
         /\ SameBox(rows'[h], rows[h]) /\ rows'[h].active = rows[h].active
         /\ rows'[h].state = "draining" /\ rows'[h].drainRevision = revision + 1
         /\ \A g \in DOMAIN rows :
              /\ rows'[g].state = "draining" =>
                   rows'[g].next = IF g \in LiveOuter(rows, h) THEN rows[h].next ELSE rows[g].next
              /\ rows'[g].state # "draining" =>
                   rows'[g].next \in (LiveInners(rows') \ {g}) \cup {Panel}
<1> DEFINE outer == LiveOuter(rows, h)
           departing == [rows EXCEPT ![h].state = "draining"]
           table == Rechain(departing, outer, rows[h].next)
           swept == Reconcile(table)
           names == {rows[g].name : g \in outer}
           d == revision + 1
<1>1. /\ h \in DOMAIN rows /\ rows[h].state # "draining" /\ outer # {}
      /\ rows' = [swept EXCEPT ![h].drainRevision = d, ![h].due = FALSE,
                               ![h].drainOuter = names, ![h].former = outer]
  BY DEF StartDraining, NotDraining
<1>2. rows \in [DOMAIN rows -> Row] /\ DOMAIN rows \subseteq HopId
  BY RowsTable DEF IsTable
<1>3. d \in Nat /\ names \subseteq Name /\ outer \subseteq HopId
  BY <1>2 DEF TypeOK, Row, LiveOuter, HangOff
<1>4. /\ DOMAIN departing = DOMAIN rows
      /\ \A g \in DOMAIN rows \ {h} : departing[g] = rows[g]
      /\ departing[h] = [rows[h] EXCEPT !.state = "draining"]
  BY <1>1
<1>6. IsTable(departing)
  <2>1. rows[h] \in Row
    BY <1>1, <1>2
  <2>2. [rows[h] EXCEPT !.state = "draining"] \in Row
    BY <2>1 DEF Row, State
  <2>3. QED
    BY <1>2, <1>4, <2>2 DEF IsTable
<1> HIDE DEF departing, outer, names, d
<1>7. rows[h].next \in NextHop
  BY <1>1, <1>2 DEF Row
<1>8. /\ IsTable(table) /\ DOMAIN table = DOMAIN rows
      /\ \A g \in DOMAIN rows :
           /\ SameHop(table[g], departing[g])
           /\ table[g].next = IF g \in outer THEN rows[h].next ELSE departing[g].next
  BY <1>4, <1>6, <1>7, RechainTable
<1> HIDE DEF table
<1>9. /\ IsTable(swept) /\ DOMAIN swept = DOMAIN rows
      /\ \A g \in DOMAIN rows :
           /\ SameHop(swept[g], table[g])
           /\ table[g].state = "draining" => swept[g].next = table[g].next
           /\ table[g].state # "draining" =>
                swept[g].next \in (LiveInners(table) \ {g}) \cup {Panel}
  BY <1>8, ReconcileTable
<1>10. LiveInners(swept) = LiveInners(table)
  BY <1>8, ReconcileLive
<1> HIDE DEF swept
<1>11. /\ DOMAIN rows' = DOMAIN rows
       /\ \A g \in DOMAIN rows \ {h} : rows'[g] = swept[g]
       /\ rows'[h] = [swept[h] EXCEPT !.drainRevision = d, !.due = FALSE,
                                       !.drainOuter = names, !.former = outer]
  BY <1>1, <1>9
<1>12. swept[h] \in Row
  BY <1>1, <1>9 DEF IsTable
<1>13. rows'[h] \in Row
  BY <1>3, <1>11, <1>12 DEF Row
<1>14. IsTable(rows')
  BY <1>1, <1>9, <1>11, <1>13 DEF IsTable
<1>15. /\ rows'[h].next = swept[h].next /\ rows'[h].state = swept[h].state
       /\ rows'[h].role = swept[h].role
  BY <1>11, <1>12 DEF Row
<1>16. LiveInners(rows') = LiveInners(swept)
  BY <1>9, <1>11, <1>15 DEF LiveInners, Inners, Rows
<1>17. \A g \in DOMAIN rows \ {h} : SameHop(rows'[g], rows[g])
  BY <1>4, <1>8, <1>9, <1>11 DEF SameHop, SameBox
<1>18. /\ SameBox(rows'[h], rows[h]) /\ rows'[h].active = rows[h].active
       /\ rows'[h].state = "draining" /\ rows'[h].drainRevision = revision + 1
  <2>1. rows[h] \in Row
    BY <1>1, <1>2
  <2>2. SameHop(swept[h], departing[h])
    BY <1>1, <1>8, <1>9 DEF SameHop, SameBox
  <2>3. /\ SameBox(departing[h], rows[h]) /\ departing[h].active = rows[h].active
        /\ departing[h].state = "draining"
    BY <1>4, <2>1 DEF SameBox, Row
  <2>4. /\ SameBox(rows'[h], swept[h]) /\ rows'[h].active = swept[h].active
        /\ rows'[h].state = swept[h].state /\ rows'[h].drainRevision = d
    BY <1>11, <1>12 DEF SameBox, Row
  <2>5. QED
    BY <2>2, <2>3, <2>4 DEF SameHop, SameBox, d
<1>19. departing[h].next = rows[h].next
  BY <1>1, <1>2, <1>4 DEF Row
<1>20. ASSUME NEW g \in DOMAIN rows
       PROVE  /\ rows'[g].state = "draining" =>
                   rows'[g].next = IF g \in outer THEN rows[h].next ELSE rows[g].next
              /\ rows'[g].state # "draining" =>
                   rows'[g].next \in (LiveInners(rows') \ {g}) \cup {Panel}
  <2>1. rows'[g].next = swept[g].next /\ rows'[g].state = swept[g].state
    BY <1>11, <1>15
  <2>2. swept[g].state = table[g].state
    BY <1>9 DEF SameHop
  <2>3. departing[g].next = rows[g].next
    BY <1>4, <1>19
  <2>4. CASE table[g].state = "draining"
    BY <1>8, <1>9, <2>1, <2>2, <2>3, <2>4
  <2>5. CASE table[g].state # "draining"
    BY <1>9, <1>10, <1>16, <2>1, <2>2, <2>5
  <2>6. QED
    BY <2>4, <2>5
<1>21. QED
  BY <1>1, <1>11, <1>14, <1>17, <1>18, <1>20 DEF outer, names, d

\* Join turns a pending row into a joined one with a new secret.
LEMMA JoinRows ==
  ASSUME TypeOK, NEW h \in HopId, NEW a \in Addr, Join(h, a)
  PROVE  /\ IsTable(rows')
         /\ h \in DOMAIN rows /\ DOMAIN rows' = DOMAIN rows
         /\ rows[h].state = "pending"
         /\ \A g \in DOMAIN rows \ {h} : SameHop(rows'[g], rows[g])
         /\ rows'[h].state = "joined" /\ rows'[h].role = rows[h].role
         /\ rows'[h].active = rows[h].active /\ rows'[h].target = rows[h].target
         /\ rows'[h].secret = rows[h].secret + 1 /\ rows'[h].name = rows[h].name
         /\ rows'[h].lastRevision = rows[h].lastRevision
         /\ rows'[h].drainRevision = rows[h].drainRevision
         /\ \A g \in DOMAIN rows :
              /\ rows[g].state = "draining" => rows'[g].next = rows[g].next
              /\ rows[g].state # "draining" =>
                   rows'[g].next \in (LiveInners(rows') \ {g}) \cup {Panel}
<1> DEFINE k == rows[h].secret + 1
           new == [rows[h] EXCEPT !.state = "joined", !.addr = a, !.secret = k, !.token = FALSE]
           entered == [rows EXCEPT ![h] = new]
<1>1. /\ h \in DOMAIN rows /\ rows[h].state = "pending"
      /\ rows' = Reconcile(entered)
  BY DEF Join
<1>2. rows \in [DOMAIN rows -> Row] /\ DOMAIN rows \subseteq HopId /\ rows[h] \in Row
  BY <1>1, RowsTable DEF IsTable
<1>3. k \in Nat
  BY <1>2 DEF Row
<1> HIDE DEF k
<1>4. /\ new \in Row /\ new.next = rows[h].next /\ new.state = "joined"
      /\ new.role = rows[h].role /\ new.active = rows[h].active
      /\ new.target = rows[h].target /\ new.secret = k /\ new.name = rows[h].name
      /\ new.lastRevision = rows[h].lastRevision
      /\ new.drainRevision = rows[h].drainRevision
  BY <1>2, <1>3 DEF Row, State
<1> HIDE DEF new
<1>5. /\ IsTable(entered) /\ DOMAIN entered = DOMAIN rows
      /\ \A g \in DOMAIN rows \ {h} : entered[g] = rows[g]
      /\ entered[h] = new
  BY <1>1, <1>2, <1>4 DEF IsTable
<1> HIDE DEF entered
<1>6. LiveInners(rows') = LiveInners(entered)
  BY <1>1, <1>5, ReconcileLive
<1>7. /\ IsTable(rows') /\ DOMAIN rows' = DOMAIN rows
      /\ \A g \in DOMAIN rows :
           /\ SameHop(rows'[g], entered[g])
           /\ entered[g].state = "draining" => rows'[g].next = entered[g].next
           /\ entered[g].state # "draining" =>
                rows'[g].next \in (LiveInners(rows') \ {g}) \cup {Panel}
  BY <1>1, <1>5, <1>6, ReconcileTable
<1>8. \A g \in DOMAIN rows \ {h} : SameHop(rows'[g], rows[g])
  BY <1>5, <1>7
<1>9. SameHop(rows'[h], new)
  BY <1>1, <1>5, <1>7
<1>10. QED
  BY <1>1, <1>4, <1>5, <1>7, <1>8, <1>9 DEF SameHop, SameBox, k

\* FinishDraining takes one departing row and moves no next hop of another.
LEMMA FinishRows ==
  ASSUME TypeOK, NEW h \in HopId, FinishDraining(h)
  PROVE  /\ IsTable(rows')
         /\ h \in DOMAIN rows /\ DOMAIN rows' = DOMAIN rows \ {h}
         /\ rows[h].state = "draining"
         /\ \A g \in DOMAIN rows' :
              /\ SameHop(rows'[g], rows[g])
              /\ rows[g].state = "draining" => rows'[g].next = rows[g].next
              /\ rows[g].state # "draining" =>
                   rows'[g].next \in (LiveInners(rows') \ {g}) \cup {Panel}
<1> DEFINE gone == Without(rows, h)
<1>1. h \in DOMAIN rows /\ rows[h].state = "draining" /\ rows' = Reconcile(gone)
  BY DEF FinishDraining, Rows
<1>2. /\ IsTable(gone) /\ DOMAIN gone = DOMAIN rows \ {h}
      /\ \A g \in DOMAIN rows \ {h} : gone[g] = rows[g]
  BY RowsTable, WithoutTable
<1> HIDE DEF gone
<1>3. LiveInners(rows') = LiveInners(gone)
  BY <1>1, <1>2, ReconcileLive
<1>4. QED
  BY <1>1, <1>2, <1>3, ReconcileTable

\* The remaining writes change fields of rows and no row's place.
SamePlace ==
  /\ DOMAIN rows' = DOMAIN rows
  /\ \A g \in DOMAIN rows :
       /\ rows'[g].next = rows[g].next
       /\ rows'[g].position = rows[g].position
       /\ rows'[g].role = rows[g].role
       /\ rows'[g].secret = rows[g].secret

LEMMA UpdateRows ==
  ASSUME TypeOK, NEW h \in HopId, NEW n \in Name, NEW a \in Addr,
         NEW t \in Target \cup {NoTarget}, Update(h, n, a, t)
  PROVE  /\ IsTable(rows') /\ SamePlace
         /\ h \in DOMAIN rows /\ rows[h].state # "draining"
         /\ \A g \in DOMAIN rows \ {h} : rows'[g] = rows[g]
         /\ rows'[h].state = rows[h].state /\ rows'[h].active = rows[h].active
         /\ rows'[h].target = t
         /\ rows'[h].lastRevision = rows[h].lastRevision
         /\ rows'[h].drainRevision = rows[h].drainRevision
<1>1. h \in DOMAIN rows /\ rows[h].state # "draining"
  BY DEF Update, NotDraining
<1>2. IsTable(rows) /\ rows[h] \in Row
  BY <1>1, RowsTable DEF IsTable
<1>3. /\ DOMAIN rows' = DOMAIN rows
      /\ \A g \in DOMAIN rows \ {h} : rows'[g] = rows[g]
      /\ rows'[h] = [rows[h] EXCEPT !.name = n, !.addr = a, !.target = t]
      /\ rows' \in [DOMAIN rows -> Row \cup {rows'[h]}]
  BY <1>1, <1>2 DEF Update, IsTable
<1>4. rows'[h] \in Row
  BY <1>2, <1>3 DEF Row
<1>5. IsTable(rows')
  BY <1>2, <1>3, <1>4 DEF IsTable
<1>6. /\ rows'[h].next = rows[h].next /\ rows'[h].position = rows[h].position
      /\ rows'[h].role = rows[h].role /\ rows'[h].secret = rows[h].secret
      /\ rows'[h].state = rows[h].state /\ rows'[h].active = rows[h].active
      /\ rows'[h].target = t
      /\ rows'[h].lastRevision = rows[h].lastRevision
      /\ rows'[h].drainRevision = rows[h].drainRevision
  BY <1>2, <1>3 DEF Row
<1>7. SamePlace
  BY <1>3, <1>6 DEF SamePlace
<1>8. QED
  BY <1>1, <1>3, <1>5, <1>6, <1>7

LEMMA SetActiveRows ==
  ASSUME TypeOK, NEW h \in HopId, SetActive(h)
  PROVE  /\ IsTable(rows') /\ SamePlace
         /\ h \in DOMAIN rows /\ rows[h].role = "edge" /\ rows[h].state # "draining"
         /\ \A g \in DOMAIN rows :
              /\ SameBox(rows'[g], rows[g]) /\ rows'[g].active = (g = h)
              /\ rows'[g].state = rows[g].state
              /\ rows'[g].drainRevision = rows[g].drainRevision
<1>1. /\ h \in DOMAIN rows /\ rows[h].role = "edge" /\ rows[h].state # "draining"
      /\ rows' = [g \in DOMAIN rows |-> [rows[g] EXCEPT !.active = (g = h)]]
  BY DEF SetActive, NotDraining
<1>2. \A g \in DOMAIN rows : rows[g] \in Row
  BY DEF TypeOK
<1>3. \A g \in DOMAIN rows : [rows[g] EXCEPT !.active = (g = h)] \in Row
  BY <1>2 DEF Row
<1>4. IsTable(rows')
  BY <1>1, <1>3, RowsTable DEF IsTable
<1>5. \A g \in DOMAIN rows :
        /\ SameBox(rows'[g], rows[g]) /\ rows'[g].active = (g = h)
        /\ rows'[g].state = rows[g].state /\ rows'[g].drainRevision = rows[g].drainRevision
        /\ rows'[g].next = rows[g].next /\ rows'[g].position = rows[g].position
  BY <1>1, <1>2 DEF SameBox, Row
<1>6. QED
  BY <1>1, <1>4, <1>5 DEF SamePlace, SameBox

LEMMA ClearActiveRows ==
  ASSUME TypeOK, ClearActive
  PROVE  /\ IsTable(rows') /\ SamePlace
         /\ \A g \in DOMAIN rows :
              /\ SameBox(rows'[g], rows[g]) /\ rows'[g].active = FALSE
              /\ rows'[g].state = rows[g].state
              /\ rows'[g].drainRevision = rows[g].drainRevision
<1>1. rows' = [g \in DOMAIN rows |-> [rows[g] EXCEPT !.active = FALSE]]
  BY DEF ClearActive
<1>2. \A g \in DOMAIN rows : rows[g] \in Row
  BY DEF TypeOK
<1>3. \A g \in DOMAIN rows : [rows[g] EXCEPT !.active = FALSE] \in Row
  BY <1>2 DEF Row
<1>4. IsTable(rows')
  BY <1>1, <1>3, RowsTable DEF IsTable
<1>5. \A g \in DOMAIN rows :
        /\ SameBox(rows'[g], rows[g]) /\ rows'[g].active = FALSE
        /\ rows'[g].state = rows[g].state /\ rows'[g].drainRevision = rows[g].drainRevision
        /\ rows'[g].next = rows[g].next /\ rows'[g].position = rows[g].position
  BY <1>1, <1>2 DEF SameBox, Row
<1>6. QED
  BY <1>1, <1>4, <1>5 DEF SamePlace, SameBox

\* A new token, an expired one and a deadline touch one row each.
LEMMA OneFieldRows ==
  ASSUME TypeOK, NEW h \in HopId,
         ReissueToken(h) \/ TokenExpires(h) \/ DrainDeadline(h)
  PROVE  /\ IsTable(rows') /\ SamePlace
         /\ h \in DOMAIN rows
         /\ \A g \in DOMAIN rows \ {h} : rows'[g] = rows[g]
         /\ rows'[h].state = IF ReissueToken(h) THEN "pending" ELSE rows[h].state
         /\ ReissueToken(h) => rows[h].state # "draining"
         /\ SameBox(rows'[h], rows[h]) /\ rows'[h].active = rows[h].active
         /\ rows'[h].drainRevision = rows[h].drainRevision
<1>1. h \in DOMAIN rows
  BY DEF ReissueToken, TokenExpires, DrainDeadline, NotDraining, Rows
<1>2. IsTable(rows) /\ rows[h] \in Row
  BY <1>1, RowsTable DEF IsTable
<1>3. CASE ReissueToken(h)
  <2>1. /\ DOMAIN rows' = DOMAIN rows
        /\ \A g \in DOMAIN rows \ {h} : rows'[g] = rows[g]
        /\ rows'[h] = [rows[h] EXCEPT !.token = TRUE, !.state = "pending"]
        /\ rows' \in [DOMAIN rows -> Row \cup {rows'[h]}]
        /\ rows[h].state # "draining"
    BY <1>1, <1>2, <1>3 DEF ReissueToken, NotDraining, IsTable
  <2>2. rows'[h] \in Row
    BY <1>2, <2>1 DEF Row, State
  <2>3. IsTable(rows')
    BY <1>2, <2>1, <2>2 DEF IsTable
  <2>4. /\ rows'[h].next = rows[h].next /\ rows'[h].position = rows[h].position
        /\ SameBox(rows'[h], rows[h]) /\ rows'[h].active = rows[h].active
        /\ rows'[h].drainRevision = rows[h].drainRevision
        /\ rows'[h].state = "pending"
    BY <1>2, <2>1 DEF SameBox, Row
  <2>5. SamePlace
    BY <2>1, <2>4 DEF SamePlace, SameBox
  <2>6. QED
    BY <1>1, <1>3, <2>1, <2>3, <2>4, <2>5
<1>4. CASE ~ReissueToken(h)
  <2>1. /\ DOMAIN rows' = DOMAIN rows
        /\ \A g \in DOMAIN rows \ {h} : rows'[g] = rows[g]
        /\ \/ rows'[h] = [rows[h] EXCEPT !.token = FALSE]
           \/ rows'[h] = [rows[h] EXCEPT !.due = TRUE]
        /\ rows' \in [DOMAIN rows -> Row \cup {rows'[h]}]
    BY <1>1, <1>2, <1>4 DEF TokenExpires, DrainDeadline, IsTable
  <2>2. rows'[h] \in Row
    BY <1>2, <2>1 DEF Row
  <2>3. IsTable(rows')
    BY <1>2, <2>1, <2>2 DEF IsTable
  <2>4. /\ rows'[h].next = rows[h].next /\ rows'[h].position = rows[h].position
        /\ SameBox(rows'[h], rows[h]) /\ rows'[h].active = rows[h].active
        /\ rows'[h].drainRevision = rows[h].drainRevision
        /\ rows'[h].state = rows[h].state
    BY <1>2, <2>1 DEF SameBox, Row
  <2>5. SamePlace
    BY <2>1, <2>4 DEF SamePlace, SameBox
  <2>6. QED
    BY <1>1, <1>4, <2>1, <2>3, <2>4, <2>5
<1>5. QED
  BY <1>3, <1>4

\* An acknowledgement moves freshness forward, as far as the panel's revision,
\* and nothing else.
LEMMA AcknowledgeRows ==
  ASSUME TypeOK, ConfirmedRevisionsExist, NEW acks \in SUBSET (Name \X Nat)
  PROVE  /\ IsTable(Acknowledge(acks)) /\ DOMAIN Acknowledge(acks) = DOMAIN rows
         /\ \A g \in DOMAIN rows :
              \E r \in Nat : /\ Acknowledge(acks)[g] = [rows[g] EXCEPT !.lastRevision = r]
                            /\ rows[g].lastRevision <= r /\ r <= revision
<1> DEFINE clamp(r) == IF r > revision THEN revision ELSE r
           heard(g) == {clamp(k[2]) : k \in {x \in acks : x[1] = rows[g].name}}
           newest(g) == {r \in heard(g) : r > rows[g].lastRevision /\ \A q \in heard(g) : q <= r}
<1>1. DOMAIN Acknowledge(acks) = DOMAIN rows
  BY DEF Acknowledge
<1>2. ASSUME NEW g \in DOMAIN rows
      PROVE  \E r \in Nat : /\ Acknowledge(acks)[g] = [rows[g] EXCEPT !.lastRevision = r]
                            /\ rows[g].lastRevision <= r /\ r <= revision
  <2>1. rows[g] \in Row /\ rows[g].lastRevision \in Nat /\ revision \in Nat
    BY DEF TypeOK, Row
  <2>2. \A r \in heard(g) : r \in Nat /\ r <= revision
    BY <2>1
  <2>3. CASE newest(g) = {}
    <3>1. Acknowledge(acks)[g] = rows[g]
      BY <2>3 DEF Acknowledge
    <3>2. rows[g] = [rows[g] EXCEPT !.lastRevision = rows[g].lastRevision]
      BY <2>1 DEF Row
    <3>3. QED
      BY <2>1, <3>1, <3>2 DEF ConfirmedRevisionsExist
  <2>4. CASE newest(g) # {}
    <3> DEFINE r == CHOOSE q \in newest(g) : TRUE
    <3>1. r \in newest(g)
      BY <2>4
    <3>2. Acknowledge(acks)[g] = [rows[g] EXCEPT !.lastRevision = r]
      BY <2>4 DEF Acknowledge
    <3> HIDE DEF r
    <3>3. r \in Nat /\ rows[g].lastRevision <= r /\ r <= revision
      BY <2>1, <2>2, <3>1
    <3>4. QED
      BY <3>2, <3>3
  <2>5. QED
    BY <2>3, <2>4
<1>3. ASSUME NEW g \in DOMAIN rows
      PROVE  Acknowledge(acks)[g] \in Row
  <2>1. rows[g] \in Row
    BY DEF TypeOK
  <2>2. PICK r \in Nat : Acknowledge(acks)[g] = [rows[g] EXCEPT !.lastRevision = r]
    BY <1>2
  <2>3. QED
    BY <2>1, <2>2 DEF Row
<1>4. IsTable(Acknowledge(acks))
  BY <1>1, <1>3, RowsTable DEF IsTable, Acknowledge
<1>5. QED
  BY <1>1, <1>2, <1>4

\* The same of a poll.
LEMMA RecordSeenRows ==
  ASSUME TypeOK, ConfirmedRevisionsExist, NEW h \in HopId, NEW seen \in Nat,
         NEW acks \in SUBSET (Name \X Nat), RecordSeen(h, seen, acks)
  PROVE  /\ IsTable(rows') /\ DOMAIN rows' = DOMAIN rows
         /\ \A g \in DOMAIN rows :
              /\ rows'[g].lastRevision \in rows[g].lastRevision..revision
              /\ Entry(rows', g) = Entry(rows, g)
              /\ rows'[g].next = rows[g].next /\ rows'[g].role = rows[g].role
              /\ rows'[g].position = rows[g].position
              /\ rows'[g].state = rows[g].state /\ rows'[g].active = rows[g].active
              /\ rows'[g].drainRevision = rows[g].drainRevision
<1> DEFINE heard == {k \in acks : \E g \in Outward(rows, h) : rows[g].name = k[1]}
           all == {<<rows[h].name, seen>>} \cup heard
<1>1. h \in DOMAIN rows /\ rows' = Acknowledge(all)
  BY DEF RecordSeen
<1>2. rows[h].name \in Name
  BY <1>1 DEF TypeOK, Row
<1>3. all \in SUBSET (Name \X Nat)
  BY <1>2
<1> HIDE DEF all
<1>4. IsTable(rows') /\ DOMAIN rows' = DOMAIN rows
  BY <1>1, <1>3, AcknowledgeRows
<1>5. ASSUME NEW g \in DOMAIN rows
      PROVE  /\ rows'[g].lastRevision \in rows[g].lastRevision..revision
             /\ Entry(rows', g) = Entry(rows, g)
             /\ rows'[g].next = rows[g].next /\ rows'[g].role = rows[g].role
             /\ rows'[g].position = rows[g].position
             /\ rows'[g].state = rows[g].state /\ rows'[g].active = rows[g].active
             /\ rows'[g].drainRevision = rows[g].drainRevision
  <2>1. PICK r \in Nat : /\ rows'[g] = [rows[g] EXCEPT !.lastRevision = r]
                        /\ rows[g].lastRevision <= r /\ r <= revision
    BY <1>1, <1>3, AcknowledgeRows
  <2>2. rows[g] \in Row /\ revision \in Nat
    BY DEF TypeOK
  <2>3. QED
    BY <2>1, <2>2 DEF Row, Entry
<1>6. QED
  BY <1>4, <1>5

\* A restart leaves the table alone or imports one row into an empty one.
LEMMA RestartRows ==
  ASSUME TypeOK, PanelRestart
  PROVE  \/ rows' = rows /\ created' = created /\ revision' = revision
         \/ /\ IsTable(rows') /\ DOMAIN rows = {} /\ DOMAIN rows' = {created + 1}
            /\ created' = created + 1 /\ revision' = revision + 1
            /\ rows'[created + 1].role = "edge" /\ rows'[created + 1].state = "legacy"
            /\ rows'[created + 1].next = Panel /\ rows'[created + 1].lastRevision = 0
            /\ rows'[created + 1].drainRevision = 0 /\ rows'[created + 1].target = NoTarget
<1>1. CASE DOMAIN rows = {} /\ created < MaxHops /\ created' = created + 1 /\ Bump
           /\ \E a \in LegacyAddr, enabled \in BOOLEAN :
                rows' = [h \in {created + 1} |->
                           [NewRow(LegacyName, "edge", a, NoTarget, 0)
                              EXCEPT !.state = "legacy", !.token = FALSE, !.active = enabled]]
  <2>1. PICK a \in LegacyAddr, enabled \in BOOLEAN :
          rows' = [h \in {created + 1} |->
                     [NewRow(LegacyName, "edge", a, NoTarget, 0)
                        EXCEPT !.state = "legacy", !.token = FALSE, !.active = enabled]]
    BY <1>1
  <2>2. a \in Addr /\ LegacyName \in Name
    BY LegacyAssumption
  <2> DEFINE new == [NewRow(LegacyName, "edge", a, NoTarget, 0)
                       EXCEPT !.state = "legacy", !.token = FALSE, !.active = enabled]
  <2>3. /\ new \in Row /\ new.role = "edge" /\ new.state = "legacy" /\ new.next = Panel
        /\ new.lastRevision = 0 /\ new.drainRevision = 0 /\ new.target = NoTarget
    BY <2>2 DEF NewRow, Row, State, NextHop, Role
  <2>4. DOMAIN rows' = {created + 1} /\ rows'[created + 1] = new
    BY <2>1
  <2>5. rows' \in [{created + 1} -> Row]
    BY <2>1, <2>3
  <2>6. created + 1 \in HopId
    BY <1>1, MaxHopsAssumption DEF TypeOK, HopId
  <2> HIDE DEF new
  <2>7. QED
    BY <1>1, <2>3, <2>4, <2>5, <2>6 DEF IsTable, Bump
<1>2. QED
  BY <1>1 DEF PanelRestart

-----------------------------------------------------------------------------
(* Types. *)

\* Following inbounds keep their type when they take an edge's neighbour.
LEMMA FollowType ==
  ASSUME TypeOK, NEW t \in Target \cup {NoTarget}, FollowEdge(t)
  PROVE  /\ follow' \subseteq Inbound
         /\ cover' \in [Inbound -> Target \cup {NoTarget}]
         /\ needRestart' \in BOOLEAN
BY DEF TypeOK, FollowEdge

\* What a poll reports is a natural number.
LEMMA PollsTyped ==
  ASSUME TypeOK
  PROVE  /\ revision \in Nat /\ Reported \subseteq Nat
         /\ {} \in SUBSET (Name \X Nat)
         /\ \A n \in Name, seen \in Reported : {<<n, seen>>} \in SUBSET (Name \X Nat)
BY BoundsAssumption DEF TypeOK, Reported

\* A poll, whatever it reports: Boxes lets boxes report only so much.
Heard ==
  \E h \in HopId, seen \in Nat, acks \in SUBSET (Name \X Nat) : RecordSeen(h, seen, acks)

LEMMA TypeInit == Init => TypeOK
<1> SUFFICES ASSUME Init PROVE TypeOK
  OBVIOUS
<1>1. created \in 0..MaxHops /\ revision \in Nat
  BY MaxHopsAssumption DEF Init
<1>2. DOMAIN rows = {} /\ rows \in [DOMAIN rows -> Row]
  BY DEF Init
<1>3. cover \in [Inbound -> Target \cup {NoTarget}]
  BY DEF Init
<1>4. QED
  BY <1>1, <1>2, <1>3 DEF Init, TypeOK

LEMMA TypeStep ==
  ASSUME TypeOK, ConfirmedRevisionsExist, [Next]_vars \/ Heard
  PROVE  TypeOK'
<1> USE DEF TypeOK, IsTable, inboundVars, Prune, ForgetHop, Bump
<1>1. ASSUME NEW n \in Name, NEW r \in Role, NEW a \in Addr, NEW t \in Target \cup {NoTarget},
             NEW p \in 0..MaxHops, Add(n, r, a, t, p)
      PROVE  TypeOK'
  <2>1. IsTable(rows') /\ DOMAIN rows' = DOMAIN rows \cup {created + 1}
    BY <1>1, AddRows
  <2>2. /\ created < MaxHops /\ created' = created + 1
        /\ UNCHANGED <<revision, ports, inboundVars, monTargets, sweep>>
    BY <1>1 DEF Add
  <2>3. QED
    BY <2>1, <2>2, MaxHopsAssumption
<1>2. ASSUME NEW h \in HopId, NEW n \in Name, NEW a \in Addr,
             NEW t \in Target \cup {NoTarget}, Update(h, n, a, t)
      PROVE  TypeOK'
  <2>1. IsTable(rows') /\ DOMAIN rows' = DOMAIN rows
    BY <1>2, UpdateRows DEF SamePlace
  <2>2. /\ follow' \subseteq Inbound
        /\ cover' \in [Inbound -> Target \cup {NoTarget}]
        /\ needRestart' \in BOOLEAN
    BY <1>2, FollowType DEF Update
  <2>3. QED
    BY <1>2, <2>1, <2>2 DEF Update
<1>3. ASSUME NEW h \in HopId, NEW force \in BOOLEAN, NEW skipDrain \in BOOLEAN,
             DeleteNow(h, force, skipDrain)
      PROVE  TypeOK'
  <2>1. IsTable(rows') /\ DOMAIN rows' \subseteq DOMAIN rows
    BY <1>3, DeleteRows
  <2>2. QED
    BY <1>3, <2>1 DEF DeleteNow
<1>4. ASSUME NEW h \in HopId, NEW force \in BOOLEAN, StartDraining(h, force)
      PROVE  TypeOK'
  <2>1. IsTable(rows') /\ DOMAIN rows' = DOMAIN rows
    BY <1>4, StartDrainingRows
  <2>2. /\ monTargets' \subseteq monTargets /\ Bump
        /\ UNCHANGED <<created, ports, inboundVars, sweep>>
    BY <1>4 DEF StartDraining
  <2>3. QED
    BY <2>1, <2>2
<1>5. ASSUME NEW h \in HopId, SetActive(h)
      PROVE  TypeOK'
  <2>1. IsTable(rows') /\ DOMAIN rows' = DOMAIN rows /\ h \in DOMAIN rows
    BY <1>5, SetActiveRows DEF SamePlace
  <2>2. rows[h].target \in Target \cup {NoTarget}
    BY <2>1 DEF Row
  <2>3. /\ follow' \subseteq Inbound
        /\ cover' \in [Inbound -> Target \cup {NoTarget}]
        /\ needRestart' \in BOOLEAN
    BY <1>5, <2>2, FollowType DEF SetActive
  <2>4. QED
    BY <1>5, <2>1, <2>3 DEF SetActive
<1>6. ASSUME ClearActive
      PROVE  TypeOK'
  <2>1. IsTable(rows') /\ DOMAIN rows' = DOMAIN rows
    BY <1>6, ClearActiveRows DEF SamePlace
  <2>2. QED
    BY <1>6, <2>1 DEF ClearActive
<1>7. ASSUME NEW h \in HopId, ReissueToken(h) \/ TokenExpires(h) \/ DrainDeadline(h)
      PROVE  TypeOK'
  <2>1. IsTable(rows') /\ DOMAIN rows' = DOMAIN rows
    BY <1>7, OneFieldRows DEF SamePlace
  <2>2. QED
    BY <1>7, <2>1 DEF ReissueToken, TokenExpires, DrainDeadline
<1>8. ASSUME NEW p \in Ports, PortsChanged(p)
      PROVE  TypeOK'
  BY <1>8 DEF PortsChanged
<1>9. ASSUME NEW h \in HopId, NEW a \in Addr, Join(h, a)
      PROVE  TypeOK'
  <2>1. IsTable(rows') /\ DOMAIN rows' = DOMAIN rows
    BY <1>9, JoinRows
  <2>2. /\ monTargets' \subseteq monTargets /\ Bump
        /\ UNCHANGED <<created, ports, inboundVars, sweep>>
    BY <1>9 DEF Join
  <2>3. QED
    BY <2>1, <2>2
<1>10. ASSUME NEW h \in HopId, NEW seen \in Nat, NEW acks \in SUBSET (Name \X Nat),
              RecordSeen(h, seen, acks)
       PROVE  TypeOK'
  <2>1. IsTable(rows') /\ DOMAIN rows' = DOMAIN rows
    BY <1>10, RecordSeenRows
  <2>2. QED
    BY <1>10, <2>1 DEF RecordSeen, StartSweep, Rows
<1>11. ASSUME NEW p \in Watched, MonReport(p)
       PROVE  TypeOK'
  BY <1>11 DEF MonReport
<1>12. CASE SweepTick
  BY <1>12, RowsTable DEF SweepTick, StartSweep, Rows
<1>13. CASE SweepStep
  <2>1. PICK h \in sweep :
          /\ sweep' = sweep \ {h}
          /\ \/ FinishDraining(h)
             \/ UNCHANGED <<rows, created, revision, ports, inboundVars, monTargets>>
    BY <1>13 DEF SweepStep
  <2>2. CASE FinishDraining(h)
    <3>1. IsTable(rows') /\ DOMAIN rows' \subseteq DOMAIN rows
      BY <2>1, <2>2, FinishRows
    <3>2. QED
      BY <2>1, <2>2, <3>1 DEF FinishDraining
  <2>3. CASE UNCHANGED <<rows, created, revision, ports, inboundVars, monTargets>>
    BY <2>1, <2>3
  <2>4. QED
    BY <2>1, <2>2, <2>3
<1>14. CASE PanelRestart
  <2>1. CASE rows' = rows /\ created' = created /\ revision' = revision
    BY <1>14, <2>1 DEF PanelRestart
  <2>2. CASE /\ IsTable(rows') /\ DOMAIN rows' = {created + 1}
             /\ created' = created + 1 /\ revision' = revision + 1
    <3>1. created + 1 \in 1..MaxHops
      BY <2>2, MaxHopsAssumption DEF HopId
    <3>2. /\ monTargets' \subseteq monTargets /\ sweep' = {} /\ needRestart' = FALSE
          /\ UNCHANGED <<ports, follow, cover>>
      BY <1>14 DEF PanelRestart
    <3>3. DOMAIN rows' \subseteq 1..created' /\ created' \in 0..MaxHops
      <4>1. created \in Nat /\ created' = created + 1
        BY <2>2
      <4>2. QED
        BY <2>2, <3>1, <4>1, MaxHopsAssumption
    <3>4. rows' \in [DOMAIN rows' -> Row] /\ revision' \in Nat
      BY <2>2
    <3>5. QED
      BY <3>2, <3>3, <3>4
  <2>3. QED
    BY <1>14, <2>1, <2>2, RestartRows
<1>15. CASE UNCHANGED vars
  BY <1>15 DEF vars
<1>16. QED
  BY <1>1, <1>2, <1>3, <1>4, <1>5, <1>6, <1>7, <1>8, <1>9, <1>10, <1>11, <1>12,
     <1>13, <1>14, <1>15, PollsTyped DEF Next, Owner, Boxes, Clock, Poll, Heard

-----------------------------------------------------------------------------
(* Confirmed revisions. *)

\* Rows keep what they confirmed, a departure may begin, new ones have nothing.
KeepsFreshness ==
  \A g \in DOMAIN rows' :
    \/ /\ g \in DOMAIN rows
       /\ rows'[g].lastRevision = rows[g].lastRevision
       /\ rows'[g].drainRevision \in {rows[g].drainRevision, revision'}
    \/ rows'[g].lastRevision = 0 /\ rows'[g].drainRevision = 0

LEMMA FreshnessKept ==
  ASSUME TypeOK, ConfirmedRevisionsExist, KeepsFreshness, revision' \in {revision, revision + 1}
  PROVE  ConfirmedRevisionsExist'
<1>1. /\ revision \in Nat
      /\ \A g \in DOMAIN rows : rows[g].lastRevision \in Nat /\ rows[g].drainRevision \in Nat
  BY DEF TypeOK, Row
<1>2. QED
  BY <1>1 DEF ConfirmedRevisionsExist, KeepsFreshness

LEMMA ConfirmedStep ==
  ASSUME TypeOK, ConfirmedRevisionsExist, [Next]_vars \/ Heard
  PROVE  ConfirmedRevisionsExist'
<1>1. ASSUME NEW n \in Name, NEW r \in Role, NEW a \in Addr, NEW t \in Target \cup {NoTarget},
             NEW p \in 0..MaxHops, Add(n, r, a, t, p)
      PROVE  ConfirmedRevisionsExist'
  <2>1. revision' = revision
    BY <1>1 DEF Add
  <2>2. /\ DOMAIN rows' = DOMAIN rows \cup {created + 1}
        /\ \A g \in DOMAIN rows : SameHop(rows'[g], rows[g])
        /\ rows'[created + 1].lastRevision = 0 /\ rows'[created + 1].drainRevision = 0
    BY <1>1, AddRows
  <2>3. KeepsFreshness
    BY <2>2 DEF KeepsFreshness, SameHop, SameBox
  <2>4. QED
    BY <2>1, <2>3, FreshnessKept
<1>2. ASSUME NEW h \in HopId, NEW n \in Name, NEW a \in Addr,
             NEW t \in Target \cup {NoTarget}, Update(h, n, a, t)
      PROVE  ConfirmedRevisionsExist'
  <2>1. revision' = revision + 1
    BY <1>2 DEF Update, Bump
  <2>2. /\ DOMAIN rows' = DOMAIN rows
        /\ \A g \in DOMAIN rows \ {h} : rows'[g] = rows[g]
        /\ rows'[h].lastRevision = rows[h].lastRevision
        /\ rows'[h].drainRevision = rows[h].drainRevision
    BY <1>2, UpdateRows DEF SamePlace
  <2>3. KeepsFreshness
    BY <2>2 DEF KeepsFreshness
  <2>4. QED
    BY <2>1, <2>3, FreshnessKept
<1>3. ASSUME NEW h \in HopId, NEW force \in BOOLEAN, NEW skipDrain \in BOOLEAN,
             DeleteNow(h, force, skipDrain)
      PROVE  ConfirmedRevisionsExist'
  <2>1. revision' = revision + 1
    BY <1>3 DEF DeleteNow, Bump
  <2>2. /\ DOMAIN rows' = DOMAIN rows \ {h}
        /\ \A g \in DOMAIN rows' : SameHop(rows'[g], rows[g])
    BY <1>3, DeleteRows
  <2>3. KeepsFreshness
    BY <2>2 DEF KeepsFreshness, SameHop, SameBox
  <2>4. QED
    BY <2>1, <2>3, FreshnessKept
<1>4. ASSUME NEW h \in HopId, NEW force \in BOOLEAN, StartDraining(h, force)
      PROVE  ConfirmedRevisionsExist'
  <2>1. revision' = revision + 1
    BY <1>4 DEF StartDraining, Bump
  <2>2. /\ DOMAIN rows' = DOMAIN rows
        /\ \A g \in DOMAIN rows \ {h} : SameHop(rows'[g], rows[g])
        /\ SameBox(rows'[h], rows[h]) /\ rows'[h].drainRevision = revision + 1
    BY <1>4, StartDrainingRows
  <2>3. KeepsFreshness
    BY <2>1, <2>2 DEF KeepsFreshness, SameHop, SameBox
  <2>4. QED
    BY <2>1, <2>3, FreshnessKept
<1>5. ASSUME NEW h \in HopId, SetActive(h)
      PROVE  ConfirmedRevisionsExist'
  <2>1. revision' = revision + 1
    BY <1>5 DEF SetActive, Bump
  <2>2. KeepsFreshness
    BY <1>5, SetActiveRows DEF KeepsFreshness, SamePlace, SameBox
  <2>3. QED
    BY <2>1, <2>2, FreshnessKept
<1>6. ASSUME ClearActive
      PROVE  ConfirmedRevisionsExist'
  <2>1. revision' = revision + 1
    BY <1>6 DEF ClearActive, Bump
  <2>2. KeepsFreshness
    BY <1>6, ClearActiveRows DEF KeepsFreshness, SamePlace, SameBox
  <2>3. QED
    BY <2>1, <2>2, FreshnessKept
<1>7. ASSUME NEW h \in HopId, ReissueToken(h) \/ TokenExpires(h) \/ DrainDeadline(h)
      PROVE  ConfirmedRevisionsExist'
  <2>1. revision' = revision
    BY <1>7 DEF ReissueToken, TokenExpires, DrainDeadline
  <2>2. /\ DOMAIN rows' = DOMAIN rows
        /\ \A g \in DOMAIN rows \ {h} : rows'[g] = rows[g]
        /\ SameBox(rows'[h], rows[h]) /\ rows'[h].drainRevision = rows[h].drainRevision
    BY <1>7, OneFieldRows DEF SamePlace
  <2>3. KeepsFreshness
    BY <2>2 DEF KeepsFreshness, SameBox
  <2>4. QED
    BY <2>1, <2>3, FreshnessKept
<1>8. ASSUME NEW h \in HopId, NEW a \in Addr, Join(h, a)
      PROVE  ConfirmedRevisionsExist'
  <2>1. revision' = revision + 1
    BY <1>8 DEF Join, Bump
  <2>2. /\ DOMAIN rows' = DOMAIN rows
        /\ \A g \in DOMAIN rows \ {h} : SameHop(rows'[g], rows[g])
        /\ rows'[h].lastRevision = rows[h].lastRevision
        /\ rows'[h].drainRevision = rows[h].drainRevision
    BY <1>8, JoinRows
  <2>3. KeepsFreshness
    BY <2>2 DEF KeepsFreshness, SameHop, SameBox
  <2>4. QED
    BY <2>1, <2>3, FreshnessKept
<1>9. ASSUME NEW h \in HopId, NEW seen \in Nat, NEW acks \in SUBSET (Name \X Nat),
             RecordSeen(h, seen, acks)
      PROVE  ConfirmedRevisionsExist'
  <2>1. revision' = revision /\ revision \in Nat
    BY <1>9 DEF RecordSeen, TypeOK
  <2>2. /\ DOMAIN rows' = DOMAIN rows
        /\ \A g \in DOMAIN rows :
             /\ rows'[g].lastRevision \in rows[g].lastRevision..revision
             /\ rows'[g].drainRevision = rows[g].drainRevision
    BY <1>9, RecordSeenRows
  <2>3. QED
    BY <2>1, <2>2 DEF ConfirmedRevisionsExist
<1>10. ASSUME NEW h \in HopId, FinishDraining(h)
       PROVE  ConfirmedRevisionsExist'
  <2>1. revision' \in {revision, revision + 1}
    BY <1>10 DEF FinishDraining
  <2>2. /\ DOMAIN rows' = DOMAIN rows \ {h}
        /\ \A g \in DOMAIN rows' : SameHop(rows'[g], rows[g])
    BY <1>10, FinishRows
  <2>3. KeepsFreshness
    BY <2>2 DEF KeepsFreshness, SameHop, SameBox
  <2>4. QED
    BY <2>1, <2>3, FreshnessKept
<1>11. CASE PanelRestart
  <2>1. revision' \in {revision, revision + 1} /\ KeepsFreshness
    BY <1>11, RestartRows DEF KeepsFreshness
  <2>2. QED
    BY <2>1, FreshnessKept
<1>12. ASSUME rows' = rows, revision' \in {revision, revision + 1}
       PROVE  ConfirmedRevisionsExist'
  <2>1. KeepsFreshness
    BY <1>12 DEF KeepsFreshness
  <2>2. QED
    BY <1>12, <2>1, FreshnessKept
<1>13. QED
  <2>1. CASE SweepStep
    BY <1>10, <1>12, <2>1 DEF SweepStep, TypeOK
  <2>2. CASE SweepTick \/ (\E p \in Watched : MonReport(p)) \/ UNCHANGED vars
    BY <1>12, <2>2 DEF SweepTick, MonReport, vars
  <2>3. CASE \E p \in Ports : PortsChanged(p)
    BY <1>12, <2>3 DEF PortsChanged, Bump
  <2>4. QED
    BY <1>1, <1>2, <1>3, <1>4, <1>5, <1>6, <1>7, <1>8, <1>9, <1>11, <2>1, <2>2, <2>3,
       PollsTyped DEF Next, Owner, Boxes, Clock, Poll, Heard

-----------------------------------------------------------------------------
(* The topology. *)

\* No row changes its role, its next hop or whether it is departing.
SameStanding ==
  /\ DOMAIN rows' = DOMAIN rows
  /\ \A g \in DOMAIN rows :
       /\ rows'[g].next = rows[g].next /\ rows'[g].role = rows[g].role
       /\ rows'[g].state = "draining" <=> rows[g].state = "draining"

LEMMA StandingLive ==
  ASSUME NextHopsAreLive, SameStanding
  PROVE  NextHopsAreLive'
<1>1. LiveInners(rows') = LiveInners(rows)
  BY DEF SameStanding, LiveInners, Inners, Rows
<1>2. QED
  BY <1>1 DEF NextHopsAreLive, SameStanding

\* What it takes once the topology has been restored.
LEMMA RestoredLive ==
  ASSUME \A g \in DOMAIN rows' : rows'[g].next \in (LiveInners(rows') \ {g}) \cup {Panel}
  PROVE  NextHopsAreLive'
BY DEF NextHopsAreLive

LEMMA LiveStep ==
  ASSUME TypeOK, ConfirmedRevisionsExist, NextHopsAreLive, [Next]_vars \/ Heard
  PROVE  NextHopsAreLive'
<1>1. ASSUME NEW n \in Name, NEW r \in Role, NEW a \in Addr, NEW t \in Target \cup {NoTarget},
             NEW p \in 0..MaxHops, Add(n, r, a, t, p)
      PROVE  NextHopsAreLive'
  <2>1. /\ DOMAIN rows' = DOMAIN rows \cup {created + 1}
        /\ rows'[created + 1].state = "pending"
        /\ \A g \in DOMAIN rows :
             /\ SameHop(rows'[g], rows[g])
             /\ rows[g].state = "draining" => rows'[g].next = rows[g].next
        /\ \A g \in DOMAIN rows' :
             rows'[g].state # "draining" =>
               rows'[g].next \in (LiveInners(rows') \ {g}) \cup {Panel}
    BY <1>1, AddRows
  <2>2. LiveInners(rows) \subseteq LiveInners(rows')
    BY <2>1 DEF LiveInners, Inners, Rows, SameHop, SameBox
  <2>3. ASSUME NEW g \in DOMAIN rows', rows'[g].state = "draining"
        PROVE  rows'[g].next \in (LiveInners(rows') \ {g}) \cup {Panel}
    <3>1. g \in DOMAIN rows /\ rows[g].state = "draining"
      BY <2>1, <2>3 DEF SameHop
    <3>2. rows'[g].next = rows[g].next
      BY <2>1, <3>1
    <3>3. QED
      BY <2>2, <3>1, <3>2 DEF NextHopsAreLive
  <2>4. QED
    BY <2>1, <2>3, RestoredLive
<1>2. ASSUME NEW h \in HopId, NEW n \in Name, NEW a \in Addr,
             NEW t \in Target \cup {NoTarget}, Update(h, n, a, t)
      PROVE  NextHopsAreLive'
  <2>1. /\ SamePlace /\ rows'[h].state = rows[h].state
        /\ \A g \in DOMAIN rows \ {h} : rows'[g] = rows[g]
    BY <1>2, UpdateRows
  <2>2. SameStanding
    BY <2>1 DEF SamePlace, SameStanding
  <2>3. QED
    BY <2>2, StandingLive
<1>3. ASSUME NEW h \in HopId, NEW force \in BOOLEAN, NEW skipDrain \in BOOLEAN,
             DeleteNow(h, force, skipDrain)
      PROVE  NextHopsAreLive'
  <2>1. /\ h \in DOMAIN rows /\ DOMAIN rows' = DOMAIN rows \ {h}
        /\ \A g \in DOMAIN rows' :
             /\ SameHop(rows'[g], rows[g])
             /\ rows[g].state = "draining" =>
                  rows'[g].next = IF rows[g].next = h THEN rows[h].next ELSE rows[g].next
             /\ rows[g].state # "draining" =>
                  rows'[g].next \in (LiveInners(rows') \ {g}) \cup {Panel}
    BY <1>3, DeleteRows
  <2>2. LiveInners(rows') = LiveInners(rows) \ {h}
    BY <2>1 DEF LiveInners, Inners, Rows, SameHop, SameBox
  <2>3. \A g \in DOMAIN rows : rows[g].next \in (LiveInners(rows) \ {g}) \cup {Panel}
    BY DEF NextHopsAreLive
  <2>4. ASSUME NEW g \in DOMAIN rows', rows[g].state = "draining"
        PROVE  rows'[g].next \in (LiveInners(rows') \ {g}) \cup {Panel}
    <3>1. g \notin LiveInners(rows)
      BY <2>1, <2>4 DEF LiveInners, Rows
    <3>2. QED
      BY <2>1, <2>2, <2>3, <2>4, <3>1
  <2>5. QED
    BY <2>1, <2>4, RestoredLive
<1>4. ASSUME NEW h \in HopId, NEW force \in BOOLEAN, StartDraining(h, force)
      PROVE  NextHopsAreLive'
  <2>1. /\ h \in DOMAIN rows /\ DOMAIN rows' = DOMAIN rows
        /\ \A g \in DOMAIN rows \ {h} : SameHop(rows'[g], rows[g])
        /\ SameBox(rows'[h], rows[h]) /\ rows'[h].state = "draining"
        /\ rows[h].state # "draining"
        /\ \A g \in DOMAIN rows :
             /\ rows'[g].state = "draining" =>
                  rows'[g].next = IF g \in LiveOuter(rows, h) THEN rows[h].next ELSE rows[g].next
             /\ rows'[g].state # "draining" =>
                  rows'[g].next \in (LiveInners(rows') \ {g}) \cup {Panel}
    BY <1>4, StartDrainingRows
  <2>2. LiveInners(rows') = LiveInners(rows) \ {h}
    BY <2>1 DEF LiveInners, Inners, Rows, SameHop, SameBox
  <2>3. \A g \in DOMAIN rows : rows[g].next \in (LiveInners(rows) \ {g}) \cup {Panel}
    BY DEF NextHopsAreLive
  <2>4. ASSUME NEW g \in DOMAIN rows, rows'[g].state = "draining"
        PROVE  rows'[g].next \in (LiveInners(rows') \ {g}) \cup {Panel}
    <3>1. CASE g = h
      <4>1. rows[h].next # h
        BY <2>1, <2>3 DEF HopId, Panel
      <4>2. rows'[h].next = rows[h].next
        BY <2>1
      <4>3. QED
        BY <2>1, <2>2, <2>3, <3>1, <4>1, <4>2
    <3>2. CASE g # h
      <4>1. rows[g].state = "draining"
        BY <2>1, <2>4, <3>2 DEF SameHop
      <4>2. g \notin LiveInners(rows)
        BY <4>1 DEF LiveInners, Rows
      <4>3. rows[g].next = h => g \in LiveOuter(rows, h)
        BY <4>1 DEF LiveOuter, HangOff, Visible
      <4>4. rows'[g].next = IF g \in LiveOuter(rows, h) THEN rows[h].next ELSE rows[g].next
        BY <2>1, <2>4
      <4>5. rows[h].next # h
        BY <2>1, <2>3 DEF HopId, Panel
      <4>6. rows'[g].next \in LiveInners(rows) \cup {Panel} /\ rows'[g].next # h
        BY <2>1, <2>3, <4>3, <4>4, <4>5
      <4>7. QED
        BY <2>2, <4>2, <4>6
    <3>3. QED
      BY <3>1, <3>2
  <2>5. QED
    BY <2>1, <2>4, RestoredLive
<1>5. ASSUME NEW h \in HopId, SetActive(h)
      PROVE  NextHopsAreLive'
  <2>1. SameStanding
    BY <1>5, SetActiveRows DEF SamePlace, SameStanding
  <2>2. QED
    BY <2>1, StandingLive
<1>6. ASSUME ClearActive
      PROVE  NextHopsAreLive'
  <2>1. SameStanding
    BY <1>6, ClearActiveRows DEF SamePlace, SameStanding
  <2>2. QED
    BY <2>1, StandingLive
<1>7. ASSUME NEW h \in HopId, ReissueToken(h) \/ TokenExpires(h) \/ DrainDeadline(h)
      PROVE  NextHopsAreLive'
  <2>1. /\ SamePlace
        /\ \A g \in DOMAIN rows \ {h} : rows'[g] = rows[g]
        /\ rows'[h].state = "draining" <=> rows[h].state = "draining"
    BY <1>7, OneFieldRows
  <2>2. SameStanding
    BY <2>1 DEF SamePlace, SameStanding
  <2>3. QED
    BY <2>2, StandingLive
<1>8. ASSUME NEW h \in HopId, NEW a \in Addr, Join(h, a)
      PROVE  NextHopsAreLive'
  <2>1. /\ h \in DOMAIN rows /\ DOMAIN rows' = DOMAIN rows
        /\ rows[h].state = "pending"
        /\ \A g \in DOMAIN rows \ {h} : SameHop(rows'[g], rows[g])
        /\ rows'[h].state = "joined" /\ rows'[h].role = rows[h].role
        /\ \A g \in DOMAIN rows :
             /\ rows[g].state = "draining" => rows'[g].next = rows[g].next
             /\ rows[g].state # "draining" =>
                  rows'[g].next \in (LiveInners(rows') \ {g}) \cup {Panel}
    BY <1>8, JoinRows
  <2>2. LiveInners(rows') = LiveInners(rows)
    BY <2>1 DEF LiveInners, Inners, Rows, SameHop, SameBox
  <2>3. QED
    BY <2>1, <2>2, RestoredLive DEF NextHopsAreLive
<1>9. ASSUME NEW h \in HopId, NEW seen \in Nat, NEW acks \in SUBSET (Name \X Nat),
             RecordSeen(h, seen, acks)
      PROVE  NextHopsAreLive'
  <2>1. SameStanding
    BY <1>9, RecordSeenRows DEF SameStanding
  <2>2. QED
    BY <2>1, StandingLive
<1>10. ASSUME NEW h \in HopId, FinishDraining(h)
       PROVE  NextHopsAreLive'
  <2>1. /\ rows[h].state = "draining" /\ DOMAIN rows' = DOMAIN rows \ {h}
        /\ \A g \in DOMAIN rows' :
             /\ SameHop(rows'[g], rows[g])
             /\ rows[g].state = "draining" => rows'[g].next = rows[g].next
             /\ rows[g].state # "draining" =>
                  rows'[g].next \in (LiveInners(rows') \ {g}) \cup {Panel}
    BY <1>10, FinishRows
  <2>2. LiveInners(rows') = LiveInners(rows)
    BY <2>1 DEF LiveInners, Inners, Rows, SameHop, SameBox
  <2>3. QED
    BY <2>1, <2>2, RestoredLive DEF NextHopsAreLive
<1>11. CASE PanelRestart
  <2>1. CASE rows' = rows
    BY <2>1, StandingLive DEF SameStanding
  <2>2. CASE \A g \in DOMAIN rows' : rows'[g].next = Panel
    BY <2>2, RestoredLive
  <2>3. QED
    BY <1>11, <2>1, <2>2, RestartRows
<1>12. ASSUME rows' = rows
       PROVE  NextHopsAreLive'
  BY <1>12, StandingLive DEF SameStanding
<1>13. QED
  <2>1. CASE SweepStep
    BY <1>10, <1>12, <2>1 DEF SweepStep, TypeOK
  <2>2. CASE SweepTick \/ (\E p \in Watched : MonReport(p)) \/ UNCHANGED vars
    BY <1>12, <2>2 DEF SweepTick, MonReport, vars
  <2>3. CASE \E p \in Ports : PortsChanged(p)
    BY <1>12, <2>3 DEF PortsChanged
  <2>4. QED
    BY <1>1, <1>2, <1>3, <1>4, <1>5, <1>6, <1>7, <1>8, <1>9, <1>11, <2>1, <2>2, <2>3,
       PollsTyped DEF Next, Owner, Boxes, Clock, Poll, Heard

-----------------------------------------------------------------------------
(* The active edge. *)

\* Whoever is active was active before, in the same role, and is not departing.
ActivesStay ==
  \A g \in DOMAIN rows' :
    rows'[g].active =>
      /\ g \in DOMAIN rows /\ rows[g].active
      /\ rows'[g].role = rows[g].role /\ rows'[g].state # "draining"

LEMMA ActivesKept ==
  ASSUME OneActiveEdge, ActivesStay
  PROVE  OneActiveEdge'
BY DEF OneActiveEdge, ActivesStay, Actives

LEMMA ActiveStep ==
  ASSUME TypeOK, ConfirmedRevisionsExist, NextHopsAreLive, OneActiveEdge, [Next]_vars \/ Heard
  PROVE  OneActiveEdge'
<1>0. \A g \in DOMAIN rows : rows[g].active => rows[g].role = "edge" /\ rows[g].state # "draining"
  BY DEF OneActiveEdge, Actives
<1>1. ASSUME NEW n \in Name, NEW r \in Role, NEW a \in Addr, NEW t \in Target \cup {NoTarget},
             NEW p \in 0..MaxHops, Add(n, r, a, t, p)
      PROVE  OneActiveEdge'
  <2>1. /\ DOMAIN rows' = DOMAIN rows \cup {created + 1} /\ ~rows'[created + 1].active
        /\ \A g \in DOMAIN rows : SameHop(rows'[g], rows[g])
    BY <1>1, AddRows
  <2>2. ActivesStay
    BY <1>0, <2>1 DEF ActivesStay, SameHop, SameBox
  <2>3. QED
    BY <2>2, ActivesKept
<1>2. ASSUME NEW h \in HopId, NEW n \in Name, NEW a \in Addr,
             NEW t \in Target \cup {NoTarget}, Update(h, n, a, t)
      PROVE  OneActiveEdge'
  <2>1. /\ SamePlace /\ \A g \in DOMAIN rows \ {h} : rows'[g] = rows[g]
        /\ rows'[h].state = rows[h].state /\ rows'[h].active = rows[h].active
    BY <1>2, UpdateRows
  <2>2. ActivesStay
    BY <1>0, <2>1 DEF ActivesStay, SamePlace
  <2>3. QED
    BY <2>2, ActivesKept
<1>3. ASSUME NEW h \in HopId, NEW force \in BOOLEAN, NEW skipDrain \in BOOLEAN,
             DeleteNow(h, force, skipDrain)
      PROVE  OneActiveEdge'
  <2>1. /\ DOMAIN rows' = DOMAIN rows \ {h}
        /\ \A g \in DOMAIN rows' : SameHop(rows'[g], rows[g])
    BY <1>3, DeleteRows
  <2>2. ActivesStay
    BY <1>0, <2>1 DEF ActivesStay, SameHop, SameBox
  <2>3. QED
    BY <2>2, ActivesKept
<1>4. ASSUME NEW h \in HopId, NEW force \in BOOLEAN, StartDraining(h, force)
      PROVE  OneActiveEdge'
  <2>1. /\ h \in DOMAIN rows /\ DOMAIN rows' = DOMAIN rows /\ LiveOuter(rows, h) # {}
        /\ \A g \in DOMAIN rows \ {h} : SameHop(rows'[g], rows[g])
        /\ rows'[h].active = rows[h].active
    BY <1>4, StartDrainingRows
  <2>2. PICK g \in DOMAIN rows : rows[g].next = h
    BY <2>1 DEF LiveOuter, HangOff
  <2>3. h \in LiveInners(rows)
    BY <2>2 DEF NextHopsAreLive, Panel, HopId
  <2>4. ~rows[h].active
    BY <1>0, <2>1, <2>3 DEF LiveInners, Inners
  <2>5. ActivesStay
    BY <1>0, <2>1, <2>4 DEF ActivesStay, SameHop, SameBox
  <2>6. QED
    BY <2>5, ActivesKept
<1>5. ASSUME NEW h \in HopId, SetActive(h)
      PROVE  OneActiveEdge'
  <2>1. /\ DOMAIN rows' = DOMAIN rows /\ h \in DOMAIN rows
        /\ rows'[h].role = "edge" /\ rows'[h].state # "draining"
        /\ \A g \in DOMAIN rows : rows'[g].active = (g = h)
    BY <1>5, SetActiveRows DEF SamePlace
  <2>2. \A g \in Actives(rows') : g = h
    BY <2>1 DEF Actives
  <2>3. QED
    BY <2>1, <2>2 DEF OneActiveEdge
<1>6. ASSUME ClearActive
      PROVE  OneActiveEdge'
  <2>1. DOMAIN rows' = DOMAIN rows /\ \A g \in DOMAIN rows : rows'[g].active = FALSE
    BY <1>6, ClearActiveRows DEF SamePlace
  <2>2. QED
    BY <2>1 DEF OneActiveEdge, Actives
<1>7. ASSUME NEW h \in HopId, ReissueToken(h) \/ TokenExpires(h) \/ DrainDeadline(h)
      PROVE  OneActiveEdge'
  <2>1. /\ SamePlace /\ \A g \in DOMAIN rows \ {h} : rows'[g] = rows[g]
        /\ rows'[h].state \in {"pending", rows[h].state} /\ rows'[h].active = rows[h].active
    BY <1>7, OneFieldRows
  <2>2. ActivesStay
    BY <1>0, <2>1 DEF ActivesStay, SamePlace
  <2>3. QED
    BY <2>2, ActivesKept
<1>8. ASSUME NEW h \in HopId, NEW a \in Addr, Join(h, a)
      PROVE  OneActiveEdge'
  <2>1. /\ h \in DOMAIN rows /\ DOMAIN rows' = DOMAIN rows
        /\ \A g \in DOMAIN rows \ {h} : SameHop(rows'[g], rows[g])
        /\ rows'[h].state = "joined" /\ rows'[h].role = rows[h].role
        /\ rows'[h].active = rows[h].active
    BY <1>8, JoinRows
  <2>2. ActivesStay
    BY <1>0, <2>1 DEF ActivesStay, SameHop, SameBox
  <2>3. QED
    BY <2>2, ActivesKept
<1>9. ASSUME NEW h \in HopId, NEW seen \in Nat, NEW acks \in SUBSET (Name \X Nat),
             RecordSeen(h, seen, acks)
      PROVE  OneActiveEdge'
  <2>1. ActivesStay
    BY <1>0, <1>9, RecordSeenRows DEF ActivesStay
  <2>2. QED
    BY <2>1, ActivesKept
<1>10. ASSUME NEW h \in HopId, FinishDraining(h)
       PROVE  OneActiveEdge'
  <2>1. /\ DOMAIN rows' = DOMAIN rows \ {h}
        /\ \A g \in DOMAIN rows' : SameHop(rows'[g], rows[g])
    BY <1>10, FinishRows
  <2>2. ActivesStay
    BY <1>0, <2>1 DEF ActivesStay, SameHop, SameBox
  <2>3. QED
    BY <2>2, ActivesKept
<1>11. ASSUME rows' = rows
       PROVE  OneActiveEdge'
  BY <1>0, <1>11, ActivesKept DEF ActivesStay
<1>12. CASE PanelRestart
  <2>1. CASE /\ DOMAIN rows' = {created + 1}
             /\ rows'[created + 1].role = "edge" /\ rows'[created + 1].state = "legacy"
    BY <2>1 DEF OneActiveEdge, Actives
  <2>2. QED
    BY <1>11, <1>12, <2>1, RestartRows
<1>13. QED
  <2>1. CASE SweepStep
    BY <1>10, <1>11, <2>1 DEF SweepStep, TypeOK
  <2>2. CASE SweepTick \/ (\E p \in Watched : MonReport(p)) \/ UNCHANGED vars
    BY <1>11, <2>2 DEF SweepTick, MonReport, vars
  <2>3. CASE \E p \in Ports : PortsChanged(p)
    BY <1>11, <2>3 DEF PortsChanged
  <2>4. QED
    BY <1>1, <1>2, <1>3, <1>4, <1>5, <1>6, <1>7, <1>8, <1>9, <1>12, <2>1, <2>2, <2>3,
       PollsTyped DEF Next, Owner, Boxes, Clock, Poll, Heard

-----------------------------------------------------------------------------
(* The theorems. *)

IInv == TypeOK /\ ConfirmedRevisionsExist /\ NextHopsAreLive /\ OneActiveEdge

LEMMA InvInit == Init => IInv
<1> SUFFICES ASSUME Init PROVE IInv
  OBVIOUS
<1>1. DOMAIN rows = {}
  BY DEF Init
<1>2. QED
  BY <1>1, TypeInit DEF IInv, ConfirmedRevisionsExist, NextHopsAreLive, OneActiveEdge, Actives

LEMMA InvStep == IInv /\ ([Next]_vars \/ Heard) => IInv'
BY TypeStep, ConfirmedStep, LiveStep, ActiveStep DEF IInv

\* The inductive invariant holds throughout.
THEOREM Invariance == Spec => []IInv
BY InvInit, InvStep, PTL DEF Spec

\* Every table the registry ever holds is well-formed.
THEOREM TypeCorrect == Spec => []TypeOK
<1>1. IInv => TypeOK
  BY DEF IInv
<1>2. QED
  BY <1>1, Invariance, PTL

\* No box is ever recorded as ahead of the panel, however a poll lies.
THEOREM ConfirmedRevisions == Spec => []ConfirmedRevisionsExist
<1>1. IInv => ConfirmedRevisionsExist
  BY DEF IInv
<1>2. QED
  BY <1>1, Invariance, PTL

\* No row ever hangs off a departing hop, an edge, itself or a deleted row.
THEOREM LiveNextHops == Spec => []NextHopsAreLive
<1>1. IInv => NextHopsAreLive
  BY DEF IInv
<1>2. QED
  BY <1>1, Invariance, PTL

\* The panel never has two addresses to publish, nor a departing one.
THEOREM SingleActiveEdge == Spec => []OneActiveEdge
<1>1. IInv => OneActiveEdge
  BY DEF IInv
<1>2. QED
  BY <1>1, Invariance, PTL
=============================================================================
