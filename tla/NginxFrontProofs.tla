-------------------------- MODULE NginxFrontProofs --------------------------
(***************************************************************************)
(* Theorems about NginxFront for any inbounds, settings, back-off and      *)
(* number of applies, edits and failures, and however the owner's requests *)
(* and the job's ticks overlap: who holds the lock, that inbounds find     *)
(* their way home, and that nginx serves what is on disk; and, for an      *)
(* owner who waits for the end of a trial, that no port is closed but on   *)
(* one.                                                                    *)
(***************************************************************************)
EXTENDS NginxFront, FiniteSetTheorems, TLAPS

\* A process.
Step == [pc : PC, then : {"none", "confirm", "check", "nothing", "rollback", "reconcile"},
         want : Settings, prev : Settings, undo : SUBSET Config,
         todo : SUBSET Inbound, snaps : Remembered]

-----------------------------------------------------------------------------
(* Settings, configurations and what is remembered. *)

LEMMA Cleaned ==
  ASSUME NEW s \in Settings
  PROVE  Clean(s) \in Settings /\ Clean(s).mode = s.mode
BY DEF Clean, Settings, Mode

LEMMA LevelType == \A s : Level(s) \in 0..2 /\ Level(s) \in Nat
BY DEF Level

LEMMA OffType == Off \in Settings /\ Off.mode = "off"
BY DEF Off, Settings, Mode

LEMMA NoConfigType == NoConfig \in Config /\ ~NoConfig.on /\ NoConfig.on = FALSE
BY DEF NoConfig, Config

LEMMA BuiltConfig ==
  ASSUME NEW s \in Settings, place \in [Inbound -> Place], enabled \subseteq Inbound
  PROVE  BuildConfig(s) \in Config
<1>1. CASE s.mode = "off"
  BY <1>1, NoConfigType DEF BuildConfig
<1>2. CASE s.mode # "off"
  <2> DEFINE routes == {<<i, IF Dual(i, s) THEN place[i] ELSE "loop">> : i \in enabled}
  <2>1. routes \in SUBSET (Inbound \X Place)
    BY DEF Place
  <2>2. BuildConfig(s) = [on |-> TRUE, panel |-> s.panel /\ s.mode = "only443", routes |-> routes]
    BY <1>2 DEF BuildConfig
  <2> HIDE DEF routes
  <2>3. QED
    BY <2>1, <2>2 DEF Config
<1>3. QED
  BY <1>1, <1>2

LEMMA RememberedIs ==
  /\ \A f \in Remembered :
       /\ DOMAIN f \subseteq Inbound /\ f = [i \in DOMAIN f |-> f[i]]
       /\ \A i \in DOMAIN f : f[i] \in Place
  /\ \A S \in SUBSET Inbound : \A f \in [S -> Place] : f \in Remembered
BY DEF Remembered

LEMMA Remembering ==
  ASSUME NEW f \in Remembered, NEW i \in Inbound, NEW x \in Place
  PROVE  /\ With(f, i, x) \in Remembered /\ DOMAIN With(f, i, x) = DOMAIN f \cup {i}
         /\ \A j \in DOMAIN f \cup {i} : With(f, i, x)[j] = IF j = i THEN x ELSE f[j]
         /\ Without(f, i) \in Remembered /\ DOMAIN Without(f, i) = DOMAIN f \ {i}
         /\ \A j \in DOMAIN f \ {i} : Without(f, i)[j] = f[j]
<1>1. DOMAIN f \subseteq Inbound /\ \A j \in DOMAIN f : f[j] \in Place
  BY RememberedIs
<1>2. With(f, i, x) \in [DOMAIN f \cup {i} -> Place]
  BY <1>1 DEF With
<1>3. Without(f, i) \in [DOMAIN f \ {i} -> Place]
  BY <1>1 DEF Without
<1>4. With(f, i, x) \in Remembered
  <2>1. DOMAIN f \cup {i} \in SUBSET Inbound
    BY <1>1
  <2>2. QED
    BY <1>2, <2>1, RememberedIs
<1>5. Without(f, i) \in Remembered
  <2>1. DOMAIN f \ {i} \in SUBSET Inbound
    BY <1>1
  <2>2. QED
    BY <1>3, <2>1, RememberedIs
<1>6. QED
  BY <1>4, <1>5 DEF With, Without

LEMMA NowhereType == Nowhere \in Remembered /\ DOMAIN Nowhere = {}
<1>1. Nowhere \in [{} -> Place] /\ {} \in SUBSET Inbound
  BY DEF Nowhere
<1>2. QED
  BY <1>1, RememberedIs DEF Nowhere

LEMMA IdleType ==
  /\ Idle \in Step /\ Idle.pc = "idle" /\ Idle.undo = {}
  /\ \A pc \in PC : [Idle EXCEPT !.pc = pc] \in Step /\ [Idle EXCEPT !.pc = pc].pc = pc
                    /\ [Idle EXCEPT !.pc = pc].undo = {}
<1>1. Idle \in [pc : {"idle"}, then : {"none"}, want : Settings, prev : Settings,
                undo : {{}}, todo : {{}}, snaps : Remembered]
  BY OffType, NowhereType DEF Idle
<1> HIDE DEF Idle
<1>2. QED
  BY <1>1 DEF Step, PC

-----------------------------------------------------------------------------
(* Where steps leave their process. *)

Kept(p) == at' \in [Process -> Step] /\ \A q \in Process \ {p} : at'[q] = at[q]

\* It goes on, at pc.
GoesTo(p, pc) ==
  /\ Kept(p)
  /\ at'[p].pc = pc /\ at'[p].then = at[p].then /\ at'[p].want = at[p].want
  /\ at'[p].undo = at[p].undo /\ at'[p].todo = at[p].todo /\ at'[p].snaps = at[p].snaps

\* Its call of Apply has returned.
Returned(p) ==
  /\ Kept(p)
  /\ at'[p].pc \in {"idle", "reconcile", "openUp"} /\ at'[p].undo = {}
  /\ lock' = "none" /\ skip' \in 0..MaxPause

\* It waits to call Apply.
Called(p) == Kept(p) /\ at'[p].pc = "lock" /\ at'[p].undo = {}

AtType == at \in [Process -> Step] /\ skip \in 0..MaxPause

LEMMA Moves ==
  ASSUME at \in [Process -> Step], NEW p \in Process, NEW a \in Step, at' = [at EXCEPT ![p] = a]
  PROVE  Kept(p) /\ at'[p] = a
BY DEF Kept

LEMMA Going ==
  ASSUME AtType, NEW p \in Process, NEW pc \in PC, Goto(p, pc)
  PROVE  GoesTo(p, pc)
<1> DEFINE a == [at[p] EXCEPT !.pc = pc]
<1>1. at[p] \in Step
  BY DEF AtType
<1>2. /\ a \in Step /\ a.pc = pc /\ a.then = at[p].then /\ a.want = at[p].want
      /\ a.undo = at[p].undo /\ a.todo = at[p].todo /\ a.snaps = at[p].snaps
  BY <1>1 DEF Step
<1>3. at' = [at EXCEPT ![p] = a]
  BY DEF Goto
<1> HIDE DEF a
<1>4. QED
  BY <1>2, <1>3, Moves DEF AtType, GoesTo

LEMMA Calling ==
  ASSUME AtType, NEW p \in Process, NEW s \in Settings,
         NEW then \in {"none", "rollback", "reconcile"}, Call(p, then, s)
  PROVE  Called(p)
<1> DEFINE a == [Idle EXCEPT !.pc = "lock", !.then = then, !.want = s]
<1>1. Idle \in Step /\ Idle.undo = {}
  BY IdleType
<1>2. a \in Step /\ a.pc = "lock" /\ a.undo = {}
  <2> HIDE DEF Idle
  <2>1. QED
    BY <1>1 DEF Step, PC
<1>3. at' = [at EXCEPT ![p] = a]
  BY DEF Call
<1> HIDE DEF a
<1>4. QED
  BY <1>2, <1>3, Moves DEF AtType, Called

LEMMA ReturnIs ==
  ASSUME NEW p, NEW ok, Return(p, ok)
  PROVE  /\ lock' = "none"
         /\ \/ at' = [at EXCEPT ![p] = [Idle EXCEPT !.pc = IF ok THEN "reconcile" ELSE "openUp"]]
               /\ UNCHANGED skip
            \/ at' = [at EXCEPT ![p] = Idle] /\ (IF ok THEN skip' = 0 ELSE skip' \in 1..MaxPause)
            \/ at' = [at EXCEPT ![p] = Idle] /\ UNCHANGED skip
BY Zenon DEF Return

LEMMA Returning ==
  ASSUME AtType, NEW p \in Process, NEW ok, Return(p, ok)
  PROVE  Returned(p)
<1> USE DEF AtType
<1>1. MaxPause \in Nat
  BY FrontBoundsAssumption
<1>2. ASSUME NEW pc \in {"reconcile", "openUp"}, at' = [at EXCEPT ![p] = [Idle EXCEPT !.pc = pc]],
             lock' = "none", UNCHANGED skip
      PROVE  Returned(p)
  <2> DEFINE a == [Idle EXCEPT !.pc = pc]
  <2>1. pc \in PC
    BY DEF PC
  <2>2. a \in Step /\ a.pc = pc /\ a.undo = {}
    BY <2>1, IdleType
  <2>3. at' = [at EXCEPT ![p] = a]
    BY <1>2
  <2> HIDE DEF a
  <2>4. QED
    BY <1>2, <2>2, <2>3, Moves DEF Returned
<1>3. ASSUME at' = [at EXCEPT ![p] = Idle], lock' = "none", skip' \in 0..MaxPause
      PROVE  Returned(p)
  BY <1>3, IdleType, Moves DEF Returned
<1>4. CASE at' = [at EXCEPT ![p] = [Idle EXCEPT !.pc = IF ok THEN "reconcile" ELSE "openUp"]]
           /\ UNCHANGED skip
  <2>1. (IF ok THEN "reconcile" ELSE "openUp") \in {"reconcile", "openUp"}
    OBVIOUS
  <2>2. QED
    BY <1>2, <1>4, <2>1, ReturnIs
<1>5. CASE at' = [at EXCEPT ![p] = Idle] /\ (IF ok THEN skip' = 0 ELSE skip' \in 1..MaxPause)
  <2>1. skip' \in 0..MaxPause
    BY <1>1, <1>5
  <2>2. QED
    BY <1>3, <1>5, <2>1, ReturnIs
<1>6. CASE at' = [at EXCEPT ![p] = Idle] /\ UNCHANGED skip
  <2>1. skip' \in 0..MaxPause
    BY <1>6
  <2>2. QED
    BY <1>3, <1>6, <2>1, ReturnIs
<1>7. QED
  BY <1>4, <1>5, <1>6, ReturnIs

-----------------------------------------------------------------------------
(* Types, variable group by variable group. *)

TableType ==
  /\ settings \in Settings /\ deadline \in {"none", "waiting", "over"}
  /\ fallback \in SUBSET Settings /\ Cardinality(fallback) <= 1
  /\ proven \in 0..2 /\ gaveUp \in BOOLEAN
PlaceType == place \in [Inbound -> Place] /\ snapshots \in Remembered
NginxType == conf \in Config /\ live \in Config /\ running \in BOOLEAN
XrayType == xray \subseteq Inbound \X Place
WallType == fw \in 0..2 /\ hooked \in BOOLEAN
LockType == lock \in Process \cup {"none"}
OutsideType ==
  enabled \subseteq Inbound /\ restart \in BOOLEAN /\ applies \in 0..MaxApplies /\ edits \in 0..MaxEdits
FaultType == faults \in 0..MaxFaults

LEMMA TypeParts ==
  TypeOK <=> /\ TableType /\ PlaceType /\ NginxType /\ XrayType /\ WallType /\ LockType
             /\ AtType /\ OutsideType /\ FaultType
BY DEF TypeOK, TableType, PlaceType, NginxType, XrayType, WallType, LockType, AtType, Step,
       OutsideType, FaultType

LEMMA TypedParts ==
  ASSUME TableType', PlaceType', NginxType', XrayType', WallType', LockType', AtType', OutsideType',
         FaultType'
  PROVE  TypeOK'
BY DEF TypeOK, TableType, PlaceType, NginxType, XrayType, WallType, LockType, AtType, Step,
       OutsideType, FaultType

LEMMA Bounds == {MaxPause, MaxApplies, MaxEdits, MaxFaults} \subseteq Nat
BY FrontBoundsAssumption

LEMMA Failing ==
  ASSUME FaultType
  PROVE  /\ \A step : MayFail(step) => FaultType'
         /\ Works => FaultType'
BY Bounds DEF FaultType, MayFail, Works

LEMMA StartedType ==
  ASSUME PlaceType, OutsideType
  PROVE  Started \subseteq Inbound \X Place
BY DEF PlaceType, OutsideType, Started

LEMMA Rebuilding ==
  ASSUME WallType, FaultType, NEW s, Rebuild(s)
  PROVE  WallType' /\ FaultType'
<1>1. Level(s) \in 0..2
  BY LevelType
<1>2. CASE Works /\ fw' = Level(s) /\ hooked' = (Level(s) > 0)
  BY <1>1, <1>2, Failing DEF WallType
<1>3. CASE MayFail("firewall") /\ fw' \in {0, fw} /\ UNCHANGED hooked
  BY <1>3, Failing DEF WallType
<1>4. QED
  BY <1>2, <1>3 DEF Rebuild

LEMMA Opening == OpenPorts => WallType'
<1>1. OpenPorts => fw' \in 0..2
  BY DEF OpenPorts
<1>2. OpenPorts => hooked' \in BOOLEAN
  BY DEF OpenPorts
<1>3. QED
  BY <1>1, <1>2 DEF WallType

\* How far an apply has come decides whether there are files to put back.
StageFits(a) ==
  /\ a.pc \in {"lock", "open", "remove"} => a.undo = {}
  /\ a.pc \in {"stage", "routes", "move", "xray", "activate"} => a.want.mode # "off"
  /\ a.pc \in {"routes", "move", "xray", "activate"} => \E old \in Config : a.undo = {old}
  /\ a.pc \in {"restore", "forget", "again", "undo"} =>
       a.undo = {} \/ (a.want.mode # "off" /\ \E old \in Config : a.undo = {old})
StageInv == \A p \in Process : StageFits(at[p])

\* Staged.Rollback.
RolledBack(old) ==
  /\ conf' = old
  /\ \/ old.on /\ ~PublicPortFree /\ UNCHANGED <<live, running>>
     \/ ~(old.on /\ ~PublicPortFree) /\ live' = old /\ running' = TRUE

LEMMA Rolling ==
  ASSUME NginxType, NEW p, NEW old \in Config, at[p].undo = {old}, RollbackStaged(p)
  PROVE  RolledBack(old) /\ NginxType'
<1>1. /\ conf' = old
      /\ IF old.on /\ ~PublicPortFree THEN UNCHANGED <<live, running>>
         ELSE live' = old /\ running' = TRUE
  BY DEF RollbackStaged
<1>2. CASE old.on /\ ~PublicPortFree
  BY <1>1, <1>2 DEF RolledBack, NginxType
<1>3. CASE ~(old.on /\ ~PublicPortFree)
  BY <1>1, <1>3 DEF RolledBack, NginxType
<1>4. QED
  BY <1>2, <1>3

-----------------------------------------------------------------------------
(* Steps that set more of their process than where it is. *)

LEMMA BeginMoves ==
  ASSUME TypeOK, NEW p \in Process, Begin(p)
  PROVE  GoesTo(p, IF at[p].want.mode = "off" THEN "open" ELSE "stage")
<1> DEFINE pc == IF at[p].want.mode = "off" THEN "open" ELSE "stage"
           a == [at[p] EXCEPT !.prev = Clean(settings), !.pc = pc]
<1>1. at[p] \in Step /\ Clean(settings) \in Settings /\ pc \in PC /\ AtType
  BY TypeParts, Cleaned DEF AtType, TableType, PC
<1>2. at' = [at EXCEPT ![p] = a]
  BY DEF Begin
<1> HIDE DEF pc
<1>3. /\ a \in Step /\ a.pc = pc /\ a.then = at[p].then /\ a.want = at[p].want
      /\ a.undo = at[p].undo /\ a.todo = at[p].todo /\ a.snaps = at[p].snaps
  BY <1>1 DEF Step
<1> HIDE DEF a
<1>4. GoesTo(p, pc)
  BY <1>1, <1>2, <1>3, Moves DEF AtType, GoesTo
<1>5. QED
  BY <1>4 DEF pc

Staged(p) ==
  /\ Kept(p) /\ conf' = BuildConfig(at[p].want)
  /\ at'[p].pc = "routes" /\ at'[p].undo = {conf}
  /\ at'[p].then = at[p].then /\ at'[p].want = at[p].want

LEMMA StageMoves ==
  ASSUME TypeOK, NEW p \in Process, Stage(p)
  PROVE  /\ \/ Staged(p) /\ UNCHANGED <<lock, skip>>
            \/ Returned(p) /\ UNCHANGED conf
         /\ FaultType'
<1>0. AtType /\ FaultType /\ conf \in Config
  BY TypeParts DEF NginxType
<1>1. CASE /\ Works
           /\ conf' = BuildConfig(at[p].want)
           /\ at' = [at EXCEPT ![p].undo = {conf}, ![p].pc = "routes"]
           /\ UNCHANGED <<lock, skip>>
  <2> DEFINE a == [at[p] EXCEPT !.undo = {conf}, !.pc = "routes"]
  <2>1. at[p] \in Step
    BY <1>0 DEF AtType
  <2>2. /\ a \in Step /\ a.pc = "routes" /\ a.undo = {conf}
        /\ a.then = at[p].then /\ a.want = at[p].want
    BY <1>0, <2>1 DEF Step, PC
  <2>3. at' = [at EXCEPT ![p] = a]
    BY <1>1
  <2> HIDE DEF a
  <2>4. Kept(p) /\ at'[p] = a
    BY <1>0, <2>2, <2>3, Moves DEF AtType
  <2>5. Staged(p) /\ UNCHANGED <<lock, skip>>
    BY <1>1, <2>2, <2>4 DEF Staged
  <2>6. FaultType'
    <3>1. Works
      BY <1>1
    <3>2. QED
      BY <1>0, <3>1, Failing
  <2> HIDE DEF a
  <2>7. QED
    BY <2>5, <2>6
<1>2. CASE MayFail("stage") /\ Return(p, FALSE) /\ UNCHANGED conf
  BY <1>0, <1>2, Returning, Failing
<1>3. QED
  BY <1>1, <1>2 DEF Stage

Listed(p) ==
  /\ Kept(p) /\ at'[p].pc = "move" /\ at'[p].undo = at[p].undo
  /\ at'[p].then = at[p].then /\ at'[p].want = at[p].want
  /\ at'[p].snaps = snapshots

LEMMA ListMoves ==
  ASSUME TypeOK, NEW p \in Process, ListRoutes(p)
  PROVE  \/ RollbackStaged(p) /\ Returned(p)
         \/ Listed(p) /\ UNCHANGED <<nginxVars, lock, skip>>
<1>0. AtType /\ snapshots \in Remembered /\ enabled \in SUBSET Inbound
  BY TypeParts DEF PlaceType, OutsideType
<1>1. CASE enabled = {}
  BY <1>0, <1>1, Returning DEF ListRoutes
<1>2. CASE enabled # {}
  <2> DEFINE a == [at[p] EXCEPT !.pc = "move", !.todo = enabled, !.snaps = snapshots]
  <2>1. at[p] \in Step
    BY <1>0 DEF AtType
  <2>2. /\ a \in Step /\ a.pc = "move" /\ a.undo = at[p].undo /\ a.snaps = snapshots
        /\ a.then = at[p].then /\ a.want = at[p].want
    BY <1>0, <2>1 DEF Step, PC
  <2>3. at' = [at EXCEPT ![p] = a] /\ UNCHANGED <<nginxVars, lock, skip>>
    BY <1>2 DEF ListRoutes
  <2> HIDE DEF a
  <2>4. QED
    BY <1>0, <2>2, <2>3, Moves DEF AtType, Listed
<1>3. QED
  BY <1>1, <1>2

\* An inbound is where it should be, and what it left is remembered.
Moved(p, i) ==
  LET snaps == at[p].snaps
      dual == Dual(i, at[p].want)
  IN  /\ place' = [place EXCEPT ![i] =
                     IF ~dual THEN "loop" ELSE IF i \in DOMAIN snaps THEN snaps[i] ELSE place[i]]
      /\ Kept(p) /\ at'[p].pc = "move" /\ at'[p].undo = at[p].undo
      /\ at'[p].then = at[p].then /\ at'[p].want = at[p].want
      /\ at'[p].snaps = IF dual THEN Without(snaps, i) ELSE Remember(i, snaps)

LEMMA MoveMoves ==
  ASSUME TypeOK, NEW p \in Process, Move(p)
  PROVE  /\ \/ RollbackStaged(p) /\ Returned(p) /\ UNCHANGED place /\ MayFail("move")
            \/ UNCHANGED <<nginxVars, lock, skip>> /\ \E i \in Inbound : Moved(p, i)
         /\ FaultType'
<1>0. AtType /\ FaultType /\ PlaceType /\ at[p] \in Step
  BY TypeParts DEF AtType
<1>1. ASSUME Works, NEW i \in at[p].todo,
             place' = [place EXCEPT ![i] =
                         IF ~Dual(i, at[p].want) THEN "loop"
                         ELSE IF i \in DOMAIN at[p].snaps THEN at[p].snaps[i] ELSE @],
             at' = [at EXCEPT ![p].todo = @ \ {i},
                      ![p].snaps = IF Dual(i, at[p].want) THEN Without(@, i) ELSE Remember(i, @)]
      PROVE  i \in Inbound /\ Moved(p, i)
  <2> DEFINE snaps == IF Dual(i, at[p].want) THEN Without(at[p].snaps, i) ELSE Remember(i, at[p].snaps)
             a == [at[p] EXCEPT !.todo = @ \ {i}, !.snaps = snaps]
  <2>1. i \in Inbound /\ at[p].snaps \in Remembered /\ place[i] \in Place
    BY <1>0, <1>1 DEF Step, PlaceType
  <2>2. snaps \in Remembered
    BY <2>1, Remembering DEF Remember
  <2>3. at' = [at EXCEPT ![p] = a]
    BY <1>1
  <2> HIDE DEF snaps
  <2>4. /\ a \in Step /\ a.pc = at[p].pc /\ a.undo = at[p].undo /\ a.snaps = snaps
        /\ a.then = at[p].then /\ a.want = at[p].want
    BY <1>0, <2>2 DEF Step
  <2> HIDE DEF a
  <2>5. Kept(p) /\ at'[p] = a
    BY <1>0, <2>3, <2>4, Moves DEF AtType
  <2>6. at[p].pc = "move"
    BY DEF Move, Is
  <2>7. QED
    BY <1>1, <2>1, <2>4, <2>5, <2>6 DEF Moved, snaps
<1>2. CASE MayFail("move") /\ RollbackStaged(p) /\ Return(p, FALSE) /\ UNCHANGED place
  BY <1>0, <1>2, Returning, Failing
<1>3. QED
  BY <1>0, <1>1, <1>2, Failing DEF Move

LEMMA ActivateMoves ==
  ASSUME TypeOK, NEW p \in Process, Activate(p)
  PROVE  /\ \/ /\ PublicPortFree /\ live' = conf /\ running' = TRUE /\ UNCHANGED conf
               /\ GoesTo(p, "save")
            \/ /\ RollbackStaged(p)
               /\ Kept(p) /\ at'[p].pc = "restore" /\ at'[p].undo = {}
               /\ at'[p].then = at[p].then /\ at'[p].want = at[p].want
         /\ UNCHANGED <<lock, skip>> /\ FaultType'
<1>0. AtType /\ FaultType /\ at[p] \in Step /\ "save" \in PC
  BY TypeParts DEF AtType, PC
<1>1. CASE /\ Works /\ PublicPortFree
           /\ live' = conf /\ running' = TRUE /\ UNCHANGED conf
           /\ Proceed(p, "save")
  BY <1>0, <1>1, Going, Failing DEF Proceed
<1>2. CASE /\ MayFail("activate") \/ (Works /\ ~PublicPortFree)
           /\ RollbackStaged(p)
           /\ at' = [at EXCEPT ![p].pc = "restore", ![p].undo = {}]
           /\ UNCHANGED <<lock, skip>>
  <2> DEFINE a == [at[p] EXCEPT !.pc = "restore", !.undo = {}]
  <2>1. /\ a \in Step /\ a.pc = "restore" /\ a.undo = {}
        /\ a.then = at[p].then /\ a.want = at[p].want
    BY <1>0 DEF Step, PC
  <2>2. at' = [at EXCEPT ![p] = a]
    BY <1>2
  <2> HIDE DEF a
  <2>3. QED
    BY <1>0, <1>2, <2>1, <2>2, Moves, Failing DEF AtType
<1>3. QED
  BY <1>1, <1>2 DEF Activate

\* The job lets a confirmation go: with a way back or without one.
LEMMA ExpiredMoves ==
  ASSUME TypeOK, Expired
  PROVE  /\ Kept(Job) /\ at'[Job].pc = "disarm" /\ at'[Job].then \in {"check", "nothing"}
         /\ gaveUp' \in BOOLEAN
<1> DEFINE want == IF fallback = {} THEN Off ELSE CHOOSE s \in fallback : TRUE
           then == IF fallback = {} THEN "nothing" ELSE "check"
           a == [at[Job] EXCEPT !.pc = "disarm", !.then = then, !.want = want]
<1>1. want \in Settings /\ then \in {"check", "nothing"}
  BY TypeParts, OffType DEF TableType
<1>2. AtType /\ Job \in Process /\ at[Job] \in Step
  BY TypeParts DEF AtType, Process
<1>3. at' = [at EXCEPT ![Job] = a]
  BY DEF Expired
<1>4. gaveUp' \in BOOLEAN
  BY DEF Expired
<1> HIDE DEF want, then
<1>5. a \in Step /\ a.pc = "disarm" /\ a.then = then
  BY <1>1, <1>2 DEF Step, PC
<1> HIDE DEF a
<1>6. Kept(Job) /\ at'[Job] = a
  BY <1>2, <1>3, <1>5, Moves DEF AtType
<1>7. QED
  BY <1>1, <1>4, <1>5, <1>6

LEMMA ConfirmMoves ==
  ASSUME TypeOK, Confirm
  PROVE  Kept(Owner) /\ at'[Owner].pc = "forgive" /\ at'[Owner].then = "confirm"
<1> DEFINE a == [at[Owner] EXCEPT !.pc = "forgive", !.then = "confirm"]
<1>1. AtType /\ Owner \in Process /\ at[Owner] \in Step
  BY TypeParts DEF AtType, Process
<1>2. at' = [at EXCEPT ![Owner] = a]
  BY DEF Confirm
<1>3. a \in Step /\ a.pc = "forgive" /\ a.then = "confirm"
  BY <1>1 DEF Step, PC
<1> HIDE DEF a
<1>4. QED
  BY <1>1, <1>2, <1>3, Moves DEF AtType

\* The job becomes idle, goes on, or calls Apply.
JobMoves ==
  /\ Kept(Job)
  /\ at'[Job].pc \in {"idle", "putBack", "compare", "lock"}
  /\ at'[Job].pc = "lock" => at'[Job].undo = {}

LEMMA DoneMoves ==
  ASSUME AtType, Done
  PROVE  JobMoves
<1>1. Job \in Process
  BY DEF Process
<1>2. QED
  BY <1>1, IdleType, Moves DEF AtType, Done, JobMoves

LEMMA CallJobMoves ==
  ASSUME AtType, NEW s \in Settings, Call(Job, "reconcile", s)
  PROVE  JobMoves
<1>1. Job \in Process
  BY DEF Process
<1>2. Called(Job)
  BY <1>1, Calling
<1>3. QED
  BY <1>2 DEF Called, JobMoves

LEMMA GotoJobMoves ==
  ASSUME AtType, NEW pc \in {"compare", "putBack"}, Goto(Job, pc)
  PROVE  JobMoves
<1>1. Job \in Process /\ pc \in PC
  BY DEF Process, PC
<1>2. GoesTo(Job, pc)
  BY <1>1, Going
<1>3. QED
  BY <1>2 DEF GoesTo, JobMoves

LEMMA ReconcileMoves ==
  ASSUME TypeOK, Reconcile
  PROVE  JobMoves /\ skip' \in 0..MaxPause
<1> DEFINE set == Clean(settings)
<1>1. AtType /\ Job \in Process /\ set \in Settings /\ at[Job] \in Step /\ 0 \in 0..MaxPause
  BY TypeParts, Cleaned, Bounds DEF AtType, Process, TableType
<1>2. IF set.mode # "off"
        THEN at' = [at EXCEPT ![Job].pc = "putBack", ![Job].want = set] /\ UNCHANGED skip
        ELSE skip' = 0 /\ IF conf # NoConfig THEN Call(Job, "reconcile", set) ELSE Done
  BY DEF Reconcile
<1> HIDE DEF set
<1>3. CASE set.mode # "off"
  <2> DEFINE a == [at[Job] EXCEPT !.pc = "putBack", !.want = set]
  <2>1. a \in Step /\ a.pc = "putBack"
    BY <1>1 DEF Step, PC
  <2>2. at' = [at EXCEPT ![Job] = a] /\ UNCHANGED skip
    BY <1>2, <1>3
  <2> HIDE DEF a
  <2>3. Kept(Job) /\ at'[Job] = a
    BY <1>1, <2>1, <2>2, Moves DEF AtType
  <2>4. QED
    BY <1>1, <2>1, <2>2, <2>3 DEF AtType, JobMoves
<1>4. CASE set.mode = "off" /\ conf # NoConfig
  BY <1>1, <1>2, <1>4, CallJobMoves
<1>5. CASE set.mode = "off" /\ conf = NoConfig
  BY <1>1, <1>2, <1>5, DoneMoves
<1>6. QED
  BY <1>3, <1>4, <1>5

LEMMA StartNginxMoves ==
  ASSUME TypeOK, StartNginx
  PROVE  /\ JobMoves /\ skip' \in 0..MaxPause /\ FaultType'
         /\ \/ UNCHANGED nginxVars
            \/ PublicPortFree /\ conf.on /\ running' = TRUE /\ live' = conf /\ UNCHANGED conf
<1>1. AtType /\ FaultType /\ skip \in 0..MaxPause /\ MaxPause \in Nat
  BY TypeParts, Bounds DEF AtType
<1>2. CASE Goto(Job, "compare") /\ UNCHANGED <<nginxVars, skip, faults>>
  BY <1>1, <1>2, GotoJobMoves DEF FaultType
<1>3. CASE skip > 0 /\ skip' = skip - 1 /\ Done /\ UNCHANGED <<nginxVars, faults>>
  BY <1>1, <1>3, DoneMoves DEF FaultType
<1>4. CASE /\ ~(running \/ ~conf.on)
           /\ Works /\ PublicPortFree
           /\ running' = TRUE /\ live' = conf /\ skip' = 0
           /\ Goto(Job, "compare") /\ UNCHANGED conf
  BY <1>1, <1>4, GotoJobMoves, Failing
<1>5. CASE /\ MayFail("activate") \/ (Works /\ ~PublicPortFree)
           /\ skip' \in 1..MaxPause
           /\ Done /\ UNCHANGED nginxVars
  BY <1>1, <1>5, DoneMoves, Failing
<1>6. QED
  BY <1>2, <1>3, <1>4, <1>5 DEF StartNginx, PauseOr

LEMMA CompareMoves ==
  ASSUME TypeOK, Compare
  PROVE  JobMoves /\ skip' \in 0..MaxPause /\ UNCHANGED <<nginxVars, faults>>
<1>1. AtType /\ skip \in 0..MaxPause /\ MaxPause \in Nat /\ at[Job].want \in Settings
  BY TypeParts, Bounds DEF AtType, Process, Step
<1>2. CASE Done /\ UNCHANGED <<nginxVars, skip, faults>>
  BY <1>1, <1>2, DoneMoves
<1>3. CASE skip' = 0 /\ Done /\ UNCHANGED <<nginxVars, faults>>
  BY <1>1, <1>3, DoneMoves
<1>4. CASE skip > 0 /\ skip' = skip - 1 /\ Done /\ UNCHANGED <<nginxVars, faults>>
  BY <1>1, <1>4, DoneMoves
<1>5. CASE Call(Job, "reconcile", at[Job].want) /\ UNCHANGED <<nginxVars, skip, faults>>
  BY <1>1, <1>5, CallJobMoves
<1>6. QED
  BY <1>2, <1>3, <1>4, <1>5 DEF Compare, PauseOr

\* clearConfirmation's second half, and what its caller goes on with.
LEMMA ForgiveIs ==
  ASSUME NEW p, Forgive(p)
  PROVE  \/ at[p].then = "check" /\ Call(p, "rollback", at[p].want)
         \/ at[p].then = "nothing" /\ Goto(p, "reconcile")
         \/ at[p].then = "confirm" /\ at' = [at EXCEPT ![p] = Idle]
         \/ at[p].then \notin {"check", "nothing", "confirm"} /\ Goto(p, "save")
BY Zenon DEF Forgive

LEMMA ForgiveMoves ==
  ASSUME TypeOK, NEW p \in Process, Forgive(p)
  PROVE  \/ Called(p)
         \/ Kept(p) /\ at'[p].pc \in {"reconcile", "idle"}
         \/ at[p].then \notin {"check", "nothing", "confirm"} /\ GoesTo(p, "save")
<1>1. AtType /\ at[p].want \in Settings /\ {"reconcile", "save"} \subseteq PC
  BY TypeParts DEF AtType, Step, PC
<1>2. CASE Call(p, "rollback", at[p].want)
  BY <1>1, <1>2, Calling
<1>3. CASE Goto(p, "reconcile")
  <2>1. GoesTo(p, "reconcile")
    BY <1>1, <1>3, Going
  <2>2. QED
    BY <2>1 DEF GoesTo
<1>4. CASE at' = [at EXCEPT ![p] = Idle]
  BY <1>1, <1>4, IdleType, Moves DEF AtType
<1>5. CASE at[p].then \notin {"check", "nothing", "confirm"} /\ Goto(p, "save")
  BY <1>1, <1>5, Going
<1>6. QED
  BY <1>2, <1>3, <1>4, <1>5, ForgiveIs

-----------------------------------------------------------------------------
(* Types and stages. *)

LEMMA FitsStep ==
  ASSUME StageInv, NEW p \in Process, Kept(p), StageFits(at'[p])
  PROVE  StageInv'
<1>1. ASSUME NEW q \in Process
      PROVE  StageFits(at'[q])
  <2>1. CASE q = p
    BY <2>1
  <2>2. CASE q # p
    BY <2>2 DEF Kept, StageInv
  <2>3. QED
    BY <2>1, <2>2
<1>2. QED
  BY <1>1 DEF StageInv

LEMMA FitsReturned ==
  ASSUME StageInv, NEW p \in Process, Returned(p)
  PROVE  StageInv'
<1>1. StageFits(at'[p])
  BY DEF Returned, StageFits
<1>2. QED
  BY <1>1, FitsStep DEF Returned

LEMMA FitsGoing ==
  ASSUME StageInv, NEW p \in Process, NEW pc, GoesTo(p, pc), StageFits(at'[p])
  PROVE  StageInv'
BY FitsStep DEF GoesTo

LEMMA KeptType ==
  ASSUME NEW p, Kept(p), skip' \in 0..MaxPause
  PROVE  AtType'
BY DEF Kept, AtType

LEMMA ReturnedType == \A p : Returned(p) => AtType' /\ LockType'
BY DEF Returned, Kept, AtType, LockType

\* An action that only moves its process on, to a stage that fits.
LEMMA Proceeds ==
  ASSUME TypeOK, StageInv, NEW p \in Process, NEW pc \in PC, Proceed(p, pc),
         \/ pc \in {"save", "fallback", "deadline", "firewall", "restart", "disarm", "forgive"}
         \/ pc = "remove" /\ at[p].pc = "open"
         \/ pc = "xray" /\ at[p].pc = "move"
         \/ pc = "activate" /\ at[p].pc = "xray"
         \/ pc = "restore" /\ at[p].pc \in {"xray", "remove"}
         \/ pc = "forget" /\ at[p].pc = "restore"
         \/ pc = "again" /\ at[p].pc = "forget"
         \/ pc = "undo" /\ at[p].pc = "again"
  PROVE  AtType' /\ LockType' /\ StageInv' /\ GoesTo(p, pc)
<1>1. AtType /\ LockType
  BY TypeParts
<1>2. GoesTo(p, pc)
  BY <1>1, Going DEF Proceed
<1>3. StageFits(at[p])
  BY DEF StageInv
<1>4. StageFits(at'[p])
  BY <1>2, <1>3 DEF GoesTo, StageFits
<1>5. QED
  BY <1>1, <1>2, <1>4, FitsGoing DEF Proceed, GoesTo, Kept, AtType, LockType

Typed == TypeOK /\ StageInv

LEMMA TypedUp ==
  ASSUME Typed, NEW p \in Process,
         \/ Begin(p) \/ Stage(p) \/ ListRoutes(p) \/ Move(p) \/ SaveSnapshots(p) \/ RestartXray(p)
         \/ Activate(p) \/ SaveKey(p) \/ Saved(p) \/ Arm(p) \/ Firewall(p)
  PROVE  Typed'
<1> SUFFICES TypeOK' /\ StageInv'
  BY DEF Typed
<1>0. /\ TypeOK /\ StageInv
      /\ TableType /\ PlaceType /\ NginxType /\ XrayType /\ WallType /\ LockType
      /\ AtType /\ OutsideType /\ FaultType
      /\ StageFits(at[p]) /\ at[p] \in Step
  BY TypeParts DEF Typed, StageInv, AtType
<1> DEFINE Rest == /\ TableType' /\ PlaceType' /\ XrayType' /\ WallType' /\ OutsideType'
<1>1. CASE Begin(p)
  <2>1. GoesTo(p, IF at[p].want.mode = "off" THEN "open" ELSE "stage") /\ at[p].pc = "lock"
    BY <1>0, <1>1, BeginMoves DEF Begin, Is
  <2>2. StageFits(at'[p])
    BY <1>0, <2>1 DEF GoesTo, StageFits
  <2>3. StageInv' /\ AtType' /\ LockType'
    BY <1>0, <1>1, <2>1, <2>2, FitsGoing DEF Begin, GoesTo, Kept, AtType, LockType
  <2>4. UNCHANGED <<table, inboundVars, nginxVars, xray, wall, outside, faults>>
    BY <1>1 DEF Begin
  <2>5. TableType' /\ PlaceType' /\ NginxType' /\ XrayType' /\ WallType' /\ OutsideType' /\ FaultType'
    BY <1>0, <2>4 DEF TableType, PlaceType, NginxType, XrayType, WallType, OutsideType, FaultType,
       table, inboundVars, nginxVars, wall, outside
  <2>6. QED
    BY <2>3, <2>5, TypedParts
<1>2. CASE Stage(p)
  <2>1. (Staged(p) /\ UNCHANGED <<lock, skip>>) \/ (Returned(p) /\ UNCHANGED conf)
    BY <1>0, <1>2, StageMoves
  <2>2. FaultType' /\ UNCHANGED <<table, inboundVars, live, running, xray, wall, outside>> /\ at[p].pc = "stage"
    BY <1>0, <1>2, StageMoves DEF Stage, Is
  <2>3. TableType' /\ PlaceType' /\ XrayType' /\ WallType' /\ OutsideType'
    BY <1>0, <2>2 DEF TableType, PlaceType, XrayType, WallType, OutsideType,
       table, inboundVars, wall, outside
  <2>4. CASE Staged(p) /\ UNCHANGED <<lock, skip>>
    <3>1. conf' \in Config
      BY <1>0, <2>4, BuiltConfig DEF Staged, Step, PlaceType, OutsideType
    <3>2. NginxType' /\ AtType' /\ LockType'
      BY <1>0, <2>2, <2>4, <3>1 DEF NginxType, Staged, Kept, AtType, LockType
    <3>3. StageFits(at'[p])
      BY <1>0, <2>2, <2>4 DEF Staged, StageFits, NginxType
    <3>4. StageInv'
      BY <1>0, <2>4, <3>3, FitsStep DEF Staged
    <3>5. QED
      BY <2>2, <2>3, <3>2, <3>4, TypedParts
  <2>5. CASE Returned(p) /\ UNCHANGED conf
    <3>1. NginxType' /\ AtType' /\ LockType' /\ StageInv'
      BY <1>0, <2>2, <2>5, ReturnedType, FitsReturned DEF NginxType
    <3>2. QED
      BY <2>2, <2>3, <3>1, TypedParts
  <2>6. QED
    BY <2>1, <2>4, <2>5
<1>3. CASE ListRoutes(p)
  <2>1. (RollbackStaged(p) /\ Returned(p)) \/ (Listed(p) /\ UNCHANGED <<nginxVars, lock, skip>>)
    BY <1>0, <1>3, ListMoves
  <2>2. UNCHANGED <<table, inboundVars, xray, wall, outside, faults>> /\ at[p].pc = "routes"
    BY <1>3 DEF ListRoutes, Is
  <2>3. TableType' /\ PlaceType' /\ XrayType' /\ WallType' /\ OutsideType' /\ FaultType'
    BY <1>0, <2>2 DEF TableType, PlaceType, XrayType, WallType, OutsideType, FaultType,
       table, inboundVars, wall, outside
  <2>4. PICK old \in Config : at[p].undo = {old}
    BY <1>0, <2>2 DEF StageFits
  <2>5. CASE RollbackStaged(p) /\ Returned(p)
    <3>1. NginxType'
      BY <1>0, <2>4, <2>5, Rolling
    <3>2. AtType' /\ LockType' /\ StageInv'
      BY <1>0, <2>5, ReturnedType, FitsReturned
    <3>3. QED
      BY <2>3, <3>1, <3>2, TypedParts
  <2>6. CASE Listed(p) /\ UNCHANGED <<nginxVars, lock, skip>>
    <3>1. NginxType' /\ AtType' /\ LockType'
      BY <1>0, <2>6 DEF NginxType, nginxVars, Listed, Kept, AtType, LockType
    <3>2. StageFits(at'[p])
      BY <1>0, <2>2, <2>6 DEF Listed, StageFits
    <3>3. StageInv'
      BY <1>0, <2>6, <3>2, FitsStep DEF Listed
    <3>4. QED
      BY <2>3, <3>1, <3>3, TypedParts
  <2>7. QED
    BY <2>1, <2>5, <2>6
<1>4. CASE Move(p)
  <2>1. /\ \/ RollbackStaged(p) /\ Returned(p) /\ UNCHANGED place
           \/ UNCHANGED <<nginxVars, lock, skip>> /\ \E i \in Inbound : Moved(p, i)
        /\ FaultType'
    BY <1>0, <1>4, MoveMoves
  <2>2. UNCHANGED <<table, snapshots, xray, wall, outside>> /\ at[p].pc = "move"
    BY <1>4 DEF Move, Is
  <2>3. TableType' /\ XrayType' /\ WallType' /\ OutsideType'
    BY <1>0, <2>2 DEF TableType, XrayType, WallType, OutsideType, table, wall, outside
  <2>4. PICK old \in Config : at[p].undo = {old}
    BY <1>0, <2>2 DEF StageFits
  <2>5. CASE RollbackStaged(p) /\ Returned(p) /\ UNCHANGED place
    <3>1. NginxType' /\ PlaceType'
      BY <1>0, <2>2, <2>4, <2>5, Rolling DEF PlaceType
    <3>2. AtType' /\ LockType' /\ StageInv'
      BY <1>0, <2>5, ReturnedType, FitsReturned
    <3>3. QED
      BY <2>1, <2>3, <3>1, <3>2, TypedParts
  <2>6. ASSUME UNCHANGED <<nginxVars, lock, skip>>, NEW i \in Inbound, Moved(p, i)
        PROVE  TypeOK' /\ StageInv'
    <3>1. NginxType' /\ AtType' /\ LockType'
      BY <1>0, <2>6 DEF NginxType, nginxVars, Moved, Kept, AtType, LockType
    <3>2. \A j \in DOMAIN at[p].snaps : at[p].snaps[j] \in Place
      BY <1>0, RememberedIs DEF Step
    <3>3. place' \in [Inbound -> Place]
      BY <1>0, <2>6, <3>2 DEF Moved, PlaceType, Place
    <3>4. PlaceType'
      BY <1>0, <2>2, <3>3 DEF PlaceType
    <3>5. StageFits(at'[p])
      BY <1>0, <2>2, <2>6 DEF Moved, StageFits
    <3>6. StageInv'
      BY <1>0, <2>6, <3>5, FitsStep DEF Moved
    <3>7. QED
      BY <2>1, <2>3, <3>1, <3>4, <3>6, TypedParts
  <2>7. QED
    BY <2>1, <2>5, <2>6
<1>5. CASE SaveSnapshots(p)
  <2>1. Proceed(p, "xray") /\ at[p].pc = "move" /\ snapshots' = at[p].snaps
        /\ UNCHANGED <<table, place, nginxVars, xray, wall, outside, faults>>
    BY <1>5 DEF SaveSnapshots, Is
  <2>2. AtType' /\ LockType' /\ StageInv'
    <3>1. "xray" \in PC
      BY DEF PC
    <3>2. QED
      BY <1>0, <2>1, <3>1, Proceeds
  <2>3. PlaceType'
    BY <1>0, <2>1 DEF PlaceType, Step
  <2>4. TableType' /\ NginxType' /\ XrayType' /\ WallType' /\ OutsideType' /\ FaultType'
    BY <1>0, <2>1 DEF TableType, NginxType, XrayType, WallType, OutsideType, FaultType,
       table, nginxVars, wall, outside
  <2>5. QED
    BY <2>2, <2>3, <2>4, TypedParts
<1>6. CASE RestartXray(p)
  <2>1. /\ at[p].pc = "xray" /\ UNCHANGED <<table, inboundVars, nginxVars, wall, outside>>
        /\ \/ Works /\ xray' = Started /\ Proceed(p, "activate")
           \/ MayFail("xray") /\ xray' = {} /\ Proceed(p, "restore")
    BY <1>6 DEF RestartXray, Is
  <2>2. AtType' /\ LockType' /\ StageInv'
    <3>1. {"activate", "restore"} \subseteq PC
      BY DEF PC
    <3>2. QED
      BY <1>0, <2>1, <3>1, Proceeds
  <2>3. XrayType'
    BY <1>0, <2>1, StartedType DEF XrayType
  <2>4. FaultType'
    BY <1>0, <2>1, Failing
  <2>5. TableType' /\ PlaceType' /\ NginxType' /\ WallType' /\ OutsideType'
    BY <1>0, <2>1 DEF TableType, PlaceType, NginxType, WallType, OutsideType,
       table, inboundVars, nginxVars, wall, outside
  <2>6. QED
    BY <2>2, <2>3, <2>4, <2>5, TypedParts
<1>7. CASE Activate(p)
  <2>1. /\ \/ /\ PublicPortFree /\ live' = conf /\ running' = TRUE /\ UNCHANGED conf
              /\ GoesTo(p, "save")
           \/ /\ RollbackStaged(p)
              /\ Kept(p) /\ at'[p].pc = "restore" /\ at'[p].undo = {}
        /\ UNCHANGED <<lock, skip>> /\ FaultType'
    BY <1>0, <1>7, ActivateMoves
  <2>2. UNCHANGED <<table, inboundVars, xray, wall, outside>> /\ at[p].pc = "activate"
    BY <1>7 DEF Activate, Is
  <2>3. TableType' /\ PlaceType' /\ XrayType' /\ WallType' /\ OutsideType'
    BY <1>0, <2>2 DEF TableType, PlaceType, XrayType, WallType, OutsideType,
       table, inboundVars, wall, outside
  <2>4. PICK old \in Config : at[p].undo = {old}
    BY <1>0, <2>2 DEF StageFits
  <2>5. AtType' /\ LockType'
    BY <1>0, <2>1 DEF GoesTo, Kept, AtType, LockType
  <2>6. NginxType'
    <3>1. CASE live' = conf /\ running' = TRUE /\ UNCHANGED conf
      BY <1>0, <3>1 DEF NginxType
    <3>2. CASE RollbackStaged(p)
      BY <1>0, <2>4, <3>2, Rolling
    <3>3. QED
      BY <2>1, <3>1, <3>2
  <2>7. StageFits(at'[p])
    BY <2>1 DEF GoesTo, StageFits
  <2>8. StageInv'
    BY <1>0, <2>1, <2>7, FitsStep DEF GoesTo
  <2>9. QED
    BY <2>1, <2>3, <2>5, <2>6, <2>8, TypedParts
<1>8. CASE SaveKey(p)
  <2> DEFINE goal == Clean(at[p].want)
  <2>1. goal \in Settings
    BY <1>0, Cleaned DEF Step
  <2>2. /\ \E k \in {"mode", "panel", "firewall"} : settings' = [settings EXCEPT ![k] = goal[k]]
        /\ proven' = IF Level(Clean(settings')) < proven THEN Level(Clean(settings')) ELSE proven
        /\ UNCHANGED <<deadline, fallback, gaveUp, inboundVars, nginxVars, xray, wall, lock, at, skip,
                       outside, faults>>
    BY <1>8 DEF SaveKey
  <2> HIDE DEF goal
  <2>3. settings' \in Settings
    BY <1>0, <2>1, <2>2 DEF TableType, Settings
  <2>4. proven' \in 0..2
    BY <1>0, <2>2, LevelType DEF TableType
  <2>5. TableType'
    BY <1>0, <2>2, <2>3, <2>4 DEF TableType
  <2>6. /\ PlaceType' /\ NginxType' /\ XrayType' /\ WallType' /\ OutsideType' /\ FaultType'
        /\ AtType' /\ LockType' /\ StageInv'
    BY <1>0, <2>2 DEF PlaceType, NginxType, XrayType, WallType, OutsideType, FaultType, AtType,
       LockType, StageInv, inboundVars, nginxVars, wall, outside
  <2>7. QED
    BY <2>5, <2>6, TypedParts
<1>9. CASE Saved(p)
  <2>1. /\ UNCHANGED <<table, inboundVars, nginxVars, xray, wall, outside, faults>>
        /\ \/ Return(p, TRUE)
           \/ Proceed(p, "fallback") \/ Proceed(p, "firewall")
    BY <1>9 DEF Saved
  <2>2. AtType' /\ LockType' /\ StageInv'
    <3>1. {"fallback", "firewall"} \subseteq PC
      BY DEF PC
    <3>2. CASE Return(p, TRUE)
      BY <1>0, <3>2, Returning, ReturnedType, FitsReturned
    <3>3. CASE Proceed(p, "fallback") \/ Proceed(p, "firewall")
      BY <1>0, <3>1, <3>3, Proceeds
    <3>4. QED
      BY <2>1, <3>2, <3>3
  <2>3. /\ TableType' /\ PlaceType' /\ NginxType' /\ XrayType' /\ WallType' /\ OutsideType'
        /\ FaultType'
    BY <1>0, <2>1 DEF TableType, PlaceType, NginxType, XrayType, WallType, OutsideType, FaultType,
       table, inboundVars, nginxVars, wall, outside
  <2>4. QED
    BY <2>2, <2>3, TypedParts
<1>10. CASE Arm(p)
  <2>1. /\ \/ fallback' = {at[p].prev} /\ UNCHANGED deadline /\ Proceed(p, "deadline")
           \/ deadline' = "waiting" /\ UNCHANGED fallback /\ Proceed(p, "firewall")
        /\ UNCHANGED <<settings, proven, gaveUp, inboundVars, nginxVars, xray, wall, outside, faults>>
    BY <1>10 DEF Arm
  <2>2. AtType' /\ LockType' /\ StageInv'
    <3>1. {"deadline", "firewall"} \subseteq PC
      BY DEF PC
    <3>2. QED
      BY <1>0, <2>1, <3>1, Proceeds
  <2>3. fallback' \in SUBSET Settings /\ Cardinality(fallback') <= 1
    <3>1. at[p].prev \in Settings /\ Cardinality({at[p].prev}) = 1
      BY <1>0, FS_Singleton DEF Step
    <3>2. QED
      BY <1>0, <2>1, <3>1 DEF TableType
  <2>4. TableType'
    BY <1>0, <2>1, <2>3 DEF TableType
  <2>5. PlaceType' /\ NginxType' /\ XrayType' /\ WallType' /\ OutsideType' /\ FaultType'
    BY <1>0, <2>1 DEF PlaceType, NginxType, XrayType, WallType, OutsideType, FaultType,
       inboundVars, nginxVars, wall, outside
  <2>6. QED
    BY <2>2, <2>4, <2>5, TypedParts
<1>11. CASE Firewall(p)
  <2>1. /\ Rebuild(at[p].want) /\ Return(p, faults' = faults)
        /\ UNCHANGED <<table, inboundVars, nginxVars, xray, outside>>
    BY <1>11 DEF Firewall
  <2>2. WallType' /\ FaultType'
    BY <1>0, <2>1, Rebuilding
  <2>3. AtType' /\ LockType' /\ StageInv'
    BY <1>0, <2>1, Returning, ReturnedType, FitsReturned
  <2>4. TableType' /\ PlaceType' /\ NginxType' /\ XrayType' /\ OutsideType'
    BY <1>0, <2>1 DEF TableType, PlaceType, NginxType, XrayType, OutsideType,
       table, inboundVars, nginxVars, outside
  <2>5. QED
    BY <2>2, <2>3, <2>4, TypedParts
<1>12. QED
  BY <1>1, <1>2, <1>3, <1>4, <1>5, <1>6, <1>7, <1>8, <1>9, <1>10, <1>11

LEMMA TypedDown ==
  ASSUME Typed, NEW p \in Process,
         \/ OpenFirst(p) \/ Remove(p) \/ Restore(p) \/ Forget(p) \/ StartAgain(p) \/ Undo(p)
         \/ RestartDown(p) \/ Disarm(p) \/ Forgive(p)
  PROVE  Typed'
<1> SUFFICES TypeOK' /\ StageInv'
  BY DEF Typed
<1>0. /\ TypeOK /\ StageInv
      /\ TableType /\ PlaceType /\ NginxType /\ XrayType /\ WallType /\ LockType
      /\ AtType /\ OutsideType /\ FaultType
      /\ StageFits(at[p]) /\ at[p] \in Step
  BY TypeParts DEF Typed, StageInv, AtType
<1>pc. {"remove", "restore", "forget", "restart", "again", "undo", "disarm", "forgive", "save",
        "reconcile"} \subseteq PC
  BY DEF PC
<1>1. CASE OpenFirst(p)
  <2>1. /\ at[p].pc = "open" /\ OpenPorts /\ Proceed(p, "remove")
        /\ UNCHANGED <<table, inboundVars, nginxVars, xray, outside, faults>>
    BY <1>1 DEF OpenFirst, Is
  <2>2. AtType' /\ LockType' /\ StageInv' /\ WallType'
    BY <1>0, <1>pc, <2>1, Proceeds, Opening
  <2>3. TableType' /\ PlaceType' /\ NginxType' /\ XrayType' /\ OutsideType' /\ FaultType'
    BY <1>0, <2>1 DEF TableType, PlaceType, NginxType, XrayType, OutsideType, FaultType,
       table, inboundVars, nginxVars, outside
  <2>4. QED
    BY <2>2, <2>3, TypedParts
<1>2. CASE Remove(p)
  <2>1. /\ at[p].pc = "remove" /\ UNCHANGED <<table, inboundVars, xray, wall, outside>>
        /\ \/ /\ Works /\ conf' = NoConfig /\ live' = NoConfig /\ running' = TRUE
              /\ Proceed(p, "restore")
           \/ MayFail("activate") /\ UNCHANGED nginxVars /\ Return(p, FALSE)
    BY <1>2 DEF Remove, Is
  <2>2. AtType' /\ LockType' /\ StageInv'
    <3>1. CASE Proceed(p, "restore")
      BY <1>0, <1>pc, <2>1, <3>1, Proceeds
    <3>2. CASE Return(p, FALSE)
      BY <1>0, <3>2, Returning, ReturnedType, FitsReturned
    <3>3. QED
      BY <2>1, <3>1, <3>2
  <2>3. NginxType'
    BY <1>0, <2>1, NoConfigType DEF NginxType, nginxVars
  <2>4. FaultType'
    BY <1>0, <2>1, Failing
  <2>5. TableType' /\ PlaceType' /\ XrayType' /\ WallType' /\ OutsideType'
    BY <1>0, <2>1 DEF TableType, PlaceType, XrayType, WallType, OutsideType,
       table, inboundVars, wall, outside
  <2>6. QED
    BY <2>2, <2>3, <2>4, <2>5, TypedParts
<1>3. CASE Restore(p)
  <2>1. /\ at[p].pc = "restore" /\ Proceed(p, "forget")
        /\ place' = [i \in Inbound |-> IF i \in DOMAIN snapshots THEN snapshots[i] ELSE place[i]]
        /\ UNCHANGED <<table, snapshots, nginxVars, xray, wall, outside, faults>>
    BY <1>3 DEF Restore, Is
  <2>2. AtType' /\ LockType' /\ StageInv'
    BY <1>0, <1>pc, <2>1, Proceeds
  <2>3. PlaceType'
    <3>1. \A i \in DOMAIN snapshots : snapshots[i] \in Place
      BY <1>0, RememberedIs DEF PlaceType
    <3>2. QED
      BY <1>0, <2>1, <3>1 DEF PlaceType
  <2>4. TableType' /\ NginxType' /\ XrayType' /\ WallType' /\ OutsideType' /\ FaultType'
    BY <1>0, <2>1 DEF TableType, NginxType, XrayType, WallType, OutsideType, FaultType,
       table, nginxVars, wall, outside
  <2>5. QED
    BY <2>2, <2>3, <2>4, TypedParts
<1>4. CASE Forget(p)
  <2>1. /\ at[p].pc = "forget" /\ snapshots' = Nowhere
        /\ Proceed(p, IF at[p].want.mode = "off" THEN "restart" ELSE "again")
        /\ UNCHANGED <<table, place, nginxVars, xray, wall, outside, faults>>
    BY <1>4 DEF Forget, Is
  <2>2. AtType' /\ LockType' /\ StageInv'
    <3>1. CASE at[p].want.mode = "off"
      BY <1>0, <1>pc, <2>1, <3>1, Proceeds
    <3>2. CASE at[p].want.mode # "off"
      BY <1>0, <1>pc, <2>1, <3>2, Proceeds
    <3>3. QED
      BY <3>1, <3>2
  <2>3. PlaceType'
    BY <1>0, <2>1, NowhereType DEF PlaceType
  <2>4. TableType' /\ NginxType' /\ XrayType' /\ WallType' /\ OutsideType' /\ FaultType'
    BY <1>0, <2>1 DEF TableType, NginxType, XrayType, WallType, OutsideType, FaultType,
       table, nginxVars, wall, outside
  <2>5. QED
    BY <2>2, <2>3, <2>4, TypedParts
<1>5. CASE StartAgain(p)
  <2>1. /\ at[p].pc = "again" /\ xray' = Started /\ Proceed(p, "undo")
        /\ UNCHANGED <<table, inboundVars, nginxVars, wall, outside, faults>>
    BY <1>5 DEF StartAgain, Is
  <2>2. AtType' /\ LockType' /\ StageInv'
    BY <1>0, <1>pc, <2>1, Proceeds
  <2>3. XrayType'
    BY <1>0, <2>1, StartedType DEF XrayType
  <2>4. TableType' /\ PlaceType' /\ NginxType' /\ WallType' /\ OutsideType' /\ FaultType'
    BY <1>0, <2>1 DEF TableType, PlaceType, NginxType, WallType, OutsideType, FaultType,
       table, inboundVars, nginxVars, wall, outside
  <2>5. QED
    BY <2>2, <2>3, <2>4, TypedParts
<1>6. CASE Undo(p)
  <2>1. /\ at[p].pc = "undo" /\ Return(p, FALSE)
        /\ IF at[p].undo = {} THEN UNCHANGED nginxVars ELSE RollbackStaged(p)
        /\ UNCHANGED <<table, inboundVars, xray, wall, outside, faults>>
    BY <1>6 DEF Undo, Is
  <2>2. AtType' /\ LockType' /\ StageInv'
    BY <1>0, <2>1, Returning, ReturnedType, FitsReturned
  <2>3. NginxType'
    <3>1. CASE at[p].undo = {}
      BY <1>0, <2>1, <3>1 DEF NginxType, nginxVars
    <3>2. CASE at[p].undo # {}
      <4>1. PICK old \in Config : at[p].undo = {old}
        BY <1>0, <2>1, <3>2 DEF StageFits
      <4>2. QED
        BY <1>0, <2>1, <3>2, <4>1, Rolling
    <3>3. QED
      BY <3>1, <3>2
  <2>4. TableType' /\ PlaceType' /\ XrayType' /\ WallType' /\ OutsideType' /\ FaultType'
    BY <1>0, <2>1 DEF TableType, PlaceType, XrayType, WallType, OutsideType, FaultType,
       table, inboundVars, wall, outside
  <2>5. QED
    BY <2>2, <2>3, <2>4, TypedParts
<1>7. CASE RestartDown(p)
  <2>1. /\ UNCHANGED <<table, inboundVars, nginxVars, wall, outside>>
        /\ \/ Works /\ xray' = Started /\ Proceed(p, "disarm")
           \/ MayFail("xray") /\ xray' = {} /\ Return(p, FALSE)
    BY <1>7 DEF RestartDown
  <2>2. AtType' /\ LockType' /\ StageInv'
    <3>1. CASE Proceed(p, "disarm")
      BY <1>0, <1>pc, <2>1, <3>1, Proceeds
    <3>2. CASE Return(p, FALSE)
      BY <1>0, <3>2, Returning, ReturnedType, FitsReturned
    <3>3. QED
      BY <2>1, <3>1, <3>2
  <2>3. XrayType'
    BY <1>0, <2>1, StartedType DEF XrayType
  <2>4. FaultType'
    BY <1>0, <2>1, Failing
  <2>5. TableType' /\ PlaceType' /\ NginxType' /\ WallType' /\ OutsideType'
    BY <1>0, <2>1 DEF TableType, PlaceType, NginxType, WallType, OutsideType,
       table, inboundVars, nginxVars, wall, outside
  <2>6. QED
    BY <2>2, <2>3, <2>4, <2>5, TypedParts
<1>8. CASE Disarm(p)
  <2>1. /\ deadline' = "none" /\ Proceed(p, "forgive")
        /\ UNCHANGED <<settings, fallback, proven, gaveUp, inboundVars, nginxVars, xray, wall,
                       outside, faults>>
    BY <1>8 DEF Disarm
  <2>2. AtType' /\ LockType' /\ StageInv'
    BY <1>0, <1>pc, <2>1, Proceeds
  <2>3. TableType'
    BY <1>0, <2>1 DEF TableType
  <2>4. PlaceType' /\ NginxType' /\ XrayType' /\ WallType' /\ OutsideType' /\ FaultType'
    BY <1>0, <2>1 DEF PlaceType, NginxType, XrayType, WallType, OutsideType, FaultType,
       inboundVars, nginxVars, wall, outside
  <2>5. QED
    BY <2>2, <2>3, <2>4, TypedParts
<1>9. CASE Forgive(p)
  <2>1. /\ fallback' = {}
        /\ UNCHANGED <<settings, deadline, proven, gaveUp, inboundVars, nginxVars, xray, wall, lock,
                       skip, outside, faults>>
    BY <1>9 DEF Forgive
  <2>2. \/ Called(p)
        \/ Kept(p) /\ at'[p].pc \in {"reconcile", "idle"}
        \/ GoesTo(p, "save")
    BY <1>0, <1>9, ForgiveMoves
  <2>3. Kept(p) /\ StageFits(at'[p])
    BY <2>2 DEF Called, GoesTo, StageFits
  <2>4. StageInv' /\ AtType' /\ LockType'
    BY <1>0, <2>1, <2>3, FitsStep, KeptType DEF AtType, LockType
  <2>5. TableType'
    BY <1>0, <2>1, FS_EmptySet DEF TableType
  <2>6. PlaceType' /\ NginxType' /\ XrayType' /\ WallType' /\ OutsideType' /\ FaultType'
    BY <1>0, <2>1 DEF PlaceType, NginxType, XrayType, WallType, OutsideType, FaultType,
       inboundVars, nginxVars, wall, outside
  <2>7. QED
    BY <2>4, <2>5, <2>6, TypedParts
<1>10. QED
  BY <1>1, <1>2, <1>3, <1>4, <1>5, <1>6, <1>7, <1>8, <1>9

LEMMA FitsJob ==
  ASSUME Typed, JobMoves, skip' \in 0..MaxPause
  PROVE  StageInv' /\ AtType'
<1>1. Job \in Process /\ StageFits(at'[Job])
  BY DEF Process, JobMoves, StageFits
<1>2. QED
  BY <1>1, FitsStep, KeptType DEF Typed, JobMoves

LEMMA TypedJob ==
  ASSUME Typed,
         Tick \/ Expired \/ OpenUp \/ Reconcile \/ PutBack \/ StartNginx \/ Compare
  PROVE  Typed'
<1> SUFFICES TypeOK' /\ StageInv'
  BY DEF Typed
<1>0. /\ TypeOK /\ StageInv
      /\ TableType /\ PlaceType /\ NginxType /\ XrayType /\ WallType /\ LockType
      /\ AtType /\ OutsideType /\ FaultType
      /\ Job \in Process /\ skip \in 0..MaxPause
  BY TypeParts DEF Typed, AtType, Process
\* Off to where there are no files to put back.
<1>a. ASSUME NEW pc \in {"expired", "reconcile", "nginx"}, Goto(Job, pc), skip' \in 0..MaxPause
      PROVE  StageInv' /\ AtType'
  <2>1. pc \in PC
    BY DEF PC
  <2>2. GoesTo(Job, pc)
    BY <1>0, <1>a, <2>1, Going
  <2>3. StageFits(at'[Job])
    BY <2>2 DEF GoesTo, StageFits
  <2>4. QED
    BY <1>0, <1>a, <2>2, <2>3, FitsStep, KeptType DEF GoesTo
<1>1. CASE Tick
  <2>1. /\ Goto(Job, IF deadline = "over" THEN "expired" ELSE "reconcile")
        /\ UNCHANGED <<table, inboundVars, nginxVars, xray, wall, lock, skip, outside, faults>>
    BY <1>1 DEF Tick
  <2>2. StageInv' /\ AtType'
    BY <1>0, <1>a, <2>1
  <2>3. /\ TableType' /\ PlaceType' /\ NginxType' /\ XrayType' /\ WallType' /\ LockType'
        /\ OutsideType' /\ FaultType'
    BY <1>0, <2>1 DEF TableType, PlaceType, NginxType, XrayType, WallType, LockType, OutsideType,
       FaultType, table, inboundVars, nginxVars, wall, outside
  <2>4. QED
    BY <2>2, <2>3, TypedParts
<1>2. CASE Expired
  <2>1. /\ Kept(Job) /\ at'[Job].pc = "disarm" /\ gaveUp' \in BOOLEAN
        /\ UNCHANGED <<settings, deadline, fallback, proven, inboundVars, nginxVars, xray, wall,
                       lock, skip, outside, faults>>
    BY <1>0, <1>2, ExpiredMoves DEF Expired
  <2>2. StageFits(at'[Job])
    BY <2>1 DEF StageFits
  <2>3. StageInv' /\ AtType'
    BY <1>0, <2>1, <2>2, FitsStep, KeptType
  <2>4. /\ TableType' /\ PlaceType' /\ NginxType' /\ XrayType' /\ WallType' /\ LockType'
        /\ OutsideType' /\ FaultType'
    BY <1>0, <2>1 DEF TableType, PlaceType, NginxType, XrayType, WallType, LockType, OutsideType,
       FaultType, inboundVars, nginxVars, wall, outside
  <2>5. QED
    BY <2>3, <2>4, TypedParts
<1>3. CASE OpenUp
  <2>1. /\ OpenPorts /\ Goto(Job, "reconcile") /\ gaveUp' = TRUE
        /\ UNCHANGED <<settings, deadline, fallback, proven, inboundVars, nginxVars, xray, lock,
                       skip, outside, faults>>
    BY <1>3 DEF OpenUp
  <2>2. StageInv' /\ AtType' /\ WallType'
    BY <1>0, <1>a, <2>1, Opening
  <2>3. TableType'
    BY <1>0, <2>1 DEF TableType
  <2>4. PlaceType' /\ NginxType' /\ XrayType' /\ LockType' /\ OutsideType' /\ FaultType'
    BY <1>0, <2>1 DEF PlaceType, NginxType, XrayType, LockType, OutsideType, FaultType,
       inboundVars, nginxVars, outside
  <2>5. QED
    BY <2>2, <2>3, <2>4, TypedParts
<1>4. CASE Reconcile
  <2>1. StageInv' /\ AtType'
    BY <1>0, <1>4, ReconcileMoves, FitsJob DEF Typed
  <2>2. UNCHANGED <<table, inboundVars, nginxVars, xray, wall, lock, outside, faults>>
    BY <1>4 DEF Reconcile
  <2>3. /\ TableType' /\ PlaceType' /\ NginxType' /\ XrayType' /\ WallType' /\ LockType'
        /\ OutsideType' /\ FaultType'
    BY <1>0, <2>2 DEF TableType, PlaceType, NginxType, XrayType, WallType, LockType, OutsideType,
       FaultType, table, inboundVars, nginxVars, wall, outside
  <2>4. QED
    BY <2>1, <2>3, TypedParts
<1>5. CASE PutBack
  <2>1. /\ IF ClosesPorts(at[Job].want) /\ ~hooked THEN Rebuild(at[Job].want) ELSE UNCHANGED <<wall, faults>>
        /\ Goto(Job, "nginx")
        /\ UNCHANGED <<table, inboundVars, nginxVars, xray, lock, skip, outside>>
    BY <1>5 DEF PutBack
  <2>2. StageInv' /\ AtType'
    BY <1>0, <1>a, <2>1
  <2>3. WallType' /\ FaultType'
    <3>1. CASE Rebuild(at[Job].want)
      BY <1>0, <3>1, Rebuilding
    <3>2. CASE UNCHANGED <<wall, faults>>
      BY <1>0, <3>2 DEF WallType, FaultType, wall
    <3>3. QED
      BY <2>1, <3>1, <3>2
  <2>4. TableType' /\ PlaceType' /\ NginxType' /\ XrayType' /\ LockType' /\ OutsideType'
    BY <1>0, <2>1 DEF TableType, PlaceType, NginxType, XrayType, LockType, OutsideType,
       table, inboundVars, nginxVars, outside
  <2>5. QED
    BY <2>2, <2>3, <2>4, TypedParts
<1>6. CASE StartNginx
  <2>1. StageInv' /\ AtType'
    BY <1>0, <1>6, StartNginxMoves, FitsJob DEF Typed
  <2>2. NginxType' /\ FaultType'
    BY <1>0, <1>6, StartNginxMoves DEF NginxType, nginxVars
  <2>3. UNCHANGED <<table, inboundVars, xray, wall, lock, outside>>
    BY <1>6 DEF StartNginx
  <2>4. TableType' /\ PlaceType' /\ XrayType' /\ WallType' /\ LockType' /\ OutsideType'
    BY <1>0, <2>3 DEF TableType, PlaceType, XrayType, WallType, LockType, OutsideType,
       table, inboundVars, wall, outside
  <2>5. QED
    BY <2>1, <2>2, <2>4, TypedParts
<1>7. CASE Compare
  <2>1. StageInv' /\ AtType'
    BY <1>0, <1>7, CompareMoves, FitsJob DEF Typed
  <2>2. UNCHANGED <<table, inboundVars, nginxVars, xray, wall, lock, outside, faults>>
    BY <1>0, <1>7, CompareMoves DEF Compare
  <2>3. /\ TableType' /\ PlaceType' /\ NginxType' /\ XrayType' /\ WallType' /\ LockType'
        /\ OutsideType' /\ FaultType'
    BY <1>0, <2>2 DEF TableType, PlaceType, NginxType, XrayType, WallType, LockType, OutsideType,
       FaultType, table, inboundVars, nginxVars, wall, outside
  <2>4. QED
    BY <2>1, <2>3, TypedParts
<1>8. QED
  BY <1>1, <1>2, <1>3, <1>4, <1>5, <1>6, <1>7

\* A crash leaves both processes idle.
LEMMA CrashMoves ==
  ASSUME Crash
  PROVE  at' \in [Process -> Step] /\ \A p \in Process : at'[p] = Idle /\ at'[p].pc = "idle"
BY IdleType DEF Crash

LEMMA TypedOutside ==
  ASSUME Typed,
         \/ \E s \in Wanted : Request(s)
         \/ Confirm
         \/ \E i \in Inbound : Toggle(i)
         \/ XrayJobs \/ DeadlinePasses \/ RulesLost \/ NginxStops \/ Crash
  PROVE  Typed'
<1> SUFFICES TypeOK' /\ StageInv'
  BY DEF Typed
<1>0. /\ TypeOK /\ StageInv
      /\ TableType /\ PlaceType /\ NginxType /\ XrayType /\ WallType /\ LockType
      /\ AtType /\ OutsideType /\ FaultType
      /\ Owner \in Process /\ MaxPause \in Nat /\ MaxApplies \in Nat /\ MaxEdits \in Nat
  BY TypeParts, Bounds DEF Typed, Process
<1>a. ASSUME UNCHANGED <<at, lock, skip>>
      PROVE  StageInv' /\ AtType' /\ LockType'
  BY <1>0, <1>a DEF StageInv, AtType, LockType
<1>1. ASSUME NEW s \in Wanted, Request(s)
      PROVE  TypeOK' /\ StageInv'
  <2>1. /\ Call(Owner, "none", s) /\ applies < MaxApplies /\ applies' = applies + 1
        /\ UNCHANGED <<table, inboundVars, nginxVars, xray, wall, lock, skip, enabled, restart, edits, faults>>
    BY <1>1 DEF Request
  <2>2. s \in Settings
    BY WantedAssumption
  <2>3. Called(Owner)
    BY <1>0, <2>1, <2>2, Calling
  <2>4. StageFits(at'[Owner])
    BY <2>3 DEF Called, StageFits
  <2>5. StageInv' /\ AtType'
    BY <1>0, <2>1, <2>3, <2>4, FitsStep, KeptType DEF Called, AtType
  <2>6. OutsideType'
    BY <1>0, <2>1 DEF OutsideType
  <2>7. TableType' /\ PlaceType' /\ NginxType' /\ XrayType' /\ WallType' /\ LockType' /\ FaultType'
    BY <1>0, <2>1 DEF TableType, PlaceType, NginxType, XrayType, WallType, LockType, FaultType,
       table, inboundVars, nginxVars, wall
  <2>8. QED
    BY <2>5, <2>6, <2>7, TypedParts
<1>2. CASE Confirm
  <2>1. /\ deadline' = "none" /\ proven' = Level(Clean(settings))
        /\ UNCHANGED <<settings, fallback, gaveUp, inboundVars, nginxVars, xray, wall, lock, skip, outside, faults>>
    BY <1>2 DEF Confirm
  <2>2. Kept(Owner) /\ at'[Owner].pc = "forgive"
    BY <1>0, <1>2, ConfirmMoves
  <2>3. StageFits(at'[Owner])
    BY <2>2 DEF StageFits
  <2>4. StageInv' /\ AtType'
    BY <1>0, <2>1, <2>2, <2>3, FitsStep, KeptType DEF AtType
  <2>5. proven' \in 0..2
    BY <2>1, LevelType
  <2>6. TableType'
    BY <1>0, <2>1, <2>5 DEF TableType
  <2>7. PlaceType' /\ NginxType' /\ XrayType' /\ WallType' /\ LockType' /\ OutsideType' /\ FaultType'
    BY <1>0, <2>1 DEF PlaceType, NginxType, XrayType, WallType, LockType, OutsideType, FaultType,
       inboundVars, nginxVars, wall, outside
  <2>8. QED
    BY <2>4, <2>6, <2>7, TypedParts
<1>3. ASSUME NEW i \in Inbound, Toggle(i)
      PROVE  TypeOK' /\ StageInv'
  <2>1. /\ edits < MaxEdits /\ edits' = edits + 1 /\ restart' = TRUE
        /\ enabled' = IF i \in enabled THEN enabled \ {i} ELSE enabled \cup {i}
        /\ UNCHANGED <<table, inboundVars, nginxVars, xray, wall, lock, at, skip, applies, faults>>
    BY <1>3 DEF Toggle
  <2>2. OutsideType'
    <3>1. enabled' \subseteq Inbound /\ edits' \in 0..MaxEdits /\ applies' \in 0..MaxApplies
      BY <1>0, <2>1 DEF OutsideType
    <3>2. restart' \in BOOLEAN
      BY <2>1
    <3>3. QED
      BY <3>1, <3>2 DEF OutsideType
  <2>3. TableType' /\ PlaceType' /\ NginxType' /\ XrayType' /\ WallType' /\ FaultType'
    BY <1>0, <2>1 DEF TableType, PlaceType, NginxType, XrayType, WallType, FaultType,
       table, inboundVars, nginxVars, wall
  <2>4. QED
    BY <1>a, <2>1, <2>2, <2>3, TypedParts
<1>4. CASE XrayJobs
  <2>1. /\ xray' = Started /\ restart' = FALSE
        /\ UNCHANGED <<table, inboundVars, nginxVars, wall, lock, at, skip, enabled, applies, edits, faults>>
    BY <1>4 DEF XrayJobs
  <2>2. OutsideType' /\ XrayType'
    <3>1. XrayType'
      BY <1>0, <2>1, StartedType DEF XrayType
    <3>2. restart' \in BOOLEAN
      BY <2>1
    <3>3. QED
      BY <1>0, <2>1, <3>1, <3>2 DEF OutsideType
  <2>3. TableType' /\ PlaceType' /\ NginxType' /\ WallType' /\ FaultType'
    BY <1>0, <2>1 DEF TableType, PlaceType, NginxType, WallType, FaultType,
       table, inboundVars, nginxVars, wall
  <2>4. QED
    BY <1>a, <2>1, <2>2, <2>3, TypedParts
<1>5. CASE DeadlinePasses
  <2>1. /\ deadline' = "over"
        /\ UNCHANGED <<settings, fallback, proven, gaveUp, inboundVars, nginxVars, xray, wall, lock, at, skip, outside, faults>>
    BY <1>5 DEF DeadlinePasses
  <2>2. TableType'
    BY <1>0, <2>1 DEF TableType
  <2>3. PlaceType' /\ NginxType' /\ XrayType' /\ WallType' /\ OutsideType' /\ FaultType'
    BY <1>0, <2>1 DEF PlaceType, NginxType, XrayType, WallType, OutsideType, FaultType,
       inboundVars, nginxVars, wall, outside
  <2>4. QED
    BY <1>a, <2>1, <2>2, <2>3, TypedParts
<1>6. CASE RulesLost
  <2>1. /\ MayFail("rules") /\ OpenPorts
        /\ UNCHANGED <<table, inboundVars, nginxVars, xray, lock, at, skip, outside>>
    BY <1>6 DEF RulesLost
  <2>2. WallType' /\ FaultType'
    BY <1>0, <2>1, Opening, Failing
  <2>3. TableType' /\ PlaceType' /\ NginxType' /\ XrayType' /\ OutsideType'
    BY <1>0, <2>1 DEF TableType, PlaceType, NginxType, XrayType, OutsideType,
       table, inboundVars, nginxVars, outside
  <2>4. QED
    BY <1>a, <2>1, <2>2, <2>3, TypedParts
<1>7. CASE NginxStops
  <2>1. /\ MayFail("nginx") /\ running' = FALSE /\ live' = NoConfig
        /\ UNCHANGED <<table, inboundVars, conf, xray, wall, lock, at, skip, outside>>
    BY <1>7 DEF NginxStops
  <2>2. FaultType'
    BY <1>0, <2>1, Failing
  <2>3. NginxType'
    BY <1>0, <2>1, NoConfigType DEF NginxType
  <2>4. TableType' /\ PlaceType' /\ XrayType' /\ WallType' /\ OutsideType'
    BY <1>0, <2>1 DEF TableType, PlaceType, XrayType, WallType, OutsideType,
       table, inboundVars, wall, outside
  <2>5. QED
    BY <1>a, <2>1, <2>2, <2>3, <2>4, TypedParts
<1>8. CASE Crash
  <2>1. /\ MayFail("crash") /\ lock' = "none" /\ skip' = 0 /\ restart' = FALSE /\ xray' = Started
        /\ UNCHANGED <<table, inboundVars, nginxVars, wall, enabled, applies, edits>>
    BY <1>8 DEF Crash
  <2>2. StageInv'
    BY <1>8, CrashMoves DEF StageInv, StageFits
  <2>3. AtType' /\ LockType'
    BY <1>0, <1>8, <2>1, CrashMoves DEF AtType, LockType
  <2>4. XrayType' /\ FaultType'
    BY <1>0, <2>1, StartedType, Failing DEF XrayType
  <2>5. restart' \in BOOLEAN
    BY <2>1
  <2>6. OutsideType'
    BY <1>0, <2>1, <2>5 DEF OutsideType
  <2>7. TableType' /\ PlaceType' /\ NginxType' /\ WallType'
    BY <1>0, <2>1 DEF TableType, PlaceType, NginxType, WallType, table, inboundVars, nginxVars, wall
  <2>8. QED
    BY <2>2, <2>3, <2>4, <2>6, <2>7, TypedParts
<1>9. QED
  BY <1>1, <1>2, <1>3, <1>4, <1>5, <1>6, <1>7, <1>8

LEMMA TypedStutter ==
  ASSUME Typed, UNCHANGED vars
  PROVE  Typed'
BY DEF Typed, TypeOK, StageInv, vars, table, inboundVars, nginxVars, wall, outside

LEMMA TypedNext == Typed /\ [Next]_vars => Typed'
BY TypedUp, TypedDown, TypedJob, TypedOutside, TypedStutter DEF Next, Apply, JobStep

LEMMA TypedInit == Init => Typed
<1> SUFFICES ASSUME Init PROVE Typed
  OBVIOUS
<1>1. settings \in Settings
  BY WantedAssumption, OffType DEF Init, Settings, Mode
<1>2. TableType
  <2>1. gaveUp \in BOOLEAN
    BY DEF Init
  <2>2. fallback \in SUBSET Settings /\ Cardinality(fallback) <= 1
    BY FS_EmptySet DEF Init
  <2>3. deadline \in {"none", "waiting", "over"} /\ proven \in 0..2
    BY DEF Init
  <2>4. QED
    BY <1>1, <2>1, <2>2, <2>3 DEF TableType
<1>3. PlaceType
  BY NowhereType DEF Init, PlaceType, Place
<1>4. NginxType
  BY NoConfigType DEF Init, NginxType
<1>5. enabled \subseteq Inbound /\ applies \in 0..MaxApplies /\ edits \in 0..MaxEdits
      /\ skip \in 0..MaxPause /\ FaultType /\ LockType
  BY Bounds DEF Init, FaultType, LockType
<1>6. OutsideType
  <2>1. restart \in BOOLEAN
    BY DEF Init
  <2>2. QED
    BY <1>5, <2>1 DEF OutsideType
<1>7. XrayType
  BY <1>3, <1>6, StartedType DEF Init, XrayType
<1>8. WallType
  <2>1. fw \in 0..2
    BY DEF Init
  <2>2. hooked \in BOOLEAN
    BY DEF Init
  <2>3. QED
    BY <2>1, <2>2 DEF WallType
<1>9. AtType /\ StageInv
  BY <1>5, IdleType DEF Init, AtType, StageInv, StageFits
<1>10. QED
  BY <1>2, <1>3, <1>4, <1>5, <1>6, <1>7, <1>8, <1>9, TypeParts DEF Typed

LEMMA AlwaysTyped == Spec => []Typed
BY TypedInit, TypedNext, PTL DEF Spec

\* What every variable holds in a state the panel can be in: among it that a
\* rollback has one way back at most, and that what an apply stages, moves and
\* remembers stays what can be written to the table and to disk.
THEOREM FrontTypes == Spec => []TypeOK
<1>1. Typed => TypeOK
  BY DEF Typed
<1>2. QED
  BY <1>1, AlwaysTyped, PTL

-----------------------------------------------------------------------------
(* The lock. *)

\* An apply is under way: from its first step to its return, the confirmation
\* that a way down lets go included.
Holding(a) ==
  \/ a.pc \in {"stage", "routes", "move", "xray", "activate", "save", "fallback", "deadline",
               "firewall", "open", "remove", "restore", "forget", "again", "undo", "restart"}
  \/ a.pc \in {"disarm", "forgive"} /\ a.then \notin {"confirm", "check", "nothing"}
LockInv == \A p \in Process : Holding(at[p]) => lock = p

\* The shapes a step has, as far as the lock is concerned.
LEMMA LockShapes ==
  ASSUME Typed, LockInv, NEW p \in Process, Kept(p)
  PROVE  /\ UNCHANGED lock /\ ~Holding(at'[p]) => LockInv'
         /\ UNCHANGED lock /\ Holding(at[p]) => LockInv'
         /\ lock' = "none" /\ ~Holding(at'[p]) /\ Holding(at[p]) => LockInv'
         /\ lock' = p /\ lock = "none" => LockInv'
<1>1. \A q \in Process \ {p} : at'[q] = at[q]
  BY DEF Kept
<1>2. \A q \in Process : q # "none"
  BY DEF Process, Owner, Job
<1>3. QED
  BY <1>1, <1>2 DEF LockInv

LEMMA Loose ==
  ASSUME NEW a, a.pc \in {"idle", "lock", "expired", "reconcile", "openUp", "putBack", "nginx", "compare"}
  PROVE  ~Holding(a)
BY DEF Holding

\* The stages of an apply, and that each holds the lock.
LEMMA ApplyHolds ==
  ASSUME NEW p \in Process, LockInv
  PROVE  /\ at[p].pc \in {"stage", "routes", "move", "xray", "activate", "save", "fallback",
                          "deadline", "firewall", "open", "remove", "restore", "forget", "again",
                          "undo", "restart"} => Holding(at[p]) /\ lock = p
         /\ Holding(at[p]) => lock = p
BY DEF Holding, LockInv

LEMMA LockUp ==
  ASSUME Typed, LockInv, NEW p \in Process,
         \/ Begin(p) \/ Stage(p) \/ ListRoutes(p) \/ Move(p) \/ SaveSnapshots(p) \/ RestartXray(p)
         \/ Activate(p) \/ SaveKey(p) \/ Saved(p) \/ Arm(p) \/ Firewall(p)
  PROVE  LockInv'
<1>0. TypeOK /\ StageInv /\ AtType
  BY TypeParts DEF Typed
<1>pc. {"xray", "activate", "restore", "fallback", "deadline", "firewall"} \subseteq PC
  BY DEF PC
<1>a. ASSUME Holding(at[p]), Kept(p), UNCHANGED lock PROVE LockInv'
  BY <1>a, LockShapes
<1>b. ASSUME Holding(at[p]), Returned(p) PROVE LockInv'
  <2>1. ~Holding(at'[p]) /\ Kept(p) /\ lock' = "none"
    BY <1>b, Loose DEF Returned
  <2>2. QED
    BY <1>b, <2>1, LockShapes
<1>c. ASSUME Holding(at[p]), NEW pc \in PC, Proceed(p, pc) PROVE LockInv'
  <2>1. Kept(p) /\ UNCHANGED lock
    BY <1>0, <1>c, Going DEF Proceed, GoesTo
  <2>2. QED
    BY <1>a, <1>c, <2>1
<1>1. CASE Begin(p)
  <2>1. Kept(p) /\ lock = "none" /\ lock' = p
    BY <1>0, <1>1, BeginMoves DEF Begin, GoesTo
  <2>2. QED
    BY <2>1, LockShapes
<1>2. CASE Stage(p)
  <2>1. Holding(at[p])
    BY <1>2, ApplyHolds DEF Stage, Is
  <2>2. QED
    BY <1>0, <1>2, <1>a, <1>b, <2>1, StageMoves DEF Staged
<1>3. CASE ListRoutes(p)
  <2>1. Holding(at[p])
    BY <1>3, ApplyHolds DEF ListRoutes, Is
  <2>2. QED
    BY <1>0, <1>3, <1>a, <1>b, <2>1, ListMoves DEF Listed
<1>4. CASE Move(p)
  <2>1. Holding(at[p])
    BY <1>4, ApplyHolds DEF Move, Is
  <2>2. QED
    BY <1>0, <1>4, <1>a, <1>b, <2>1, MoveMoves DEF Moved
<1>5. CASE SaveSnapshots(p)
  <2>1. Holding(at[p]) /\ Proceed(p, "xray")
    BY <1>5, ApplyHolds DEF SaveSnapshots, Is
  <2>2. QED
    BY <1>c, <1>pc, <2>1
<1>6. CASE RestartXray(p)
  <2>1. Holding(at[p]) /\ (Proceed(p, "activate") \/ Proceed(p, "restore"))
    BY <1>6, ApplyHolds DEF RestartXray, Is
  <2>2. QED
    BY <1>c, <1>pc, <2>1
<1>7. CASE Activate(p)
  <2>1. Holding(at[p])
    BY <1>7, ApplyHolds DEF Activate, Is
  <2>2. QED
    BY <1>0, <1>7, <1>a, <2>1, ActivateMoves DEF GoesTo
<1>8. CASE SaveKey(p)
  BY <1>8 DEF SaveKey, LockInv
<1>9. CASE Saved(p)
  <2>1. /\ Holding(at[p])
        /\ Return(p, TRUE) \/ Proceed(p, "fallback") \/ Proceed(p, "firewall")
    BY <1>9, ApplyHolds DEF Saved, Is
  <2>2. QED
    BY <1>0, <1>b, <1>c, <1>pc, <2>1, Returning
<1>10. CASE Arm(p)
  <2>1. Holding(at[p]) /\ (Proceed(p, "deadline") \/ Proceed(p, "firewall"))
    BY <1>10, ApplyHolds DEF Arm, Is
  <2>2. QED
    BY <1>c, <1>pc, <2>1
<1>11. CASE Firewall(p)
  <2>1. Holding(at[p]) /\ Return(p, faults' = faults)
    BY <1>11, ApplyHolds DEF Firewall, Is
  <2>2. QED
    BY <1>0, <1>b, <2>1, Returning
<1>12. QED
  BY <1>1, <1>2, <1>3, <1>4, <1>5, <1>6, <1>7, <1>8, <1>9, <1>10, <1>11

LEMMA LockDown ==
  ASSUME Typed, LockInv, NEW p \in Process,
         \/ OpenFirst(p) \/ Remove(p) \/ Restore(p) \/ Forget(p) \/ StartAgain(p) \/ Undo(p)
         \/ RestartDown(p) \/ Disarm(p) \/ Forgive(p)
  PROVE  LockInv'
<1>0. TypeOK /\ StageInv /\ AtType
  BY TypeParts DEF Typed
<1>pc. {"remove", "restore", "forget", "restart", "again", "undo", "disarm", "forgive"} \subseteq PC
  BY DEF PC
<1>a. ASSUME Holding(at[p]), Kept(p), UNCHANGED lock PROVE LockInv'
  BY <1>a, LockShapes
<1>b. ASSUME Holding(at[p]), Return(p, FALSE) PROVE LockInv'
  <2>1. Returned(p)
    BY <1>0, <1>b, Returning
  <2>2. ~Holding(at'[p]) /\ Kept(p) /\ lock' = "none"
    BY <2>1, Loose DEF Returned
  <2>3. QED
    BY <1>b, <2>2, LockShapes
<1>c. ASSUME Holding(at[p]), NEW pc \in PC, Proceed(p, pc) PROVE LockInv'
  <2>1. Kept(p) /\ UNCHANGED lock
    BY <1>0, <1>c, Going DEF Proceed, GoesTo
  <2>2. QED
    BY <1>a, <1>c, <2>1
<1>1. CASE OpenFirst(p)
  <2>1. Holding(at[p]) /\ Proceed(p, "remove")
    BY <1>1, ApplyHolds DEF OpenFirst, Is
  <2>2. QED
    BY <1>c, <1>pc, <2>1
<1>2. CASE Remove(p)
  <2>1. Holding(at[p]) /\ (Proceed(p, "restore") \/ Return(p, FALSE))
    BY <1>2, ApplyHolds DEF Remove, Is
  <2>2. QED
    BY <1>b, <1>c, <1>pc, <2>1
<1>3. CASE Restore(p)
  <2>1. Holding(at[p]) /\ Proceed(p, "forget")
    BY <1>3, ApplyHolds DEF Restore, Is
  <2>2. QED
    BY <1>c, <1>pc, <2>1
<1>4. CASE Forget(p)
  <2>1. Holding(at[p]) /\ (Proceed(p, "restart") \/ Proceed(p, "again"))
    <3>1. Holding(at[p]) /\ Proceed(p, IF at[p].want.mode = "off" THEN "restart" ELSE "again")
      BY <1>4, ApplyHolds DEF Forget, Is
    <3>2. CASE at[p].want.mode = "off"
      BY <3>1, <3>2
    <3>3. CASE at[p].want.mode # "off"
      BY <3>1, <3>3
    <3>4. QED
      BY <3>2, <3>3
  <2>2. QED
    BY <1>c, <1>pc, <2>1
<1>5. CASE StartAgain(p)
  <2>1. Holding(at[p]) /\ Proceed(p, "undo")
    BY <1>5, ApplyHolds DEF StartAgain, Is
  <2>2. QED
    BY <1>c, <1>pc, <2>1
<1>6. CASE Undo(p)
  <2>1. Holding(at[p]) /\ Return(p, FALSE)
    BY <1>6, ApplyHolds DEF Undo, Is
  <2>2. QED
    BY <1>b, <2>1
<1>7. CASE RestartDown(p)
  <2>1. Holding(at[p]) /\ (Proceed(p, "disarm") \/ Return(p, FALSE))
    BY <1>7, ApplyHolds DEF RestartDown, Is
  <2>2. QED
    BY <1>b, <1>c, <1>pc, <2>1
<1>8. CASE Disarm(p)
  <2>1. at[p].pc = "disarm" /\ Proceed(p, "forgive")
    BY <1>8 DEF Disarm, Is
  <2>2. GoesTo(p, "forgive") /\ UNCHANGED lock
    BY <1>0, <1>pc, <2>1, Going DEF Proceed
  <2>3. Holding(at'[p]) => Holding(at[p])
    BY <2>1, <2>2 DEF GoesTo, Holding
  <2>4. QED
    BY <1>a, <2>2, <2>3, LockShapes DEF GoesTo
<1>9. CASE Forgive(p)
  <2>1. at[p].pc = "forgive" /\ UNCHANGED lock
    BY <1>9 DEF Forgive, Is
  <2>2. \/ Called(p)
        \/ Kept(p) /\ at'[p].pc \in {"reconcile", "idle"}
        \/ at[p].then \notin {"check", "nothing", "confirm"} /\ GoesTo(p, "save")
    BY <1>0, <1>9, ForgiveMoves
  <2>3. CASE Called(p) \/ (Kept(p) /\ at'[p].pc \in {"reconcile", "idle"})
    <3>1. Kept(p) /\ ~Holding(at'[p])
      BY <2>3, Loose DEF Called
    <3>2. QED
      BY <2>1, <3>1, LockShapes
  <2>4. CASE at[p].then \notin {"check", "nothing", "confirm"} /\ GoesTo(p, "save")
    <3>1. Holding(at[p]) /\ Kept(p)
      BY <2>1, <2>4 DEF Holding, GoesTo
    <3>2. QED
      BY <1>a, <2>1, <3>1
  <2>5. QED
    BY <2>2, <2>3, <2>4
<1>10. QED
  BY <1>1, <1>2, <1>3, <1>4, <1>5, <1>6, <1>7, <1>8, <1>9

\* What the job, the owner and the machine do besides, they do without the lock.
LEMMA LockBeside ==
  ASSUME Typed, LockInv,
         \/ JobStep \/ Confirm \/ XrayJobs \/ DeadlinePasses \/ RulesLost \/ NginxStops \/ Crash
         \/ \E s \in Wanted : Request(s)
         \/ \E i \in Inbound : Toggle(i)
  PROVE  LockInv'
<1>0. TypeOK /\ StageInv /\ AtType /\ Job \in Process /\ Owner \in Process
  BY TypeParts DEF Typed, Process
<1>a. ASSUME NEW p \in Process, Kept(p), UNCHANGED lock, ~Holding(at'[p]) PROVE LockInv'
  BY <1>a, LockShapes
<1>b. ASSUME NEW pc \in {"expired", "reconcile", "nginx"}, Goto(Job, pc), UNCHANGED lock PROVE LockInv'
  <2>1. pc \in PC
    BY DEF PC
  <2>2. Kept(Job) /\ at'[Job].pc = pc
    BY <1>0, <1>b, <2>1, Going DEF GoesTo
  <2>3. ~Holding(at'[Job])
    BY <2>2, Loose
  <2>4. QED
    BY <1>0, <1>a, <1>b, <2>2, <2>3
<1>c. ASSUME JobMoves, UNCHANGED lock PROVE LockInv'
  <2>1. Kept(Job) /\ ~Holding(at'[Job])
    BY <1>c, Loose DEF JobMoves
  <2>2. QED
    BY <1>0, <1>a, <1>c, <2>1
<1>1. CASE Tick
  <2>1. UNCHANGED lock /\ Goto(Job, IF deadline = "over" THEN "expired" ELSE "reconcile")
    BY <1>1 DEF Tick
  <2>2. QED
    BY <1>b, <2>1
<1>2. CASE Expired
  <2>1. Kept(Job) /\ UNCHANGED lock /\ at'[Job].pc = "disarm" /\ at'[Job].then \in {"check", "nothing"}
    BY <1>0, <1>2, ExpiredMoves DEF Expired
  <2>2. ~Holding(at'[Job])
    BY <2>1 DEF Holding
  <2>3. QED
    BY <1>0, <1>a, <2>1, <2>2
<1>3. CASE OpenUp
  BY <1>3, <1>b DEF OpenUp
<1>4. CASE Reconcile
  <2>1. UNCHANGED lock
    BY <1>4 DEF Reconcile
  <2>2. QED
    BY <1>0, <1>4, <1>c, <2>1, ReconcileMoves
<1>5. CASE PutBack
  <2>1. UNCHANGED lock /\ Goto(Job, "nginx")
    BY <1>5 DEF PutBack
  <2>2. QED
    BY <1>b, <2>1
<1>6. CASE StartNginx
  <2>1. UNCHANGED lock
    BY <1>6 DEF StartNginx
  <2>2. QED
    BY <1>0, <1>6, <1>c, <2>1, StartNginxMoves
<1>7. CASE Compare
  <2>1. UNCHANGED lock
    BY <1>7 DEF Compare
  <2>2. QED
    BY <1>0, <1>7, <1>c, <2>1, CompareMoves
<1>8. CASE Confirm
  <2>1. Kept(Owner) /\ at'[Owner].pc = "forgive" /\ at'[Owner].then = "confirm" /\ UNCHANGED lock
    BY <1>0, <1>8, ConfirmMoves DEF Confirm
  <2>2. ~Holding(at'[Owner])
    BY <2>1 DEF Holding
  <2>3. QED
    BY <1>0, <1>a, <2>1, <2>2
<1>9. ASSUME NEW s \in Wanted, Request(s)
      PROVE  LockInv'
  <2>1. Call(Owner, "none", s) /\ UNCHANGED lock /\ s \in Settings
    BY <1>9, WantedAssumption DEF Request
  <2>2. Called(Owner)
    BY <1>0, <2>1, Calling
  <2>3. Kept(Owner) /\ ~Holding(at'[Owner])
    BY <2>2, Loose DEF Called
  <2>4. QED
    BY <1>0, <1>a, <2>1, <2>3
<1>10. CASE XrayJobs \/ DeadlinePasses \/ RulesLost \/ NginxStops \/ \E i \in Inbound : Toggle(i)
  BY <1>10 DEF XrayJobs, DeadlinePasses, RulesLost, NginxStops, Toggle, LockInv
<1>11. CASE Crash
  <2>1. \A p \in Process : ~Holding(at'[p])
    BY <1>11, CrashMoves, Loose
  <2>2. QED
    BY <2>1 DEF LockInv
<1>12. QED
  BY <1>1, <1>2, <1>3, <1>4, <1>5, <1>6, <1>7, <1>8, <1>9, <1>10, <1>11 DEF JobStep

\* Applies exclude each other, the owner's and the job's, as long as each lasts.
LEMMA AlwaysLocked == Spec => [](Typed /\ LockInv)
<1>1. Init => LockInv
  BY IdleType, Loose DEF Init, LockInv
<1>2. Typed /\ LockInv /\ [Next]_vars => LockInv'
  <2>1. Typed /\ LockInv /\ UNCHANGED vars => LockInv'
    BY DEF vars, LockInv
  <2>2. QED
    BY <2>1, LockUp, LockDown, LockBeside DEF Next, Apply
<1>3. QED
  BY <1>1, <1>2, AlwaysTyped, PTL DEF Spec

-----------------------------------------------------------------------------
(* Steps that matter neither to where inbounds are nor to what nginx serves. *)

Undoable == {"routes", "move", "xray", "activate", "restore", "forget", "again", "undo"}

QuietAt ==
  \/ UNCHANGED at
  \/ \E p \in Process : Kept(p) /\ at[p].pc \notin Undoable /\ at'[p].pc \notin Undoable
Quiet == QuietAt /\ UNCHANGED <<inboundVars, nginxVars, xray>>

LEMMA QuietGoing ==
  ASSUME AtType, NEW p \in Process, NEW pc \in PC \ Undoable, Goto(p, pc), at[p].pc \notin Undoable
  PROVE  QuietAt
BY Going DEF GoesTo, QuietAt

LEMMA QuietReturn ==
  ASSUME AtType, NEW p \in Process, NEW ok, Return(p, ok), at[p].pc \notin Undoable
  PROVE  QuietAt
BY Returning DEF Returned, QuietAt, Undoable

LEMMA QuietApply ==
  ASSUME Typed, NEW p \in Process,
         \/ Begin(p) \/ SaveKey(p) \/ Saved(p) \/ Arm(p) \/ Firewall(p) \/ OpenFirst(p)
         \/ RestartDown(p) \/ Disarm(p) \/ Forgive(p)
  PROVE  QuietAt /\ UNCHANGED <<inboundVars, nginxVars>> /\ (RestartDown(p) \/ UNCHANGED xray)
<1>0. TypeOK /\ AtType
  BY TypeParts DEF Typed
<1>pc. {"fallback", "deadline", "firewall", "remove", "disarm", "forgive"} \subseteq PC \ Undoable
  BY DEF PC, Undoable
<1>1. CASE Begin(p)
  <2>1. GoesTo(p, IF at[p].want.mode = "off" THEN "open" ELSE "stage")
    BY <1>0, <1>1, BeginMoves
  <2>a. Kept(p) /\ at[p].pc = "lock" /\ at'[p].pc \in {"open", "stage"}
    BY <1>1, <2>1 DEF Begin, Is, GoesTo
  <2>2. QuietAt
    BY <2>a DEF QuietAt, Undoable
  <2>3. QED
    BY <1>1, <2>2 DEF Begin
<1>2. CASE SaveKey(p)
  BY <1>2 DEF SaveKey, QuietAt
<1>3. CASE Saved(p)
  <2>1. /\ at[p].pc \notin Undoable
        /\ Return(p, TRUE) \/ Goto(p, "fallback") \/ Goto(p, "firewall")
    BY <1>3 DEF Saved, Is, Proceed, Undoable
  <2>2. QuietAt
    BY <1>0, <1>pc, <2>1, QuietGoing, QuietReturn
  <2>3. QED
    BY <1>3, <2>2 DEF Saved
<1>4. CASE Arm(p)
  <2>1. at[p].pc \notin Undoable /\ (Goto(p, "deadline") \/ Goto(p, "firewall"))
    BY <1>4 DEF Arm, Is, Proceed, Undoable
  <2>2. QuietAt
    BY <1>0, <1>pc, <2>1, QuietGoing
  <2>3. QED
    BY <1>4, <2>2 DEF Arm
<1>5. CASE Firewall(p)
  <2>1. at[p].pc \notin Undoable /\ Return(p, faults' = faults)
    BY <1>5 DEF Firewall, Is, Undoable
  <2>2. QuietAt
    BY <1>0, <2>1, QuietReturn
  <2>3. QED
    BY <1>5, <2>2 DEF Firewall
<1>6. CASE OpenFirst(p)
  <2>1. at[p].pc \notin Undoable /\ Goto(p, "remove")
    BY <1>6 DEF OpenFirst, Is, Proceed, Undoable
  <2>2. QuietAt
    BY <1>0, <1>pc, <2>1, QuietGoing
  <2>3. QED
    BY <1>6, <2>2 DEF OpenFirst
<1>7. CASE RestartDown(p)
  <2>1. at[p].pc \notin Undoable /\ (Goto(p, "disarm") \/ Return(p, FALSE))
    BY <1>7 DEF RestartDown, Is, Proceed, Undoable
  <2>2. QuietAt
    BY <1>0, <1>pc, <2>1, QuietGoing, QuietReturn
  <2>3. QED
    BY <1>7, <2>2 DEF RestartDown
<1>8. CASE Disarm(p)
  <2>1. at[p].pc \notin Undoable /\ Goto(p, "forgive")
    BY <1>8 DEF Disarm, Is, Proceed, Undoable
  <2>2. QuietAt
    BY <1>0, <1>pc, <2>1, QuietGoing
  <2>3. QED
    BY <1>8, <2>2 DEF Disarm
<1>9. CASE Forgive(p)
  <2>1. at[p].pc \notin Undoable
    BY <1>9 DEF Forgive, Is, Undoable
  <2>2. Kept(p) /\ at'[p].pc \in {"lock", "reconcile", "idle", "save"}
    BY <1>0, <1>9, ForgiveMoves DEF Called, GoesTo
  <2>3. QuietAt
    BY <2>1, <2>2 DEF QuietAt, Undoable
  <2>4. QED
    BY <1>9, <2>3 DEF Forgive
<1>10. QED
  BY <1>1, <1>2, <1>3, <1>4, <1>5, <1>6, <1>7, <1>8, <1>9

LEMMA QuietJob ==
  ASSUME Typed, JobStep
  PROVE  QuietAt /\ UNCHANGED <<inboundVars, xray>> /\ (StartNginx \/ UNCHANGED nginxVars)
<1>0. TypeOK /\ AtType /\ Job \in Process
  BY TypeParts DEF Typed, Process
<1>pc. {"expired", "reconcile", "nginx"} \subseteq PC \ Undoable
  BY DEF PC, Undoable
<1>a. ASSUME JobMoves, at[Job].pc \notin Undoable PROVE QuietAt
  BY <1>0, <1>a DEF JobMoves, QuietAt, Undoable
<1>1. CASE Tick
  <2>1. at[Job].pc \notin Undoable /\ Goto(Job, IF deadline = "over" THEN "expired" ELSE "reconcile")
    BY <1>1 DEF Tick, Is, Undoable
  <2>2. QuietAt
    BY <1>0, <1>pc, <2>1, QuietGoing
  <2>3. QED
    BY <1>1, <2>2 DEF Tick
<1>2. CASE Expired
  <2>1. Kept(Job) /\ at[Job].pc = "expired" /\ at'[Job].pc = "disarm"
    BY <1>0, <1>2, ExpiredMoves DEF Expired, Is
  <2>2. QuietAt
    BY <1>0, <2>1 DEF QuietAt, Undoable
  <2>3. QED
    BY <1>2, <2>2 DEF Expired
<1>3. CASE OpenUp
  <2>1. at[Job].pc \notin Undoable /\ Goto(Job, "reconcile")
    BY <1>3 DEF OpenUp, Is, Undoable
  <2>2. QuietAt
    BY <1>0, <1>pc, <2>1, QuietGoing
  <2>3. QED
    BY <1>3, <2>2 DEF OpenUp
<1>4. CASE Reconcile
  <2>1. at[Job].pc \notin Undoable
    BY <1>4 DEF Reconcile, Is, Undoable
  <2>2. QED
    BY <1>0, <1>4, <1>a, <2>1, ReconcileMoves DEF Reconcile
<1>5. CASE PutBack
  <2>1. at[Job].pc \notin Undoable /\ Goto(Job, "nginx")
    BY <1>5 DEF PutBack, Is, Undoable
  <2>2. QuietAt
    BY <1>0, <1>pc, <2>1, QuietGoing
  <2>3. QED
    BY <1>5, <2>2 DEF PutBack
<1>6. CASE StartNginx
  <2>1. at[Job].pc \notin Undoable /\ UNCHANGED <<inboundVars, xray>>
    BY <1>6 DEF StartNginx, Is, Undoable
  <2>2. QED
    BY <1>0, <1>6, <1>a, <2>1, StartNginxMoves
<1>7. CASE Compare
  <2>1. at[Job].pc \notin Undoable /\ UNCHANGED <<inboundVars, xray>>
    BY <1>7 DEF Compare, Is, Undoable
  <2>2. QED
    BY <1>0, <1>7, <1>a, <2>1, CompareMoves
<1>8. QED
  BY <1>1, <1>2, <1>3, <1>4, <1>5, <1>6, <1>7 DEF JobStep

LEMMA QuietOutside ==
  ASSUME Typed,
         \/ \E s \in Wanted : Request(s)
         \/ \E i \in Inbound : Toggle(i)
         \/ Confirm \/ DeadlinePasses \/ RulesLost \/ UNCHANGED vars
  PROVE  Quiet
<1>0. TypeOK /\ AtType /\ Owner \in Process
  BY TypeParts DEF Typed, Process
<1>1. ASSUME NEW s \in Wanted, Request(s)
      PROVE  Quiet
  <2>1. Called(Owner)
    BY <1>0, <1>1, WantedAssumption, Calling DEF Request
  <2>2. QuietAt
    BY <1>0, <1>1, <2>1 DEF Request, Is, Called, QuietAt, Undoable
  <2>3. QED
    BY <1>1, <2>2 DEF Request, Quiet
<1>2. CASE Confirm
  <2>1. QuietAt
    BY <1>0, <1>2, ConfirmMoves DEF Confirm, Is, QuietAt, Undoable
  <2>2. QED
    BY <1>2, <2>1 DEF Confirm, Quiet
<1>3. ASSUME NEW i \in Inbound, Toggle(i)
      PROVE  Quiet
  BY <1>3 DEF Toggle, Quiet, QuietAt
<1>4. CASE DeadlinePasses \/ RulesLost \/ UNCHANGED vars
  BY <1>4 DEF DeadlinePasses, RulesLost, vars, Quiet, QuietAt
<1>5. QED
  BY <1>1, <1>2, <1>3, <1>4

-----------------------------------------------------------------------------
(* The way home. *)

\* f has the address of everything that was moved, and it is the owner's.
Covers(f) ==
  /\ \A i \in DOMAIN f : f[i] = "home"
  /\ \A i \in Inbound : place[i] = "loop" => i \in DOMAIN f

HomeInv ==
  /\ \A i \in DOMAIN snapshots : snapshots[i] = "home"
  /\ \A p \in Process : at[p].pc = "move" => Covers(at[p].snaps)
  /\ (\A p \in Process : at[p].pc # "move") => Covers(snapshots)
  /\ \A p \in Process : at[p].pc = "forget" => \A i \in Inbound : place[i] = "home"

\* Who holds the lock is alone with the table.
LEMMA Alone ==
  ASSUME LockInv, NEW p \in Process, at[p].pc \in Undoable \cup {"stage", "remove"}
  PROVE  \A q \in Process \ {p} : at[q].pc \notin Undoable
<1>1. \A q \in Process : at[q].pc \in Undoable \cup {"stage", "remove"} => lock = q
  BY DEF LockInv, Holding, Undoable
<1>2. QED
  BY <1>1

LEMMA HomeQuiet ==
  ASSUME HomeInv, QuietAt, UNCHANGED inboundVars
  PROVE  HomeInv'
<1>0. place' = place /\ snapshots' = snapshots /\ {"move", "forget"} \subseteq Undoable
  BY DEF inboundVars, Undoable
<1>1. CASE UNCHANGED at
  BY <1>0, <1>1 DEF HomeInv, Covers
<1>2. ASSUME NEW p \in Process, Kept(p), at[p].pc \notin Undoable, at'[p].pc \notin Undoable
      PROVE  HomeInv'
  BY <1>0, <1>2 DEF HomeInv, Covers, Kept
<1>3. QED
  BY <1>1, <1>2 DEF QuietAt

\* The other way a step of an apply leaves the table alone.
LEMMA HomeKept ==
  ASSUME HomeInv, LockInv, NEW p \in Process, Kept(p), UNCHANGED inboundVars,
         at[p].pc \in Undoable \cup {"stage", "remove"}, at[p].pc # "move",
         at'[p].pc \notin {"move", "forget"}
  PROVE  HomeInv'
<1>0. place' = place /\ snapshots' = snapshots
  BY DEF inboundVars
<1>1. QED
  BY <1>0 DEF HomeInv, Covers, Kept

LEMMA HomeNext ==
  ASSUME "move" \notin Fails \cup CrashAt, Typed, LockInv, HomeInv, [Next]_vars
  PROVE  HomeInv'
<1>0. TypeOK /\ StageInv /\ AtType /\ PlaceType
  BY TypeParts DEF Typed
<1>pc. {"xray", "activate", "restore", "forget", "again", "restart", "undo"} \subseteq PC
  BY DEF PC
<1>1. ASSUME NEW p \in Process, Stage(p)
      PROVE  HomeInv'
  <2>1. at[p].pc = "stage" /\ UNCHANGED inboundVars
    BY <1>1 DEF Stage, Is
  <2>2. Kept(p) /\ at'[p].pc \notin {"move", "forget"}
    BY <1>0, <1>1, StageMoves DEF Staged, Returned
  <2>3. QED
    BY <2>1, <2>2, HomeKept
<1>2. ASSUME NEW p \in Process, ListRoutes(p)
      PROVE  HomeInv'
  <2>1. at[p].pc = "routes" /\ UNCHANGED inboundVars /\ "routes" \in Undoable
    BY <1>2 DEF ListRoutes, Is, Undoable
  <2>2. CASE Returned(p)
    BY <2>1, <2>2, HomeKept DEF Returned
  <2>3. CASE Listed(p)
    <3>1. \A q \in Process \ {p} : at[q].pc \notin Undoable /\ at'[q] = at[q]
      BY <2>1, <2>3, Alone DEF Listed, Kept
    <3>2. Covers(snapshots) /\ place' = place /\ snapshots' = snapshots
      BY <2>1, <3>1 DEF HomeInv, inboundVars, Undoable
    <3>3. QED
      BY <2>3, <3>1, <3>2 DEF Listed, HomeInv, Covers, Undoable
  <2>4. QED
    BY <1>0, <1>2, <2>2, <2>3, ListMoves
<1>3. ASSUME NEW p \in Process, Move(p)
      PROVE  HomeInv'
  <2>1. at[p].pc = "move" /\ snapshots' = snapshots /\ ~MayFail("move") /\ at[p] \in Step
    BY <1>0, <1>3 DEF Move, Is, MayFail, AtType
  <2>2. PICK i \in Inbound : Moved(p, i)
    BY <1>0, <1>3, <2>1, MoveMoves
  <2> DEFINE snaps == at[p].snaps
             dual == Dual(i, at[p].want)
  <2>3. snaps \in Remembered /\ Covers(snaps)
    BY <2>1 DEF Step, HomeInv
  <2>4. /\ place' = [place EXCEPT ![i] = IF ~dual THEN "loop" ELSE IF i \in DOMAIN snaps THEN snaps[i] ELSE place[i]]
        /\ Kept(p) /\ at'[p].pc = "move"
        /\ at'[p].snaps = IF dual THEN Without(snaps, i) ELSE Remember(i, snaps)
    BY <2>2 DEF Moved
  <2>5. \A q \in Process \ {p} : at[q].pc \notin Undoable /\ at'[q] = at[q]
    BY <2>1, <2>4, Alone DEF Kept, Undoable
  <2> HIDE DEF snaps, dual
  <2>6. place \in [Inbound -> Place] /\ place[i] \in Place /\ "home" \in Place
    BY <1>0 DEF PlaceType, Place
  <2>7. CASE dual
    <3>a. /\ DOMAIN Without(snaps, i) = DOMAIN snaps \ {i}
          /\ \A j \in DOMAIN snaps \ {i} : Without(snaps, i)[j] = snaps[j]
      BY DEF Without
    <3>b. at'[p].snaps = Without(snaps, i)
      BY <2>4, <2>7
    <3>1. /\ DOMAIN at'[p].snaps = DOMAIN snaps \ {i}
          /\ \A j \in DOMAIN snaps \ {i} : at'[p].snaps[j] = snaps[j]
      BY <3>a, <3>b
    <3>2. place'[i] # "loop" /\ \A j \in Inbound \ {i} : place'[j] = place[j]
      BY <2>3, <2>4, <2>6, <2>7 DEF Covers, Place
    <3>3. QED
      BY <2>1, <2>3, <2>4, <2>5, <3>1, <3>2 DEF HomeInv, Covers, Undoable
  <2>8. CASE ~dual /\ i \in DOMAIN snaps
    <3>1. at'[p].snaps = snaps /\ \A j \in Inbound \ {i} : place'[j] = place[j]
      BY <2>4, <2>6, <2>8 DEF Remember
    <3>2. QED
      BY <2>1, <2>3, <2>4, <2>5, <2>8, <3>1 DEF HomeInv, Covers, Undoable
  <2>9. CASE ~dual /\ i \notin DOMAIN snaps
    <3>1. at'[p].snaps = With(snaps, i, place[i]) /\ \A j \in Inbound \ {i} : place'[j] = place[j]
      BY <2>4, <2>6, <2>9 DEF Remember
    <3>2. place[i] = "home"
      BY <2>3, <2>6, <2>9 DEF Covers, Place
    <3>a. /\ DOMAIN With(snaps, i, place[i]) = DOMAIN snaps \cup {i}
          /\ \A j \in DOMAIN snaps \cup {i} : With(snaps, i, place[i])[j] = IF j = i THEN place[i] ELSE snaps[j]
      BY DEF With
    <3>3. /\ DOMAIN at'[p].snaps = DOMAIN snaps \cup {i}
          /\ \A j \in DOMAIN snaps \cup {i} : at'[p].snaps[j] = IF j = i THEN place[i] ELSE snaps[j]
      BY <3>1, <3>a
    <3>4. QED
      BY <2>1, <2>3, <2>4, <2>5, <3>1, <3>2, <3>3 DEF HomeInv, Covers, Undoable
  <2>10. QED
    BY <2>7, <2>8, <2>9
<1>4. ASSUME NEW p \in Process, SaveSnapshots(p)
      PROVE  HomeInv'
  <2>1. /\ at[p].pc = "move" /\ snapshots' = at[p].snaps /\ Goto(p, "xray") /\ place' = place
    BY <1>4 DEF SaveSnapshots, Is, Proceed
  <2>2. GoesTo(p, "xray") /\ Covers(at[p].snaps)
    BY <1>0, <1>pc, <2>1, Going DEF HomeInv
  <2>3. \A q \in Process \ {p} : at[q].pc \notin Undoable /\ at'[q] = at[q]
    BY <2>1, <2>2, Alone DEF GoesTo, Kept, Undoable
  <2>4. QED
    BY <2>1, <2>2, <2>3 DEF HomeInv, Covers, GoesTo, Undoable
<1>5. ASSUME NEW p \in Process,
             RestartXray(p) \/ Activate(p) \/ Remove(p) \/ StartAgain(p) \/ Undo(p)
      PROVE  HomeInv'
  <2>1. /\ at[p].pc \in Undoable \cup {"stage", "remove"} /\ at[p].pc # "move"
        /\ UNCHANGED inboundVars
    BY <1>5 DEF RestartXray, Activate, Remove, StartAgain, Undo, Is, Undoable
  <2>2. Kept(p) /\ at'[p].pc \notin {"move", "forget"}
    <3>1. CASE RestartXray(p)
      <4>1. Goto(p, "activate") \/ Goto(p, "restore")
        BY <3>1 DEF RestartXray, Proceed
      <4>2. GoesTo(p, "activate") \/ GoesTo(p, "restore")
        BY <1>0, <1>pc, <4>1, Going
      <4>3. QED
        BY <4>2 DEF GoesTo
    <3>2. CASE Activate(p)
      BY <1>0, <3>2, ActivateMoves DEF GoesTo
    <3>3. CASE Remove(p)
      <4>1. Goto(p, "restore") \/ Return(p, FALSE)
        BY <3>3 DEF Remove, Proceed
      <4>2. GoesTo(p, "restore") \/ Returned(p)
        BY <1>0, <1>pc, <4>1, Going, Returning
      <4>3. QED
        BY <4>2 DEF GoesTo, Returned
    <3>4. CASE StartAgain(p)
      <4>1. Goto(p, "undo")
        BY <3>4 DEF StartAgain, Proceed
      <4>2. QED
        BY <1>0, <1>pc, <4>1, Going DEF GoesTo
    <3>5. CASE Undo(p)
      <4>1. Return(p, FALSE)
        BY <3>5 DEF Undo
      <4>2. QED
        BY <1>0, <4>1, Returning DEF Returned
    <3>6. QED
      BY <1>5, <3>1, <3>2, <3>3, <3>4, <3>5
  <2>3. QED
    BY <2>1, <2>2, HomeKept
<1>6. ASSUME NEW p \in Process, Restore(p)
      PROVE  HomeInv'
  <2>1. /\ at[p].pc = "restore" /\ Goto(p, "forget") /\ snapshots' = snapshots
        /\ place' = [i \in Inbound |-> IF i \in DOMAIN snapshots THEN snapshots[i] ELSE place[i]]
    BY <1>6 DEF Restore, Is, Proceed
  <2>2. GoesTo(p, "forget")
    BY <1>0, <1>pc, <2>1, Going
  <2>3. \A q \in Process \ {p} : at[q].pc \notin Undoable /\ at'[q] = at[q]
    BY <2>1, <2>2, Alone DEF GoesTo, Kept, Undoable
  <2>4. Covers(snapshots)
    BY <2>1, <2>3 DEF HomeInv, Undoable
  <2>5. \A i \in Inbound : place'[i] = "home"
    BY <1>0, <2>1, <2>4 DEF Covers, PlaceType, Place
  <2>6. QED
    BY <2>1, <2>2, <2>3, <2>4, <2>5 DEF HomeInv, Covers, GoesTo, Undoable
<1>7. ASSUME NEW p \in Process, Forget(p)
      PROVE  HomeInv'
  <2>1. /\ at[p].pc = "forget" /\ snapshots' = Nowhere /\ place' = place
        /\ Goto(p, IF at[p].want.mode = "off" THEN "restart" ELSE "again")
    BY <1>7 DEF Forget, Is, Proceed
  <2>2. GoesTo(p, IF at[p].want.mode = "off" THEN "restart" ELSE "again")
    BY <1>0, <1>pc, <2>1, Going
  <2>3. \A q \in Process \ {p} : at[q].pc \notin Undoable /\ at'[q] = at[q]
    BY <2>1, <2>2, Alone DEF GoesTo, Kept, Undoable
  <2>4. \A i \in Inbound : place[i] = "home"
    BY <2>1 DEF HomeInv
  <2>5. DOMAIN snapshots' = {}
    BY <2>1, NowhereType
  <2>6. QED
    BY <2>1, <2>2, <2>3, <2>4, <2>5 DEF HomeInv, Covers, GoesTo, Undoable
<1>8. CASE Crash
  <2>1. \A p \in Process : at[p].pc # "move" /\ at'[p].pc = "idle"
    BY <1>8, CrashMoves DEF Crash
  <2>2. place' = place /\ snapshots' = snapshots
    BY <1>8 DEF Crash, inboundVars
  <2>3. QED
    BY <2>1, <2>2 DEF HomeInv, Covers
<1>9. CASE XrayJobs \/ NginxStops
  BY <1>9, HomeQuiet DEF XrayJobs, NginxStops, QuietAt
<1>10. QED
  BY <1>1, <1>2, <1>3, <1>4, <1>5, <1>6, <1>7, <1>8, <1>9, QuietApply, QuietJob, QuietOutside,
     HomeQuiet DEF Next, Apply, Quiet

\* Unless a table update fails in the middle of a move, or the panel stops
\* there, whatever was moved can be put back to the address its owner gave it,
\* however requests and ticks overlap.  (Up to the step that saves them, an
\* apply keeps its snapshots in memory alone.)
THEOREM HomeIsRemembered ==
  ASSUME "move" \notin Fails \cup CrashAt
  PROVE  Spec => []MovedRemembersHome
<1>1. Init => HomeInv
  BY IdleType, NowhereType DEF Init, HomeInv, Covers
<1>2. Typed /\ LockInv /\ HomeInv /\ [Next]_vars => HomeInv'
  BY HomeNext
<1>3. HomeInv => MovedRemembersHome
  BY DEF HomeInv, Covers, MovedRemembersHome, Is
<1>4. QED
  BY <1>1, <1>2, <1>3, AlwaysLocked, PTL DEF Spec

-----------------------------------------------------------------------------
(* What nginx serves. *)

\* An apply has staged files it may still have to put back.
Undoing(p) == at[p].pc \in Undoable /\ at[p].undo # {}

\* nginx and Xray never both hold the public port.
PortInv == live.on => PublicPortFree

\* nginx serves what is on disk; while files are staged it serves those of
\* before, or at least holds the port, so that putting them back is putting
\* nginx back.
DiskInv ==
  /\ running /\ (\A p \in Process : ~Undoing(p)) => live = conf
  /\ running => \A p \in Process : Undoing(p) => \A old \in at[p].undo : live = old \/ live.on

LEMMA PortStep ==
  /\ UNCHANGED <<live, xray>> /\ PortInv => PortInv'
  /\ UNCHANGED live /\ (xray' = Started \/ xray' = {}) => PortInv'
  /\ UNCHANGED xray /\ (live'.on => PublicPortFree) => PortInv'
<1>1. live.on => \A i \in OnPublic : <<i, "home">> \notin Started
  BY DEF Started
<1>2. QED
  BY <1>1 DEF PortInv, PublicPortFree

LEMMA DiskQuiet ==
  ASSUME DiskInv, QuietAt, UNCHANGED nginxVars
  PROVE  DiskInv'
<1>0. conf' = conf /\ live' = live /\ running' = running
  BY DEF nginxVars
<1>1. CASE UNCHANGED at
  BY <1>0, <1>1 DEF DiskInv, Undoing
<1>2. ASSUME NEW p \in Process, Kept(p), at[p].pc \notin Undoable, at'[p].pc \notin Undoable
      PROVE  DiskInv'
  <2>1. \A q \in Process : Undoing(q)' <=> Undoing(q)
    BY <1>2 DEF Undoing, Kept
  <2>2. \A q \in Process : Undoing(q) => at'[q] = at[q]
    BY <1>2 DEF Undoing, Kept
  <2>3. QED
    BY <1>0, <2>1, <2>2 DEF DiskInv
<1>3. QED
  BY <1>1, <1>2 DEF QuietAt

\* A step between the staging of files and their coming back or into force.
LEMMA DiskStays ==
  ASSUME DiskInv, UNCHANGED nginxVars, NEW p \in Process, Kept(p),
         {at[p].pc, at'[p].pc} \subseteq Undoable, at'[p].undo = at[p].undo
  PROVE  DiskInv'
<1>0. conf' = conf /\ live' = live /\ running' = running
  BY DEF nginxVars
<1>1. \A q \in Process : (Undoing(q)' <=> Undoing(q)) /\ at'[q].undo = at[q].undo
  BY DEF Undoing, Kept
<1>2. QED
  BY <1>0, <1>1 DEF DiskInv

\* The holder of the lock is done with the files.
LEMMA DiskSettles ==
  ASSUME LockInv, NEW p \in Process, Kept(p), at[p].pc \in Undoable \cup {"stage", "remove"},
         at'[p].pc \notin Undoable \/ at'[p].undo = {}, running' => live' = conf'
  PROVE  DiskInv'
<1>1. \A q \in Process \ {p} : at[q].pc \notin Undoable /\ at'[q] = at[q]
  BY Alone DEF Kept
<1>2. \A q \in Process : ~Undoing(q)'
  BY <1>1 DEF Undoing
<1>3. QED
  BY <1>2 DEF DiskInv

LEMMA NotUndoing ==
  ASSUME LockInv, DiskInv, NEW p \in Process, at[p].pc \in Undoable \cup {"stage", "remove"},
         at[p].pc \notin Undoable \/ at[p].undo = {}
  PROVE  running => live = conf
<1>1. \A q \in Process : ~Undoing(q)
  BY Alone DEF Undoing
<1>2. QED
  BY <1>1 DEF DiskInv

\* With the files of before on disk nginx serves them again: either it could be
\* put back on them, or Xray holds the port and nginx had not left them.
LEMMA RollingBack ==
  ASSUME Typed, PortInv, DiskInv, NEW p \in Process, at[p].pc \in Undoable, at[p].undo # {},
         RollbackStaged(p)
  PROVE  /\ running' => live' = conf'
         /\ UNCHANGED xray => PortInv'
<1>1. StageFits(at[p]) /\ NginxType
  BY TypeParts DEF Typed, StageInv
<1>2. PICK old \in Config : at[p].undo = {old}
  BY <1>1 DEF StageFits, Undoable
<1>3. RolledBack(old)
  BY <1>1, <1>2, Rolling
<1>4. running => live = old \/ live.on
  BY <1>2 DEF DiskInv, Undoing
<1>5. CASE old.on /\ ~PublicPortFree /\ UNCHANGED <<live, running>>
  <2>1. conf' = old
    BY <1>3 DEF RolledBack
  <2>2. QED
    BY <1>4, <1>5, <2>1, PortStep DEF PortInv
<1>6. CASE ~(old.on /\ ~PublicPortFree) /\ live' = old /\ running' = TRUE
  <2>1. conf' = old
    BY <1>3 DEF RolledBack
  <2>2. QED
    BY <1>6, <2>1, PortStep
<1>7. QED
  BY <1>3, <1>5, <1>6 DEF RolledBack

LEMMA DiskUp ==
  ASSUME Typed, LockInv, PortInv, DiskInv, NEW p \in Process,
         Stage(p) \/ ListRoutes(p) \/ Move(p) \/ SaveSnapshots(p) \/ RestartXray(p) \/ Activate(p)
  PROVE  PortInv' /\ DiskInv'
<1>0. TypeOK /\ AtType
  BY TypeParts DEF Typed
<1>pc. {"xray", "activate", "restore"} \subseteq PC
  BY DEF PC
<1>u. \A q \in Process : at[q].pc \in {"routes", "move", "xray", "activate"} => at[q].undo # {}
  BY DEF Typed, StageInv, StageFits
<1>1. CASE Stage(p)
  <2>1. at[p].pc = "stage" /\ UNCHANGED <<live, running, xray>> /\ PortInv'
    BY <1>1, PortStep DEF Stage, Is
  <2>2. running => live = conf
    BY <2>1, NotUndoing DEF Undoable
  <2>3. CASE Staged(p)
    <3>1. at'[p].pc = "routes" /\ at'[p].undo = {conf}
      BY <2>3 DEF Staged
    <3>2. \A q \in Process \ {p} : at[q].pc \notin Undoable /\ at'[q] = at[q]
      BY <2>1, <2>3, Alone DEF Staged, Kept
    <3>3. Undoing(p)' /\ \A q \in Process \ {p} : ~Undoing(q)'
      BY <3>1, <3>2 DEF Undoing, Undoable
    <3>4. running' => \A old \in at'[p].undo : live' = old
      BY <2>1, <2>2, <3>1
    <3>5. QED
      BY <2>1, <3>3, <3>4 DEF DiskInv
  <2>4. CASE Returned(p) /\ UNCHANGED conf
    <3>1. Kept(p) /\ at'[p].undo = {} /\ (running' => live' = conf')
      BY <2>1, <2>2, <2>4 DEF Returned
    <3>2. QED
      BY <2>1, <3>1, DiskSettles
  <2>5. QED
    BY <1>0, <1>1, <2>3, <2>4, StageMoves
<1>2. CASE ListRoutes(p)
  <2>1. at[p].pc = "routes" /\ at[p].pc \in Undoable /\ at[p].undo # {} /\ UNCHANGED xray
    BY <1>2, <1>u DEF ListRoutes, Is, Undoable
  <2>2. CASE RollbackStaged(p) /\ Returned(p)
    <3>1. PortInv' /\ (running' => live' = conf')
      BY <2>1, <2>2, RollingBack
    <3>2. QED
      BY <2>1, <2>2, <3>1, DiskSettles DEF Returned
  <2>3. CASE Listed(p) /\ UNCHANGED nginxVars
    <3>1. Kept(p) /\ {at[p].pc, at'[p].pc} \subseteq Undoable /\ at'[p].undo = at[p].undo
      BY <2>1, <2>3 DEF Listed, Undoable
    <3>2. QED
      BY <2>1, <2>3, <3>1, DiskStays, PortStep DEF nginxVars
  <2>4. QED
    BY <1>0, <1>2, <2>2, <2>3, ListMoves
<1>3. CASE Move(p)
  <2>1. at[p].pc = "move" /\ at[p].pc \in Undoable /\ at[p].undo # {} /\ UNCHANGED xray
    BY <1>3, <1>u DEF Move, Is, Undoable
  <2>2. CASE RollbackStaged(p) /\ Returned(p)
    <3>1. PortInv' /\ (running' => live' = conf')
      BY <2>1, <2>2, RollingBack
    <3>2. QED
      BY <2>1, <2>2, <3>1, DiskSettles DEF Returned
  <2>3. ASSUME NEW i \in Inbound, Moved(p, i), UNCHANGED nginxVars
        PROVE  PortInv' /\ DiskInv'
    <3>1. Kept(p) /\ at'[p].pc = "move" /\ at'[p].undo = at[p].undo
      BY <2>3 DEF Moved
    <3>2. {at[p].pc, at'[p].pc} \subseteq Undoable
      BY <2>1, <3>1
    <3>3. QED
      BY <2>1, <2>3, <3>1, <3>2, DiskStays, PortStep DEF nginxVars
  <2>4. QED
    BY <1>0, <1>3, <2>2, <2>3, MoveMoves
<1>4. CASE SaveSnapshots(p)
  <2>1. at[p].pc = "move" /\ Goto(p, "xray") /\ UNCHANGED <<nginxVars, xray>>
    BY <1>4 DEF SaveSnapshots, Is, Proceed
  <2>2. GoesTo(p, "xray")
    BY <1>0, <1>pc, <2>1, Going
  <2>3. Kept(p) /\ {at[p].pc, at'[p].pc} \subseteq Undoable /\ at'[p].undo = at[p].undo
    BY <2>1, <2>2 DEF GoesTo, Undoable
  <2>4. QED
    BY <2>1, <2>3, DiskStays, PortStep DEF nginxVars
<1>5. CASE RestartXray(p)
  <2>1. /\ at[p].pc = "xray" /\ (Goto(p, "activate") \/ Goto(p, "restore"))
        /\ UNCHANGED nginxVars /\ (xray' = Started \/ xray' = {})
    BY <1>5 DEF RestartXray, Is, Proceed
  <2>2. GoesTo(p, "activate") \/ GoesTo(p, "restore")
    BY <1>0, <1>pc, <2>1, Going
  <2>3. Kept(p) /\ {at[p].pc, at'[p].pc} \subseteq Undoable /\ at'[p].undo = at[p].undo
    BY <2>1, <2>2 DEF GoesTo, Undoable
  <2>4. QED
    BY <2>1, <2>3, DiskStays, PortStep DEF nginxVars
<1>6. CASE Activate(p)
  <2>1. at[p].pc = "activate" /\ at[p].pc \in Undoable /\ at[p].undo # {} /\ UNCHANGED xray
    BY <1>6, <1>u DEF Activate, Is, Undoable
  <2>2. CASE PublicPortFree /\ live' = conf /\ UNCHANGED conf /\ GoesTo(p, "save")
    <3>1. Kept(p) /\ at'[p].pc \notin Undoable /\ live' = conf'
      BY <2>2 DEF GoesTo, Undoable
    <3>2. QED
      BY <2>1, <2>2, <3>1, DiskSettles, PortStep
  <2>3. CASE RollbackStaged(p) /\ Kept(p) /\ at'[p].undo = {}
    <3>1. PortInv' /\ (running' => live' = conf')
      BY <2>1, <2>3, RollingBack
    <3>2. QED
      BY <2>1, <2>3, <3>1, DiskSettles
  <2>4. QED
    BY <1>0, <1>6, <2>2, <2>3, ActivateMoves
<1>7. QED
  BY <1>1, <1>2, <1>3, <1>4, <1>5, <1>6

LEMMA DiskDown ==
  ASSUME Typed, LockInv, PortInv, DiskInv, NEW p \in Process,
         Remove(p) \/ Restore(p) \/ Forget(p) \/ StartAgain(p) \/ Undo(p)
  PROVE  PortInv' /\ DiskInv'
<1>0. TypeOK /\ AtType
  BY TypeParts DEF Typed
<1>pc. {"restore", "forget", "restart", "again", "undo"} \subseteq PC
  BY DEF PC
<1>f. StageFits(at[p])
  BY DEF Typed, StageInv
<1>1. CASE Remove(p)
  <2>1. at[p].pc = "remove" /\ at[p].undo = {} /\ UNCHANGED xray /\ at[p].pc \notin Undoable
    BY <1>1, <1>f DEF Remove, Is, StageFits, Undoable
  <2>2. CASE conf' = NoConfig /\ live' = NoConfig /\ Proceed(p, "restore")
    <3>1. GoesTo(p, "restore")
      BY <1>0, <1>pc, <2>2, Going DEF Proceed
    <3>2. Kept(p) /\ at'[p].undo = {} /\ live' = conf' /\ ~live'.on
      BY <2>1, <2>2, <3>1, NoConfigType DEF GoesTo
    <3>3. QED
      BY <2>1, <3>2, DiskSettles, PortStep
  <2>3. CASE UNCHANGED nginxVars /\ Return(p, FALSE)
    <3>1. Returned(p)
      BY <1>0, <2>3, Returning
    <3>2. running => live = conf
      BY <2>1, NotUndoing
    <3>3. Kept(p) /\ at'[p].undo = {} /\ (running' => live' = conf') /\ UNCHANGED <<live, xray>>
      BY <2>1, <2>3, <3>1, <3>2 DEF Returned, nginxVars
    <3>4. QED
      BY <2>1, <3>3, DiskSettles, PortStep
  <2>4. QED
    BY <1>1, <2>2, <2>3 DEF Remove
<1>2. CASE Restore(p)
  <2>1. at[p].pc = "restore" /\ Goto(p, "forget") /\ UNCHANGED <<nginxVars, xray>>
    BY <1>2 DEF Restore, Is, Proceed
  <2>2. GoesTo(p, "forget")
    BY <1>0, <1>pc, <2>1, Going
  <2>3. Kept(p) /\ {at[p].pc, at'[p].pc} \subseteq Undoable /\ at'[p].undo = at[p].undo
    BY <2>1, <2>2 DEF GoesTo, Undoable
  <2>4. QED
    BY <2>1, <2>3, DiskStays, PortStep DEF nginxVars
<1>3. CASE Forget(p)
  <2>1. /\ at[p].pc = "forget" /\ UNCHANGED <<nginxVars, xray>>
        /\ Goto(p, IF at[p].want.mode = "off" THEN "restart" ELSE "again")
    BY <1>3 DEF Forget, Is, Proceed
  <2>2. GoesTo(p, IF at[p].want.mode = "off" THEN "restart" ELSE "again")
    BY <1>0, <1>pc, <2>1, Going
  <2>3. PortInv'
    BY <2>1, PortStep DEF nginxVars
  <2>4. CASE at[p].want.mode = "off"
    <3>1. at[p].undo = {} /\ at[p].pc \in Undoable
      BY <1>f, <2>1, <2>4 DEF StageFits, Undoable
    <3>2. running => live = conf
      BY <3>1, NotUndoing
    <3>3. Kept(p) /\ at'[p].undo = {} /\ (running' => live' = conf')
      BY <2>1, <2>2, <3>1, <3>2 DEF GoesTo, nginxVars
    <3>4. QED
      BY <2>3, <3>1, <3>3, DiskSettles
  <2>5. CASE at[p].want.mode # "off"
    <3>1. Kept(p) /\ {at[p].pc, at'[p].pc} \subseteq Undoable /\ at'[p].undo = at[p].undo
      BY <2>1, <2>2, <2>5 DEF GoesTo, Undoable
    <3>2. QED
      BY <2>1, <2>3, <3>1, DiskStays
  <2>6. QED
    BY <2>4, <2>5
<1>4. CASE StartAgain(p)
  <2>1. at[p].pc = "again" /\ Goto(p, "undo") /\ UNCHANGED nginxVars /\ xray' = Started
    BY <1>4 DEF StartAgain, Is, Proceed
  <2>2. GoesTo(p, "undo")
    BY <1>0, <1>pc, <2>1, Going
  <2>3. Kept(p) /\ {at[p].pc, at'[p].pc} \subseteq Undoable /\ at'[p].undo = at[p].undo
    BY <2>1, <2>2 DEF GoesTo, Undoable
  <2>4. QED
    BY <2>1, <2>3, DiskStays, PortStep DEF nginxVars
<1>5. CASE Undo(p)
  <2>1. at[p].pc \in Undoable /\ UNCHANGED xray /\ Return(p, FALSE)
    BY <1>5 DEF Undo, Is, Undoable
  <2>2. Kept(p) /\ at'[p].undo = {}
    BY <1>0, <2>1, Returning DEF Returned
  <2>3. CASE at[p].undo = {} /\ UNCHANGED nginxVars
    <3>1. running => live = conf
      BY <2>1, <2>3, NotUndoing
    <3>2. (running' => live' = conf') /\ UNCHANGED live
      BY <2>3, <3>1 DEF nginxVars
    <3>3. QED
      BY <2>1, <2>2, <3>2, DiskSettles, PortStep
  <2>4. CASE at[p].undo # {} /\ RollbackStaged(p)
    <3>1. PortInv' /\ (running' => live' = conf')
      BY <2>1, <2>4, RollingBack
    <3>2. QED
      BY <2>1, <2>2, <3>1, DiskSettles
  <2>5. QED
    BY <1>5, <2>3, <2>4 DEF Undo
<1>6. QED
  BY <1>1, <1>2, <1>3, <1>4, <1>5

LEMMA DiskBeside ==
  ASSUME CrashAt \cap Undoable = {}, Typed, LockInv, PortInv, DiskInv,
         StartNginx \/ XrayJobs \/ NginxStops \/ Crash
  PROVE  PortInv' /\ DiskInv'
<1>0. TypeOK /\ NginxType
  BY TypeParts DEF Typed
<1>1. CASE StartNginx
  <2>1. QuietAt /\ UNCHANGED xray
    BY <1>1, QuietJob DEF JobStep
  <2>2. CASE UNCHANGED nginxVars
    BY <2>1, <2>2, DiskQuiet, PortStep DEF nginxVars
  <2>3. CASE PublicPortFree /\ conf.on /\ live' = conf /\ UNCHANGED conf
    BY <2>1, <2>3, PortStep DEF DiskInv
  <2>4. QED
    BY <1>0, <1>1, <2>2, <2>3, StartNginxMoves
<1>2. CASE XrayJobs
  <2>1. UNCHANGED <<at, nginxVars>> /\ xray' = Started
    BY <1>2 DEF XrayJobs
  <2>2. QED
    BY <2>1, DiskQuiet, PortStep DEF nginxVars, QuietAt
<1>3. CASE NginxStops
  BY <1>3, NoConfigType, PortStep DEF NginxStops, DiskInv
<1>4. CASE Crash
  <2>1. \A p \in Process : ~Undoing(p)
    BY <1>4 DEF Crash, Undoing
  <2>2. /\ UNCHANGED nginxVars /\ xray' = Started
        /\ \A p \in Process : at'[p].pc = "idle"
    BY <1>4, CrashMoves DEF Crash
  <2>3. \A p \in Process : ~Undoing(p)'
    BY <2>2 DEF Undoing, Undoable
  <2>4. QED
    BY <2>1, <2>2, <2>3, PortStep DEF nginxVars, DiskInv
<1>5. QED
  BY <1>1, <1>2, <1>3, <1>4

LEMMA DiskNext ==
  ASSUME CrashAt \cap Undoable = {}, Typed, LockInv, PortInv, DiskInv, [Next]_vars
  PROVE  PortInv' /\ DiskInv'
<1>1. ASSUME NEW p \in Process,
             \/ Begin(p) \/ SaveKey(p) \/ Saved(p) \/ Arm(p) \/ Firewall(p) \/ OpenFirst(p)
             \/ RestartDown(p) \/ Disarm(p) \/ Forgive(p)
      PROVE  PortInv' /\ DiskInv'
  <2>1. QuietAt /\ UNCHANGED nginxVars /\ (RestartDown(p) \/ UNCHANGED xray)
    BY <1>1, QuietApply
  <2>2. UNCHANGED xray \/ xray' = Started \/ xray' = {}
    BY <2>1 DEF RestartDown
  <2>3. QED
    BY <2>1, <2>2, DiskQuiet, PortStep DEF nginxVars
<1>2. CASE JobStep /\ ~StartNginx
  <2>1. QuietAt /\ UNCHANGED nginxVars /\ UNCHANGED xray
    BY <1>2, QuietJob
  <2>2. QED
    BY <2>1, DiskQuiet, PortStep DEF nginxVars
<1>3. CASE Quiet
  BY <1>3, DiskQuiet, PortStep DEF Quiet, nginxVars
<1>4. QED
  BY <1>1, <1>2, <1>3, DiskUp, DiskDown, DiskBeside, QuietOutside DEF Next, Apply

\* Unless the panel stops while it has staged files, nginx serves what is on
\* disk whenever no apply is under way: whichever step fails, the files and
\* nginx go back together, and the panel's own start, reload and rollback of
\* nginx leave the port to Xray where Xray has it.
THEOREM ServesTheDisk ==
  ASSUME CrashAt \cap Undoable = {}
  PROVE  Spec => []LiveIsOnDisk
<1>1. Init => PortInv /\ DiskInv
  <2> SUFFICES ASSUME Init PROVE PortInv /\ DiskInv
    OBVIOUS
  <2>1. live = NoConfig /\ conf = NoConfig /\ \A p \in Process : at[p] = Idle
    BY DEF Init
  <2>2. ~live.on /\ live = conf /\ \A p \in Process : ~Undoing(p)
    BY <2>1, NoConfigType, IdleType DEF Undoing
  <2>3. QED
    BY <2>2 DEF PortInv, DiskInv
<1>2. Typed /\ LockInv /\ PortInv /\ DiskInv /\ [Next]_vars => (PortInv /\ DiskInv)'
  BY DiskNext
<1>3. LockInv /\ DiskInv => LiveIsOnDisk
  <2>1. Undoable \subseteq {"stage", "routes", "move", "xray", "activate", "restore", "forget", "again", "undo"}
    BY DEF Undoable
  <2>2. ASSUME LockInv, lock = "none" PROVE \A p \in Process : ~Undoing(p)
    BY <2>1, <2>2 DEF LockInv, Holding, Undoing, Process, Owner, Job
  <2>3. QED
    BY <2>2 DEF DiskInv, LiveIsOnDisk
<1>4. QED
  BY <1>1, <1>2, <1>3, AlwaysLocked, PTL DEF Spec
-----------------------------------------------------------------------------
(* Trials. *)

\* Between two calls of Apply, or two looks at the deadline.
Between == {"idle", "expired", "reconcile", "putBack", "nginx", "compare"}

\* Apply has read the settings and not yet touched them.
Prepared == {"stage", "routes", "move", "xray", "activate", "open", "remove", "restore", "forget",
             "again", "undo", "restart", "disarm", "forgive"}

\* With no overlap the owner's requests and the job's ticks take turns; only a
\* confirmation may come between.
TurnInv ==
  /\ at[Owner].pc = "idle" \/ at[Owner].then = "confirm" \/ at[Job].pc = "idle"
  /\ at[Owner].then \in {"none", "confirm"}
  /\ at[Owner].then = "confirm" => at[Owner].pc = "forgive"
  /\ at[Owner].pc \notin {"expired", "reconcile", "putBack", "nginx", "compare", "openUp"}
  /\ at[Job].pc \in Between \cup {"openUp"} => at[Job].then \in {"none", "nothing"}
  /\ at[Job].pc \notin Between \cup {"openUp"}
       => at[Job].then \in {"check", "nothing", "rollback", "reconcile"}
  /\ at[Job].then \in {"check", "nothing"} /\ at[Job].pc \notin Between
       => at[Job].pc \in {"disarm", "forgive"}
  /\ at[Job].then = "nothing" => gaveUp

\* Key after key, the settings are on their way from the old to the new.
Mixed(a) ==
  \A k \in {"mode", "panel", "firewall"} : settings[k] \in {a.prev[k], Clean(a.want)[k]}

\* The owner's apply began with settings that were proven, and with no trial on.
OwnerInv ==
  at[Owner].pc # "idle" /\ at[Owner].then = "none" =>
    /\ at[Owner].pc # "firewall" => deadline = "none"
    /\ at[Owner].pc \notin {"deadline", "firewall"} => fallback = {}
    /\ at[Owner].pc \in Prepared => at[Owner].prev = settings /\ Level(settings) <= proven
    /\ at[Owner].pc = "save" =>
         Mixed(at[Owner]) /\ (Level(at[Owner].prev) <= proven \/ Level(at[Owner].want) <= proven)
    /\ at[Owner].pc \in {"fallback", "deadline"} =>
         /\ settings = Clean(at[Owner].want)
         /\ Level(at[Owner].prev) < Level(at[Owner].want) /\ Level(at[Owner].prev) <= proven
    /\ at[Owner].pc = "firewall" => settings = Clean(at[Owner].want)

\* The reconciler wants the settings there are.
ReconcileInv ==
  /\ at[Job].pc \in {"putBack", "nginx", "compare"} => at[Job].want = settings
  /\ at[Job].then = "reconcile" =>
       /\ at[Job].want = settings /\ at[Job].pc \notin {"fallback", "deadline"}
       /\ at[Job].pc \in Prepared \cup {"save"} => at[Job].prev = settings
       /\ at[Job].pc \in {"restart", "disarm", "forgive"} => at[Job].want.mode = "off"

\* A rollback goes down, to a state that was proven.
RollbackInv ==
  /\ at[Job].then = "check" =>
       /\ Level(at[Job].want) <= proven /\ Level(at[Job].want) <= Level(settings)
       /\ at[Job].pc = "forgive" => deadline = "none"
  /\ at[Job].then = "rollback" =>
       /\ deadline = "none" /\ fallback = {} /\ Level(at[Job].want) <= proven
       /\ at[Job].pc \notin {"fallback", "deadline"}
       /\ at[Job].pc = "lock" => Level(at[Job].want) <= Level(settings)
       /\ at[Job].pc \in Prepared =>
            at[Job].prev = settings /\ Level(at[Job].want) <= Level(at[Job].prev)
       /\ at[Job].pc = "save" => Mixed(at[Job]) /\ Level(at[Job].want) <= Level(at[Job].prev)
       /\ at[Job].pc = "firewall" => settings = Clean(at[Job].want)

CleanInv ==
  Clean(settings) = settings \/ \E p \in Process : at[p].pc = "save" /\ at[p].then # "reconcile"

\* Where a trial can go back to is proven, and closes no more than the trial.
FallbackInv ==
  /\ \A s \in fallback : Level(s) <= proven /\ Level(s) <= Level(settings)
  /\ deadline = "none" /\ fallback # {} => \E p \in Process : at[p].pc \in {"deadline", "forgive"}

\* What the settings close is proven or on trial, or somebody sees to it.
Answered ==
  \/ Level(settings) <= proven \/ deadline # "none"
  \/ at[Job].then \in {"check", "rollback"} \/ at[Job].pc = "openUp"
  \/ at[Owner].pc \in {"save", "fallback", "deadline"}

TrialParts == OwnerInv /\ ReconcileInv /\ RollbackInv /\ CleanInv /\ FallbackInv /\ Answered
TrialInv == TurnInv /\ (gaveUp \/ TrialParts)

LEMMA CleanLevel ==
  \A s \in Settings : /\ Clean(s) \in Settings /\ Level(Clean(s)) = Level(s)
                      /\ Clean(Clean(s)) = Clean(s)
<1> SUFFICES ASSUME NEW s \in Settings
             PROVE  Clean(s) \in Settings /\ Level(Clean(s)) = Level(s) /\ Clean(Clean(s)) = Clean(s)
  OBVIOUS
<1>1. Clean(s) \in Settings
  BY Cleaned
<1>2. ClosesPorts(Clean(s)) <=> ClosesPorts(s)
  BY DEF Clean, ClosesPorts
<1>3. ClosesPorts(s) => Clean(s).panel = s.panel
  BY DEF Clean, ClosesPorts, Settings
<1>4. Level(Clean(s)) = Level(s)
  BY <1>2, <1>3 DEF Level
<1>5. Clean(Clean(s)) = Clean(s)
  BY DEF Clean, Settings
<1>6. QED
  BY <1>1, <1>4, <1>5

\* A confirmation is asked for exactly where more is closed than before.
LEMMA Arming ==
  \A s, t \in Settings : ArmsConfirmation(s, t) <=> Level(s) < Level(t)
BY DEF ArmsConfirmation, Level, ClosesPorts, Settings

\* On their way, the settings close what the old or what the new close.
LEMMA Mixing ==
  ASSUME NEW a \in Settings, NEW b \in Settings, NEW u \in Settings,
         \A k \in {"mode", "panel", "firewall"} : u[k] \in {a[k], Clean(b)[k]}
  PROVE  Level(a) <= Level(u) \/ Level(b) <= Level(u)
<1>1. CASE ~ClosesPorts(a) \/ ~ClosesPorts(b)
  <2>1. Level(a) = 0 \/ Level(b) = 0
    BY <1>1 DEF Level
  <2>2. QED
    BY <2>1, LevelType
<1>2. CASE ClosesPorts(a) /\ ClosesPorts(b)
  <2>1. /\ u.mode \in {a.mode, Clean(b).mode} /\ u.firewall \in {a.firewall, Clean(b).firewall}
        /\ u.panel \in {a.panel, Clean(b).panel}
    OBVIOUS
  <2>2. /\ Clean(b).mode = "only443" /\ (Clean(b).firewall = TRUE)
        /\ (Clean(b).panel = b.panel) /\ a.mode = "only443" /\ (a.firewall = TRUE)
    BY <1>2 DEF Clean, ClosesPorts, Settings
  <2>3. ClosesPorts(u) /\ (u.panel = a.panel \/ u.panel = b.panel)
    BY <2>1, <2>2 DEF ClosesPorts
  <2>4. QED
    BY <1>2, <2>3 DEF Level
<1>3. QED
  BY <1>1, <1>2

-----------------------------------------------------------------------------
(* Steps of an apply. *)

\* It goes on, at pc, with what it wants and found.
Onward(p, pc) ==
  /\ Kept(p) /\ at'[p].pc = pc
  /\ at'[p].then = at[p].then /\ at'[p].want = at[p].want /\ at'[p].prev = at[p].prev

\* It is over; pc is where its caller goes on.
Ended(p, pc) == Kept(p) /\ at'[p].pc = pc /\ at'[p].then = "none"

LEMMA TwoProcesses == Process = {Owner, Job} /\ Owner # Job
BY DEF Process, Owner, Job

LEMMA GoingOn ==
  ASSUME AtType, NEW p \in Process, NEW pc \in PC, Goto(p, pc)
  PROVE  Onward(p, pc)
<1> DEFINE a == [at[p] EXCEPT !.pc = pc]
<1>1. at[p] \in Step
  BY DEF AtType
<1>2. /\ a \in Step /\ a.pc = pc /\ a.then = at[p].then /\ a.want = at[p].want
      /\ a.prev = at[p].prev
  BY <1>1 DEF Step
<1>3. at' = [at EXCEPT ![p] = a]
  BY DEF Goto
<1> HIDE DEF a
<1>4. QED
  BY <1>2, <1>3, Moves DEF AtType, Onward

LEMMA Ending ==
  ASSUME AtType, NEW p \in Process, NEW ok \in BOOLEAN, Return(p, ok)
  PROVE  /\ at[p].then = "rollback" => Ended(p, IF ok THEN "reconcile" ELSE "openUp")
         /\ at[p].then # "rollback" => Ended(p, "idle")
<1>1. CASE at[p].then = "rollback"
  <2> DEFINE pc == IF ok THEN "reconcile" ELSE "openUp"
             a == [Idle EXCEPT !.pc = pc]
  <2>1. at' = [at EXCEPT ![p] = a]
    BY <1>1, Zenon DEF Return
  <2>2. pc \in PC
    BY DEF PC
  <2>3. a \in Step /\ a.pc = pc
    BY <2>2, IdleType
  <2>4. a.then = "none"
    BY DEF Idle
  <2> HIDE DEF a
  <2>5. QED
    BY <1>1, <2>1, <2>3, <2>4, Moves DEF AtType, Ended
<1>2. CASE at[p].then # "rollback"
  <2>1. at' = [at EXCEPT ![p] = Idle]
    BY <1>2, Zenon DEF Return
  <2>2. Idle \in Step /\ Idle.pc = "idle" /\ Idle.then = "none"
    BY IdleType DEF Idle
  <2>3. QED
    BY <1>2, <2>1, <2>2, Moves DEF AtType, Ended
<1>3. QED
  BY <1>1, <1>2

\* An apply goes on and touches no settings.
LEMMA TrialGoesOn ==
  ASSUME TrialInv, NEW p \in Process, NEW pc \in Prepared \ {"forgive"},
         at[p].pc \in Prepared \ {"disarm", "forgive"}, Onward(p, pc), UNCHANGED table,
         pc \in {"restart", "disarm"} /\ at[p].then = "reconcile" /\ TrialParts
               => at[p].want.mode = "off"
  PROVE  TrialInv'
<1>1. UNCHANGED <<settings, deadline, fallback, proven, gaveUp>>
  BY DEF table
<1>2. \A q \in Process \ {p} : at'[q] = at[q]
  BY DEF Onward, Kept
<1>3. CASE p = Owner
  <2>1. at'[Job] = at[Job]
    BY <1>2, <1>3, TwoProcesses
  <2>2. TurnInv'
    BY <1>1, <1>3, <2>1 DEF TrialInv, TurnInv, Onward, Prepared, Between
  <2>3. TrialParts => TrialParts'
    <3> SUFFICES ASSUME TrialParts PROVE TrialParts'
      OBVIOUS
    <3>1. OwnerInv' /\ ReconcileInv' /\ Answered'
      BY <1>1, <1>3, <2>1 DEF TrialParts, OwnerInv, ReconcileInv, Answered, Onward, Prepared, Mixed
    <3>2. RollbackInv'
      BY <1>1, <2>1 DEF TrialParts, RollbackInv, Mixed
    <3>3. CleanInv' /\ FallbackInv'
      BY <1>1, <1>3, <2>1, TwoProcesses DEF TrialParts, CleanInv, FallbackInv, Onward, Prepared
    <3>4. QED
      BY <3>1, <3>2, <3>3 DEF TrialParts
  <2>4. QED
    BY <1>1, <2>2, <2>3 DEF TrialInv
<1>4. CASE p = Job
  <2>1. at'[Owner] = at[Owner]
    BY <1>2, <1>4, TwoProcesses
  <2>2. TurnInv'
    BY <1>1, <1>4, <2>1 DEF TrialInv, TurnInv, Onward, Prepared, Between
  <2>3. TrialParts => TrialParts'
    <3> SUFFICES ASSUME TrialParts PROVE TrialParts'
      OBVIOUS
    <3>1. OwnerInv' /\ ReconcileInv' /\ Answered'
      BY <1>1, <1>4, <2>1 DEF TrialParts, OwnerInv, ReconcileInv, Answered, Onward, Prepared, Mixed
    <3>2. RollbackInv'
      BY <1>1, <1>4 DEF TrialInv, TurnInv, TrialParts, RollbackInv, Mixed, Onward, Prepared, Between
    <3>3. CleanInv' /\ FallbackInv'
      BY <1>1, <1>4, <2>1, TwoProcesses DEF TrialParts, CleanInv, FallbackInv, Onward, Prepared
    <3>4. QED
      BY <3>1, <3>2, <3>3 DEF TrialParts
  <2>4. QED
    BY <1>1, <2>2, <2>3 DEF TrialInv
<1>5. QED
  BY <1>3, <1>4, TwoProcesses

\* An apply comes to the settings.
LEMMA TrialSaves ==
  ASSUME TrialInv, NEW p \in Process, at[p].pc \in Prepared \ {"disarm", "forgive"},
         Onward(p, "save"), UNCHANGED table
  PROVE  TrialInv'
<1>1. UNCHANGED <<settings, deadline, fallback, proven, gaveUp>>
  BY DEF table
<1>2. \A q \in Process \ {p} : at'[q] = at[q]
  BY DEF Onward, Kept
<1>3. TurnInv'
  <2>1. CASE p = Owner
    <3>1. at'[Job] = at[Job]
      BY <1>2, <2>1, TwoProcesses
    <3>2. QED
      BY <1>1, <2>1, <3>1 DEF TrialInv, TurnInv, Onward, Prepared, Between
  <2>2. CASE p = Job
    <3>1. at'[Owner] = at[Owner]
      BY <1>2, <2>2, TwoProcesses
    <3>2. QED
      BY <1>1, <2>2, <3>1 DEF TrialInv, TurnInv, Onward, Prepared, Between
  <2>3. QED
    BY <2>1, <2>2, TwoProcesses
<1>4. ASSUME TrialParts PROVE TrialParts'
  <2>1. CleanInv' /\ FallbackInv'
    <3>1. \A q \in Process : at[q].pc = "save" => at'[q] = at[q]
      BY <1>2 DEF Prepared
    <3>2. \A q \in Process : at[q].pc \in {"deadline", "forgive"} => at'[q] = at[q]
      BY <1>2 DEF Prepared
    <3>3. QED
      BY <1>1, <1>4, <3>1, <3>2 DEF TrialParts, CleanInv, FallbackInv
  <2>2. CASE p = Owner
    <3>1. at'[Job] = at[Job]
      BY <1>2, <2>2, TwoProcesses
    <3>2. OwnerInv' /\ Answered'
      BY <1>1, <1>4, <2>2, <3>1 DEF TrialParts, OwnerInv, Answered, Onward, Prepared, Mixed
    <3>3. ReconcileInv' /\ RollbackInv'
      BY <1>1, <1>4, <3>1 DEF TrialParts, ReconcileInv, RollbackInv, Mixed
    <3>4. QED
      BY <2>1, <3>2, <3>3 DEF TrialParts
  <2>3. CASE p = Job
    <3>1. at'[Owner] = at[Owner]
      BY <1>2, <2>3, TwoProcesses
    <3>2. OwnerInv' /\ Answered'
      BY <1>1, <1>4, <2>3, <3>1 DEF TrialParts, OwnerInv, Answered, Onward, Prepared, Mixed
    <3>3. ReconcileInv' /\ RollbackInv'
      BY <1>1, <1>4, <2>3 DEF TrialInv, TurnInv, TrialParts, ReconcileInv, RollbackInv, Mixed,
         Onward, Prepared, Between
    <3>4. QED
      BY <2>1, <3>2, <3>3 DEF TrialParts
  <2>4. QED
    BY <2>2, <2>3, TwoProcesses
<1>5. QED
  BY <1>1, <1>3, <1>4 DEF TrialInv

\* An apply returns: before it came to the settings, or with all of them saved.
LEMMA TrialEnds ==
  ASSUME Typed, TrialInv, NEW p \in Process, NEW ok \in BOOLEAN, Return(p, ok), UNCHANGED table,
         \/ at[p].pc \in Prepared \ {"disarm", "forgive"} /\ ~ok
         \/ at[p].pc = "save" /\ settings = Clean(at[p].want) /\ Level(at[p].want) = 0
         \/ at[p].pc = "firewall"
  PROVE  TrialInv'
<1>0. AtType /\ TableType /\ at[p].want \in Settings /\ proven \in Nat
  BY TypeParts DEF Typed, AtType, Step, TableType
<1>1. UNCHANGED <<settings, deadline, fallback, proven, gaveUp>>
  BY DEF table
<1>2. /\ at[p].then = "rollback" => Ended(p, IF ok THEN "reconcile" ELSE "openUp")
      /\ at[p].then # "rollback" => Ended(p, "idle")
  BY <1>0, Ending
<1>3. Kept(p) /\ at'[p].then = "none" /\ at'[p].pc \in {"idle", "reconcile", "openUp"}
  BY <1>2 DEF Ended
<1>4. \A q \in Process \ {p} : at'[q] = at[q]
  BY <1>3 DEF Kept
<1>5. \A s : Level(s) \in Nat
  BY LevelType
<1>6. Level(Clean(at[p].want)) = Level(at[p].want) /\ Clean(Clean(at[p].want)) = Clean(at[p].want)
  BY <1>0, CleanLevel
<1>7. CASE p = Owner
  <2>1. at'[Job] = at[Job] /\ at[Owner].then = "none"
    BY <1>4, <1>7, TwoProcesses DEF TrialInv, TurnInv, Prepared
  <2>2. at'[Owner].pc = "idle" /\ at'[Owner].then = "none"
    BY <1>2, <1>7, <2>1 DEF Ended
  <2>3. TurnInv'
    BY <1>1, <2>1, <2>2 DEF TrialInv, TurnInv, Between
  <2>4. ASSUME TrialParts PROVE TrialParts'
    <3>1. OwnerInv' /\ ReconcileInv' /\ RollbackInv'
      BY <1>1, <2>1, <2>2, <2>4 DEF TrialParts, OwnerInv, ReconcileInv, RollbackInv, Mixed
    <3>2. Answered'
      BY <1>0, <1>1, <1>5, <1>6, <1>7, <2>1, <2>4
         DEF TrialParts, Answered, OwnerInv, Prepared
    <3>3. CleanInv' /\ FallbackInv'
      <4>1. Clean(settings) = settings
            \/ \E q \in Process \ {p} : at[q].pc = "save" /\ at[q].then # "reconcile"
        BY <1>6, <1>7, <2>1, <2>4 DEF TrialParts, CleanInv, OwnerInv, Prepared
      <4>2. CleanInv'
        BY <1>1, <1>4, <4>1 DEF CleanInv
      <4>3. FallbackInv'
        BY <1>1, <1>4, <2>4 DEF TrialParts, FallbackInv, Prepared
      <4>4. QED
        BY <4>2, <4>3
    <3>4. QED
      BY <3>1, <3>2, <3>3 DEF TrialParts
  <2>5. QED
    BY <1>1, <2>3, <2>4 DEF TrialInv
<1>8. CASE p = Job
  <2>1. /\ at'[Owner] = at[Owner] /\ at[Job].then \in {"rollback", "reconcile"}
        /\ at[Owner].pc \notin {"save", "fallback", "deadline"}
    BY <1>4, <1>8, TwoProcesses DEF TrialInv, TurnInv, Prepared, Between
  <2>2. TurnInv'
    BY <1>1, <1>3, <1>8, <2>1 DEF TrialInv, TurnInv, Between
  <2>3. ASSUME TrialParts PROVE TrialParts'
    <3>1. OwnerInv' /\ ReconcileInv' /\ RollbackInv'
      BY <1>1, <1>3, <1>8, <2>1, <2>3 DEF TrialParts, OwnerInv, ReconcileInv, RollbackInv, Mixed
    <3>2. Answered'
      <4>1. CASE at[Job].then = "reconcile"
        BY <1>1, <1>8, <2>1, <2>3, <4>1 DEF TrialParts, Answered, ReconcileInv, Prepared, TrialInv, TurnInv, Between
      <4>2. CASE at[Job].then = "rollback" /\ ~ok
        BY <1>2, <1>8, <4>2 DEF Ended, Answered
      <4>3. CASE at[Job].then = "rollback" /\ ok
        BY <1>0, <1>1, <1>5, <1>6, <1>8, <2>3, <4>3 DEF TrialParts, Answered, RollbackInv, Prepared
      <4>4. QED
        BY <2>1, <4>1, <4>2, <4>3
    <3>3. CleanInv' /\ FallbackInv'
      <4>1. Clean(settings) = settings
            \/ \E q \in Process \ {p} : at[q].pc = "save" /\ at[q].then # "reconcile"
        BY <1>6, <1>8, <2>1, <2>3 DEF TrialParts, CleanInv, Prepared
      <4>2. CleanInv'
        BY <1>1, <1>4, <4>1 DEF CleanInv
      <4>3. FallbackInv'
        BY <1>1, <1>4, <2>3 DEF TrialParts, FallbackInv, Prepared
      <4>4. QED
        BY <4>2, <4>3
    <3>4. QED
      BY <3>1, <3>2, <3>3 DEF TrialParts
  <2>4. QED
    BY <1>1, <2>2, <2>3 DEF TrialInv
<1>9. QED
  BY <1>7, <1>8, TwoProcesses

\* The steps of an apply before it comes to the settings.
LEMMA TrialWorks ==
  ASSUME Typed, TrialInv, NEW p \in Process,
         \/ Stage(p) \/ ListRoutes(p) \/ Move(p) \/ SaveSnapshots(p) \/ RestartXray(p) \/ Activate(p)
         \/ OpenFirst(p) \/ Remove(p) \/ Restore(p) \/ Forget(p) \/ StartAgain(p) \/ Undo(p)
         \/ RestartDown(p)
  PROVE  TrialInv'
<1>0. TypeOK /\ AtType /\ at[p] \in Step
  BY TypeParts DEF Typed, AtType
<1>a. ASSUME NEW pc \in Prepared \ {"forgive"}, at[p].pc \in Prepared \ {"disarm", "forgive"},
             Onward(p, pc), UNCHANGED table,
             pc \in {"restart", "disarm"} /\ at[p].then = "reconcile" /\ TrialParts
               => at[p].want.mode = "off"
      PROVE  TrialInv'
  BY <1>a, TrialGoesOn
<1>b. ASSUME at[p].pc \in Prepared \ {"disarm", "forgive"}, Return(p, FALSE), UNCHANGED table
      PROVE  TrialInv'
  <2>1. FALSE \in BOOLEAN
    OBVIOUS
  <2>2. QED
    BY <1>0, <1>b, <2>1, TrialEnds
<1>c. ASSUME NEW pc \in {"xray", "activate", "remove", "restore", "forget", "again", "undo"},
             at[p].pc \in Prepared \ {"disarm", "forgive"}, Goto(p, pc), UNCHANGED table
      PROVE  TrialInv'
  <2>1. Onward(p, pc)
    BY <1>0, <1>c, GoingOn DEF PC
  <2>2. pc \in Prepared \ {"forgive"} /\ pc \notin {"restart", "disarm"}
    BY <1>c DEF Prepared
  <2>3. QED
    BY <1>a, <1>c, <2>1, <2>2
<1>1. CASE Stage(p)
  <2>1. at[p].pc = "stage" /\ UNCHANGED table
    BY <1>1 DEF Stage, Is
  <2>2. CASE at' = [at EXCEPT ![p].undo = {conf}, ![p].pc = "routes"]
    <3>1. at'[p].pc = "routes" /\ at'[p].prev = at[p].prev
      BY <1>0, <2>2 DEF AtType, Step
    <3>2. Staged(p)
      BY <1>0, <1>1, <3>1, StageMoves DEF Returned
    <3>3. QED
      BY <1>a, <2>1, <3>1, <3>2 DEF Staged, Onward, Prepared
  <2>3. CASE Return(p, FALSE)
    BY <1>b, <2>1, <2>3 DEF Prepared
  <2>4. QED
    BY <1>1, <2>2, <2>3 DEF Stage
<1>2. CASE ListRoutes(p)
  <2>1. at[p].pc = "routes" /\ UNCHANGED table
    BY <1>2 DEF ListRoutes, Is
  <2>2. CASE at' = [at EXCEPT ![p].pc = "move", ![p].todo = enabled, ![p].snaps = snapshots]
    <3>1. at'[p].pc = "move" /\ at'[p].prev = at[p].prev
      BY <1>0, <2>2 DEF AtType, Step
    <3>2. Listed(p)
      BY <1>0, <1>2, <3>1, ListMoves DEF Returned
    <3>3. QED
      BY <1>a, <2>1, <3>1, <3>2 DEF Listed, Onward, Prepared
  <2>3. CASE Return(p, FALSE)
    BY <1>b, <2>1, <2>3 DEF Prepared
  <2>4. QED
    BY <1>2, <2>2, <2>3 DEF ListRoutes
<1>3. CASE Move(p)
  <2>1. at[p].pc = "move" /\ UNCHANGED table
    BY <1>3 DEF Move, Is
  <2>2. ASSUME NEW todo, NEW snaps, at' = [at EXCEPT ![p].todo = todo, ![p].snaps = snaps]
        PROVE  TrialInv'
    <3>1. at'[p].pc = "move" /\ at'[p].prev = at[p].prev
      BY <1>0, <2>1, <2>2 DEF AtType, Step
    <3>2. PICK i \in Inbound : Moved(p, i)
      BY <1>0, <1>3, <3>1, MoveMoves DEF Returned
    <3>3. QED
      BY <1>a, <2>1, <3>1, <3>2 DEF Moved, Onward, Prepared
  <2>3. CASE Return(p, FALSE)
    BY <1>b, <2>1, <2>3 DEF Prepared
  <2>4. QED
    BY <1>3, <2>2, <2>3 DEF Move
<1>4. CASE SaveSnapshots(p)
  BY <1>4, <1>c DEF SaveSnapshots, Is, Proceed, Prepared
<1>5. CASE RestartXray(p)
  BY <1>5, <1>c DEF RestartXray, Is, Proceed, Prepared
<1>6. CASE Activate(p)
  <2>1. at[p].pc = "activate" /\ UNCHANGED table
    BY <1>6 DEF Activate, Is
  <2>2. CASE Goto(p, "save")
    <3>1. Onward(p, "save")
      BY <1>0, <2>2, GoingOn DEF PC
    <3>2. QED
      BY <2>1, <3>1, TrialSaves DEF Prepared
  <2>3. CASE at' = [at EXCEPT ![p].pc = "restore", ![p].undo = {}]
    <3> DEFINE a == [at[p] EXCEPT !.pc = "restore", !.undo = {}]
    <3>1. /\ a \in Step /\ a.pc = "restore" /\ a.then = at[p].then /\ a.want = at[p].want
          /\ a.prev = at[p].prev
      BY <1>0 DEF Step, PC
    <3>2. at' = [at EXCEPT ![p] = a]
      BY <2>3
    <3> HIDE DEF a
    <3>3. Onward(p, "restore")
      BY <1>0, <3>1, <3>2, Moves DEF AtType, Onward
    <3>4. QED
      BY <1>a, <2>1, <3>3 DEF Prepared
  <2>4. QED
    BY <1>6, <2>2, <2>3 DEF Activate, Proceed
<1>7. CASE OpenFirst(p)
  BY <1>7, <1>c DEF OpenFirst, Is, Proceed, Prepared
<1>8. CASE Remove(p)
  BY <1>8, <1>b, <1>c DEF Remove, Is, Proceed, Prepared
<1>9. CASE Restore(p)
  BY <1>9, <1>c DEF Restore, Is, Proceed, Prepared
<1>10. CASE Forget(p)
  <2>1. at[p].pc = "forget" /\ UNCHANGED table
    BY <1>10 DEF Forget, Is
  <2>2. CASE at[p].want.mode = "off" /\ Goto(p, "restart")
    <3>1. Onward(p, "restart")
      BY <1>0, <2>2, GoingOn DEF PC
    <3>2. QED
      BY <1>a, <2>1, <2>2, <3>1 DEF Prepared
  <2>3. CASE Goto(p, "again")
    BY <1>c, <2>1, <2>3 DEF Prepared
  <2>4. QED
    BY <1>10, <2>2, <2>3 DEF Forget, Proceed
<1>11. CASE StartAgain(p)
  BY <1>11, <1>c DEF StartAgain, Is, Proceed, Prepared
<1>12. CASE Undo(p)
  BY <1>12, <1>b DEF Undo, Is, Proceed, Prepared
<1>13. CASE RestartDown(p)
  <2>1. at[p].pc = "restart" /\ UNCHANGED table
    BY <1>13 DEF RestartDown, Is
  <2>2. CASE Goto(p, "disarm")
    <3>1. Onward(p, "disarm")
      BY <1>0, <2>2, GoingOn DEF PC
    <3>2. at[p].then = "reconcile" /\ TrialParts => at[p].want.mode = "off"
      BY <2>1, TwoProcesses DEF TrialInv, TurnInv, TrialParts, ReconcileInv
    <3>3. QED
      BY <1>a, <2>1, <3>1, <3>2 DEF Prepared
  <2>3. CASE Return(p, FALSE)
    BY <1>b, <2>1, <2>3 DEF Prepared
  <2>4. QED
    BY <1>13, <2>2, <2>3 DEF RestartDown, Proceed
<1>14. QED
  BY <1>1, <1>2, <1>3, <1>4, <1>5, <1>6, <1>7, <1>8, <1>9, <1>10, <1>11, <1>12, <1>13

\* The steps of an apply that begin it, or touch the settings or the trial.
LEMMA TrialBegins ==
  ASSUME Typed, TrialInv, NEW p \in Process, Begin(p)
  PROVE  TrialInv'
<1>0. TypeOK /\ AtType /\ at[p] \in Step
  BY TypeParts DEF Typed, AtType
<1>1. UNCHANGED <<settings, deadline, fallback, proven, gaveUp>> /\ at[p].pc = "lock"
  BY DEF Begin, table, Is
<1>2. /\ Kept(p) /\ at'[p].pc \in {"open", "stage"} /\ at'[p].then = at[p].then
      /\ at'[p].want = at[p].want /\ at'[p].prev = Clean(settings)
  <2>1. at'[p].prev = Clean(settings)
    BY <1>0 DEF Begin, AtType, Step
  <2>2. QED
    BY <1>0, <2>1, BeginMoves DEF GoesTo
<1>3. \A q \in Process \ {p} : at'[q] = at[q]
  BY <1>2 DEF Kept
<1>4. at[Owner].pc # "save" /\ at[Job].pc # "save"
  BY <1>1, TwoProcesses DEF TrialInv, TurnInv, Between
<1>5. TrialParts => Clean(settings) = settings
  BY <1>4, TwoProcesses DEF TrialParts, CleanInv
<1>6. TrialParts => CleanInv' /\ FallbackInv'
  BY <1>1, <1>2, <1>3, <1>5 DEF TrialParts, CleanInv, FallbackInv
<1>7. CASE p = Owner
  <2>1. at'[Job] = at[Job] /\ at[Job].pc = "idle" /\ at[Owner].then = "none"
    BY <1>1, <1>3, <1>7, TwoProcesses DEF TrialInv, TurnInv
  <2>2. TurnInv'
    BY <1>1, <1>2, <1>7, <2>1 DEF TrialInv, TurnInv, Between
  <2>3. ASSUME TrialParts PROVE TrialParts'
    <3>1. ReconcileInv' /\ RollbackInv'
      BY <1>1, <2>1, <2>3 DEF TrialParts, ReconcileInv, RollbackInv, Mixed
    <3>2. deadline = "none" /\ fallback = {}
      BY <1>1, <1>7, <2>1, <2>3 DEF TrialParts, OwnerInv
    <3>3. Level(settings) <= proven
      BY <1>1, <1>7, <2>1, <2>3, <3>2 DEF TrialParts, Answered, TrialInv, TurnInv, Between
    <3>4. OwnerInv' /\ Answered'
      BY <1>1, <1>2, <1>5, <1>7, <2>3, <3>2, <3>3 DEF OwnerInv, Answered
    <3>5. QED
      BY <1>6, <2>3, <3>1, <3>4 DEF TrialParts
  <2>4. QED
    BY <1>1, <2>2, <2>3 DEF TrialInv
<1>8. CASE p = Job
  <2>1. at'[Owner] = at[Owner] /\ at[Job].then \in {"rollback", "reconcile"}
    BY <1>1, <1>3, <1>8, TwoProcesses DEF TrialInv, TurnInv, Between
  <2>2. TurnInv'
    BY <1>1, <1>2, <1>8, <2>1 DEF TrialInv, TurnInv, Between
  <2>3. ASSUME TrialParts PROVE TrialParts'
    <3>1. ReconcileInv' /\ RollbackInv'
      BY <1>1, <1>2, <1>5, <1>8, <2>1, <2>3 DEF TrialParts, ReconcileInv, RollbackInv, Mixed
    <3>2. OwnerInv' /\ Answered'
      BY <1>1, <1>2, <1>8, <2>1, <2>3 DEF TrialParts, OwnerInv, Answered, Mixed
    <3>3. QED
      BY <1>6, <2>3, <3>1, <3>2 DEF TrialParts
  <2>4. QED
    BY <1>1, <2>2, <2>3 DEF TrialInv
<1>9. QED
  BY <1>7, <1>8, TwoProcesses

LEMMA TrialSaveKey ==
  ASSUME Typed, Typed', TrialInv, NEW p \in Process, SaveKey(p)
  PROVE  TrialInv'
<1>0. /\ AtType /\ at[p].want \in Settings /\ at[p].prev \in Settings
      /\ settings \in Settings /\ settings' \in Settings /\ proven \in Nat /\ proven' \in Nat
  BY TypeParts DEF Typed, TypeOK, AtType, Step, TableType
<1>1. UNCHANGED <<deadline, fallback, gaveUp, at>> /\ at[p].pc = "save"
  BY DEF SaveKey, Is
<1>2. PICK k \in {"mode", "panel", "firewall"} :
          /\ settings[k] # Clean(at[p].want)[k]
          /\ settings' = [settings EXCEPT ![k] = Clean(at[p].want)[k]]
  BY DEF SaveKey
<1>3. \A j \in {"mode", "panel", "firewall"} : settings'[j] \in {settings[j], Clean(at[p].want)[j]}
  BY <1>0, <1>2 DEF Settings
<1>4. /\ proven' <= Level(settings')
      /\ \A n \in Nat : n <= Level(settings') /\ n <= proven => n <= proven'
  <2>1. proven' = IF Level(Clean(settings')) < proven THEN Level(Clean(settings')) ELSE proven
    BY DEF SaveKey
  <2>2. Level(Clean(settings')) = Level(settings')
    BY <1>0, CleanLevel
  <2>3. QED
    BY <1>0, <2>1, <2>2, LevelType
<1>5. TurnInv'
  BY <1>1 DEF TrialInv, TurnInv
<1>6. Mixed(at[p]) => /\ Mixed(at[p])'
                      /\ Level(at[p].prev) <= Level(settings') \/ Level(at[p].want) <= Level(settings')
  <2> SUFFICES ASSUME Mixed(at[p])
               PROVE  /\ Mixed(at[p])'
                      /\ Level(at[p].prev) <= Level(settings') \/ Level(at[p].want) <= Level(settings')
    OBVIOUS
  <2>1. \A j \in {"mode", "panel", "firewall"} : settings'[j] \in {at[p].prev[j], Clean(at[p].want)[j]}
    BY <1>3 DEF Mixed
  <2>2. QED
    BY <1>0, <1>1, <2>1, Mixing DEF Mixed
<1>7. CASE p = Owner
  <2>1. at[Job].pc = "idle" /\ at[Owner].then = "none" /\ at[Job].then \in {"none", "nothing"}
    BY <1>1, <1>7 DEF TrialInv, TurnInv, Between
  <2>2. ASSUME TrialParts PROVE TrialParts'
    <3>1. /\ deadline = "none" /\ fallback = {} /\ Mixed(at[Owner])
          /\ Level(at[Owner].prev) <= proven \/ Level(at[Owner].want) <= proven
      BY <1>1, <1>7, <2>1, <2>2 DEF TrialParts, OwnerInv
    <3>2. Level(at[Owner].prev) <= proven' \/ Level(at[Owner].want) <= proven'
      BY <1>0, <1>4, <1>6, <1>7, <3>1, LevelType
    <3>3. OwnerInv'
      BY <1>1, <1>6, <1>7, <3>1, <3>2 DEF OwnerInv, Prepared
    <3>4. ReconcileInv' /\ RollbackInv' /\ Answered'
      BY <1>1, <1>7, <2>1 DEF ReconcileInv, RollbackInv, Answered
    <3>5. CleanInv' /\ FallbackInv'
      BY <1>1, <1>7, <2>1, <3>1 DEF CleanInv, FallbackInv
    <3>6. QED
      BY <3>3, <3>4, <3>5 DEF TrialParts
  <2>3. QED
    BY <1>1, <1>5, <2>2 DEF TrialInv
<1>8. CASE p = Job
  <2>1. at[Job].then \in {"rollback", "reconcile"} /\ (at[Owner].pc = "idle" \/ at[Owner].pc = "forgive")
        /\ (at[Owner].pc = "idle" \/ at[Owner].then = "confirm")
    BY <1>1, <1>8 DEF TrialInv, TurnInv, Between
  <2>2. ASSUME TrialParts PROVE TrialParts'
    <3>1. CASE at[Job].then = "reconcile"
      <4>1. Clean(settings) = settings /\ at[Job].want = settings
        BY <1>1, <2>1, <2>2, <3>1, TwoProcesses DEF TrialParts, CleanInv, ReconcileInv
      <4>2. QED
        BY <1>2, <1>8, <4>1
    <3>2. CASE at[Job].then = "rollback"
      <4>1. /\ deadline = "none" /\ fallback = {} /\ Mixed(at[Job]) /\ Level(at[Job].want) <= proven
            /\ Level(at[Job].want) <= Level(at[Job].prev)
        BY <1>1, <1>8, <2>2, <3>2 DEF TrialParts, RollbackInv
      <4>2. Level(at[Job].want) <= proven'
        BY <1>0, <1>4, <1>6, <1>8, <4>1, LevelType
      <4>3. RollbackInv'
        BY <1>1, <1>6, <1>8, <3>2, <4>1, <4>2 DEF RollbackInv, Prepared
      <4>4. OwnerInv' /\ ReconcileInv' /\ Answered'
        BY <1>1, <1>8, <2>1, <3>2 DEF OwnerInv, ReconcileInv, Answered
      <4>5. CleanInv' /\ FallbackInv'
        BY <1>1, <1>8, <3>2, <4>1 DEF CleanInv, FallbackInv
      <4>6. QED
        BY <4>3, <4>4, <4>5 DEF TrialParts
    <3>3. QED
      BY <2>1, <3>1, <3>2
  <2>3. QED
    BY <1>1, <1>5, <2>2 DEF TrialInv
<1>9. QED
  BY <1>7, <1>8, TwoProcesses

LEMMA TrialSaved ==
  ASSUME Typed, TrialInv, NEW p \in Process, Saved(p)
  PROVE  TrialInv'
<1>0. /\ AtType /\ at[p].want \in Settings /\ at[p].prev \in Settings /\ proven \in Nat
      /\ TRUE \in BOOLEAN
  BY TypeParts DEF Typed, TypeOK, AtType, Step, TableType
<1>1. /\ UNCHANGED <<settings, deadline, fallback, proven, gaveUp>> /\ UNCHANGED table
      /\ at[p].pc = "save" /\ settings = Clean(at[p].want)
  BY DEF Saved, table, Is
<1>2. CASE at[p].want.mode = "off" /\ Return(p, TRUE)
  <2>1. Level(at[p].want) = 0
    BY <1>2 DEF Level, ClosesPorts
  <2>2. QED
    BY <1>0, <1>1, <1>2, <2>1, TrialEnds
<1>3. CASE Goto(p, IF ArmsConfirmation(at[p].prev, at[p].want) THEN "fallback" ELSE "firewall")
  <2> DEFINE pc == IF Level(at[p].prev) < Level(at[p].want) THEN "fallback" ELSE "firewall"
  <2>1. Onward(p, pc) /\ pc \in {"fallback", "firewall"}
    <3>1. Goto(p, pc)
      BY <1>0, <1>3, Arming
    <3>2. pc \in PC /\ pc \in {"fallback", "firewall"}
      BY DEF PC
    <3> HIDE DEF pc
    <3>3. QED
      BY <1>0, <3>1, <3>2, GoingOn
  <2>2. pc = "fallback" <=> Level(at[p].prev) < Level(at[p].want)
    OBVIOUS
  <2> HIDE DEF pc
  <2>3. \A q \in Process \ {p} : at'[q] = at[q]
    BY <2>1 DEF Onward, Kept
  <2>4. /\ Level(settings) = Level(at[p].want) /\ Clean(settings) = settings
        /\ \A s : Level(s) \in Nat
    BY <1>0, <1>1, CleanLevel, LevelType
  <2>5. TrialParts => CleanInv' /\ FallbackInv'
    BY <1>1, <2>1, <2>3, <2>4 DEF TrialParts, CleanInv, FallbackInv
  <2>6. CASE p = Owner
    <3>1. at'[Job] = at[Job] /\ at[Job].pc = "idle" /\ at[Owner].then = "none"
      BY <1>1, <2>3, <2>6, TwoProcesses DEF TrialInv, TurnInv
    <3>2. TurnInv'
      BY <1>1, <2>1, <2>6, <3>1 DEF TrialInv, TurnInv, Onward
    <3>3. ASSUME TrialParts PROVE TrialParts'
      <4>1. ReconcileInv' /\ RollbackInv'
        BY <1>1, <3>1, <3>3 DEF TrialParts, ReconcileInv, RollbackInv, Mixed
      <4>2. /\ deadline = "none" /\ fallback = {}
            /\ Level(at[Owner].prev) <= proven \/ Level(at[Owner].want) <= proven
        BY <1>1, <2>6, <3>1, <3>3 DEF TrialParts, OwnerInv
      <4>3. OwnerInv' /\ Answered'
        BY <1>0, <1>1, <2>1, <2>2, <2>4, <2>6, <4>2 DEF OwnerInv, Answered, Onward, Prepared
      <4>4. QED
        BY <2>5, <3>3, <4>1, <4>3 DEF TrialParts
    <3>4. QED
      BY <1>1, <3>2, <3>3 DEF TrialInv
  <2>7. CASE p = Job
    <3>1. at'[Owner] = at[Owner] /\ at[Job].then \in {"rollback", "reconcile"}
      BY <1>1, <2>3, <2>7, TwoProcesses DEF TrialInv, TurnInv, Between
    <3>2. TurnInv'
      BY <1>1, <2>1, <2>7, <3>1 DEF TrialInv, TurnInv, Onward, Between
    <3>3. ASSUME TrialParts PROVE TrialParts'
      <4>1. Level(at[Job].want) <= Level(at[Job].prev)
        BY <1>1, <2>4, <2>7, <3>1, <3>3 DEF TrialParts, ReconcileInv, RollbackInv
      <4>2. pc = "firewall"
        BY <2>1, <2>2, <2>4, <2>7, <4>1
      <4>3. ReconcileInv' /\ RollbackInv'
        BY <1>1, <2>1, <2>7, <3>1, <3>3, <4>2
           DEF TrialParts, ReconcileInv, RollbackInv, Onward, Prepared
      <4>4. OwnerInv' /\ Answered'
        BY <1>1, <2>1, <2>7, <3>1, <3>3 DEF TrialParts, OwnerInv, Answered, Mixed, Onward
      <4>5. QED
        BY <2>5, <3>3, <4>3, <4>4 DEF TrialParts
    <3>4. QED
      BY <1>1, <3>2, <3>3 DEF TrialInv
  <2>8. QED
    BY <2>6, <2>7, TwoProcesses
<1>4. QED
  BY <1>2, <1>3 DEF Saved, Proceed

\* Only the owner's apply arms.
LEMMA TrialArms ==
  ASSUME Typed, TrialInv, NEW p \in Process, Arm(p)
  PROVE  TrialInv'
<1>0. /\ AtType /\ at[p].want \in Settings /\ proven \in Nat /\ \A s : Level(s) \in Nat
  BY TypeParts, LevelType DEF Typed, TypeOK, AtType, Step, TableType
<1>1. /\ UNCHANGED <<settings, proven, gaveUp>>
      /\ \/ /\ at[p].pc = "fallback" /\ fallback' = {at[p].prev} /\ UNCHANGED deadline
            /\ Goto(p, "deadline")
         \/ /\ at[p].pc = "deadline" /\ deadline' = "waiting" /\ UNCHANGED fallback
            /\ Goto(p, "firewall")
  BY DEF Arm, Is, Proceed
<1>2. Onward(p, "deadline") \/ Onward(p, "firewall")
  BY <1>0, <1>1, GoingOn DEF PC
<1>3. \A q \in Process \ {p} : at'[q] = at[q]
  BY <1>2 DEF Onward, Kept
<1>4. CASE p = Job
  <2>1. at'[Owner] = at[Owner] /\ at[Job].then \in {"rollback", "reconcile"}
    BY <1>1, <1>3, <1>4, TwoProcesses DEF TrialInv, TurnInv, Between
  <2>2. TurnInv'
    BY <1>1, <1>2, <1>4, <2>1 DEF TrialInv, TurnInv, Onward, Between
  <2>3. ~TrialParts
    BY <1>1, <1>4, <2>1 DEF TrialParts, ReconcileInv, RollbackInv
  <2>4. QED
    BY <1>1, <2>2, <2>3 DEF TrialInv
<1>5. CASE p = Owner
  <2>1. at'[Job] = at[Job] /\ at[Job].pc = "idle" /\ at[Owner].then = "none"
        /\ at[Job].then \in {"none", "nothing"}
    BY <1>1, <1>3, <1>5, TwoProcesses DEF TrialInv, TurnInv, Between
  <2>2. TurnInv'
    BY <1>1, <1>2, <1>5, <2>1 DEF TrialInv, TurnInv, Onward, Between
  <2>3. ASSUME TrialParts PROVE TrialParts'
    <3>1. ReconcileInv' /\ RollbackInv'
      BY <2>1 DEF ReconcileInv, RollbackInv
    <3>2. /\ settings = Clean(at[Owner].want) /\ deadline = "none"
          /\ Level(at[Owner].prev) < Level(at[Owner].want) /\ Level(at[Owner].prev) <= proven
      BY <1>1, <1>5, <2>1, <2>3 DEF TrialParts, OwnerInv
    <3>3. Level(settings) = Level(at[Owner].want) /\ Clean(settings) = settings
      BY <1>0, <1>5, <3>2, CleanLevel
    <3>4. CleanInv'
      BY <1>1, <3>3 DEF CleanInv
    <3>5. CASE at[p].pc = "fallback"
      <4>1. fallback' = {at[p].prev} /\ UNCHANGED deadline /\ Onward(p, "deadline")
        BY <1>0, <1>1, <3>5, GoingOn DEF PC
      <4>2. FallbackInv'
        BY <1>0, <1>1, <1>5, <3>2, <3>3, <4>1 DEF FallbackInv, Onward
      <4>3. OwnerInv' /\ Answered'
        BY <1>0, <1>1, <1>5, <3>2, <4>1 DEF OwnerInv, Answered, Onward, Prepared
      <4>4. QED
        BY <3>1, <3>4, <4>2, <4>3 DEF TrialParts
    <3>6. CASE at[p].pc = "deadline"
      <4>1. deadline' = "waiting" /\ UNCHANGED fallback /\ Onward(p, "firewall")
        BY <1>0, <1>1, <3>6, GoingOn DEF PC
      <4>2. FallbackInv'
        BY <1>1, <2>3, <4>1 DEF TrialParts, FallbackInv
      <4>3. OwnerInv' /\ Answered'
        BY <1>1, <1>5, <3>2, <4>1 DEF OwnerInv, Answered, Onward, Prepared
      <4>4. QED
        BY <3>1, <3>4, <4>2, <4>3 DEF TrialParts
    <3>7. QED
      BY <1>1, <3>5, <3>6
  <2>4. QED
    BY <1>1, <2>2, <2>3 DEF TrialInv
<1>6. QED
  BY <1>4, <1>5, TwoProcesses

LEMMA TrialDisarms ==
  ASSUME Typed, TrialInv, NEW p \in Process, Disarm(p)
  PROVE  TrialInv'
<1>0. AtType /\ proven \in Nat
  BY TypeParts DEF Typed, TypeOK, TableType
<1>1. UNCHANGED <<settings, fallback, proven, gaveUp>> /\ at[p].pc = "disarm" /\ deadline' = "none"
  BY DEF Disarm, Is
<1>2. Onward(p, "forgive")
  BY <1>0, GoingOn DEF Disarm, Proceed, PC
<1>3. \A q \in Process \ {p} : at'[q] = at[q]
  BY <1>2 DEF Onward, Kept
<1>4. TrialParts => CleanInv' /\ FallbackInv'
  <2>1. TrialParts => CleanInv'
    BY <1>1, <1>2, <1>3 DEF TrialParts, CleanInv, Onward
  <2>2. TrialParts => FallbackInv'
    BY <1>1, <1>2 DEF TrialParts, FallbackInv, Onward
  <2>3. QED
    BY <2>1, <2>2
<1>5. CASE p = Owner
  <2>1. at'[Job] = at[Job] /\ at[Job].pc = "idle" /\ at[Owner].then = "none"
    BY <1>1, <1>3, <1>5, TwoProcesses DEF TrialInv, TurnInv
  <2>2. TurnInv'
    BY <1>1, <1>2, <1>5, <2>1 DEF TrialInv, TurnInv, Onward, Between
  <2>3. ASSUME TrialParts PROVE TrialParts'
    <3>1. deadline = "none"
      BY <1>1, <1>5, <2>1, <2>3 DEF TrialParts, OwnerInv
    <3>2. OwnerInv' /\ Answered'
      BY <1>1, <1>2, <1>5, <2>1, <2>3, <3>1 DEF TrialParts, OwnerInv, Answered, Onward, Prepared, Mixed
    <3>3. ReconcileInv' /\ RollbackInv'
      BY <1>1, <2>1, <2>3, <3>1 DEF TrialParts, ReconcileInv, RollbackInv, Mixed
    <3>4. QED
      BY <1>4, <2>3, <3>2, <3>3 DEF TrialParts
  <2>4. QED
    BY <1>1, <2>2, <2>3 DEF TrialInv
<1>6. CASE p = Job
  <2>1. at'[Owner] = at[Owner] /\ (at[Owner].pc = "idle" \/ at[Owner].then = "confirm")
    BY <1>1, <1>3, <1>6, TwoProcesses DEF TrialInv, TurnInv
  <2>2. TurnInv'
    BY <1>1, <1>2, <1>6, <2>1 DEF TrialInv, TurnInv, Onward, Between
  <2>3. ASSUME TrialParts, ~gaveUp PROVE TrialParts'
    <3>1. OwnerInv'
      BY <2>1 DEF OwnerInv
    <3>2. ReconcileInv' /\ RollbackInv'
      BY <1>1, <1>2, <1>6, <2>3 DEF TrialParts, ReconcileInv, RollbackInv, Mixed, Onward, Prepared
    <3>3. Answered'
      <4>1. CASE at[Job].then \in {"check", "rollback"}
        BY <1>2, <1>6, <4>1 DEF Onward, Answered
      <4>2. CASE at[Job].then = "reconcile"
        <5>1. at[Job].want = settings /\ at[Job].want.mode = "off"
          BY <1>1, <1>6, <2>3, <4>2 DEF TrialParts, ReconcileInv
        <5>2. Level(settings) = 0
          BY <5>1 DEF Level, ClosesPorts
        <5>3. QED
          BY <1>0, <1>1, <5>2 DEF Answered
      <4>3. QED
        BY <1>1, <1>6, <2>3, <4>1, <4>2 DEF TrialInv, TurnInv, Between
    <3>4. QED
      BY <1>4, <2>3, <3>1, <3>2, <3>3 DEF TrialParts
  <2>4. QED
    BY <1>1, <2>2, <2>3 DEF TrialInv
<1>7. QED
  BY <1>5, <1>6, TwoProcesses

LEMMA TrialFirewall ==
  ASSUME Typed, TrialInv, NEW p \in Process, Firewall(p)
  PROVE  TrialInv'
<1> DEFINE ok == faults' = faults
<1>1. at[p].pc = "firewall" /\ Return(p, ok) /\ UNCHANGED table
  BY DEF Firewall, Is
<1>2. ok \in BOOLEAN
  OBVIOUS
<1> HIDE DEF ok
<1>3. QED
  BY <1>1, <1>2, TrialEnds

LEMMA TrialForgives ==
  ASSUME Typed, TrialInv, NEW p \in Process, Forgive(p)
  PROVE  TrialInv'
<1>0. /\ AtType /\ at[p] \in Step /\ at[p].want \in Settings /\ proven \in Nat
      /\ \A s : Level(s) \in Nat
  BY TypeParts, LevelType DEF Typed, TypeOK, AtType, Step, TableType
<1>1. UNCHANGED <<settings, deadline, proven, gaveUp>> /\ at[p].pc = "forgive" /\ fallback' = {}
  BY DEF Forgive, Is
<1>2. FallbackInv'
  BY <1>1 DEF FallbackInv
<1>3. CASE at[p].then = "confirm" /\ at' = [at EXCEPT ![p] = Idle]
  <2>1. Kept(p) /\ at'[p].pc = "idle" /\ at'[p].then = "none"
    <3>1. Idle \in Step /\ Idle.pc = "idle" /\ Idle.then = "none"
      BY IdleType DEF Idle
    <3> HIDE DEF Idle
    <3>2. QED
      BY <1>0, <1>3, <3>1, Moves DEF AtType
  <2>2. p = Owner
    BY <1>3, TwoProcesses DEF TrialInv, TurnInv, Between
  <2>3. at'[Job] = at[Job]
    BY <2>1, <2>2, TwoProcesses DEF Kept
  <2>4. TurnInv'
    BY <1>1, <2>1, <2>2, <2>3 DEF TrialInv, TurnInv
  <2>5. TrialParts => TrialParts'
    <3> SUFFICES ASSUME TrialParts PROVE TrialParts'
      OBVIOUS
    <3>1. OwnerInv' /\ ReconcileInv' /\ RollbackInv' /\ Answered'
      BY <1>1, <2>1, <2>2, <2>3
         DEF TrialParts, OwnerInv, ReconcileInv, RollbackInv, Answered, Mixed
    <3>2. CleanInv'
      BY <1>1, <2>1, <2>2, <2>3, TwoProcesses DEF TrialParts, CleanInv
    <3>3. QED
      BY <1>2, <3>1, <3>2 DEF TrialParts
  <2>6. QED
    BY <1>1, <2>4, <2>5 DEF TrialInv
<1>4. CASE at[p].then = "nothing" /\ Goto(p, "reconcile")
  <2>1. Onward(p, "reconcile")
    BY <1>0, <1>4, GoingOn DEF PC
  <2>2. p = Job /\ gaveUp
    BY <1>1, <1>4, TwoProcesses DEF TrialInv, TurnInv
  <2>3. at'[Owner] = at[Owner]
    BY <2>1, <2>2, TwoProcesses DEF Onward, Kept
  <2>4. TurnInv'
    BY <1>1, <1>4, <2>1, <2>2, <2>3 DEF TrialInv, TurnInv, Onward, Between
  <2>5. QED
    BY <1>1, <2>2, <2>4 DEF TrialInv
<1>5. CASE at[p].then = "check" /\ Call(p, "rollback", at[p].want)
  <2> DEFINE a == [Idle EXCEPT !.pc = "lock", !.then = "rollback", !.want = at[p].want]
  <2>1. a \in Step /\ a.pc = "lock" /\ a.then = "rollback" /\ a.want = at[p].want
    <3>1. Idle \in Step
      BY IdleType
    <3> HIDE DEF Idle
    <3>2. QED
      BY <1>0, <3>1 DEF Step, PC
  <2>2. at' = [at EXCEPT ![p] = a]
    BY <1>5 DEF Call
  <2> HIDE DEF a
  <2>3. Kept(p) /\ at'[p].pc = "lock" /\ at'[p].then = "rollback" /\ at'[p].want = at[p].want
    BY <1>0, <2>1, <2>2, Moves DEF AtType
  <2>4. p = Job
    BY <1>5, TwoProcesses DEF TrialInv, TurnInv
  <2>5. at'[Owner] = at[Owner] /\ (at[Owner].pc = "idle" \/ at[Owner].then = "confirm")
    BY <1>1, <2>3, <2>4, TwoProcesses DEF Kept, TrialInv, TurnInv
  <2>6. TurnInv'
    BY <1>1, <1>5, <2>3, <2>4, <2>5 DEF TrialInv, TurnInv, Between
  <2>7. TrialParts => TrialParts'
    <3> SUFFICES ASSUME TrialParts PROVE TrialParts'
      OBVIOUS
    <3>1. OwnerInv' /\ ReconcileInv' /\ RollbackInv' /\ Answered'
      BY <1>1, <1>5, <2>3, <2>4, <2>5
         DEF TrialParts, OwnerInv, ReconcileInv, RollbackInv, Answered, Mixed, Prepared
    <3>2. CleanInv'
      BY <1>1, <2>3, <2>4, <2>5, TwoProcesses DEF TrialParts, CleanInv
    <3>3. QED
      BY <1>2, <3>1, <3>2 DEF TrialParts
  <2>8. QED
    BY <1>1, <2>6, <2>7 DEF TrialInv
<1>6. CASE at[p].then \notin {"check", "nothing", "confirm"} /\ Goto(p, "save")
  <2>1. Onward(p, "save")
    BY <1>0, <1>6, GoingOn DEF PC
  <2>2. CASE p = Owner
    <3>1. at'[Job] = at[Job] /\ at[Job].pc = "idle" /\ at[Owner].then = "none"
      BY <1>1, <1>6, <2>1, <2>2, TwoProcesses DEF TrialInv, TurnInv, Onward, Kept
    <3>2. TurnInv'
      BY <1>1, <2>1, <2>2, <3>1 DEF TrialInv, TurnInv, Onward
    <3>3. TrialParts => TrialParts'
      <4> SUFFICES ASSUME TrialParts PROVE TrialParts'
        OBVIOUS
      <4>1. OwnerInv' /\ ReconcileInv' /\ RollbackInv' /\ Answered'
        BY <1>1, <2>1, <2>2, <3>1
           DEF TrialParts, OwnerInv, ReconcileInv, RollbackInv, Answered, Mixed, Prepared, Onward
      <4>2. CleanInv'
        BY <1>1, <2>1, <2>2, <3>1, TwoProcesses DEF TrialParts, CleanInv, Onward
      <4>3. QED
        BY <1>2, <4>1, <4>2 DEF TrialParts
    <3>4. QED
      BY <1>1, <3>2, <3>3 DEF TrialInv
  <2>3. CASE p = Job
    <3>1. at'[Owner] = at[Owner] /\ (at[Owner].pc = "idle" \/ at[Owner].then = "confirm")
          /\ at[Job].then \in {"rollback", "reconcile"}
      BY <1>1, <1>6, <2>1, <2>3, TwoProcesses DEF TrialInv, TurnInv, Onward, Kept, Between
    <3>2. TurnInv'
      BY <1>1, <2>1, <2>3, <3>1 DEF TrialInv, TurnInv, Onward, Between
    <3>3. TrialParts => TrialParts'
      <4> SUFFICES ASSUME TrialParts PROVE TrialParts'
        OBVIOUS
      <4>1. OwnerInv' /\ ReconcileInv' /\ RollbackInv' /\ Answered'
        BY <1>1, <2>1, <2>3, <3>1
           DEF TrialParts, OwnerInv, ReconcileInv, RollbackInv, Answered, Mixed, Prepared, Onward
      <4>2. CleanInv'
        BY <1>1, <2>1, <2>3, <3>1, TwoProcesses DEF TrialParts, CleanInv, Onward
      <4>3. QED
        BY <1>2, <4>1, <4>2 DEF TrialParts
    <3>4. QED
      BY <1>1, <3>2, <3>3 DEF TrialInv
  <2>4. QED
    BY <2>2, <2>3, TwoProcesses
<1>7. QED
  BY <1>3, <1>4, <1>5, <1>6, ForgiveIs

LEMMA TrialApplies ==
  ASSUME Typed, Typed', TrialInv, NEW p \in Process, Apply(p)
  PROVE  TrialInv'
BY TrialWorks, TrialBegins, TrialSaveKey, TrialSaved, TrialArms, TrialFirewall, TrialDisarms,
   TrialForgives DEF Apply

-----------------------------------------------------------------------------
(* Steps of the job. *)

\* The job does something else with what it found, and leaves the trial alone.
JobGoes(pc, then) == Kept(Job) /\ at'[Job].pc = pc /\ at'[Job].then = then

LEMMA TrialJobGoes ==
  ASSUME Typed, TrialInv, UNCHANGED table, at[Job].pc \in Between,
         NEW pc \in Between \cup {"lock"}, NEW then, JobGoes(pc, then),
         \/ then = at[Job].then /\ pc # "lock"
         \/ then = "none" /\ pc = "idle"
         \/ then = "reconcile" /\ pc = "lock" /\ (TrialParts => at'[Job].want = settings),
         pc \in {"putBack", "nginx", "compare"} /\ TrialParts => at'[Job].want = settings,
         at[Owner].pc = "idle" \/ at[Owner].then = "confirm"
  PROVE  TrialInv'
<1>1. UNCHANGED <<settings, deadline, fallback, proven, gaveUp>>
  BY DEF table
<1>2. at'[Owner] = at[Owner]
  BY TwoProcesses DEF JobGoes, Kept
<1>3. TurnInv'
  BY <1>1, <1>2 DEF TrialInv, TurnInv, JobGoes, Between
<1>4. TrialParts => TrialParts'
  <2> SUFFICES ASSUME TrialParts PROVE TrialParts'
    OBVIOUS
  <2>0. at[Job].then \in {"none", "nothing"}
    BY DEF TrialInv, TurnInv
  <2>1. OwnerInv' /\ ReconcileInv' /\ RollbackInv' /\ Answered'
    BY <1>1, <1>2, <2>0
       DEF TrialParts, OwnerInv, ReconcileInv, RollbackInv, Answered, Mixed, Prepared, JobGoes, Between
  <2>2. CleanInv' /\ FallbackInv'
    BY <1>1, <1>2, TwoProcesses DEF TrialParts, CleanInv, FallbackInv, JobGoes, Between
  <2>3. QED
    BY <2>1, <2>2 DEF TrialParts
<1>5. QED
  BY <1>1, <1>3, <1>4 DEF TrialInv

LEMMA TrialTicks ==
  ASSUME ~Overlap, Typed, TrialInv, JobStep
  PROVE  TrialInv'
<1>0. /\ AtType /\ TypeOK /\ Job \in Process /\ at[Job] \in Step /\ fallback \subseteq Settings
      /\ settings \in Settings /\ \A s : Level(s) \in Nat
  BY TypeParts, LevelType DEF Typed, AtType, TableType, Process
<1>1. at[Owner].pc = "idle" \/ at[Owner].then = "confirm"
  <2>1. CASE Tick
    BY <2>1 DEF Tick, Is
  <2>2. CASE at[Job].pc # "idle"
    BY <2>2 DEF TrialInv, TurnInv
  <2>3. QED
    BY <2>1, <2>2 DEF JobStep, Expired, OpenUp, Reconcile, PutBack, StartNginx, Compare, Is
<1>2. TrialParts /\ at[Job].pc # "save" => Clean(settings) = settings
  BY <1>1, TwoProcesses DEF TrialParts, CleanInv, TrialInv, TurnInv
<1>3. ASSUME NEW pc \in Between, Goto(Job, pc), UNCHANGED table, at[Job].pc \in Between,
             pc \in {"putBack", "nginx", "compare"} /\ TrialParts => at[Job].want = settings
      PROVE  TrialInv'
  <2>1. Onward(Job, pc)
    <3>1. pc \in PC
      BY <1>3 DEF Between, PC
    <3>2. QED
      BY <1>0, <1>3, <3>1, GoingOn
  <2>2. JobGoes(pc, at[Job].then) /\ at'[Job].want = at[Job].want /\ pc # "lock"
    BY <2>1 DEF Onward, JobGoes, Between
  <2>3. QED
    BY <1>1, <1>3, <2>2, TrialJobGoes
<1>4. ASSUME Done, UNCHANGED table, at[Job].pc \in Between
      PROVE  TrialInv'
  <2>1. Idle \in Step /\ Idle.pc = "idle" /\ Idle.then = "none"
    BY IdleType DEF Idle
  <2> HIDE DEF Idle
  <2>2. JobGoes("idle", "none")
    BY <1>0, <1>4, <2>1, Moves DEF Done, AtType, JobGoes
  <2>3. "idle" \in Between
    BY DEF Between
  <2>4. QED
    BY <1>1, <1>4, <2>2, <2>3, TrialJobGoes
<1>5. ASSUME NEW s \in Settings, Call(Job, "reconcile", s), UNCHANGED table, at[Job].pc \in Between,
             TrialParts => s = settings
      PROVE  TrialInv'
  <2> DEFINE a == [Idle EXCEPT !.pc = "lock", !.then = "reconcile", !.want = s]
  <2>1. a \in Step /\ a.pc = "lock" /\ a.then = "reconcile" /\ a.want = s
    <3>1. Idle \in Step
      BY IdleType
    <3> HIDE DEF Idle
    <3>2. QED
      BY <3>1 DEF Step, PC
  <2>2. at' = [at EXCEPT ![Job] = a]
    BY <1>5 DEF Call
  <2> HIDE DEF a
  <2>3. JobGoes("lock", "reconcile") /\ at'[Job].want = s
    BY <1>0, <2>1, <2>2, Moves DEF AtType, JobGoes
  <2>4. QED
    BY <1>1, <1>5, <2>3, TrialJobGoes
<1>6. CASE Tick
  <2>1. at[Job].pc \in Between /\ UNCHANGED table
    BY <1>6 DEF Tick, Is, Between
  <2>2. CASE Goto(Job, "expired")
    BY <1>3, <2>1, <2>2 DEF Between
  <2>3. CASE Goto(Job, "reconcile")
    BY <1>3, <2>1, <2>3 DEF Between
  <2>4. QED
    BY <1>6, <2>2, <2>3 DEF Tick
<1>7. CASE Expired
  <2> DEFINE want == IF fallback = {} THEN Off ELSE CHOOSE s \in fallback : TRUE
             then == IF fallback = {} THEN "nothing" ELSE "check"
             a == [at[Job] EXCEPT !.pc = "disarm", !.then = then, !.want = want]
  <2>1. want \in Settings
    BY <1>0, OffType
  <2>2. at' = [at EXCEPT ![Job] = a] /\ gaveUp' = (gaveUp \/ fallback = {})
        /\ UNCHANGED <<settings, deadline, fallback, proven>> /\ at[Job].pc = "expired"
    BY <1>7 DEF Expired, Is
  <2>3. then \in {"nothing", "check"}
    OBVIOUS
  <2>4. fallback # {} => then = "check" /\ want \in fallback
    OBVIOUS
  <2>5. fallback = {} => then = "nothing"
    OBVIOUS
  <2> HIDE DEF want, then
  <2>6. a \in Step /\ a.pc = "disarm" /\ a.then = then /\ a.want = want
    BY <1>0, <2>1, <2>3 DEF Step, PC
  <2> HIDE DEF a
  <2>7. Kept(Job) /\ at'[Job] = a
    BY <1>0, <2>2, <2>6, Moves DEF AtType
  <2>8. at'[Owner] = at[Owner]
    BY <2>7, TwoProcesses DEF Kept
  <2>9. TurnInv'
    BY <1>1, <2>2, <2>3, <2>4, <2>6, <2>7, <2>8 DEF TrialInv, TurnInv, Between
  <2>10. ASSUME ~gaveUp' PROVE TrialParts'
    <3>1. TrialParts /\ then = "check" /\ want \in fallback
      BY <2>2, <2>4, <2>10 DEF TrialInv
    <3>2. Level(want) <= proven /\ Level(want) <= Level(settings)
      BY <3>1 DEF TrialParts, FallbackInv
    <3>3. OwnerInv' /\ ReconcileInv' /\ RollbackInv' /\ Answered'
      BY <1>1, <2>2, <2>6, <2>7, <2>8, <3>1, <3>2
         DEF TrialParts, OwnerInv, ReconcileInv, RollbackInv, Answered
    <3>4. CleanInv' /\ FallbackInv'
      BY <2>2, <2>6, <2>7, <2>8, <3>1, TwoProcesses DEF TrialParts, CleanInv, FallbackInv
    <3>5. QED
      BY <3>3, <3>4 DEF TrialParts
  <2>11. QED
    BY <2>9, <2>10 DEF TrialInv
<1>8. CASE OpenUp
  <2>1. gaveUp' = TRUE /\ at[Job].pc = "openUp" /\ Goto(Job, "reconcile")
    BY <1>8 DEF OpenUp, Is
  <2>2. Onward(Job, "reconcile")
    BY <1>0, <2>1, GoingOn DEF PC
  <2>3. at'[Owner] = at[Owner]
    BY <2>2, TwoProcesses DEF Onward, Kept
  <2>4. TurnInv'
    BY <1>1, <2>1, <2>2, <2>3 DEF TrialInv, TurnInv, Onward, Between
  <2>5. QED
    BY <2>1, <2>4 DEF TrialInv
<1>9. CASE Reconcile
  <2>1. at[Job].pc = "reconcile" /\ at[Job].pc \in Between /\ UNCHANGED table
    BY <1>9 DEF Reconcile, Is, Between
  <2>2. CASE at' = [at EXCEPT ![Job].pc = "putBack", ![Job].want = Clean(settings)]
    <3> DEFINE a == [at[Job] EXCEPT !.pc = "putBack", !.want = Clean(settings)]
    <3>1. a \in Step /\ a.pc = "putBack" /\ a.then = at[Job].then /\ a.want = Clean(settings)
      BY <1>0, Cleaned DEF Step, PC
    <3>2. at' = [at EXCEPT ![Job] = a]
      BY <2>2
    <3> HIDE DEF a
    <3>3. JobGoes("putBack", at[Job].then) /\ at'[Job].want = Clean(settings)
      BY <1>0, <3>1, <3>2, Moves DEF AtType, JobGoes
    <3>4. "putBack" \in Between
      BY DEF Between
    <3>5. QED
      BY <1>1, <1>2, <2>1, <3>3, <3>4, TrialJobGoes
  <2>3. CASE Call(Job, "reconcile", Clean(settings))
    BY <1>0, <1>2, <1>5, <2>1, <2>3, Cleaned
  <2>4. CASE Done
    BY <1>4, <2>1, <2>4
  <2>5. QED
    BY <1>9, <2>2, <2>3, <2>4 DEF Reconcile
<1>10. CASE PutBack
  BY <1>3, <1>10 DEF PutBack, Is, Between, TrialParts, ReconcileInv
<1>11. CASE StartNginx
  <2>1. at[Job].pc = "nginx" /\ UNCHANGED table
    BY <1>11 DEF StartNginx, Is
  <2>2. Goto(Job, "compare") \/ Done
    BY <1>11 DEF StartNginx, PauseOr
  <2>3. QED
    BY <1>3, <1>4, <2>1, <2>2 DEF Between, TrialParts, ReconcileInv
<1>12. CASE Compare
  <2>1. at[Job].pc = "compare" /\ UNCHANGED table
    BY <1>12 DEF Compare, Is
  <2>2. Call(Job, "reconcile", at[Job].want) \/ Done
    BY <1>12 DEF Compare, PauseOr
  <2>3. QED
    BY <1>0, <1>4, <1>5, <2>1, <2>2 DEF Between, TrialParts, ReconcileInv, Step
<1>13. QED
  BY <1>6, <1>7, <1>8, <1>9, <1>10, <1>11, <1>12 DEF JobStep

-----------------------------------------------------------------------------
(* Steps beside. *)

LEMMA TrialBeside ==
  ASSUME ~Overlap, Patient, CrashAt \subseteq Between, Typed, TrialInv,
         \/ \E s \in Wanted : Request(s)
         \/ \E i \in Inbound : Toggle(i)
         \/ Confirm \/ XrayJobs \/ DeadlinePasses \/ RulesLost \/ NginxStops \/ Crash
         \/ UNCHANGED vars
  PROVE  TrialInv'
<1>0. /\ AtType /\ TypeOK /\ Owner \in Process /\ settings \in Settings /\ proven \in Nat
      /\ \A s : Level(s) \in Nat
  BY TypeParts, LevelType DEF Typed, TableType, Process
<1>1. ASSUME NEW s \in Wanted, Request(s)
      PROVE  TrialInv'
  <2> DEFINE a == [Idle EXCEPT !.pc = "lock", !.then = "none", !.want = s]
  <2>1. a \in Step /\ a.pc = "lock" /\ a.then = "none"
    <3>1. Idle \in Step /\ s \in Settings
      BY IdleType, WantedAssumption
    <3> HIDE DEF Idle
    <3>2. QED
      BY <3>1 DEF Step, PC
  <2>2. /\ at' = [at EXCEPT ![Owner] = a] /\ deadline = "none" /\ at[Job].pc = "idle"
        /\ at[Owner].pc = "idle" /\ UNCHANGED <<settings, deadline, fallback, proven, gaveUp>>
    BY <1>1 DEF Request, Call, table, Is
  <2> HIDE DEF a
  <2>3. Kept(Owner) /\ at'[Owner].pc = "lock" /\ at'[Owner].then = "none"
    BY <1>0, <2>1, <2>2, Moves DEF AtType
  <2>4. at'[Job] = at[Job]
    BY <2>3, TwoProcesses DEF Kept
  <2>5. TurnInv'
    BY <2>2, <2>3, <2>4 DEF TrialInv, TurnInv
  <2>6. TrialParts => TrialParts'
    <3> SUFFICES ASSUME TrialParts PROVE TrialParts'
      OBVIOUS
    <3>1. fallback = {}
      BY <2>2, TwoProcesses DEF TrialParts, FallbackInv
    <3>2. OwnerInv' /\ ReconcileInv' /\ RollbackInv' /\ Answered'
      BY <2>2, <2>3, <2>4, <3>1
         DEF TrialParts, OwnerInv, ReconcileInv, RollbackInv, Answered, Mixed, Prepared
    <3>3. CleanInv' /\ FallbackInv'
      BY <2>2, <2>3, <2>4, <3>1, TwoProcesses DEF TrialParts, CleanInv, FallbackInv
    <3>4. QED
      BY <3>2, <3>3 DEF TrialParts
  <2>7. QED
    BY <2>2, <2>5, <2>6 DEF TrialInv
<1>2. CASE Confirm
  <2>1. /\ at[Owner].pc = "idle" /\ deadline # "none" /\ deadline' = "none"
        /\ proven' = Level(Clean(settings)) /\ UNCHANGED <<settings, fallback, gaveUp>>
    BY <1>2 DEF Confirm, Is
  <2>2. Kept(Owner) /\ at'[Owner].pc = "forgive" /\ at'[Owner].then = "confirm"
    BY <1>0, <1>2, ConfirmMoves
  <2>3. at'[Job] = at[Job] /\ proven' = Level(settings)
    BY <1>0, <2>1, <2>2, CleanLevel, TwoProcesses DEF Kept
  <2>4. TurnInv'
    BY <2>1, <2>2, <2>3 DEF TrialInv, TurnInv
  <2>5. TrialParts => TrialParts'
    <3> SUFFICES ASSUME TrialParts PROVE TrialParts'
      OBVIOUS
    <3>1. OwnerInv' /\ ReconcileInv' /\ RollbackInv' /\ Answered'
      BY <1>0, <2>1, <2>2, <2>3
         DEF TrialParts, OwnerInv, ReconcileInv, RollbackInv, Answered, Mixed
    <3>2. CleanInv'
      BY <2>1, <2>2, <2>3, TwoProcesses DEF TrialParts, CleanInv
    <3>3. FallbackInv'
      BY <1>0, <2>1, <2>2, <2>3 DEF TrialParts, FallbackInv
    <3>4. QED
      BY <3>1, <3>2, <3>3 DEF TrialParts
  <2>6. QED
    BY <2>1, <2>4, <2>5 DEF TrialInv
<1>3. CASE DeadlinePasses
  <2>1. /\ deadline = "waiting" /\ deadline' = "over" /\ UNCHANGED <<settings, fallback, proven, gaveUp, at>>
        /\ at[Owner].pc # "firewall"
    BY <1>0, <1>3 DEF DeadlinePasses, Is
  <2>2. TurnInv'
    BY <2>1 DEF TrialInv, TurnInv
  <2>3. TrialParts => TrialParts'
    BY <2>1 DEF TrialParts, OwnerInv, ReconcileInv, RollbackInv, CleanInv, FallbackInv, Answered, Mixed
  <2>4. QED
    BY <2>1, <2>2, <2>3 DEF TrialInv
<1>4. CASE Crash
  <2>1. /\ at[Owner].pc \in Between /\ at[Job].pc \in Between /\ at' = [p \in Process |-> Idle]
        /\ UNCHANGED <<settings, deadline, fallback, proven, gaveUp>>
    BY <1>4, TwoProcesses DEF Crash, table
  <2>2. \A p \in Process : at'[p].pc = "idle" /\ at'[p].then = "none"
    BY <2>1, IdleType DEF Idle
  <2>3. at'[Owner].pc = "idle" /\ at'[Owner].then = "none" /\ at'[Job].pc = "idle" /\ at'[Job].then = "none"
    BY <2>2, TwoProcesses
  <2>4. TurnInv'
    BY <2>3 DEF TurnInv, Between
  <2>5. TrialParts => TrialParts'
    <3> SUFFICES ASSUME TrialParts PROVE TrialParts'
      OBVIOUS
    <3>1. OwnerInv' /\ ReconcileInv' /\ RollbackInv'
      BY <2>3 DEF OwnerInv, ReconcileInv, RollbackInv
    <3>2. Answered'
      BY <2>1 DEF TrialParts, Answered, TrialInv, TurnInv, Between
    <3>3. CleanInv' /\ FallbackInv'
      BY <2>1, TwoProcesses DEF TrialParts, CleanInv, FallbackInv, Between
    <3>4. QED
      BY <3>1, <3>2, <3>3 DEF TrialParts
  <2>6. QED
    BY <2>1, <2>4, <2>5 DEF TrialInv
<1>5. CASE UNCHANGED <<table, at>>
  BY <1>5 DEF table, TrialInv, TurnInv, TrialParts, OwnerInv, ReconcileInv, RollbackInv, CleanInv,
     FallbackInv, Answered, Mixed
<1>6. QED
  BY <1>1, <1>2, <1>3, <1>4, <1>5 DEF Toggle, XrayJobs, RulesLost, NginxStops, vars

LEMMA TrialStart == Init => TrialInv
<1> SUFFICES ASSUME Init PROVE TrialInv
  OBVIOUS
<1>1. \A p \in Process : at[p].pc = "idle" /\ at[p].then = "none"
  BY IdleType DEF Init, Idle
<1>2. at[Owner].pc = "idle" /\ at[Owner].then = "none" /\ at[Job].pc = "idle" /\ at[Job].then = "none"
  BY <1>1, TwoProcesses
<1>3. TurnInv
  BY <1>2 DEF TurnInv, Between
<1>4. OwnerInv /\ ReconcileInv /\ RollbackInv
  BY <1>2 DEF OwnerInv, ReconcileInv, RollbackInv
<1>5. Clean(settings) = settings /\ Level(settings) = 0
  BY WantedAssumption DEF Init, Off, Clean, Level, ClosesPorts
<1>6. CleanInv /\ FallbackInv /\ Answered
  BY <1>5 DEF Init, CleanInv, FallbackInv, Answered
<1>7. QED
  BY <1>3, <1>4, <1>6 DEF TrialInv, TrialParts

LEMMA TrialNext ==
  ASSUME ~Overlap, Patient, CrashAt \subseteq Between, Typed, Typed', TrialInv, [Next]_vars
  PROVE  TrialInv'
BY TrialApplies, TrialTicks, TrialBeside DEF Next

\* Where the firewall is written, what it is to close is answered for.
LEMMA ClosingStep ==
  ASSUME Typed, TrialInv, [Next]_vars, fw' > fw
  PROVE  \/ deadline # "none" \/ proven >= fw' \/ gaveUp
         \/ at[Job].then \in {"check", "rollback"} \/ Is(Job, "openUp")
<1>0. /\ AtType /\ WallType /\ settings \in Settings /\ \A p \in Process : at[p].want \in Settings
      /\ \A s : Level(s) \in Nat
  BY TypeParts, LevelType DEF Typed, AtType, TableType, Step
<1> SUFFICES ASSUME ~gaveUp, deadline = "none", at[Job].then \notin {"check", "rollback"},
                    at[Job].pc # "openUp"
             PROVE  proven >= fw'
  BY DEF Is
<1>1. TrialParts
  BY DEF TrialInv
<1>2. ASSUME NEW s, Rebuild(s)
      PROVE  fw' = Level(s)
  BY <1>0, <1>2 DEF Rebuild, WallType
<1>3. ASSUME at[Owner].pc \notin {"save", "fallback", "deadline"}
      PROVE  Level(settings) <= proven
  BY <1>1, <1>3 DEF TrialParts, Answered
<1>4. ASSUME NEW p \in Process, Firewall(p)
      PROVE  proven >= fw'
  <2>1. at[p].pc = "firewall" /\ fw' = Level(at[p].want)
    BY <1>2, <1>4 DEF Firewall, Is
  <2>2. CASE p = Owner
    <3>1. settings = Clean(at[p].want)
      BY <1>1, <2>1, <2>2 DEF TrialParts, OwnerInv, TrialInv, TurnInv
    <3>2. Level(settings) = Level(at[p].want)
      BY <1>0, <3>1, CleanLevel
    <3>3. QED
      BY <1>3, <2>1, <2>2, <3>2
  <2>3. CASE p = Job
    <3>1. at[p].want = settings /\ at[Owner].pc \notin {"save", "fallback", "deadline"}
      BY <1>1, <2>1, <2>3 DEF TrialParts, ReconcileInv, TrialInv, TurnInv, Between
    <3>2. QED
      BY <1>3, <2>1, <3>1
  <2>4. QED
    BY <2>2, <2>3, TwoProcesses
<1>5. ASSUME PutBack
      PROVE  proven >= fw'
  <2>1. at[Job].pc = "putBack" /\ Rebuild(at[Job].want)
    BY <1>0, <1>5 DEF PutBack, Is, wall, WallType
  <2>2. at[Job].want = settings /\ at[Owner].pc \notin {"save", "fallback", "deadline"}
    BY <1>1, <2>1 DEF TrialParts, ReconcileInv, TrialInv, TurnInv
  <2>3. QED
    BY <1>2, <1>3, <2>1, <2>2
<1>6. ASSUME UNCHANGED fw \/ OpenPorts
      PROVE  FALSE
  BY <1>0, <1>6 DEF OpenPorts, WallType
<1>7. QED
  <2>1. ASSUME NEW p \in Process, Apply(p), ~Firewall(p)
        PROVE  UNCHANGED fw \/ OpenPorts
    BY <2>1 DEF Apply, Begin, Stage, ListRoutes, Move, SaveSnapshots, RestartXray, Activate, SaveKey,
       Saved, Arm, OpenFirst, Remove, Restore, Forget, StartAgain, Undo, RestartDown, Disarm, Forgive,
       wall
  <2>2. ASSUME JobStep, ~PutBack
        PROVE  UNCHANGED fw \/ OpenPorts
    BY <2>2 DEF JobStep, Tick, Expired, OpenUp, Reconcile, StartNginx, Compare, wall
  <2>3. ASSUME \/ \E s \in Wanted : Request(s)
               \/ \E i \in Inbound : Toggle(i)
               \/ Confirm \/ XrayJobs \/ DeadlinePasses \/ RulesLost \/ NginxStops \/ Crash
               \/ UNCHANGED vars
        PROVE  UNCHANGED fw \/ OpenPorts
    BY <2>3 DEF Request, Toggle, Confirm, XrayJobs, DeadlinePasses, RulesLost, NginxStops, Crash, wall, vars
  <2>4. QED
    BY <1>4, <1>5, <1>6, <2>1, <2>2, <2>3 DEF Next

\* No port is closed but on trial: as long as the owner waits for a trial to end
\* and for the job's tick to pass, and the panel stops only between applies, it
\* takes a word of the owner's, or a deadline, to close more than was closed.
THEOREM PortsClosedOnTrial ==
  ASSUME ~Overlap, Patient, CrashAt \subseteq Between
  PROVE  Spec => ClosedOnTrial
<1>1. Typed /\ TrialInv /\ [Next]_vars => (Typed /\ TrialInv)'
  BY TypedNext, TrialNext
<1>2. Typed /\ TrialInv /\ [Next]_vars =>
        [fw' > fw => \/ deadline # "none" \/ proven >= fw' \/ gaveUp
                     \/ at[Job].then \in {"check", "rollback"} \/ Is(Job, "openUp")]_vars
  BY ClosingStep
<1>3. Init => Typed /\ TrialInv
  BY TypedInit, TrialStart
<1>4. QED
  BY <1>1, <1>2, <1>3, PTL DEF Spec, ClosedOnTrial
=============================================================================
