----------------------------- MODULE NginxFront -----------------------------
(***************************************************************************)
(* nginx in front of port 443 (web/service/nginx_apply.go,                 *)
(* nginx_confirm.go): Apply moves the inbounds onto the loopback and hands *)
(* the public port to nginx, a job reconciles every half minute and rolls  *)
(* back what nobody confirmed.  The owner's request and the job are two    *)
(* processes: applyMu serialises their calls of Apply and nothing else.    *)
(***************************************************************************)
EXTENDS Integers, FiniteSets

CONSTANTS
  Inbound,      \* inbounds nginx can route by server name
  OnPublic,     \* those the owner created on the public port
  Wanted,       \* settings the owner applies
  FirstMode,    \* "off", or "shared" on a fresh install
  Fails,        \* steps that may fail: stage, move, xray, activate, firewall
  CrashAt,      \* where the processes may be when the panel stops
  Overlap,      \* the owner's applies and the job's ticks may overlap
  Patient,      \* the owner applies nothing while a confirmation is awaited
  MaxPause,     \* bound of the reconciler's back-off
  MaxApplies, MaxEdits, MaxFaults   \* bounds: applies, edits, failures

Mode == {"off", "shared", "only443"}
Settings == [mode : Mode, panel : BOOLEAN, firewall : BOOLEAN]
Off == [mode |-> "off", panel |-> FALSE, firewall |-> FALSE]

ASSUME InboundsAssumption == IsFiniteSet(Inbound) /\ OnPublic \subseteq Inbound
ASSUME WantedAssumption == Wanted \subseteq Settings /\ FirstMode \in Mode
ASSUME OrderAssumption == {Overlap, Patient} \subseteq BOOLEAN
ASSUME FrontBoundsAssumption == {MaxPause, MaxApplies, MaxEdits, MaxFaults} \subseteq Nat

Place == {"home", "loop"}     \* an inbound's own address, or the loopback
Owner == "owner"
Job == "job"
Process == {Owner, Job}

VARIABLES
  settings,     \* nginxMode, nginxPanelBehind443, nginxManageFirewall
  deadline,     \* nginxConfirmDeadline: none, waiting, or over
  fallback,     \* nginxConfirmFallback: a set of at most one Settings
  place,        \* where each inbound listens, in the table
  enabled,      \* which inbounds are on
  snapshots,    \* nginxRelocated: where inbounds listened before
  conf,         \* the panel's nginx configuration on disk
  live,         \* the one nginx serves
  running,      \* nginx is up
  xray,         \* what Xray serves: pairs of inbound and place
  restart,      \* Xray is to be restarted for an edited inbound
  fw,           \* what the firewall drops: see Level
  hooked,       \* the panel's chain is in the INPUT path
  lock,         \* applyMu
  at,           \* what each process is doing
  skip,         \* ticks the reconciler still lets pass
  proven,       \* history: the level the owner has given their word for
  gaveUp,       \* history: the job could not go back to anything, or failed to
  applies, edits, faults

table == <<settings, deadline, fallback, proven, gaveUp>>
inboundVars == <<place, snapshots>>
nginxVars == <<conf, live, running>>
wall == <<fw, hooked>>
outside == <<enabled, restart, applies, edits>>
vars == <<table, inboundVars, nginxVars, xray, wall, lock, at, skip, outside, faults>>

-----------------------------------------------------------------------------
(* Settings. *)

\* What is stored is not always what is read: only only443 closes ports.
Clean(s) == [mode |-> s.mode,
             panel |-> s.panel /\ s.mode = "only443",
             firewall |-> s.firewall /\ s.mode = "only443"]

ClosesPorts(s) == s.mode = "only443" /\ s.firewall

\* 0: nothing is dropped.  1: all but 443, ssh and the panel's own port.
\* 2: the panel's port too; it is published behind 443.
Level(s) == IF ~ClosesPorts(s) THEN 0 ELSE IF s.panel THEN 2 ELSE 1

\* Seeded bug: the panel's own port going away is not worth a question.
ArmsOnFirewall(from, to) == ClosesPorts(to) /\ ~ClosesPorts(from)

ArmsConfirmation(from, to) ==
  ClosesPorts(to) /\ (~ClosesPorts(from) \/ (to.panel /\ ~from.panel))

-----------------------------------------------------------------------------
(* Routes and the generated configuration. *)

\* An inbound created on the public port gives it up; the snapshot decides.
GaveUpPublicPort(i) ==
  i \in OnPublic /\ (i \in DOMAIN snapshots => snapshots[i] = "home")

\* A dual inbound keeps its own port and is published on 443 as well.
Dual(i, s) == s.mode # "only443" /\ ~GaveUpPublicPort(i)

NoConfig == [on |-> FALSE, panel |-> FALSE, routes |-> {}]
BuildConfig(s) ==
  IF s.mode = "off" THEN NoConfig
  ELSE [on |-> TRUE, panel |-> s.panel /\ s.mode = "only443",
        routes |-> {<<i, IF Dual(i, s) THEN place[i] ELSE "loop">> : i \in enabled}]

\* relocateInbounds as a dry run
NeedsMove(s) ==
  \E i \in enabled : IF Dual(i, s) THEN i \in DOMAIN snapshots ELSE place[i] = "home"

Without(f, i) == [j \in DOMAIN f \ {i} |-> f[j]]
With(f, i, x) == [j \in DOMAIN f \cup {i} |-> IF j = i THEN x ELSE f[j]]
Nowhere == [i \in {} |-> "home"]

\* What a start of Xray leads to: it dies if nginx holds the port it wants.
Started ==
  IF live.on /\ \E i \in OnPublic \cap enabled : place[i] = "home" THEN {}
  ELSE {<<i, place[i]>> : i \in enabled}
PublicPortFree == \A i \in OnPublic : <<i, "home">> \notin xray

-----------------------------------------------------------------------------
(* Processes. *)

Idle == [pc |-> "idle", then |-> "none", want |-> Off, prev |-> Off,
         undo |-> {}, todo |-> {}, snaps |-> Nowhere]
Is(p, pc) == at[p].pc = pc
Goto(p, pc) == at' = [at EXCEPT ![p].pc = pc]
Call(p, then, s) == at' = [at EXCEPT ![p] = [Idle EXCEPT !.pc = "lock", !.then = then, !.want = s]]
MayFail(step) == step \in Fails /\ faults < MaxFaults /\ faults' = faults + 1
Works == UNCHANGED faults

\* Apply returns, and the job goes on with what called it.
Return(p, ok) ==
  /\ lock' = "none"
  /\ CASE at[p].then = "rollback" ->
            /\ at' = [at EXCEPT ![p] = [Idle EXCEPT !.pc = IF ok THEN "reconcile" ELSE "openUp"]]
            /\ UNCHANGED skip
       [] at[p].then = "reconcile" /\ at[p].want.mode # "off" ->
            /\ at' = [at EXCEPT ![p] = Idle]
            /\ IF ok THEN skip' = 0 ELSE skip' \in 1..MaxPause
       [] OTHER -> at' = [at EXCEPT ![p] = Idle] /\ UNCHANGED skip

Proceed(p, pc) == Goto(p, pc) /\ UNCHANGED <<lock, skip>>

\* Seeded bug: the files of before, and no reload.
RollbackFiles(p) ==
  \A old \in at[p].undo : conf' = old /\ UNCHANGED <<live, running>>

\* Staged.Rollback: the files of before, and nginx back on them if it can be.
\* undo is empty once the files are back.
RollbackStaged(p) ==
  \A old \in at[p].undo :
    /\ conf' = old
    /\ IF old.on /\ ~PublicPortFree THEN UNCHANGED <<live, running>>
       ELSE live' = old /\ running' = TRUE

-----------------------------------------------------------------------------
(* Apply, the way up. *)

Begin(p) ==
  /\ Is(p, "lock") /\ lock = "none"
  /\ lock' = p
  /\ at' = [at EXCEPT ![p].prev = Clean(settings),
                      ![p].pc = IF at[p].want.mode = "off" THEN "open" ELSE "stage"]
  /\ UNCHANGED <<table, inboundVars, nginxVars, xray, wall, skip, outside, faults>>

Stage(p) ==
  /\ Is(p, "stage")
  /\ \/ /\ Works
        /\ conf' = BuildConfig(at[p].want)
        /\ at' = [at EXCEPT ![p].undo = {conf}, ![p].pc = "routes"]
        /\ UNCHANGED <<lock, skip>>
     \/ /\ MayFail("stage") /\ Return(p, FALSE)
        /\ UNCHANGED conf
  /\ UNCHANGED <<table, inboundVars, live, running, xray, wall, outside>>

\* relocateInbounds lists the routes again: there may be none by now.
ListRoutes(p) ==
  /\ Is(p, "routes")
  /\ IF enabled = {} THEN RollbackStaged(p) /\ Return(p, FALSE)
     ELSE /\ at' = [at EXCEPT ![p].pc = "move", ![p].todo = enabled, ![p].snaps = snapshots]
          /\ UNCHANGED <<nginxVars, lock, skip>>
  /\ UNCHANGED <<table, inboundVars, xray, wall, outside, faults>>

\* Seeded bug: every apply records where inbounds listen now.
RememberAlways(i, snaps) == With(snaps, i, place[i])

\* An inbound moved once still remembers the address it started on.
Remember(i, snaps) == IF i \in DOMAIN snaps THEN snaps ELSE With(snaps, i, place[i])

Move(p) ==
  /\ Is(p, "move") /\ at[p].todo # {}
  /\ \/ /\ Works
        /\ \E i \in at[p].todo :
             LET snaps == at[p].snaps
                 dual == Dual(i, at[p].want)
             IN  /\ place' = [place EXCEPT ![i] =
                                IF ~dual THEN "loop" ELSE IF i \in DOMAIN snaps THEN snaps[i] ELSE @]
                 /\ at' = [at EXCEPT ![p].todo = @ \ {i},
                             ![p].snaps = IF dual THEN Without(@, i) ELSE Remember(i, @)]
        /\ UNCHANGED <<nginxVars, lock, skip>>
     \/ /\ MayFail("move") /\ RollbackStaged(p) /\ Return(p, FALSE)
        /\ UNCHANGED place
  /\ UNCHANGED <<table, snapshots, xray, wall, outside>>

SaveSnapshots(p) ==
  /\ Is(p, "move") /\ at[p].todo = {}
  /\ snapshots' = at[p].snaps
  /\ Proceed(p, "xray")
  /\ UNCHANGED <<table, place, nginxVars, xray, wall, outside, faults>>

RestartXray(p) ==
  /\ Is(p, "xray")
  /\ \/ Works /\ xray' = Started /\ Proceed(p, "activate")
     \/ MayFail("xray") /\ xray' = {} /\ Proceed(p, "restore")
  /\ UNCHANGED <<table, inboundVars, nginxVars, wall, outside>>

\* Reload, and a look at the ports: nothing else may hold 443.
Activate(p) ==
  /\ Is(p, "activate")
  /\ \/ /\ Works /\ PublicPortFree
        /\ live' = conf /\ running' = TRUE /\ UNCHANGED conf
        /\ Proceed(p, "save")
     \/ /\ MayFail("activate") \/ (Works /\ ~PublicPortFree)
        /\ RollbackStaged(p)
        /\ at' = [at EXCEPT ![p].pc = "restore", ![p].undo = {}]
        /\ UNCHANGED <<lock, skip>>
  /\ UNCHANGED <<table, inboundVars, xray, wall, outside>>

\* SaveSettings: key after key, in no order.
SaveKey(p) ==
  LET goal == Clean(at[p].want)
  IN  /\ Is(p, "save")
      /\ \E k \in {"mode", "panel", "firewall"} :
           /\ settings[k] # goal[k]
           /\ settings' = [settings EXCEPT ![k] = goal[k]]
      /\ proven' = IF Level(Clean(settings')) < proven THEN Level(Clean(settings')) ELSE proven
      /\ UNCHANGED <<deadline, fallback, gaveUp, inboundVars, nginxVars, xray, wall, lock, at, skip, outside, faults>>

Saved(p) ==
  LET a == at[p]
  IN  /\ Is(p, "save") /\ settings = Clean(a.want)
      /\ IF a.want.mode = "off" THEN Return(p, TRUE)
         ELSE Proceed(p, IF ArmsConfirmation(a.prev, a.want) THEN "fallback" ELSE "firewall")
      /\ UNCHANGED <<table, inboundVars, nginxVars, xray, wall, outside, faults>>

\* Seeded bug: a trial that begins during another keeps both ways back.
ArmAgain(p) ==
  /\ \/ /\ Is(p, "fallback") /\ fallback' = fallback \cup {at[p].prev}
        /\ UNCHANGED deadline /\ Proceed(p, "deadline")
     \/ Is(p, "deadline") /\ deadline' = "waiting" /\ UNCHANGED fallback /\ Proceed(p, "firewall")
  /\ UNCHANGED <<settings, proven, gaveUp, inboundVars, nginxVars, xray, wall, outside, faults>>

\* armConfirmation: where to go back to, then until when.
Arm(p) ==
  /\ \/ Is(p, "fallback") /\ fallback' = {at[p].prev} /\ UNCHANGED deadline /\ Proceed(p, "deadline")
     \/ Is(p, "deadline") /\ deadline' = "waiting" /\ UNCHANGED fallback /\ Proceed(p, "firewall")
  /\ UNCHANGED <<settings, proven, gaveUp, inboundVars, nginxVars, xray, wall, outside, faults>>

\* applyFirewall: the chain is rebuilt, or left as it was, or hooked and empty.
Rebuild(s) ==
  \/ Works /\ fw' = Level(s) /\ hooked' = (Level(s) > 0)
  \/ Level(s) > 0 /\ MayFail("firewall") /\ fw' \in {0, fw} /\ UNCHANGED hooked

Firewall(p) ==
  /\ Is(p, "firewall")
  /\ Rebuild(at[p].want)
  /\ Return(p, faults' = faults)
  /\ UNCHANGED <<table, inboundVars, nginxVars, xray, outside>>

-----------------------------------------------------------------------------
(* Apply, the way down: disable, and what a failed apply puts back. *)

OpenPorts == fw' = 0 /\ hooked' = FALSE

OpenFirst(p) ==
  /\ Is(p, "open") /\ OpenPorts
  /\ Proceed(p, "remove")
  /\ UNCHANGED <<table, inboundVars, nginxVars, xray, outside, faults>>

Remove(p) ==
  /\ Is(p, "remove")
  /\ \/ Works /\ conf' = NoConfig /\ live' = NoConfig /\ running' = TRUE /\ Proceed(p, "restore")
     \/ MayFail("activate") /\ UNCHANGED nginxVars /\ Return(p, FALSE)
  /\ UNCHANGED <<table, inboundVars, xray, wall, outside>>

\* restoreInbounds puts back every inbound that has a snapshot.
Restore(p) ==
  /\ Is(p, "restore")
  /\ place' = [i \in Inbound |-> IF i \in DOMAIN snapshots THEN snapshots[i] ELSE place[i]]
  /\ Proceed(p, "forget")
  /\ UNCHANGED <<table, snapshots, nginxVars, xray, wall, outside, faults>>

Forget(p) ==
  /\ Is(p, "forget")
  /\ snapshots' = Nowhere
  /\ Proceed(p, IF at[p].want.mode = "off" THEN "restart" ELSE "again")
  /\ UNCHANGED <<table, place, nginxVars, xray, wall, outside, faults>>

\* After a failed apply: Xray again, then the files if they are not yet back.
StartAgain(p) ==
  /\ Is(p, "again")
  /\ xray' = Started
  /\ Proceed(p, "undo")
  /\ UNCHANGED <<table, inboundVars, nginxVars, wall, outside, faults>>

Undo(p) ==
  /\ Is(p, "undo")
  /\ IF at[p].undo = {} THEN UNCHANGED nginxVars ELSE RollbackStaged(p)
  /\ Return(p, FALSE)
  /\ UNCHANGED <<table, inboundVars, xray, wall, outside, faults>>

RestartDown(p) ==
  /\ Is(p, "restart")
  /\ \/ Works /\ xray' = Started /\ Proceed(p, "disarm")
     \/ MayFail("xray") /\ xray' = {} /\ Return(p, FALSE)
  /\ UNCHANGED <<table, inboundVars, nginxVars, wall, outside>>

\* clearConfirmation, in disable, in Confirm or in the job's check.
Disarm(p) ==
  /\ Is(p, "disarm")
  /\ deadline' = "none"
  /\ Proceed(p, "forgive")
  /\ UNCHANGED <<settings, fallback, proven, gaveUp, inboundVars, nginxVars, xray, wall, outside, faults>>

Forgive(p) ==
  /\ Is(p, "forgive")
  /\ fallback' = {}
  /\ CASE at[p].then = "check" -> Call(p, "rollback", at[p].want)
       [] at[p].then = "nothing" -> Goto(p, "reconcile")
       [] at[p].then = "confirm" -> at' = [at EXCEPT ![p] = Idle]
       [] OTHER -> Goto(p, "save")
  /\ UNCHANGED <<settings, deadline, proven, gaveUp, inboundVars, nginxVars, xray, wall, lock, skip, outside, faults>>

Apply(p) ==
  \/ Begin(p) \/ Stage(p) \/ ListRoutes(p) \/ Move(p) \/ SaveSnapshots(p) \/ RestartXray(p)
  \/ Activate(p) \/ SaveKey(p) \/ Saved(p) \/ Arm(p) \/ Firewall(p)
  \/ OpenFirst(p) \/ Remove(p) \/ Restore(p) \/ Forget(p) \/ StartAgain(p) \/ Undo(p) \/ RestartDown(p)
  \/ Disarm(p) \/ Forgive(p)

-----------------------------------------------------------------------------
(* The job. *)

\* A tick: CheckConfirmation looks at the deadline ...
Tick ==
  /\ Is(Job, "idle") /\ (Overlap \/ Is(Owner, "idle") \/ at[Owner].then = "confirm")
  /\ Goto(Job, IF deadline = "over" THEN "expired" ELSE "reconcile")
  /\ UNCHANGED <<table, inboundVars, nginxVars, xray, wall, lock, skip, outside, faults>>

\* ... and then at where to go back to.
Expired ==
  /\ Is(Job, "expired")
  /\ at' = [at EXCEPT ![Job].pc = "disarm",
              ![Job].then = IF fallback = {} THEN "nothing" ELSE "check",
              ![Job].want = IF fallback = {} THEN Off ELSE CHOOSE s \in fallback : TRUE]
  /\ gaveUp' = (gaveUp \/ fallback = {})
  /\ UNCHANGED <<settings, deadline, fallback, proven, inboundVars, nginxVars, xray, wall, lock, skip, outside, faults>>

\* The rollback failed: at least the ports are opened.
OpenUp ==
  /\ Is(Job, "openUp") /\ OpenPorts
  /\ Goto(Job, "reconcile")
  /\ gaveUp' = TRUE
  /\ UNCHANGED <<settings, deadline, fallback, proven, inboundVars, nginxVars, xray, lock, skip, outside, faults>>

Done == at' = [at EXCEPT ![Job] = Idle]

\* Reconcile reads the settings, and takes the lock only if it calls Apply.
Reconcile ==
  /\ Is(Job, "reconcile")
  /\ LET set == Clean(settings)
     IN  IF set.mode # "off" THEN at' = [at EXCEPT ![Job].pc = "putBack", ![Job].want = set] /\ UNCHANGED skip
         ELSE /\ skip' = 0
              /\ IF conf # NoConfig THEN Call(Job, "reconcile", set) ELSE Done
  /\ UNCHANGED <<table, inboundVars, nginxVars, xray, wall, lock, outside, faults>>

\* Netfilter rules do not survive a reboot.
PutBack ==
  /\ Is(Job, "putBack")
  /\ IF ClosesPorts(at[Job].want) /\ ~hooked THEN Rebuild(at[Job].want) ELSE UNCHANGED <<wall, faults>>
  /\ Goto(Job, "nginx")
  /\ UNCHANGED <<table, inboundVars, nginxVars, xray, lock, skip, outside>>

\* Seeded bug: the back-off is never counted down.
PauseForEver(work) ==
  IF skip > 0 THEN Done /\ UNCHANGED <<nginxVars, skip, faults>> ELSE work

\* Backing off: a tick passes without work.
PauseOr(work) ==
  IF skip > 0 THEN skip' = skip - 1 /\ Done /\ UNCHANGED <<nginxVars, faults>> ELSE work

StartNginx ==
  /\ Is(Job, "nginx")
  /\ IF running \/ ~conf.on THEN Goto(Job, "compare") /\ UNCHANGED <<nginxVars, skip, faults>>
     ELSE PauseOr(\/ /\ Works /\ PublicPortFree
                     /\ running' = TRUE /\ live' = conf /\ skip' = 0
                     /\ Goto(Job, "compare") /\ UNCHANGED conf
                  \/ /\ MayFail("activate") \/ (Works /\ ~PublicPortFree)
                     /\ skip' \in 1..MaxPause
                     /\ Done /\ UNCHANGED nginxVars)
  /\ UNCHANGED <<table, inboundVars, xray, wall, lock, outside>>

Compare ==
  /\ Is(Job, "compare")
  /\ LET set == at[Job].want
     IN  IF enabled = {} THEN Done /\ UNCHANGED <<nginxVars, skip, faults>>
         ELSE IF conf = BuildConfig(set) /\ ~NeedsMove(set)
           THEN skip' = 0 /\ Done /\ UNCHANGED <<nginxVars, faults>>
           ELSE PauseOr(Call(Job, "reconcile", set) /\ UNCHANGED <<nginxVars, skip, faults>>)
  /\ UNCHANGED <<table, inboundVars, xray, wall, lock, outside>>

-----------------------------------------------------------------------------
(* The owner, the clock and the machine. *)

Request(s) ==
  /\ Is(Owner, "idle") /\ applies < MaxApplies
  /\ Patient => deadline = "none"
  /\ Overlap \/ Is(Job, "idle")
  /\ Call(Owner, "none", s)
  /\ applies' = applies + 1
  /\ UNCHANGED <<table, inboundVars, nginxVars, xray, wall, lock, skip, enabled, restart, edits, faults>>

\* Confirm: the owner has reached the panel, and gives their word for the
\* settings there are.  It takes no lock.
Confirm ==
  /\ Is(Owner, "idle") /\ deadline # "none"
  /\ deadline' = "none"
  /\ at' = [at EXCEPT ![Owner].pc = "forgive", ![Owner].then = "confirm"]
  /\ proven' = Level(Clean(settings))
  /\ UNCHANGED <<settings, fallback, gaveUp, inboundVars, nginxVars, xray, wall, lock, skip, outside, faults>>

\* An inbound is switched on or off in the panel.  Xray hears of it at once or
\* is restarted for it: XrayJobs comes next, or later.
Toggle(i) ==
  /\ edits < MaxEdits /\ edits' = edits + 1
  /\ enabled' = IF i \in enabled THEN enabled \ {i} ELSE enabled \cup {i}
  /\ restart' = TRUE
  /\ UNCHANGED <<table, inboundVars, nginxVars, xray, wall, lock, at, skip, applies, faults>>

\* The jobs that look after Xray: it is down, or an edit asked for a restart.
XrayJobs ==
  /\ restart \/ xray = {}
  /\ xray' = Started /\ restart' = FALSE
  /\ UNCHANGED <<table, inboundVars, nginxVars, wall, lock, at, skip, enabled, applies, edits, faults>>

\* Two minutes are longer than the step from arming to closing.
DeadlinePasses ==
  /\ deadline = "waiting" /\ \A p \in Process : ~Is(p, "firewall")
  /\ deadline' = "over"
  /\ UNCHANGED <<settings, fallback, proven, gaveUp, inboundVars, nginxVars, xray, wall, lock, at, skip, outside, faults>>

\* Another program flushes the rules, or a reboot did.
RulesLost ==
  /\ hooked /\ MayFail("rules") /\ OpenPorts
  /\ UNCHANGED <<table, inboundVars, nginxVars, xray, lock, at, skip, outside>>

NginxStops ==
  /\ running /\ MayFail("nginx")
  /\ running' = FALSE /\ live' = NoConfig
  /\ UNCHANGED <<table, inboundVars, conf, xray, wall, lock, at, skip, outside>>

\* The panel stops, Xray with it, and both start again.
Crash ==
  /\ \A p \in Process : at[p].pc \in CrashAt
  /\ MayFail("crash")
  /\ at' = [p \in Process |-> Idle]
  /\ lock' = "none" /\ skip' = 0 /\ restart' = FALSE
  /\ xray' = Started
  /\ UNCHANGED <<table, inboundVars, nginxVars, wall, enabled, applies, edits>>

-----------------------------------------------------------------------------

Init ==
  /\ settings = [Off EXCEPT !.mode = FirstMode]
  /\ deadline = "none" /\ fallback = {} /\ proven = 0 /\ gaveUp = FALSE
  /\ place = [i \in Inbound |-> "home"]
  /\ enabled \in SUBSET Inbound
  /\ snapshots = Nowhere
  /\ conf = NoConfig /\ live = NoConfig /\ running = TRUE
  /\ xray = Started /\ restart = FALSE
  /\ fw = 0 /\ hooked = FALSE
  /\ lock = "none" /\ at = [p \in Process |-> Idle] /\ skip = 0
  /\ applies = 0 /\ edits = 0 /\ faults = 0

JobStep == Tick \/ Expired \/ OpenUp \/ Reconcile \/ PutBack \/ StartNginx \/ Compare

Next ==
  \/ \E p \in Process : Apply(p)
  \/ JobStep
  \/ \E s \in Wanted : Request(s)
  \/ Confirm
  \/ \E i \in Inbound : Toggle(i)
  \/ XrayJobs \/ DeadlinePasses \/ RulesLost \/ NginxStops \/ Crash

Spec == Init /\ [][Next]_vars

\* A call that has begun goes on, and the jobs run for ever.
Fairness ==
  /\ \A p \in Process : WF_vars(Apply(p))
  /\ WF_vars(JobStep)
  /\ WF_vars(XrayJobs)

FairSpec == Spec /\ Fairness

-----------------------------------------------------------------------------

PC == {"idle", "lock", "stage", "routes", "move", "xray", "activate", "save", "fallback", "deadline",
       "firewall", "open", "remove", "restore", "forget", "again", "undo", "restart", "disarm", "forgive",
       "expired", "openUp", "reconcile", "putBack", "nginx", "compare"}
Config == [on : BOOLEAN, panel : BOOLEAN, routes : SUBSET (Inbound \X Place)]
Remembered == UNION {[S -> Place] : S \in SUBSET Inbound}

TypeOK ==
  /\ settings \in Settings /\ deadline \in {"none", "waiting", "over"}
  /\ fallback \in SUBSET Settings /\ Cardinality(fallback) <= 1
  /\ proven \in 0..2 /\ gaveUp \in BOOLEAN /\ fw \in 0..2 /\ hooked \in BOOLEAN
  /\ place \in [Inbound -> Place] /\ enabled \subseteq Inbound /\ snapshots \in Remembered
  /\ conf \in Config /\ live \in Config /\ running \in BOOLEAN
  /\ xray \subseteq Inbound \X Place /\ restart \in BOOLEAN
  /\ lock \in Process \cup {"none"}
  /\ at \in [Process -> [pc : PC, then : {"none", "confirm", "check", "nothing", "rollback", "reconcile"},
                         want : Settings, prev : Settings, undo : SUBSET Config,
                         todo : SUBSET Inbound, snaps : Remembered]]
  /\ skip \in 0..MaxPause
  /\ applies \in 0..MaxApplies /\ edits \in 0..MaxEdits /\ faults \in 0..MaxFaults

(* What holds in every state, however requests and ticks overlap. *)

\* Whatever was moved can be put back: but for the apply that is moving, an
\* inbound on the loopback has a snapshot, of the address its owner gave it
\* (relocateInbounds, inboundSnapshot).
MovedRemembersHome ==
  /\ \A i \in DOMAIN snapshots : snapshots[i] = "home"
  /\ \A i \in Inbound :
       place[i] = "loop" => i \in DOMAIN snapshots \/ \E p \in Process : Is(p, "move")

\* nginx serves what is on disk whenever no apply is under way (the snapshots
\* of tx.go, Activate and Rollback).
LiveIsOnDisk == lock = "none" /\ running => live = conf

-----------------------------------------------------------------------------
(* What a step may never do. *)

\* No port is closed but on trial: a deadline stands, the owner has given their
\* word for that much, the job is about to open everything again, or it has said
\* that it could not (armConfirmation, CheckConfirmation).
ClosedOnTrial ==
  [][fw' > fw =>
       \/ deadline # "none" \/ proven >= fw' \/ gaveUp
       \/ at[Job].then \in {"check", "rollback"} \/ Is(Job, "openUp")]_vars

-----------------------------------------------------------------------------
(* What must happen. *)

\* nginx, Xray, the inbounds and the settings agree.
InStep ==
  LET set == Clean(settings)
  IN  /\ conf = live
      /\ xray = Started /\ (enabled # {} => xray # {})
      /\ IF set.mode = "off" THEN conf = NoConfig /\ \A i \in Inbound : place[i] = "home"
         ELSE enabled # {} => running /\ conf = BuildConfig(set) /\ ~NeedsMove(set)

\* The front end comes to follow the settings and the inbounds, without anyone
\* pressing anything, whatever step of an apply failed (Reconcile).
Converges == <>[]InStep

-----------------------------------------------------------------------------
(* What comments and messages say and the code does not do. *)

\* A rollback for want of a confirmation leaves nothing closed that the owner
\* has not given their word for (the message of CheckConfirmation).
RollbackOpens ==
  [][Is(Job, "firewall") /\ at[Job].then = "rollback" /\ at'[Job] # at[Job] => fw' <= proven]_vars
=============================================================================
