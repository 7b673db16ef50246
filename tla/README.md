# 3AX-UI: TLA+ models and proofs

3AX-UI is a panel that runs VPN and proxy services on one real server and can
publish them through a *chain* of front boxes: clients connect to an *edge*,
traffic goes through *inner* fronts to the panel. The panel never calls a box.
Each box polls the box next to it, inward, for a *document* that says what to
relay and to whom, and hands a truncated copy to the boxes outward of it. This
is the *wave*; the number of the chain's last change, the *revision*, is its
ETag. A hop that is deleted stays, *departing* (state `draining`), until its
former neighbours have confirmed the revision in which it left.

The server itself can hide behind nginx: the *front end* takes port 443, routes
by server name to inbounds that have moved onto the loopback, and may close
every other port. A change that closes ports is on *trial*: an owner who does
not confirm within two minutes that the panel is still reachable gets the old
state back.

These modules model the chain (the registry in the panel's database, the
documents made from it, and the boxes), the front end, the monitoring that an
outside *mon-server* reports to the panel, the live updates of the panel's pages
over WebSocket, and the form that edits an inbound with the share links made
from what it stores. The other parts of the panel are listed in the inventory
with what is planned for them.

## 1. Inventory

### 1.1 Parts of the system

| part | code | state | operations | modelled in |
|---|---|---|---|---|
| chain registry | `web/service/chain_service.go`, `chain_drain.go`, `chain_follow.go` | table `chain_hops`, setting `chainRevision`, the mutex of the sweep | add, update, delete, setActive, clearActive, reissueToken, drain, sweep, import of the old override | `ChainTable`, `ChainRegistry`; its promise in `ChainPromise` |
| documents, wave and join on the panel | `chain_document.go`, `chain_wave.go`, `chain_join.go`, `sub/chainController.go` | none of its own | `GET /chain/v1/document`, `POST /chain/v1/join`, acks | `ChainTable`, `ChainRegistry`, `ChainWave` |
| chain box | `proxy/*.go`, `chain/*.go` | `proxy.json`, `document.json`, `State` (document, acks) | poll, serve, forward a join, join page, `chain rejoin`, restart | `ChainWave` |
| relayed ports | `chain_ports.go`, `chain_hooks.go`, `chainports/` | computed | composition, the hook that moves the revision | `ChainRegistry` (`PortsChanged`) |
| inbounds that follow the chain | `chain_follow.go`, `inbound.go` | `follow_chain`, the Reality settings, xray's need-restart flag | rewritten by setActive and update | `ChainRegistry` (`FollowEdge`) |
| monitoring | `monitoring_ingest.go`, `monitoring_contact.go`, `tgbot_monitoring.go`, `controller/monitoring.go` | `mon_targets`, `mon_events`, buckets, last contact, the silence mark and its setting | ingest of transitions and buckets, the minute job, messages to the operator | `Monitoring`; pruning with the registry in `ChainRegistry` (`Prune`, `ForgetHop`) |
| monitoring: probe sets, rollups, retention, summaries, the page | `monitoring_service.go`, `monitoring_maintenance.go`, `monitoring_probe.go`, `monitoring_summary.go`, `util/monitoring.js` | tables of buckets and rollups | hourly job, summaries | no: arithmetic over rows |
| nginx front end | `nginx_apply.go`, `nginx_confirm.go`, `nginx_service.go`, `nginx/` | settings, snapshots of inbounds, files, the confirmation deadline, the firewall chain | apply, confirm, roll back, reconcile | `NginxFront` |
| MTProto manager | `mtproto/` | a process per inbound, traffic counters | start, stop, reconcile, collect | planned |
| xray process and restart flag | `xray/process.go`, `xray.go` | process, flag, manual stop | restart, need restart, the 30 s job | flag, and what a start leads to (`NginxFront`); rest planned |
| live updates | `websocket/hub.go`, `controller/websocket.go`, `assets/js/websocket.js`, `html/index.html` | the hub's clients and queues; the client's socket, timer and attempts; polling loops | connect, register, fan out, evict, panic and resume, shutdown, reconnect, poll | `LiveUpdates` |
| inbound form | `html/modals/inbound_modal.html`, `html/inbounds.html`, `assets/js/model/inbound.js` | `inModal`, the stored inbounds | open, choose, ask for a key, save, delete | `InboundForm` |
| share links | `assets/js/model/inbound.js`, `sub/subService.go`, `assets/js/model/outbound.js` | none | write a link (panel), write it again (subscription), read it back | `ShareLinks` |
| box relay, subscription server | `proxy/relay.go`, `proxy/subserver.go` | an xray process | apply, proxy | no: process control and I/O |
| tunnels, IPAM, port forwarding, NDP, tproxy | `tunnel/`, `shared/` | kernel interfaces, files | shell commands | no: I/O |
| subscriptions: JSON, Clash, headers | `sub/` | a cache per request | formatting | no: formatting |
| jobs, bot, settings, sessions, geo files, stub site, migrations, installers, other pages | `web/`, `database/`, `*.sh` | | CRUD, UI and I/O | no |
| editor of JSON on the settings page | `assets/codemirror/` | | third-party code (CodeMirror, jshint) | no: vendored; it is most of the JavaScript in the repository |

### 1.2 How they interact

* Every write to the registry is one SQLite transaction on one connection, so
  writes are serial. A write that changes what a document says is meant to
  increase `chainRevision` in the same transaction.
* `reconcileTopology` runs at the end of writes that change who is in the
  chain: it renumbers the live inner fronts and re-chains live rows. Departing
  rows are skipped.
* A poll at the panel is *not* one transaction. `AuthenticateHop` reads, then
  `BuildAllWithPanelHost` reads the revision and then the rows, then
  `RecordSeen` writes confirmations and runs the sweep over departures.
* A box has one poller, an HTTP server that answers its outer neighbours out of
  the document in force, and files that a second process (`x-ui chain rejoin`)
  can write. Its next hop for *polling* is in `proxy.json`; its next hop for
  *relaying* is in the document.

* The owner's request for the front end runs in an HTTP handler, the job in a
  cron goroutine. `applyMu` makes their calls of `Apply` serial and covers
  nothing else: the job reads settings, tests and rebuilds the firewall, starts
  nginx and compares files without it; so does `Confirm` with the deadline.
* `Apply` is a row of steps over the database, two configuration files, nginx,
  Xray and netfilter, none of which is in a transaction with another. Port 443
  belongs to Xray or to nginx, and who is second fails.

* The mon-server calls the panel, never the other way round; every call of it is
  the contact whose absence the minute job looks for. Calls, the job and the
  bot share two mutexes and single transactions, and nothing spans two of them.
* A page and the hub are connected by a handshake, two pumps per connection and
  two channels (register, unregister). The panel's stop cancels the hub first
  and closes the listeners after it; a restart of the panel is a new hub in the
  same process.
* The form edits one global object. Requests it sends answer into that object
  whatever it has become; `ok()` goes on after the answer it waited for.
* The panel page and the Go server both write share links from the same row, in
  code written twice; the outbound editor reads them.

### 1.3 What is hard

Interleavings of polls, sweeps and owner writes; documents and revisions read
at different times; several departures at once and insertions beside them;
names that identify hops in acks and in `drain_outer` and can be changed; lost
answers, crashes and restarts of boxes and panel, unsaved documents; secrets
replaced by a second join; an apply that fails or stops between any two of its
steps, a job that decides on what it read before an apply, a trial that another
apply, the owner and the deadline all want to end; transitions that arrive late,
twice and out of order, and a silence that ends while it is being declared;
connections that are over before they are registered, hubs that panic or stop
between any two steps, and a client that must not lose its way back; answers
that find another form, and choices in any order. `PROJECT.json` lists each at its line under
`hazards`, with the properties that watch it.

### 1.4 What makes each part correct

* registry: one gapless path; nobody hangs off an edge, a departing row or a
  row that is gone; at most one active edge, and never lost by accident;
  freshness that neither goes back nor runs ahead; a departure that stays what
  it is and ends; a new revision whenever a box has to admit a new secret;
* documents: the hop a box is told to dial knows the box and all it speaks for;
* wave: a box on a revision behaves as that revision says; acks are honest; the
  end of a departure leaves nobody relaying into the void; no box learns what
  lies inward of it; the last revision arrives;
* front end: no port is closed but on trial, and whoever moved an inbound can
  put it back; nginx serves what is on disk; settings, files, nginx, Xray and
  inbounds come to agree whatever failed;
* monitoring: the newest transition sets the state of a target; the operator is
  told of each thing at most once; what is shown becomes true;
* live updates: exactly one way back to a hub, a hub that forgets connections
  that are over, a page that returns to the hub that broadcasts and polls
  meanwhile;
* form and links: what is stored fits its transport, but for what the code
  leaves behind (section 4); a request's answer, whichever form it finds, brings
  no inbound without a key into the store; both programs offer a client the same
  thing, and it connects.

## 2. Modules

| module | what it is |
|---|---|
| `ChainTable` | the table of hops as a function from ids to rows, and the pure functions over it: `Reconcile`, the order of hops, `Dialled`, `Outward`, `Document`, `Authenticated`, `Waiting`, `ProbedPaths` |
| `ChainRegistry` | state machine of the panel; one action per transaction |
| `ChainPromise` | what the registry promises about a hop's life, as a specification of 5 variables that knows no table, topology, revision or sweep |
| `ChainRegistryProofs` | theorems about `ChainRegistry`: types, next hops, the active edge, confirmed revisions |
| `ChainPromiseProofs` | the refinement of `ChainPromise`; followers and watched paths |
| `ChainTopologyProofs` | the shape of the table, and what documents say as the table changes |
| `MCChainRegistry` | instances of it for TLC: from an empty table, and from settled chains |
| `ChainWave` | extends `ChainRegistry` with the boxes |
| `MCChainWave` | instances of it, each with the owner's actions that one question is about |
| `ChainWaveProofs` | theorems about `ChainWave`: what every document keeps to, however old it is; documents and acks move forward, departures leave nobody behind |
| `NginxFront` | state machine of the front end: the owner's request, the job, Xray's jobs, the clock |
| `MCNginxFront` | the settings an owner may apply in the runs |
| `NginxFrontProofs` | theorems about `NginxFront` |
| `Monitoring`, `MCMonitoring` | state machine of the panel's end of the monitoring, for one target, with the mon-server, the clock and crashes |
| `LiveUpdates`, `MCLiveUpdates` | state machine of pages, connections and hubs |
| `ShareLinks` | the functions that write and read links, over records of what a link carries |
| `InboundForm`, `MCInboundForm` | state machine of the form and the rows it stores; extends `ShareLinks` |
| `MonitoringProofs`, `LiveUpdatesProofs`, `InboundFormProofs` | theorems about each of the three, and about the links |

### 2.1 Registry

`rows` is `chain_hops`; a row keeps the columns that decisions read. The
address stands for host, sub port and scheme; `target` for the neighbour site
of an edge. `secret` is 0 without a hash and k after the k-th join, so that two
secrets of one row differ. `token` and `due` replace clocks: a token expires
(`TokenExpires`) and a deadline passes (`DrainDeadline`) when they like. `former`
is a history variable (the ids behind the names in `drain_outer`) for the
properties; no action reads it. `created` is the AUTOINCREMENT counter: ids do
not come back. `sweep` is the list of departures a running `SweepDraining` has
still to look at; `drainSweep.TryLock` is the test that it is empty.

| action | code |
|---|---|
| `Add`, `Update`, `SetActive`, `ClearActive`, `ReissueToken` | the methods of `ChainService` |
| `DeleteNow`, `StartDraining` | the two outcomes of `Delete` |
| `Join` | `ChainJoinService.Join`, `markJoinedTx` |
| `Poll`, `RecordSeen` | `ChainController.document`, `ChainWaveService.RecordSeen` |
| `SweepTick`, `SweepStep`, `FinishDraining` | the ticker, one turn of the loop, `finishDraining` |
| `PortsChanged` | `chainPortsChanged` |
| `PanelRestart` | a stop at any point and a start with `MigrateLegacyOverride` |
| `MonReport` | a report that creates rows of `mon_targets` |

A refused request changes nothing and is no action: its condition is the
action's guard. In `ChainRegistry` a poll may report any revision up to `Lag`
away from the panel's, so what the registry promises does not rest on honest
boxes. The names that hops, inbounds and targets can have are data.

`ChainPromise` is the abstract specification, and `Promise` at the end of
`ChainRegistry` the refinement mapping: `life` is computed from the state of the
row and from `created` (a hop without a row is gone if its id was handed out),
`known` is what documents say of the hop (name, address, role and whether it is
in), `seen` its `lastRevision`, `active` the active edge. `KeepsPromise` checks
that every step of the registry is a step of it or a stutter. It is where the
promises meet that a single action cannot break alone: ids never come back, a
departing hop is neither invited nor described again, freshness only grows
whatever arrives in whatever order, and the active edge goes only when no other
could take over.

### 2.2 Wave

One box per row. `config` is what the running process knows of `proxy.json`,
`disk` the two files, `doc` and `outer` the `State`, `reply` the poll in
flight. A poll of the panel is two steps: `PollPanel` (admitted, revision read)
and `PanelAnswers` (rows read, document built, acks recorded, sweep started;
these are several short transactions in the code, and the only thing that may
come in between and matter, the owner's write after the revision was read, does
in the model). A poll of a box is `PollBox` and the arrival `Receive`. `Lose`
loses either. `JoinPage`, `Rejoin` and `JoinLost` compose with the registry's
`Join` in one step; `Rejoin` writes the files and leaves the process alone.
`Stop` and `Start` are crash and restart; every box whose files differ from
what it runs on may be restarted, because the command says so to its owner.

A box's address is the id of its row, so `Update` changes no addresses here
and join tokens are used by the box of that row only.

### 2.3 Front end

Two processes, the owner's request and the job, each with a program counter and
the locals of the call it is in (`at`): what it wants, the settings it found
(`prev`), the files to go back to (`undo`), inbounds still to move (`todo`) and
the snapshots it will save (`snaps`). A step of a process is what no other
process, failure or restart can be seen inside of; `SaveSettings` is one step
per key and the arming and the clearing of a confirmation are two steps each,
as in the code. `settings` is what is stored, `Clean` what `GetSettings` makes
of it. `conf` is the configuration on disk and `live` the one nginx serves,
both abstracted to the routes and whether the panel is behind 443; `xray` is
what Xray serves, and empty when it is down. `fw` is the level of what the
firewall drops (nothing; all but ssh, 443 and the panel; the panel too), and
`hooked` whether the chain is in INPUT. `proven` and `gaveUp` are history
variables: the level the owner has confirmed, and that the job could not go
back. No action reads them.

| action | code |
|---|---|
| `Begin` ... `Firewall` | `Apply` from the lock to the firewall, with `relocateInbounds`, `RestartXray`, `Activate`, `SaveSettings`, `armConfirmation` |
| `Restore`, `Forget`, `StartAgain`, `Undo` | what a failed apply puts back |
| `OpenFirst`, `Remove`, `Restore`, `Forget`, `RestartDown`, `Disarm`, `Forgive` | `disable` |
| `Tick`, `Expired`, `OpenUp` | `CheckConfirmation`; its rollback is an `Apply` of the job |
| `Reconcile`, `PutBack`, `StartNginx`, `Compare` | `Reconcile`; what it finds becomes an `Apply` of the job |
| `Request`, `Confirm`, `Toggle` | the owner: apply, confirm, an inbound switched on or off |
| `XrayJobs` | the jobs that restart Xray after an edit or a crash |
| `DeadlinePasses`, `RulesLost`, `NginxStops`, `Crash` | the clock, netfilter, nginx and the panel |

A failing step is a disjunct of its action, counted by `MaxFaults` and named in
`Fails`; that nginx cannot have a port Xray holds, and Xray dies on one nginx
holds, are no failures and always possible. Every certificate is taken to be
there, so that a configuration is always valid; server names do not clash.

### 2.4 Monitoring

One target, whose transitions the mon-server stamps 1, 2, ... (odd ones DOWN,
even ones UP). `req` is where each request of the mon-server is in the handler:
`Call` (authorised, contact noted), `EndStale` and `NotifyBack` (the silence it
ends), `ApplyEvents` or `UpsertStats` (one transaction), `NotifyEvents`,
`Answer`. The mon-server keeps what was not answered (`acked`) and sends any of
it again, alone or together, with `notified` or without. `job` is the minute job
between its two locks. `contact` and `stale` are memory, `contactSaved` and
`staleSaved` the settings, and `Restart` is a crash at any point. The clock
counts in thresholds of silence. `told` counts messages and `ended` the silences
ended; both are history variables. Rejected and ignored elements of a batch
change nothing; that an event was announced (`markNotified`) decorates the feed
and is left out, as are rollups and retention, and switching monitoring off.

### 2.5 Live updates

`page` is the client of one page (`websocket.js`) with its socket, its timer,
its attempts and the polling loops of the status page; `conn` the connections in
use, each with the stage of its handshake and pumps on the panel's side and the
link between; `hub`, `clients`, `reg` and `unreg` the hub of each start of the
panel. A slot of a connection that is over is used again when nobody remembers
it. `Panic` is a panic in any step of the hub's loop, `Resume` the wait after
it, `StopHub` and `CloseListeners` the two halves of `Server.Stop`. Messages are
not told apart: what matters of a queue is whether it is full.

### 2.6 Form and links

`inbound` is the object under edit, abstracted to what links and Xray tell apart
(protocol, transport, security, the two halves of the Reality key pair, flow,
XHTTP mode, whether there are UDP and TCP masks, external proxy); `Choose` and
its callers are the handlers of the form's controls, `NetworkChanged` and
`SecurityChanged` what they take back. Either half of the key pair can be typed
(`TypePrivateKey`, `TypePublicKey`), cleared or fetched. `call` has the requests
under way, whoever asked: OK, the key button, or a button for something else
(`AskForOther`: VLESS encryption, ECH, ML-DSA), whose answer also makes OK
clickable again. `KeyAnswered` writes to the form of the moment. What an OK that
waits will find in the inbound it captured is settled when another takes its
place in the form (`Show`). `Stored` is the round trip through JSON: what is not
selected is not stored. Posting a row and its answer are one step.

In `ShareLinks` a link is the record of the parameters it carries. Each
generator is an operator of its own, because they are separate functions in the
code and disagree in detail: `PanelVlessLink` and its four siblings translate
`inbound.js`, `SubVlessLink` and siblings `subService.go`, `FromLink` the parser
in `outbound.js`.

## 3. Runs

Every run starts from the code's initial state or from a *settled chain*:
what adds, joins and polls by every box lead to (`SettledInit`,
`SettledWave`). Starting there spends the bounds on departures and insertions
rather than on building the chain again.

| run | start, bounds | shows |
|---|---|---|
| `Registry` | empty, an override to import; 2 rows, 2 neighbour sites, an inbound; revision 3, reports off by 1 | types; `ConfirmedRevisionsExist`, `OneActiveEdge`, `FollowersMatchActiveEdge`, `TargetsFollowProbedPaths`; `KeepsPromise`, the refinement of `ChainPromise` |
| `Topology` | 2 inners and an edge, or 3 inners; 4 rows, revision 5; fairness | `OnePath`, `NextHopsAreLive`, `NextHopsLeadInward`, `NextHopKnowsCaller`, `NewSecretMovesRevision`, `DocumentsChangeWithRevision`, `DepartureEnds` |
| `WaveDeparture` | 2 inners and an edge; revision 5; box 1 crashes, box 2 loses answers | `RelayLeavesDeparting`, `AcksAreHonest`, `DocumentsMoveForward`, `DepartureLeavesNobody` |
| `WaveEntry` | an inner and an edge; 3 boxes, revision 4; box 2 loses answers, box 1 cannot always save | `ReplacedSecretsAreRefused`, `DocumentsLookOutward`, types of the whole |
| `WaveQuiet` | an inner and an edge; switches and ports, revision 5; both boxes crash and lose answers; fairness | `WaveArrives` |
| `NginxTrial` | no front end; 2 inbounds, 2 applies, 1 edit, 1 failure or restart; fairness | `ClosedOnTrial`, `Converges` |
| `NginxOverlap` | no front end; 1 inbound, 2 applies, 1 edit, 1 failure, lost rules, stop of nginx or of the panel, any interleaving | types, `MovedRemembersHome`, `LiveIsOnDisk` |
| `MonWatch` | nothing reported; 2 transitions, 2 thresholds of time and one more after the mon-server has gone, 1 restart; fairness | `NewestStateWins`, `ToldOnce`, `PanelCatchesUp` |
| `LivePage` | one page before it is mounted; 2 connections, 2 starts of the panel, 2 panics, 1 fault; fairness | types, `SocketOrTimer`, `ZombiesGo`, `PagesComeBack`, `PollingCovers` |
| `FormLinks` | no inbound; 1 row, 1 key, 6 protocols, 4 transports; 2 requests at once, beside plain VLESS | types, `SavedStreamFits`, `KeylessFromReplacedForm`, `LinksConnect`, `SubscriptionAgrees` |
| `RollbackOpens` | no front end, 2 applies | a disagreement of code and comment, see section 4 |
| `RealityUnkeyed` | no inbound; 1 row, 1 key, VLESS over TCP, 1 request | another, see section 4 |

Each run ends within two minutes on two cores; the largest has about two million
states.

Bounds. `MaxHops` bounds the rows ever created and `MaxRevision` the owner's
and boxes' changes (the end of a departure is exempt, so that the bound never
keeps a departure from ending; the revision stays within
`MaxRevision + MaxHops`). Four rows allow two departing inners beside a live
one, an edge, and a hop entering, which is what the order of `hops[]` needs to
go wrong. Five revisions from a settled chain at three or four leave room for
two changes and what they finish; three from an empty table for the import or
the entry of both rows and one change more. Every seeded bug is found within
those bounds. `HeardInDepartures` (in `Topology`)
lets a box confirm a revision only while a departure waits for that box: a
departure always waits for a revision newer than any confirmed before it, and
nothing else the run's safety properties speak of reads `lastRevision`, and `DepartureEnds` has
to hold without a single poll, none of which is fair; the ticker, the sweep and the
deadlines are never held back. A poll passes on at most one ack in the registry's runs;
`Acknowledge` treats acks independently, and the wave's runs send whole maps.
`Failing`, `Lossy` and `Forgetful` name the boxes that may crash, lose answers
and fail to save. The runs of the wave set `CHECK_DEADLOCK FALSE`: with every
box on the last revision and the owner at the bound nothing is left to do.

For the front end, an inbound created on port 443 and one created on a port of
its own differ, because `collectRoutes` treats them differently: `NginxTrial`
has both, `NginxOverlap` the first. Two applies let one meet what another left,
in every pair of settings. `Overlap` lets the owner's applies run beside the
job's ticks, `Patient` keeps the owner from applying while a trial is on:
`NginxTrial` has a patient owner and no overlap, because what it checks needs
both (`RollbackOpens`, and the first two points on the front end in section 4).
`CrashAt` says where the processes may be when the panel stops: anywhere
between calls in `NginxTrial`; anywhere but while inbounds are on the move, and
from staging to activation, in `NginxOverlap`. `DeadlinePasses` leaves out one
thing time makes impossible, that two minutes pass between the arming and the
closing of the ports that follows it. The model has one failure, because one is
what the code is written to put back.

`MonWatch` has one request at a time: transactions are serial whatever the
number of requests, and a second would only change the order in which messages
leave; the minute job and the crash are what a request meets. Two transitions
can arrive in the wrong order, together, and twice; two thresholds let a silence
be declared, end and be declared again, and the third, when the mon-server has
gone, lets it be missed.

`LivePage` has two connections, the fewest that let a new one meet what is left
of an old one, and two starts of the panel, so that a page can be on the wrong
hub. Queues hold one message, at which they are full soonest; the hub gives up
after two panics instead of three, and the client's attempts are counted to 1,
which the backoff depends on and the retry does not. One fault at a time is an
outage, a reload of the page, or a hub that panics until it is down.

`FormLinks` has one stored row, because rows are only edited one at a time, and
one key, which with no key is enough for halves that differ. TCP, mKCP, WebSocket
and XHTTP stand for the seven transports: gRPC has the abilities of XHTTP without
a mode, and HTTPUpgrade those of WebSocket. Two requests let one answer come
between another's question and its own. The constraint `MCQuiet` keeps them to
VLESS over TCP or mKCP without external proxy and masks: `ok()` looks at nothing
but security and key, and TCP and mKCP are a transport with Reality and one
without. Without requests, a typed key stores what a fetched one does.

Fairness. `NginxTrial` assumes that a call which has begun goes on, that the
job's ticks go on for ever, and that Xray's jobs run (`web.go:351`, `355`,
`377`); the owner is assumed to do nothing, and edits and failures end at their
bounds. `Topology` assumes the 60-second ticker, the loop of a sweep and the
clock (a deadline passes); nothing is assumed of owners or boxes. The panel may
restart as often as it likes before some point: `SweepsRunOn` says that from
some point on a restart cuts no sweep short, without which a sweep may never
get anywhere. `WaveQuiet` assumes that a poller polls for ever and is answered
(`Poller.Run` never returns on an error) and that a stopped box is started by
its service manager; `FailuresStop` is the assumption under which the claim is
made: from some point on no process stops and no answer is lost. The owner is
never assumed to do or to stop anything; in `WaveQuiet` it stops at the bound.

`MonWatch` assumes the clock, the minute job (`@every 1m`), that a request which
is in its handler goes on, and of a mon-server that stays that it calls again
and again and sends each transition until it was answered (the contract,
`docs/spec/monitoring-contract.md` sections 4.6 and 7): strong fairness, since a
crash may end any one request. Nothing makes it stay. `LivePage` assumes that
goroutines, timers and browser events run, that a stop of the panel is followed
by its start (`main.go:86-109`), and that the hub gets round to a connection that waits
(`select` picks among ready channels at random); what the way back needs besides is in
the premise of `PagesComeBack`: that the network stays up from some point on,
that no hub is left for dead (`HubsAreWell`), no handshake straddles a stop
(`NoLateHandshake`) and a working client is not evicted for ever (`KeepUp`).
Section 4 says what happens without the second and third.

Three properties of `WaveDeparture` rest on what the run leaves out: nobody joins,
every document can be saved, and no hop is renamed. Less would do, and section
5.2 says how much: the theorems allow joins, but for one that falls between the
two reads of an answer of the panel.

## 4. Where code and documentation disagree

`RollbackOpens` checks the message `CheckConfirmation` logs, "nobody confirmed
within ..., opening the ports again", and finds a counterexample: apply the
firewall and then, unconfirmed, also hide the panel; the fallback is now the
first, unconfirmed state, and the rollback stays there with the deadline
cleared.

What follows was met while modelling, and bounds or premises of the runs are
where they are because of it.

Of the chain:

* an inner inserted at position 0 takes over `next_hop_id` at once, and
  `AuthenticateHop` (`chain_wave.go:35`) looks for rows without one: the hop
  whose document still says to dial the panel is refused until the new box joins
  (against `chain_service.go:163-166`, inserting "safe at any distance in
  time"). `NextHopKnowsCaller` is about boxes as next hops only;
* `DocumentsChangeWithRevision` asks that no hop departs and none enters again:
  a new token turns joined into pending in documents without a revision (against
  `chain_service.go:582`). An insertion beside a departing row is not among the
  exceptions, although it renumbers rows without a revision: it moves no row past
  another (lemma `AddOrder`). What does change the order of hops, the deletion
  and the departure of one, has a revision;
* `ChainPromise` says nothing of the place of a departing row: insertions move
  it, and the deletion of its next hop re-chains it (against
  `chain_service.go:790`);
* a box hands its neighbour itself as next hop, so an inner inserted between two
  boxes reaches the outer one only by `chain rejoin` (against
  `docs/spec/proxy-chain.md:745`); `TruncateDocument` shows it in every
  behaviour of `WaveEntry` that inserts an inner.

Three more of the chain follow from the models and have no run of their own. A
new token makes the row pending, and the panel refuses a pending hop its
document (against `chain_service.go:579`, the old box keeps receiving it). A
departure waits for names, and a rename ends the wait for a neighbour that has
not confirmed, while the log says every one did (`chain_drain.go:225`). The
document moves a box's relay and never its poll, so that after a departure a
former neighbour polls the box that left until `chain rejoin` (against
`docs/spec/proxy-chain.md:1474`).

Of the front end, likewise, each reached in the model when the bound named is
lifted:

* `Reconcile` reads the settings before it waits for the lock, and then applies
  them: an owner's apply it waited for is undone (`nginx_apply.go:380`, against
  371-372), with `Overlap`;
* it tests the firewall without the lock: while `disable` has opened the ports
  and not yet saved that the front end is off, the job closes them again, and
  nothing opens them later (`nginx_apply.go:415`, against 152-154), with
  `Overlap`;
* nginx stops, an inbound on 443 is switched on, Xray takes the port: every
  tick then fails to start nginx and returns before the apply that would move
  the inbound (`nginx_apply.go:432`); `Converges` fails with `"nginx"` in
  `Fails`;
* `relocateInbounds` fails or stops after the first move: the snapshots are not
  saved, and the next apply records the loopback as the inbound's home
  (`nginx_apply.go:299`); `MovedRemembersHome` fails with `"move"` in `Fails`;
* the panel stops between staging and activation: the disk is what the settings
  will say, and `NeedsUpdate` compares nothing else; `LiveIsOnDisk` fails with
  `"activate"` in `CrashAt`;
* a failed apply of one more inbound puts back *all* inbounds, while nginx goes
  back to the configuration that routes to the loopback (`nginx_apply.go:97`,
  against line 50, "or leaves it exactly as it was"), until the next tick;
* a firewall rebuild that fails with the chain hooked is never tried again:
  `PutBack` looks only for the hook (against `nginx_apply.go:126-129`);
* a rollback that fails opens the ports, and the same tick's reconciler closes
  them again, with no deadline left (`gaveUp` in `ClosedOnTrial`).

Of the monitoring:

* "both edges are announced once" (`monitoring_contact.go:128`): the minute job
  reads the last contact under one lock and declares under another; a request
  between the two ends the silence, and the job declares and announces the same
  silence again, until the next request. `ToldOnce` allows a second announcement
  after an end and no other;
* a crash, or a bot that is off, between the commit and the message loses the
  message, since what is sent again is a duplicate (`tgbot_monitoring.go:23`
  accepts that);
* a row that is dropped and created again by a bucket stays UNKNOWN until the
  next transition: late events are older than the bucket. The model keeps the
  row, as the registry's pruning is in another module.

Of the live updates:

* a hub that has given up after its panics keeps its pages connected, without
  data and without polling (against `hub.go:132-135`, "the frontend falls back
  to REST polling"): pages poll when they are disconnected;
* a handshake under way when the panel stops registers with a hub that has
  stopped, and its page stays connected to it for good;
* a hub that is cancelled while it waits after a panic returns without closing
  its clients.

Of the form and the links:

* `ok()` checks the inbound it captured for a key and saves the form of the
  moment (`inbound_modal.html:43`, 50-54). Run `RealityUnkeyed`: OK on a Reality
  inbound without a key, a key typed into it while the request is out, Cancel,
  another Reality form without a key, and the request fails: the check passes on
  the first inbound and the second is saved without a key (against 31-33,
  "Auto-generate the Reality keypair"). A key the button fetches, which nothing
  disables meanwhile, does the same. `KeylessFromReplacedForm` says that this is
  the only way. Without a second form, a form cancelled while `ok()` waits is
  saved when the key arrives;
* Reality stays chosen on a transport that cannot carry it: the handler clears
  `inbound.reality`, which does not exist (`inbound_modal.html:377-379`);
  `SavedStreamFits` asks only that the transport has TLS;
* TCP masks stay behind on mKCP, which has none: the handler clears the UDP masks
  only (`inbound_modal.html:388-390`), and what is there is written whatever the
  transport (`inbound.js:1312-1318`, 1454). `SavedStreamFits` asks of TCP masks
  only that the protocol has a transport for them;
* the public key is a text area of its own (`reality_settings.html:70-75`), and
  the link carries what is in it: `LinksConnect` asks that the halves are a pair;
* every link carries the masks (`fm`), and the outbound editor does not read
  them: `LinksConnect` leaves masked inbounds out;
* the panel's VMess link writes the XHTTP mode where the reader does not look for
  it, and the subscription's where it does; a subscription that replaces the
  security leaves flow and key in the link; a Hysteria link is read back without
  its security and obfuscation. `LinksConnect` and `SubscriptionAgrees` say what
  is left.

## 5. Proofs

Eight modules prove theorems with TLAPS, for any number of hops, boxes,
inbounds, pages, requests and connections, and for any bounds:

| module | theorem | statement |
|---|---|---|
| `ChainRegistryProofs` | `TypeCorrect` | `Spec => []TypeOK` |
| | `ConfirmedRevisions` | `Spec => []ConfirmedRevisionsExist` |
| | `LiveNextHops` | `Spec => []NextHopsAreLive` |
| | `SingleActiveEdge` | `Spec => []OneActiveEdge` |
| | `Invariance` | `Spec => []IInv`, from which the four follow |
| `ChainPromiseProofs` | `Refinement` | `Spec => KeepsPromise`, which is `Promise!Spec` |
| | `FollowersMatch` | `Spec => []FollowersMatchActiveEdge` |
| | `TargetsFollow` | `Spec => TargetsFollowProbedPaths` |
| `ChainTopologyProofs` | `ShapeInvariance` | `Spec => [](IInv /\ PathInv)` |
| | `PathIsOne` | `Spec => []OnePath` |
| | `HopsLeadInward` | `Spec => []NextHopsLeadInward` |
| | `CallersKnown` | `Spec => []NextHopKnowsCaller` |
| | `SecretsMoveRevision` | `Spec => NewSecretMovesRevision` |
| | `DocumentsMoveRevision` | `Spec => DocumentsChangeWithRevision` |
| `ChainWaveProofs` | `DocumentsFit` | `WaveSpec => []WaveInv`, from which the three follow |
| | `WaveTypes` | `WaveSpec => []WaveTypeOK` |
| | `RelaysLeave` | `WaveSpec => []RelayLeavesDeparting` |
| | `SecretsAreCurrent` | `WaveSpec => []ReplacedSecretsAreRefused` |
| | `DocumentsForward` | `WaveSpec => DocumentsMoveForward`, if every document is saved and no secret is replaced in the middle of an answer |
| | `AcksHonest` | `WaveSpec => []AcksAreHonest`, if besides hops keep their names for themselves |
| | `DepartureLeaves` | `WaveSpec => DepartureLeavesNobody`, under the same hypotheses |
| | `DocumentsOutward` | `WaveSpec => []DocumentsLookOutward`, if no name changes hands in the middle of an answer and no imported front is invited again |
| `NginxFrontProofs` | `FrontTypes` | `Spec => []TypeOK` |
| | `HomeIsRemembered` | `Spec => []MovedRemembersHome`, if no table update of a move fails and the panel does not stop in one |
| | `ServesTheDisk` | `Spec => []LiveIsOnDisk`, if the panel does not stop while files are staged |
| | `PortsClosedOnTrial` | `Spec => ClosedOnTrial`, for a patient owner and a panel that stops between applies |
| `MonitoringProofs` | `MonitoringTypes` | `Spec => []MonTypes` |
| | `NewestHasTheLastWord` | `Spec => []NewestStateWins` |
| | `NothingIsToldTwice` | `Spec => []ToldOnce` |
| `LiveUpdatesProofs` | `LiveTypes` | `Spec => []TypeOK` |
| | `PagesFindBack` | `Spec => []SocketOrTimer` |
| `InboundFormProofs` | `FormFits` | `Spec => []FitInv` |
| | `FormTypes` | `Spec => []TypeOK` |
| | `StreamsFit` | `Spec => []SavedStreamFits` |
| | `KeylessOnlyReplaced` | `Spec => KeylessFromReplacedForm` |
| | `LinksReach` | `Spec => []LinksConnect` |
| | `ServersAgree` | `Spec => []SubscriptionAgrees` |

### 5.1 The arguments

**Registry (`IInv`).** `NextHopsAreLive` is not inductive alone. Deleting a row
re-chains what hung off it to *its* next hop, which has to be live and cannot be
the row itself; that is the property again. `Reconcile` sets next hops to members
of `LiveInners`, by the lemma that `Outermost(T, S)` is the panel or a member of
S, which needs S to have a last member along the order of `PathBefore`: true
because the table is finite, which is why the domain of `rows` within
`1..created` is in `IInv`. Starting a departure is the interesting step: the
departing row is no longer a next hop for anybody, because live rows are
re-chained by the sweep and departing ones by `Rechain`.

**Promise.** Each action of the registry is matched with the action of
`ChainPromise` it implements, over `IInv`: what a write does to one row
(`SameHop`, `SameBox`) decides what becomes of that hop's life and knowledge, and
the other hops stay as they are. Freshness never goes back because polls and acks
are taken only when newer; the edge in force goes only when no other could take
over because `Delete` refuses it otherwise. `FollowersMatch` and `TargetsFollow`
need no more than the same frame lemmas.

**Shape of the table (`PathInv`).** Live inners have distinct positions
(`Apart`); their positions are gapless from 0 and each hangs off the one before
(`IsPath`); a departing inner hangs strictly inward of its own position
(`LeavesInward`). The last is what makes the order of hops well defined beside
departures, and what insertions and the re-chaining at the end of a departure
have to keep. Lemmas on cardinality (`Reconcile` numbers a finite set along its
order) carry `IsPath` through. From it: `AddOrder`, that an insertion moves no row
past another.

**Whom a document dials (`HangInv`).** `Dialled` walks next hops until a row that
is visible and stays. It is a recursive function, and induction over data is out
of reach; the proof gives its value in closed form instead (`Walk`: the outermost
visible live inner not beyond the first step) and shows that a function with
`Dialled`'s equation agrees with `Walk` everywhere, since a place where they
differ and that is nearest to the panel leads to a nearer one. `CallersKnown`
follows from the closed form and the order of hops. `DocumentsMoveRevision` needs
besides that live edges hang off the last front that has entered whenever the
table is quiet: `HangInv`, with the secrets of the joined.

**Wave (`WaveInv`).** A box may hold, keep on disk or be about to receive any
document that was ever made, so an invariant about the current one cannot be
inductive. `WaveInv` says what *every* document keeps to, however old: it has no
revision the panel has not reached; if it has the revision a departing hop left
at, or a later one, it does not dial that hop (`LeavesBehind`); if it has the
current revision, its secrets are current (`ListsCurrent`). A poll reads the
revision first and the rows later: `AskFits` keeps between the two reads what the
second must agree with, and documents found by name need `UniqueNames`. The proof
splits into what a write of the panel does to documents it knows nothing of
(`TableMoves`, `FitsKept`), what a document made now looks like, and what
truncation keeps; the boxes' own steps only move documents about.

**What moves forward (`FlowInv`).** A box that joins again gets a document from
the table, while others still hand out older ones under its old secret. A
*sighting* is a place where some box's document lists hop x with secret k at
revision r. `Ages` orders sightings: one of a newer secret of a hop is not of an
older revision. `Issued` bounds them by what the table gave out. `Box(h)` says
what a box has applied, what is on its disk, and what an answer on its way to it
can still bring, so that what it applies next is never older.

**What is confirmed (`AckInv`).** Acks travel by name from box to box, each box
repeating what its outer ones told it, so honesty has to hold everywhere a name
is credited: in the rows, in what every box remembers of every name, and in every
poll the panel has not finished answering. None is beyond `Cur`, the revision the
box answers with, or will once it is started; `Cur` never falls, by `FlowInv`.

**How a departure ends (`AwaitedByName`).** A departing row waits for names. It
waits for those of all the former neighbours it began with; a name leaves the list
only when its row has confirmed the revision of the departure; by `AckInv` the
box has then applied it, and by `RelayLeavesDeparting` such a document does not
dial the box that left.

**What a document lists (`ClearInv`).** Boxes truncate without knowing the order
of the chain: each hands a neighbour the list from the neighbour's own entry on.
So of *every* document a box has in any form, the order of the list has to agree
with the order of the hops in today's table, long after it was made. `Clear` says
that: entries of a name are of one row, roles are true, rows are visible, and live
fronts stand in the order of `Before`. `OrderStays` is the reason it lasts: no
transaction moves one live front past another; a sweep only closes them up, and
what a departure re-chains is no longer live. `StatesMove` is the other half: a
row that was visible stays visible until it is gone for good.

**Front end.** `StageInv` types the locals of a process by its place in `Apply`,
`LockInv` says which places hold the lock. `HomeInv` (`HomeIsRemembered`): the
snapshots, or those of the process that is in a move, cover whatever is on the
loopback. `PortInv` and `DiskInv` (`ServesTheDisk`): nginx and Xray never both
hold the public port, and while files are staged nginx serves those of before, or
holds the port, so that putting the files back is putting nginx back.
`TrialInv` (`PortsClosedOnTrial`) follows a trial through both processes: turns
are taken (`TurnInv`); an apply of the owner begins with settings that were proven
(`OwnerInv`) and passes, key after key, through mixtures of old and new, none of
which closes more than one of the two (`Mixing`); a rollback goes down to what
was proven (`RollbackInv`, `FallbackInv`); the reconciler wants what is stored
(`ReconcileInv`). A confirmation is asked for exactly where the level rises
(`Arming`). All but the turns hold until the job has given up, which the property
allows for.

**Monitoring.** `RowInv`: the row is where its transition put it, and no stored
transition is newer. What a batch does to a row is a fold over its transitions in
order; again a closed form (`AtOnce`: the newest one decides) that the recursive
`Applied` is shown to agree with. `ToldInv` counts a message as told *or about to
be told* by a request or the job, which makes "at most once" inductive over
requests that interleave, and ties silences told to the silences that ended.

**Live updates.** `WayInv` is `SocketOrTimer` page by page with the types of
clients and connections: a page's sockets are its own, so whatever happens to the
connections of others, and whatever the panel and the network do to its own
before the browser hears of it, leaves it alone. `HubInv` bounds panics and starts.

**Form.** `FitInv` asks of the form *under edit*, at every moment, what
`SavedStreamFits` asks of stored rows, because OK may come at any moment, and that Hysteria keeps its own
transport, or TCP masks could be added to it. `KeylessOnlyReplaced` follows step by
step: OK alone and an answered OK are all that stores, and both check the inbound
they store unless it was replaced. Links need the round trip
through a record of parameters, one lemma per pair of writer and reader.

### 5.2 Hypotheses

The constants are assumed to be what their names say: bounds are naturals (the
hub's panics, queues and starts at least 1; `hub.go` gives up after 3), sets of
inbounds and requests are finite, the values standing for "no document", "no row",
"no key" and "no site" are none, the imported override is a name and addresses
and watched paths are paths. TLC evaluates every assumption in the runs.

Seven theorems ask for more, and the model has counterexamples without it:

* `DocumentsForward` asks that `Forgetful` is empty and for `JoinsMeetNoAnswer`.
  A box that could not save the revision it runs on comes back from a crash on
  an older one (`proxy/chain.go:321` accepts that). The panel answers a poll
  with a revision and rows it reads one after the other: if a box is joined anew
  between the two, the answer carries the new secret under the old revision, and
  the box that joined, polling whoever has that answer, is handed an older document
  than its join gave it. Joins at any other time are covered, as are losses and
  crashes;
* `AcksHonest` and `DepartureLeaves` ask besides for `Named(NameOf)`, with
  `NameOf` any one-to-one assignment of names to hops: acks and the lists of a
  departure are kept by name, so a rename, or a name taken over from a hop that
  is gone, credits one hop with what another confirmed (section 4);
* `DocumentsOutward` asks for `NamesReachAskers`: a box asks, two renames swap
  its name with another edge's before the panel reads the rows, and it is handed
  the other's document. It asks for `NoImportReopened`: an imported front has no
  secret, so that a new token leaves it pending without one, and the panel no
  longer shows (`Visible`) a row that documents already list. Renames at all other
  times, joins, departures, losses, crashes and boxes that cannot save are covered;
* `HomeIsRemembered` asks that `"move"` is neither in `Fails` nor in `CrashAt`:
  up to `SaveSnapshots` the snapshots are in memory alone;
* `ServesTheDisk` asks that no place in `Undoable` is in `CrashAt`: from staging
  to activation, and while an apply is undone, disk and nginx may differ, and the
  panel forgets how to undo. All other failures and stops are allowed;
* `PortsClosedOnTrial` asks for `~Overlap`, `Patient` and stops at `Between`
  only. An impatient owner makes the state on trial the one to fall back to
  (`RollbackOpens`), and beside each other an apply and the job's tick undo one
  another. Edits, failures, lost rules, stops of nginx and the clock are as free as
  in the model.

`NginxTrial` and `NginxOverlap` are instances within the hypotheses of their
theorems, `WaveDeparture` within those of the first three of the wave and
`WaveEntry` within those of `DocumentsOutward`: the premises are no contradiction.

### 5.3 Only model-checked

Every safety property of the passing runs, state or action, is stated by a
theorem. What is left:

* liveness (`DepartureEnds`, `WaveArrives`, `Converges`, `ZombiesGo`,
  `PagesComeBack`, `PollingCovers`, `PanelCatchesUp`), which like ENABLED is beyond
  the prover;
* `RollbackOpens` and `SavedRealityHasKey`, which do not hold.


## 6. Plan

1. Done: the modules of section 2, their instances and runs, the refinement of
   `ChainPromise`, and the proofs above.
2. Done: proofs of every safety property the passing runs check, under the
   hypotheses of section 5.2. Left to TLC is what section 5.3 names.
3. Modules that are candidates: `XrayRestart` (the need-restart flag, the job,
   the manual stop), `MtprotoManager` (reconcile, start and stop, and traffic
   collection as interleaved steps of several goroutines), `BoxPoller` (interval,
   doubling, fast retry after a join, the stale flag), `ClientLimits` (traffic,
   expiry, limits and renewal in `inbound.go`, with edits between the reading and
   the writing of counters).
4. Abstract specification: a change that is confirmed or rolled back,
   implemented by `NginxFront` with a patient owner.

## 7. Not modelled

Of the chain: hop validation, hosts and ports as text, subscription paths in
documents, the observed address of a join and `last_seen_at`; the relay process
and what it does with a document; TLS; the status endpoint; the time between
polls. A transaction that fails as a whole changes nothing and is no action; one
transaction of several failing is covered only where the code has several (the
sweep, a poll, a join and the files it writes).

Some steps of the chain are one in the model and two in the code. `SweepStep`
decides and ends a departure at once; the code decides first
(`chain_drain.go:215`) and ends it in a transaction of its own, which asks again
only whether the row is departing (279). `RecordSeen` reads the rows it may write
before its transaction (`chain_wave.go:90-94`). `PortsChanged` has the change of
ports and the new revision together; the code moves the revision after the write
where it has no transaction to share (`chain_hooks.go:17-22`, 67), and a stop
between the two leaves the boxes with the old ports until the next change.
`FollowEdge` is one step in the code too, being in the transaction of its caller
(`chain_follow.go:84-85`); an inbound edited behind the panel's back, which it skips
with a warning (113), is not modelled. Of the live updates, `Upgrade` has the
101 response and the registration together (`websocket.go:79-86`). Of the
monitoring, a row first seen in a bucket has `since` 0 in the model and the start
of that bucket in the code (`monitoring_ingest.go:537`): a transition older than
the first bucket, which the model applies, is dropped (420).

Of the monitoring: rollups, retention, probe sets, summaries and the page that
polls them (sums over rows and their presentation), and switching it off. Of the
live updates: what is broadcast, the throttle, and the pages' handlers of
payloads. Of the form: fields that no property tells apart, the forms of
clients, cloning and importing, two sessions that edit the same row (the later
one wins the whole row), and the outbound editor but for reading links.

Not modelled at all: the vendored editor (`web/assets/codemirror`: CodeMirror
modes and jshint, three quarters of the JavaScript in the repository and none of
it this project's logic); helpers of the pages without state
(`web/assets/js/util/index.js`: HTTP, formatting, cookies); process control and
kernel interfaces (tunnels, port forwarding, NDP, the box's relay); CRUD over
settings, users and inbounds; installers, migrations, tests.
