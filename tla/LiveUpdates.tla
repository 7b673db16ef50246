----------------------------- MODULE LiveUpdates -----------------------------
(***************************************************************************)
(* Real-time updates of the panel's pages: the WebSocket client of a       *)
(* browser (web/assets/js/websocket.js) with the polling its page falls    *)
(* back to (web/html/index.html), the connections the panel serves         *)
(* (web/controller/websocket.go) and the hub that fans messages out to     *)
(* them (web/websocket/hub.go), through outages of the network, reloads of *)
(* a page, panics of the hub and restarts of the panel in its own process  *)
(* (main.go on SIGHUP, Server.Stop in web/web.go).                         *)
(*                                                                         *)
(* A connection is a slot that is taken again once nobody knows it any     *)
(* more.  What a message says is left out: a send queue is a number.       *)
(***************************************************************************)
EXTENDS Integers, FiniteSets

CONSTANTS
  Page,          \* browser pages
  Slot,          \* connections a page may have at once, old ones included
  MaxAttempts,   \* maxReconnectAttempts (10 in the code)
  MaxPollers,    \* bound on the polling loops of a page that are counted
  SendQueue,     \* clientSendQueue (512)
  ControlQueue,  \* hubControlQueue (64)
  MaxPanics,     \* hubRestartAttempts (3)
  MaxGen,        \* bound on the panel's starts
  MaxFaults      \* bound on outages, reloads and panics

ASSUME LiveAssumption ==
  /\ {MaxAttempts, MaxFaults} \subseteq Nat
  /\ {MaxPollers, SendQueue, ControlQueue, MaxPanics, MaxGen} \subseteq Nat \ {0}

Conn == Page \X Slot
Gen == 1..MaxGen
NoConn == <<>>              \* a null this.ws

VARIABLES
  page,       \* per page: its WebSocketClient and its polling loops
  conn,       \* per connection: what browser, network and panel know of it
  clients,    \* the registries of the hubs
  reg, unreg, \* their register and unregister channels
  hub,        \* per start of the panel: its hub's event loop
  panics,     \* panics of the current hub so far
  cancelled,  \* the hubs whose context is cancelled
  gen,        \* the start the panel is in
  panel,      \* "up", "stopping" (hub cancelled, still listening), "down"
  network,    \* whether pages reach the panel
  faults

hubVars == <<clients, reg, unreg, hub, panics>>
panelVars == <<cancelled, gen, panel>>
vars == <<page, conn, hubVars, panelVars, network, faults>>

Client == [ws : Conn \cup {NoConn}, connected : BOOLEAN, attempts : 0..MaxAttempts,
           timer : BOOLEAN, pollers : 0..MaxPollers]
Socket == [browser : {"connecting", "open", "closed"},
           link : {"up", "cut", "closed"},
           server : {"none", "asked", "serving", "gone"},
           hub : Gen, buffer : 0..SendQueue, sendClosed : BOOLEAN]
Free == [browser |-> "closed", link |-> "closed", server |-> "none",
         hub |-> 1, buffer |-> 0, sendClosed |-> FALSE]

TypeOK ==
  /\ page \in [Page -> Client] /\ conn \in [Conn -> Socket]
  /\ clients \cup reg \cup unreg \subseteq Conn /\ cancelled \subseteq Gen
  /\ hub \in [Gen -> {"none", "running", "paused", "down", "stopped"}]
  /\ panics \in 0..MaxPanics /\ gen \in Gen /\ panel \in {"up", "stopping", "down"}
  /\ network \in BOOLEAN /\ faults \in 0..MaxFaults

Of(g) == {c \in Conn : conn[c].hub = g}
Fault == faults < MaxFaults /\ faults' = faults + 1

-----------------------------------------------------------------------------
(* The browser: websocket.js and the page around it. *)

\* A slot nobody knows of: TLC's stand-in for a fresh socket.
FreeSlots(p) ==
  {c \in {p} \X Slot : /\ conn[c].browser = "closed" /\ conn[c].server \in {"none", "gone"}
                       /\ c \notin clients \cup reg \cup unreg}

\* #openSocket
OpenSocket(p, state) ==
  /\ FreeSlots(p) # {}
  /\ LET c == CHOOSE c \in FreeSlots(p) : TRUE IN
     /\ page' = [page EXCEPT ![p] = [state EXCEPT !.ws = c, !.timer = FALSE]]
     /\ conn' = [d \in Conn |->
                   IF d = c THEN [Free EXCEPT !.browser = "connecting", !.link = "up"]
                   ELSE IF d \in FreeSlots(p) THEN Free ELSE conn[d]]

\* The page is mounted: connect(), on a client that has done nothing yet.
Fresh == [ws |-> NoConn, connected |-> FALSE, attempts |-> 0, timer |-> FALSE, pollers |-> 0]

Mount(p) ==
  /\ page[p].ws = NoConn /\ ~page[p].timer
  /\ OpenSocket(p, page[p])
  /\ UNCHANGED <<hubVars, panelVars, network, faults>>

\* The reconnect timer.
TimerFires(p) ==
  /\ page[p].timer
  /\ OpenSocket(p, page[p])
  /\ UNCHANGED <<hubVars, panelVars, network, faults>>

\* Seeded bug: after the last attempt the client gives up.
GiveUp(s) ==
  IF s.attempts < MaxAttempts THEN [s EXCEPT !.attempts = @ + 1, !.timer = TRUE] ELSE s

\* Seeded bug: the counter grows past the attempts it is compared with.
CountOn(s) == [s EXCEPT !.attempts = @ + 1, !.timer = TRUE]

\* #scheduleReconnect: back off, then go on retrying slowly.
ScheduleReconnect(s) ==
  [s EXCEPT !.attempts = IF @ < MaxAttempts THEN @ + 1 ELSE @, !.timer = TRUE]

\* The page's startPolling: one more loop, whatever loops there are.
StartPolling(s) == [s EXCEPT !.pollers = IF @ < MaxPollers THEN @ + 1 ELSE @]

\* The open event.
Opened(c) ==
  /\ conn[c].browser = "connecting" /\ conn[c].server \in {"serving", "gone"}
  /\ conn[c].link # "cut"
  /\ conn' = [conn EXCEPT ![c].browser = "open"]
  /\ page' = [page EXCEPT ![c[1]].connected = TRUE, ![c[1]].attempts = 0]
  /\ UNCHANGED <<hubVars, panelVars, network, faults>>

\* The close event, after an error event unless the close was clean: the page
\* polls at an error, and at a close once the attempts are used up.
Closed(s, error) ==
  LET heard == IF error THEN StartPolling(s) ELSE s
      told == IF s.attempts >= MaxAttempts THEN StartPolling(heard) ELSE heard
  IN  ScheduleReconnect([told EXCEPT !.connected = FALSE, !.ws = NoConn])

\* The browser finds out: a handshake that failed is an error, a connection that
\* broke may be one.
BrowserNotices(c) ==
  /\ conn[c].browser # "closed"
  /\ \/ conn[c].link = "cut"
     \/ conn[c].link = "closed" /\ (conn[c].browser = "open" \/ conn[c].server = "none")
  /\ \E error \in BOOLEAN :
       /\ conn[c].browser = "connecting" => error
       /\ conn[c].link = "closed" /\ conn[c].browser = "open" => ~error
       /\ page' = [page EXCEPT ![c[1]] = Closed(@, error)]
  /\ conn' = [conn EXCEPT ![c].browser = "closed"]
  /\ UNCHANGED <<hubVars, panelVars, network, faults>>

\* Seeded bug: the loop stops as soon as there is a client at all.
PollOnce(p) ==
  /\ page[p].pollers > 0
  /\ page' = [page EXCEPT ![p].pollers = 0]
  /\ UNCHANGED <<conn, hubVars, panelVars, network, faults>>

\* Polling loops stop at their next turn when the client is connected.
PollTick(p) ==
  /\ page[p].pollers > 0 /\ page[p].connected
  /\ page' = [page EXCEPT ![p].pollers = 0]
  /\ UNCHANGED <<conn, hubVars, panelVars, network, faults>>

\* The owner reloads the page, and with it goes everything it had.
Reload(p) ==
  /\ Fault
  /\ page' = [page EXCEPT ![p] = Fresh]
  /\ conn' = [c \in Conn |-> IF c[1] = p /\ conn[c].browser # "closed"
                               THEN [conn[c] EXCEPT !.browser = "closed",
                                       !.link = IF @ = "up" THEN "closed" ELSE @]
                               ELSE conn[c]]
  /\ UNCHANGED <<hubVars, panelVars, network>>

-----------------------------------------------------------------------------
(* The panel's side of a connection: HandleWebSocket and its two pumps. *)

\* The request reaches a panel that listens, and with it the hub of this start.
Ask(c) ==
  /\ conn[c].browser = "connecting" /\ conn[c].server = "none" /\ conn[c].link = "up"
  /\ IF network /\ panel # "down"
       THEN conn' = [conn EXCEPT ![c].server = "asked", ![c].hub = gen]
       ELSE conn' = [conn EXCEPT ![c].link = "closed"]
  /\ UNCHANGED <<page, hubVars, panelVars, network, faults>>

\* Register: the channel, or the cancelled context, whichever is ready.  What
\* the channels of a stopped hub hold nobody reads: it is left out.
Register(c) ==
  LET g == conn[c].hub
  IN  \/ hub[g] # "stopped" /\ Cardinality(reg \cap Of(g)) < ControlQueue
         /\ reg' = reg \cup {c}
      \/ g \in cancelled /\ UNCHANGED reg

\* The upgrade, Register, and the pumps start; or the upgrade fails, on a
\* connection that broke meanwhile.
Upgrade(c) ==
  /\ conn[c].server = "asked"
  /\ \/ conn' = [conn EXCEPT ![c].server = "serving"] /\ Register(c)
     \/ /\ conn[c].link # "up" /\ UNCHANGED reg
        /\ conn' = [conn EXCEPT ![c].server = "gone"]
  /\ UNCHANGED <<page, clients, unreg, hub, panics, panelVars, network, faults>>

\* writePump: a message goes out; the close frame, once the queue is closed
\* and empty.
WritePump(c) ==
  /\ conn[c].server = "serving" /\ conn[c].link = "up"
  /\ IF conn[c].buffer > 0 THEN conn' = [conn EXCEPT ![c].buffer = @ - 1]
     ELSE conn[c].sendClosed /\ conn' = [conn EXCEPT ![c].link = "closed"]
  /\ UNCHANGED <<page, hubVars, panelVars, network, faults>>

\* removeClient: the send queue is closed exactly when the client leaves.
Removed(c) ==
  /\ clients' = clients \ {c}
  /\ conn' = [conn EXCEPT ![c].server = "gone", ![c].sendClosed = @ \/ c \in clients]

\* Unregister: through the channel, or directly if that is full.
Unregister(c) ==
  IF Cardinality(unreg \cap Of(conn[c].hub)) < ControlQueue
    THEN /\ unreg' = IF hub[conn[c].hub] = "stopped" THEN unreg ELSE unreg \cup {c}
         /\ conn' = [conn EXCEPT ![c].server = "gone"]
         /\ UNCHANGED clients
    ELSE Removed(c) /\ UNCHANGED unreg

\* readPump: the connection is over, by whatever end.
ReadPump(c) ==
  /\ conn[c].server = "serving" /\ conn[c].link # "up"
  /\ Unregister(c)
  /\ UNCHANGED <<page, reg, hub, panics, panelVars, network, faults>>

-----------------------------------------------------------------------------
(* The hub's event loop. *)

HubRegister(c) ==
  /\ c \in reg /\ hub[conn[c].hub] = "running"
  /\ reg' = reg \ {c} /\ clients' = clients \cup {c}
  /\ UNCHANGED <<page, conn, unreg, hub, panics, panelVars, network, faults>>

HubUnregister(c) ==
  /\ c \in unreg /\ hub[conn[c].hub] = "running"
  /\ unreg' = unreg \ {c} /\ Removed(c)
  /\ UNCHANGED <<page, reg, hub, panics, panelVars, network, faults>>

\* Seeded bug: a full queue drops the message and keeps the client.
NobodyFull(g) == {}

\* trySend refuses: the clients fanout evicts.
Full(g) == {c \in clients \cap Of(g) : conn[c].buffer = SendQueue}

\* fanout: a message for everybody, and out goes who has no room for it.  Jobs
\* broadcast all the time, so a message may always be waiting.
Fanout(g) ==
  /\ hub[g] = "running" /\ clients \cap Of(g) # {}
  /\ conn' = [c \in Conn |->
                IF c \in Full(g) THEN [conn[c] EXCEPT !.sendClosed = TRUE]
                ELSE IF c \in clients \cap Of(g) /\ conn[c].buffer < SendQueue
                  THEN [conn[c] EXCEPT !.buffer = @ + 1] ELSE conn[c]]
  /\ clients' = clients \ Full(g)
  /\ UNCHANGED <<page, reg, unreg, hub, panics, panelVars, network, faults>>

\* The channels of a hub that is gone.
Unread(g) == reg' = reg \ Of(g) /\ unreg' = unreg \ Of(g)

\* A panic in the loop, recovered: the loop waits and starts again, until the
\* attempts are used up.  One fault, however often it comes back.
Panic ==
  /\ hub[gen] = "running"
  /\ IF panics = 0 THEN Fault ELSE UNCHANGED faults
  /\ panics' = panics + 1
  /\ hub' = [hub EXCEPT ![gen] = IF panics + 1 < MaxPanics THEN "paused" ELSE "down"]
  /\ UNCHANGED <<page, conn, clients, reg, unreg, panelVars, network>>

\* The end of the wait; a hub cancelled meanwhile returns without shutdown.
Resume(g) ==
  /\ hub[g] = "paused"
  /\ IF g \in cancelled
       THEN hub' = [hub EXCEPT ![g] = "stopped"] /\ Unread(g)
       ELSE hub' = [hub EXCEPT ![g] = "running"] /\ UNCHANGED <<reg, unreg>>
  /\ UNCHANGED <<page, conn, clients, panics, panelVars, network, faults>>

\* Seeded bug: the registry is emptied and the queues stay open.
ShutdownQuietly(g) ==
  /\ hub[g] = "running" /\ g \in cancelled
  /\ hub' = [hub EXCEPT ![g] = "stopped"]
  /\ clients' = clients \ Of(g) /\ Unread(g)
  /\ UNCHANGED <<page, conn, panics, panelVars, network, faults>>

\* shutdown closes the queue of every client that is registered by now.
Shutdown(g) ==
  /\ hub[g] = "running" /\ g \in cancelled
  /\ hub' = [hub EXCEPT ![g] = "stopped"]
  /\ clients' = clients \ Of(g)
  /\ conn' = [c \in Conn |-> IF c \in clients \cap Of(g)
                               THEN [conn[c] EXCEPT !.sendClosed = TRUE] ELSE conn[c]]
  /\ Unread(g)
  /\ UNCHANGED <<page, panics, panelVars, network, faults>>

-----------------------------------------------------------------------------
(* The panel restarts in its process, and the network fails. *)

\* Server.Stop: the hub first, then the listeners; then a new server, as main
\* does it on SIGHUP.  Connections that are up survive all of it.
StopHub ==
  /\ panel = "up" /\ gen < MaxGen
  /\ panel' = "stopping" /\ cancelled' = cancelled \cup {gen}
  /\ UNCHANGED <<page, conn, hubVars, gen, network, faults>>

CloseListeners ==
  /\ panel = "stopping"
  /\ panel' = "down"
  /\ UNCHANGED <<page, conn, hubVars, cancelled, gen, network, faults>>

StartPanel ==
  /\ panel = "down"
  /\ panel' = "up" /\ gen' = gen + 1
  /\ hub' = [hub EXCEPT ![gen + 1] = "running"] /\ panics' = 0
  /\ UNCHANGED <<page, conn, clients, reg, unreg, cancelled, network, faults>>

\* Every connection breaks, and none comes about until the network is back.
Outage ==
  /\ network /\ Fault
  /\ network' = FALSE
  /\ conn' = [c \in Conn |-> [conn[c] EXCEPT !.link = IF @ = "up" /\ conn[c].server # "none"
                                                        THEN "cut" ELSE @]]
  /\ UNCHANGED <<page, hubVars, panelVars>>

Recover ==
  /\ ~network
  /\ network' = TRUE
  /\ UNCHANGED <<page, conn, hubVars, panelVars, faults>>

-----------------------------------------------------------------------------

Init ==
  /\ page = [p \in Page |-> Fresh]
  /\ conn = [c \in Conn |-> Free]
  /\ clients = {} /\ reg = {} /\ unreg = {}
  /\ hub = [g \in Gen |-> IF g = 1 THEN "running" ELSE "none"]
  /\ panics = 0 /\ cancelled = {} /\ gen = 1 /\ panel = "up"
  /\ network = TRUE /\ faults = 0

PageStep(p) == Mount(p) \/ TimerFires(p) \/ PollTick(p)
Browser(c) == Opened(c) \/ BrowserNotices(c)
Serve(c) == Ask(c) \/ Upgrade(c) \/ WritePump(c) \/ ReadPump(c)
Select(c) == HubRegister(c) \/ HubUnregister(c)
Restart == CloseListeners \/ StartPanel

Next ==
  \/ \E p \in Page : PageStep(p) \/ Reload(p)
  \/ \E c \in Conn : Browser(c) \/ Serve(c) \/ Select(c)
  \/ \E g \in Gen : Fanout(g) \/ Resume(g) \/ Shutdown(g)
  \/ Panic \/ StopHub \/ Restart \/ Outage \/ Recover

Spec == Init /\ [][Next]_vars

\* Timers fire, event loops and pumps run, a hub's select leaves no channel
\* waiting for ever, jobs broadcast, and a stop is followed through.  What is
\* grouped here is never enabled together.
Fairness ==
  /\ \A p \in Page : WF_vars(PageStep(p))
  /\ \A c \in Conn : WF_vars(Browser(c)) /\ WF_vars(Serve(c))
                     /\ WF_vars(HubRegister(c)) /\ WF_vars(HubUnregister(c))
  /\ \A g \in Gen : WF_vars(Fanout(g)) /\ WF_vars(Resume(g) \/ Shutdown(g))
  /\ WF_vars(Restart)

FairSpec == Spec /\ Fairness

-----------------------------------------------------------------------------
(* Properties. *)

\* A page never loses its way back and never has two sockets: whatever closed,
\* reconnected or timed out, a page that has connected before holds one socket
\* or waits for its timer, every other socket of its slots is closed, and it
\* believes itself connected exactly when its socket is open (connect,
\* #openSocket, #scheduleReconnect in websocket.js).
SocketOrTimer ==
  \A p \in Page :
    LET me == page[p] IN
    /\ me.timer => me.ws = NoConn
    /\ me.attempts > 0 => me.ws # NoConn \/ me.timer
    /\ \A c \in {p} \X Slot : conn[c].browser # "closed" => c = me.ws
    /\ me.connected <=> me.ws # NoConn /\ conn[me.ws].browser = "open"

\* A client whose connection is over leaves the registry, even one that was
\* registered after it had unregistered (two channels, in either order): its queue
\* fills and fanout evicts it - unless the hub is not running any more.
ZombiesGo ==
  \A c \in Conn :
    c \in clients /\ conn[c].server = "gone"
      ~> c \notin clients \/ hub[conn[c].hub] \in {"down", "stopped"}

\* What the way back depends on: no hub is dead after its panics or stopped while
\* it waited, and no handshake was under way, up to its registration, when the
\* panel stopped its hub: such a connection stays open and nobody closes it.
HubsAreWell == \A g \in Gen : hub[g] # "down" /\ (hub[g] = "paused" => g \notin cancelled)
NoLateHandshake ==
  \A c \in Conn : conn[c].hub \in cancelled => conn[c].server # "asked" /\ c \notin reg

\* A client that works is not evicted: its queue of SendQueue messages lasts.
KeepUp == \A c \in clients : conn[c].server = "serving" /\ conn[c].link = "up" => c \in clients'

\* After outages and restarts of the panel, and when the network stays up, every
\* page is again and again connected to, and registered with, the hub that
\* broadcasts (Server.Stop and shutdown close the old connections so that pages
\* come back to the new server).
PagesComeBack ==
  (<>[]network /\ [](HubsAreWell /\ NoLateHandshake) /\ <>[][KeepUp]_vars) =>
    \A p \in Page :
      []<>(page[p].connected /\ page[p].ws \in clients /\ conn[page[p].ws].hub = gen)

\* The polling fallback of the page: it runs while the network is gone for good,
\* and it stops, every loop of it, once the client stays connected.
PollingCovers ==
  \A p \in Page :
    /\ <>[]~network => <>[](page[p].pollers > 0 /\ ~page[p].connected)
    /\ <>[](page[p].connected) => <>[](page[p].pollers = 0)
=============================================================================
