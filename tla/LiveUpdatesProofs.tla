-------------------------- MODULE LiveUpdatesProofs --------------------------
(***************************************************************************)
(* The way back of a page, for every number of pages, slots, attempts,     *)
(* panics and restarts of the panel.                                       *)
(***************************************************************************)
EXTENDS LiveUpdates, TLAPS

-----------------------------------------------------------------------------
(* Types. *)

LEMMA Constants ==
  /\ MaxAttempts \in Nat /\ MaxFaults \in Nat
  /\ MaxPollers \in Nat /\ MaxPollers > 0 /\ SendQueue \in Nat /\ SendQueue > 0
  /\ MaxPanics \in Nat /\ MaxPanics > 0 /\ MaxGen \in Nat /\ MaxGen > 0
BY LiveAssumption

LEMMA Connections ==
  /\ \A c \in Conn : c[1] \in Page /\ c \in {c[1]} \X Slot /\ c # NoConn
  /\ \A p \in Page : {p} \X Slot \subseteq Conn /\ \A c \in {p} \X Slot : c[1] = p
<1>1. \A c \in Conn : c # NoConn
  <2> SUFFICES ASSUME NEW p \in Page, NEW s \in Slot PROVE <<p, s>> # <<>>
    BY DEF Conn, NoConn
  <2>1. 1 \in DOMAIN <<p, s>> /\ DOMAIN <<>> = {}
    OBVIOUS
  <2>2. QED
    BY <2>1
<1>2. QED
  BY <1>1 DEF Conn

\* What the client's steps make of its state.
LEMMA ClientSteps ==
  ASSUME NEW s \in Client
  PROVE  /\ Fresh \in Client
         /\ StartPolling(s) \in Client
         /\ StartPolling(s).attempts = s.attempts
         /\ ScheduleReconnect(s) \in Client
         /\ ScheduleReconnect(s).ws = s.ws
         /\ ScheduleReconnect(s).connected = s.connected
         /\ \A error \in BOOLEAN :
              /\ Closed(s, error) \in Client
              /\ Closed(s, error).ws = NoConn /\ Closed(s, error).timer
              /\ ~Closed(s, error).connected
<1>1. \A t \in Client : StartPolling(t) \in Client /\ StartPolling(t).attempts = t.attempts
  BY Constants DEF Client, StartPolling
<1>2. \A t \in Client :
        /\ ScheduleReconnect(t) \in Client /\ ScheduleReconnect(t).ws = t.ws
        /\ ScheduleReconnect(t).connected = t.connected /\ ScheduleReconnect(t).timer
  <2> TAKE t \in Client
  <2> DEFINE n == IF t.attempts < MaxAttempts THEN t.attempts + 1 ELSE t.attempts
  <2>1. n \in 0..MaxAttempts
    BY Constants DEF Client
  <2>2. ScheduleReconnect(t) = [t EXCEPT !.attempts = n, !.timer = TRUE]
    BY DEF ScheduleReconnect
  <2> HIDE DEF n
  <2>3. [t EXCEPT !.attempts = n, !.timer = TRUE] \in Client
    BY <2>1 DEF Client
  <2>4. /\ ScheduleReconnect(t).ws = t.ws /\ ScheduleReconnect(t).connected = t.connected
        /\ ScheduleReconnect(t).timer = TRUE
    BY <2>2 DEF Client
  <2>5. QED
    BY <2>2, <2>3, <2>4
<1>3. \A t \in Client :
        /\ [t EXCEPT !.connected = FALSE, !.ws = NoConn] \in Client
        /\ [t EXCEPT !.connected = FALSE, !.ws = NoConn].ws = NoConn
        /\ [t EXCEPT !.connected = FALSE, !.ws = NoConn].connected = FALSE
  BY DEF Client
<1>4. Fresh \in Client
  BY Constants DEF Fresh, Client
<1>5. ASSUME NEW error \in BOOLEAN
      PROVE  /\ Closed(s, error) \in Client
             /\ Closed(s, error).ws = NoConn /\ Closed(s, error).timer
             /\ ~Closed(s, error).connected
  <2> DEFINE heard == IF error THEN StartPolling(s) ELSE s
             told == IF s.attempts >= MaxAttempts THEN StartPolling(heard) ELSE heard
             left == [told EXCEPT !.connected = FALSE, !.ws = NoConn]
  <2>1. heard \in Client
    BY <1>1
  <2>2. told \in Client
    <3> HIDE DEF heard
    <3>1. QED
      BY <1>1, <2>1
  <2>3. Closed(s, error) = ScheduleReconnect(left)
    BY DEF Closed
  <2> HIDE DEF told
  <2>4. left \in Client /\ left.ws = NoConn /\ left.connected = FALSE
    BY <1>3, <2>2
  <2> HIDE DEF left
  <2>5. QED
    BY <1>2, <2>3, <2>4
<1>6. QED
  BY <1>1, <1>2, <1>4, <1>5

LEMMA SocketSteps ==
  /\ Free \in Socket
  /\ [Free EXCEPT !.browser = "connecting", !.link = "up"] \in Socket
  /\ Free.browser = "closed"
  /\ [Free EXCEPT !.browser = "connecting", !.link = "up"].browser = "connecting"
<1>1. 1 \in Gen /\ 0 \in 0..SendQueue
  BY Constants DEF Gen
<1>2. Free \in Socket
  BY <1>1 DEF Free, Socket
<1>3. [Free EXCEPT !.browser = "connecting", !.link = "up"] \in Socket
  BY <1>2 DEF Socket
<1>4. Free.browser = "closed"
  BY Zenon DEF Free
<1>5. [Free EXCEPT !.browser = "connecting", !.link = "up"].browser = "connecting"
  BY <1>2 DEF Socket
<1>6. QED
  BY <1>2, <1>3, <1>4, <1>5

\* What a step makes of the connections keeps them connections.
LEMMA SocketWrites ==
  ASSUME NEW s \in Socket
  PROVE  /\ \A b \in {"connecting", "open", "closed"} : [s EXCEPT !.browser = b] \in Socket
         /\ \A l \in {"up", "cut", "closed"} : [s EXCEPT !.link = l] \in Socket
         /\ \A v \in {"none", "asked", "serving", "gone"} : [s EXCEPT !.server = v] \in Socket
         /\ \A g \in Gen : [s EXCEPT !.server = "asked", !.hub = g] \in Socket
         /\ \A n \in 0..SendQueue : [s EXCEPT !.buffer = n] \in Socket
         /\ \A b \in BOOLEAN : [s EXCEPT !.sendClosed = b] \in Socket
         /\ \A b \in BOOLEAN : [s EXCEPT !.server = "gone", !.sendClosed = b] \in Socket
BY DEF Socket

\* The pages and connections keep their types when one page and any connections
\* are written.
PagesTyped == page \in [Page -> Client] /\ conn \in [Conn -> Socket]

\* A hub that runs has panics left, and a panel that stops has a start left.
HubInv ==
  /\ hub[gen] \in {"running", "paused"} => panics < MaxPanics
  /\ panel # "up" => gen < MaxGen

LEMMA OpenedTypes ==
  ASSUME PagesTyped, NEW p \in Page, NEW s \in Client, OpenSocket(p, s)
  PROVE  PagesTyped'
<1> PICK c \in FreeSlots(p) :
      /\ page' = [page EXCEPT ![p] = [s EXCEPT !.ws = c, !.timer = FALSE]]
      /\ conn' = [d \in Conn |->
                    IF d = c THEN [Free EXCEPT !.browser = "connecting", !.link = "up"]
                    ELSE IF d \in FreeSlots(p) THEN Free ELSE conn[d]]
  BY DEF OpenSocket
<1>1. c \in Conn
  BY Connections DEF FreeSlots
<1>2. [s EXCEPT !.ws = c, !.timer = FALSE] \in Client
  BY <1>1 DEF Client
<1>3. page' \in [Page -> Client]
  BY <1>2 DEF PagesTyped
<1>4. conn' \in [Conn -> Socket]
  BY SocketSteps DEF PagesTyped
<1>5. QED
  BY <1>3, <1>4 DEF PagesTyped

-----------------------------------------------------------------------------
(* The way back. *)

OwnSockets == \A p \in Page : page[p].ws # NoConn => page[p].ws \in {p} \X Slot

\* SocketOrTimer for one page.
OnItsWay(p) ==
  /\ page[p].ws # NoConn => page[p].ws \in {p} \X Slot
  /\ page[p].timer => page[p].ws = NoConn
  /\ page[p].attempts > 0 => page[p].ws # NoConn \/ page[p].timer
  /\ \A c \in {p} \X Slot : conn[c].browser # "closed" => c = page[p].ws
  /\ page[p].connected <=> page[p].ws # NoConn /\ conn[page[p].ws].browser = "open"

WayInv == PagesTyped /\ \A p \in Page : OnItsWay(p)

LEMMA WayBack == WayInv => SocketOrTimer
BY DEF WayInv, OnItsWay, SocketOrTimer

\* Whatever the network, the panel and the hubs do to connections, the browser
\* has to notice first.
SameBrowsers ==
  conn' \in [Conn -> Socket] /\ \A c \in Conn : conn'[c].browser = conn[c].browser

LEMMA BesideThePage ==
  ASSUME WayInv, page' = page, SameBrowsers
  PROVE  WayInv'
<1>1. PagesTyped'
  BY DEF WayInv, PagesTyped, SameBrowsers
<1>2. ASSUME NEW p \in Page
      PROVE  OnItsWay(p)'
  <2>1. OnItsWay(p) /\ {p} \X Slot \subseteq Conn
    BY Connections DEF WayInv
  <2>2. page[p].ws # NoConn => page[p].ws \in Conn
    BY <2>1 DEF OnItsWay
  <2>3. QED
    BY <2>1, <2>2 DEF OnItsWay, SameBrowsers
<1>3. QED
  BY <1>1, <1>2 DEF WayInv

\* A page that is written, with sockets of its own, disturbs no other.
LEMMA OtherPages ==
  ASSUME WayInv, NEW p \in Page, NEW s \in Client, page' = [page EXCEPT ![p] = s],
         conn' \in [Conn -> Socket],
         \A c \in Conn : c[1] # p => conn'[c].browser = conn[c].browser,
         OnItsWay(p)'
  PROVE  WayInv'
<1>1. PagesTyped'
  BY DEF WayInv, PagesTyped
<1>2. ASSUME NEW q \in Page, q # p
      PROVE  OnItsWay(q)'
  <2>1. OnItsWay(q) /\ page'[q] = page[q]
    BY <1>2 DEF WayInv, PagesTyped
  <2>2. \A c \in {q} \X Slot : c \in Conn /\ c[1] = q
    BY Connections
  <2>3. \A c \in {q} \X Slot : conn'[c].browser = conn[c].browser
    BY <1>2, <2>2
  <2>4. QED
    BY <2>1, <2>3 DEF OnItsWay
<1>3. QED
  BY <1>1, <1>2 DEF WayInv

LEMMA OpenedWay ==
  ASSUME WayInv, NEW p \in Page, page[p].ws = NoConn, OpenSocket(p, page[p])
  PROVE  WayInv'
<1> PICK c \in FreeSlots(p) :
      /\ page' = [page EXCEPT ![p] = [page[p] EXCEPT !.ws = c, !.timer = FALSE]]
      /\ conn' = [d \in Conn |->
                    IF d = c THEN [Free EXCEPT !.browser = "connecting", !.link = "up"]
                    ELSE IF d \in FreeSlots(p) THEN Free ELSE conn[d]]
  BY DEF OpenSocket
<1> DEFINE s == [page[p] EXCEPT !.ws = c, !.timer = FALSE]
<1>1. c \in {p} \X Slot /\ c \in Conn /\ c # NoConn
      /\ \A d \in FreeSlots(p) : d \in {p} \X Slot /\ conn[d].browser = "closed"
  BY Connections DEF FreeSlots
<1>2. page[p] \in Client /\ OnItsWay(p) /\ PagesTyped
  BY DEF WayInv, PagesTyped
<1>3. s \in Client /\ s.ws = c /\ s.timer = FALSE /\ s.connected = page[p].connected
  BY <1>1, <1>2 DEF Client
<1>4. page' = [page EXCEPT ![p] = s] /\ page'[p] = s
  BY <1>2 DEF PagesTyped
<1> HIDE DEF s
<1>5. conn' \in [Conn -> Socket]
  BY SocketSteps, <1>2 DEF PagesTyped
<1>6. \A d \in Conn : /\ d = c => conn'[d].browser = "connecting"
                      /\ d # c => conn'[d].browser = conn[d].browser
  BY <1>1, SocketSteps
<1>7. \A d \in Conn : d[1] # p => conn'[d].browser = conn[d].browser
  BY <1>1, <1>6, Connections
<1>8. \A d \in {p} \X Slot : d \in Conn /\ (conn[d].browser # "closed" => d = NoConn) /\ d # NoConn
  BY <1>2, Connections DEF OnItsWay
<1>9. ~page[p].connected
  BY <1>2 DEF OnItsWay
<1>10. OnItsWay(p)'
  BY <1>1, <1>3, <1>4, <1>6, <1>8, <1>9 DEF OnItsWay
<1>11. QED
  BY <1>3, <1>4, <1>5, <1>7, <1>10, OtherPages

LEMMA PageStepWay ==
  ASSUME WayInv, NEW p \in Page, PageStep(p)
  PROVE  WayInv'
<1>1. page[p] \in Client /\ OnItsWay(p) /\ conn \in [Conn -> Socket]
  BY DEF WayInv, PagesTyped
<1>2. CASE Mount(p) \/ TimerFires(p)
  BY <1>1, <1>2, OpenedWay DEF Mount, TimerFires, OnItsWay
<1>3. CASE PollTick(p)
  <2> DEFINE s == [page[p] EXCEPT !.pollers = 0]
  <2>1. /\ s \in Client /\ s.ws = page[p].ws /\ s.timer = page[p].timer
        /\ s.attempts = page[p].attempts /\ s.connected = page[p].connected
    BY <1>1, Constants DEF Client
  <2>2. page' = [page EXCEPT ![p] = s] /\ page'[p] = s /\ conn' = conn
    BY <1>3 DEF PollTick, WayInv, PagesTyped
  <2> HIDE DEF s
  <2>3. OnItsWay(p)'
    BY <1>1, <2>1, <2>2 DEF OnItsWay
  <2>4. QED
    BY <1>1, <2>1, <2>2, <2>3, OtherPages
<1>4. QED
  BY <1>2, <1>3 DEF PageStep

LEMMA ReloadWay ==
  ASSUME WayInv, NEW p \in Page, Reload(p)
  PROVE  WayInv'
<1> DEFINE s(c) == [conn[c] EXCEPT !.browser = "closed",
                                   !.link = IF @ = "up" THEN "closed" ELSE @]
<1>1. PagesTyped /\ Fresh \in Client
  BY ClientSteps DEF WayInv, PagesTyped
<1>2. \A c \in Conn : s(c) \in Socket /\ s(c).browser = "closed"
  BY <1>1 DEF PagesTyped, Socket
<1>3. /\ page' = [page EXCEPT ![p] = Fresh] /\ page'[p] = Fresh
      /\ conn' = [c \in Conn |-> IF c[1] = p /\ conn[c].browser # "closed" THEN s(c) ELSE conn[c]]
  BY <1>1 DEF Reload, PagesTyped
<1> HIDE DEF s
<1>4. conn' \in [Conn -> Socket]
  BY <1>1, <1>2, <1>3 DEF PagesTyped
<1>5. \A c \in Conn : /\ c[1] # p => conn'[c].browser = conn[c].browser
                      /\ c[1] = p => conn'[c].browser = "closed"
  BY <1>2, <1>3
<1>6. Fresh.ws = NoConn /\ Fresh.timer = FALSE /\ Fresh.attempts = 0 /\ Fresh.connected = FALSE
  BY DEF Fresh
<1>7. OnItsWay(p)'
  BY <1>3, <1>5, <1>6, Connections DEF OnItsWay
<1>8. QED
  BY <1>1, <1>3, <1>4, <1>5, <1>7, OtherPages

LEMMA BrowserWay ==
  ASSUME WayInv, NEW c \in Conn, Browser(c)
  PROVE  WayInv'
<1> DEFINE p == c[1]
<1>1. p \in Page /\ c \in {p} \X Slot /\ c # NoConn
  BY Connections
<1> HIDE DEF p
<1>2. page[p] \in Client /\ OnItsWay(p) /\ PagesTyped
  BY <1>1 DEF WayInv, PagesTyped
<1>3. conn[c].browser # "closed"
  BY DEF Browser, Opened, BrowserNotices
<1>4. page[p].ws = c
  BY <1>1, <1>2, <1>3 DEF OnItsWay
<1>5. \A d \in {p} \X Slot : d \in Conn /\ (d # c => conn[d].browser = "closed")
  BY <1>1, <1>2, <1>4, Connections DEF OnItsWay
<1>6. ASSUME NEW b \in {"connecting", "open", "closed"}, conn' = [conn EXCEPT ![c].browser = b]
      PROVE  /\ conn' \in [Conn -> Socket]
             /\ \A d \in Conn : /\ d = c => conn'[d].browser = b
                                /\ d # c => conn'[d].browser = conn[d].browser
  <2> DEFINE s == [conn[c] EXCEPT !.browser = b]
  <2>1. s \in Socket /\ s.browser = b
    BY <1>2 DEF PagesTyped, Socket
  <2>2. conn' = [conn EXCEPT ![c] = s]
    BY <1>6
  <2> HIDE DEF s
  <2>3. QED
    BY <1>2, <2>1, <2>2 DEF PagesTyped
<1>7. CASE Opened(c)
  <2> DEFINE s == [page[p] EXCEPT !.connected = TRUE, !.attempts = 0]
  <2>1. s \in Client
    <3>1. 0 \in 0..MaxAttempts
      BY Constants
    <3>2. QED
      BY <1>2, <3>1 DEF Client
  <2>2. /\ s.ws = c /\ s.timer = page[p].timer /\ s.attempts = 0
        /\ s.connected = TRUE
    BY <1>2, <1>4 DEF Client
  <2>3. page' = [page EXCEPT ![p] = s] /\ page'[p] = s
    BY <1>1, <1>2, <1>7 DEF Opened, PagesTyped, p
  <2> HIDE DEF s
  <2>4. /\ conn' \in [Conn -> Socket]
        /\ \A d \in Conn : /\ d = c => conn'[d].browser = "open"
                           /\ d # c => conn'[d].browser = conn[d].browser
    BY <1>6, <1>7 DEF Opened
  <2>5. OnItsWay(p)'
    <3>1. ~page[p].timer
      BY <1>1, <1>2, <1>4 DEF OnItsWay
    <3>2. QED
      BY <1>1, <1>5, <2>1, <2>2, <2>3, <2>4, <3>1 DEF OnItsWay
  <2>6. \A d \in Conn : d[1] # p => conn'[d].browser = conn[d].browser
    BY <1>1, <2>4, Connections
  <2>7. QED
    BY <1>1, <2>1, <2>2, <2>3, <2>4, <2>5, <2>6, OtherPages
<1>8. CASE BrowserNotices(c)
  <2>1. PICK error \in BOOLEAN : page' = [page EXCEPT ![c[1]] = Closed(@, error)]
    BY <1>8 DEF BrowserNotices
  <2> DEFINE s == Closed(page[p], error)
  <2>2. s \in Client /\ s.ws = NoConn /\ s.timer /\ ~s.connected
    BY <1>2, ClientSteps
  <2>3. page' = [page EXCEPT ![p] = s] /\ page'[p] = s
    BY <1>1, <1>2, <2>1 DEF PagesTyped, p
  <2> HIDE DEF s
  <2>4. /\ conn' \in [Conn -> Socket]
        /\ \A d \in Conn : /\ d = c => conn'[d].browser = "closed"
                           /\ d # c => conn'[d].browser = conn[d].browser
    BY <1>6, <1>8 DEF BrowserNotices
  <2>5. OnItsWay(p)'
    BY <1>1, <1>5, <2>2, <2>3, <2>4 DEF OnItsWay
  <2>6. \A d \in Conn : d[1] # p => conn'[d].browser = conn[d].browser
    BY <1>1, <2>4, Connections
  <2>7. QED
    BY <1>1, <2>2, <2>3, <2>4, <2>5, <2>6, OtherPages
<1>9. QED
  BY <1>7, <1>8 DEF Browser

\* A write to one connection that leaves the browser's end alone.
LEMMA ConnWrite ==
  ASSUME WayInv, page' = page, NEW c \in Conn, NEW s \in Socket,
         s.browser = conn[c].browser, conn' = [conn EXCEPT ![c] = s]
  PROVE  WayInv'
<1>1. conn \in [Conn -> Socket]
  BY DEF WayInv, PagesTyped
<1>2. SameBrowsers
  BY <1>1 DEF SameBrowsers
<1>3. QED
  BY <1>2, BesideThePage

LEMMA UnchangedWay ==
  ASSUME WayInv, page' = page, conn' = conn
  PROVE  WayInv'
<1>1. SameBrowsers
  BY DEF SameBrowsers, WayInv, PagesTyped
<1>2. QED
  BY <1>1, BesideThePage

LEMMA RemovedWay ==
  ASSUME WayInv, page' = page, NEW c \in Conn, Removed(c)
  PROVE  WayInv'
<1> DEFINE s == [conn[c] EXCEPT !.server = "gone", !.sendClosed = @ \/ c \in clients]
<1>1. conn[c] \in Socket
  BY DEF WayInv, PagesTyped
<1>2. (conn[c].sendClosed \/ c \in clients) \in BOOLEAN
  OBVIOUS
<1>3. s \in Socket /\ s.browser = conn[c].browser
  BY <1>1, <1>2 DEF Socket
<1>4. conn' = [conn EXCEPT ![c] = s]
  BY DEF Removed
<1> HIDE DEF s
<1>5. QED
  BY <1>3, <1>4, ConnWrite

LEMMA ServeWay ==
  ASSUME WayInv, gen \in Gen, NEW c \in Conn, Serve(c)
  PROVE  WayInv'
<1>1. conn[c] \in Socket
  BY DEF WayInv, PagesTyped
<1>2. ASSUME NEW s \in Socket, s.browser = conn[c].browser, conn' = [conn EXCEPT ![c] = s],
             page' = page
      PROVE  WayInv'
  BY <1>2, ConnWrite
<1>3. /\ [conn[c] EXCEPT !.server = "asked", !.hub = gen] \in Socket
      /\ [conn[c] EXCEPT !.server = "asked", !.hub = gen].browser = conn[c].browser
  BY <1>1 DEF Socket
<1>4. \A l \in {"up", "cut", "closed"} :
        /\ [conn[c] EXCEPT !.link = l] \in Socket
        /\ [conn[c] EXCEPT !.link = l].browser = conn[c].browser
  BY <1>1 DEF Socket
<1>5. \A v \in {"none", "asked", "serving", "gone"} :
        /\ [conn[c] EXCEPT !.server = v] \in Socket
        /\ [conn[c] EXCEPT !.server = v].browser = conn[c].browser
  BY <1>1 DEF Socket
<1>6. CASE Ask(c)
  <2>1. /\ page' = page
        /\ \/ conn' = [conn EXCEPT ![c] = [conn[c] EXCEPT !.server = "asked", !.hub = gen]]
           \/ conn' = [conn EXCEPT ![c] = [conn[c] EXCEPT !.link = "closed"]]
    BY <1>6, Zenon DEF Ask
  <2>2. QED
    BY <1>2, <1>3, <1>4, <2>1
<1>7. CASE Upgrade(c)
  <2>1. /\ page' = page
        /\ \/ conn' = [conn EXCEPT ![c] = [conn[c] EXCEPT !.server = "serving"]]
           \/ conn' = [conn EXCEPT ![c] = [conn[c] EXCEPT !.server = "gone"]]
    BY <1>7 DEF Upgrade
  <2>2. QED
    BY <1>2, <1>5, <2>1
<1>8. CASE WritePump(c)
  <2> DEFINE s == [conn[c] EXCEPT !.buffer = @ - 1]
  <2>1. CASE conn[c].buffer > 0
    <3>1. conn[c].buffer - 1 \in 0..SendQueue
      BY <1>1, <2>1, Constants DEF Socket
    <3>2. s \in Socket /\ s.browser = conn[c].browser
      BY <1>1, <3>1 DEF Socket
    <3>3. page' = page /\ conn' = [conn EXCEPT ![c] = s]
      BY <1>8, <2>1 DEF WritePump
    <3> HIDE DEF s
    <3>4. QED
      BY <1>2, <3>2, <3>3
  <2>2. CASE ~(conn[c].buffer > 0)
    <3>1. page' = page /\ conn' = [conn EXCEPT ![c] = [conn[c] EXCEPT !.link = "closed"]]
      BY <1>8, <2>2 DEF WritePump
    <3>2. QED
      BY <1>2, <1>4, <3>1
  <2>3. QED
    BY <2>1, <2>2
<1>9. CASE ReadPump(c)
  <2>1. /\ page' = page
        /\ \/ conn' = [conn EXCEPT ![c] = [conn[c] EXCEPT !.server = "gone"]]
           \/ Removed(c)
    BY <1>9 DEF ReadPump, Unregister
  <2>2. QED
    BY <1>2, <1>5, <2>1, RemovedWay
<1>10. QED
  BY <1>6, <1>7, <1>8, <1>9 DEF Serve

LEMMA FanoutWay ==
  ASSUME WayInv, NEW g \in Gen, Fanout(g) \/ Shutdown(g)
  PROVE  WayInv'
<1>1. conn \in [Conn -> Socket] /\ page' = page
  BY DEF WayInv, PagesTyped, Fanout, Shutdown
<1>2. \A c \in Conn : /\ [conn[c] EXCEPT !.sendClosed = TRUE] \in Socket
                      /\ [conn[c] EXCEPT !.sendClosed = TRUE].browser = conn[c].browser
  BY <1>1 DEF Socket
<1>3. \A c \in Conn : conn[c].buffer < SendQueue =>
                      /\ [conn[c] EXCEPT !.buffer = @ + 1] \in Socket
                      /\ [conn[c] EXCEPT !.buffer = @ + 1].browser = conn[c].browser
  <2> SUFFICES ASSUME NEW c \in Conn, conn[c].buffer < SendQueue
               PROVE  /\ [conn[c] EXCEPT !.buffer = @ + 1] \in Socket
                      /\ [conn[c] EXCEPT !.buffer = @ + 1].browser = conn[c].browser
    OBVIOUS
  <2>1. conn[c] \in Socket /\ conn[c].buffer + 1 \in 0..SendQueue
    BY <1>1, Constants DEF Socket
  <2>2. QED
    BY <2>1 DEF Socket
<1>4. \A c \in Conn : \/ conn'[c] = conn[c]
                      \/ conn'[c] = [conn[c] EXCEPT !.sendClosed = TRUE]
                      \/ /\ conn[c].buffer < SendQueue
                         /\ conn'[c] = [conn[c] EXCEPT !.buffer = @ + 1]
  BY DEF Fanout, Shutdown
<1>5. conn' = [c \in Conn |-> conn'[c]]
  <2>1. CASE Fanout(g)
    BY <2>1 DEF Fanout
  <2>2. CASE Shutdown(g)
    BY <2>2 DEF Shutdown
  <2>3. QED
    BY <2>1, <2>2
<1>6. \A c \in Conn : conn'[c] \in Socket /\ conn'[c].browser = conn[c].browser
  BY <1>1, <1>2, <1>3, <1>4
<1>7. conn' \in [Conn -> Socket]
  BY <1>5, <1>6
<1>8. QED
  BY <1>1, <1>6, <1>7, BesideThePage DEF SameBrowsers

LEMMA OutageWay ==
  ASSUME WayInv, Outage
  PROVE  WayInv'
<1> DEFINE l(c) == IF conn[c].link = "up" /\ conn[c].server # "none" THEN "cut" ELSE conn[c].link
           s(c) == [conn[c] EXCEPT !.link = l(c)]
<1>1. conn \in [Conn -> Socket] /\ page' = page
  BY DEF WayInv, PagesTyped, Outage
<1>2. \A c \in Conn : l(c) \in {"up", "cut", "closed"}
  BY <1>1 DEF Socket
<1>3. \A c \in Conn : s(c) = [conn[c] EXCEPT !.link = IF @ = "up" /\ conn[c].server # "none"
                                                        THEN "cut" ELSE @]
  OBVIOUS
<1>4. conn' = [c \in Conn |-> s(c)]
  BY <1>3, Zenon DEF Outage
<1> HIDE DEF l
<1>5. \A c \in Conn : s(c) \in Socket /\ s(c).browser = conn[c].browser
  BY <1>1, <1>2 DEF Socket
<1> HIDE DEF s
<1>6. QED
  BY <1>1, <1>4, <1>5, BesideThePage DEF SameBrowsers

LEMMA WayStep ==
  ASSUME WayInv, gen \in Gen, [Next]_vars
  PROVE  WayInv'
<1>1. ASSUME NEW p \in Page, PageStep(p) \/ Reload(p)
      PROVE  WayInv'
  BY <1>1, PageStepWay, ReloadWay
<1>2. ASSUME NEW c \in Conn, Browser(c) \/ Serve(c)
      PROVE  WayInv'
  BY <1>2, BrowserWay, ServeWay
<1>3. ASSUME NEW c \in Conn, Select(c)
      PROVE  WayInv'
  BY <1>3, UnchangedWay, RemovedWay DEF Select, HubRegister, HubUnregister
<1>4. ASSUME NEW g \in Gen, Fanout(g) \/ Shutdown(g)
      PROVE  WayInv'
  BY <1>4, FanoutWay
<1>5. ASSUME NEW g \in Gen, Resume(g)
      PROVE  WayInv'
  BY <1>5, UnchangedWay DEF Resume
<1>6. CASE Panic \/ StopHub \/ Restart \/ Recover \/ UNCHANGED vars
  BY <1>6, UnchangedWay DEF Panic, StopHub, Restart, CloseListeners, StartPanel, Recover, vars
<1>7. QED
  BY <1>1, <1>2, <1>3, <1>4, <1>5, <1>6, OutageWay DEF Next

-----------------------------------------------------------------------------
(* Hubs and the panel. *)

HubTypes ==
  /\ clients \cup reg \cup unreg \subseteq Conn /\ cancelled \subseteq Gen
  /\ hub \in [Gen -> {"none", "running", "paused", "down", "stopped"}]
  /\ panics \in 0..MaxPanics /\ gen \in Gen /\ panel \in {"up", "stopping", "down"}
  /\ network \in BOOLEAN /\ faults \in 0..MaxFaults

LEMMA FaultType ==
  ASSUME faults \in 0..MaxFaults, Fault
  PROVE  faults' \in 0..MaxFaults
BY Constants DEF Fault

LEMMA HubStep ==
  ASSUME HubTypes, HubInv, [Next]_vars
  PROVE  HubTypes' /\ HubInv'
<1> DEFINE Channels == clients \cup reg \cup unreg \subseteq Conn
           Hubs == /\ hub \in [Gen -> {"none", "running", "paused", "down", "stopped"}]
                   /\ panics \in 0..MaxPanics /\ gen \in Gen /\ cancelled \subseteq Gen
                   /\ panel \in {"up", "stopping", "down"} /\ HubInv
           World == network \in BOOLEAN /\ faults \in 0..MaxFaults
<1>1. Channels /\ Hubs /\ World
  BY DEF HubTypes
<1>2. ASSUME Channels', Hubs', World'
      PROVE  HubTypes' /\ HubInv'
  BY <1>2 DEF HubTypes
<1>3. ASSUME UNCHANGED <<hub, panics, panelVars>>
      PROVE  Hubs'
  BY <1>1, <1>3 DEF panelVars, HubInv
<1>4. ASSUME UNCHANGED <<network, faults>>
      PROVE  World'
  BY <1>1, <1>4
<1>5. ASSUME UNCHANGED <<clients, reg, unreg>>
      PROVE  Channels'
  BY <1>1, <1>5
<1>6. ASSUME NEW p \in Page, PageStep(p) \/ Reload(p)
      PROVE  Channels' /\ Hubs' /\ World'
  <2>1. UNCHANGED <<hubVars, panelVars, network>>
    BY <1>6 DEF PageStep, Mount, TimerFires, PollTick, Reload
  <2>2. UNCHANGED faults \/ Fault
    BY <1>6 DEF PageStep, Mount, TimerFires, PollTick, Reload
  <2>3. World'
    BY <1>1, <2>1, <2>2, FaultType
  <2>4. UNCHANGED <<clients, reg, unreg>> /\ UNCHANGED <<hub, panics, panelVars>>
    BY <2>1 DEF hubVars
  <2> HIDE DEF Channels, Hubs, World
  <2>5. QED
    BY <1>3, <1>5, <2>3, <2>4
<1>7. ASSUME NEW c \in Conn, Browser(c) \/ Serve(c) \/ Select(c)
      PROVE  Channels' /\ Hubs' /\ World'
  <2>1. CASE Browser(c)
    <3>1. /\ UNCHANGED <<clients, reg, unreg>> /\ UNCHANGED <<hub, panics, panelVars>>
          /\ UNCHANGED <<network, faults>>
      BY <2>1 DEF Browser, Opened, BrowserNotices, hubVars
    <3> HIDE DEF Channels, Hubs, World
    <3>2. QED
      BY <1>3, <1>4, <1>5, <3>1
  <2>2. CASE Serve(c)
    <3>1. UNCHANGED <<hub, panics, panelVars>> /\ UNCHANGED <<network, faults>>
      BY <2>2 DEF Serve, Ask, Upgrade, WritePump, ReadPump, hubVars
    <3>2. clients' \subseteq clients /\ reg' \subseteq reg \cup {c} /\ unreg' \subseteq unreg \cup {c}
      BY <2>2 DEF Serve, Ask, Upgrade, Register, WritePump, ReadPump, Unregister, Removed, hubVars
    <3>3. Channels'
      BY <1>1, <3>2
    <3> HIDE DEF Channels, Hubs, World
    <3>4. QED
      BY <1>3, <1>4, <3>1, <3>3
  <2>3. CASE Select(c)
    <3>1. UNCHANGED <<hub, panics, panelVars>> /\ UNCHANGED <<network, faults>>
      BY <2>3 DEF Select, HubRegister, HubUnregister
    <3>2. clients' \subseteq clients \cup {c} /\ reg' \subseteq reg /\ unreg' \subseteq unreg
      BY <2>3 DEF Select, HubRegister, HubUnregister, Removed
    <3>3. Channels'
      BY <1>1, <3>2
    <3> HIDE DEF Channels, Hubs, World
    <3>4. QED
      BY <1>3, <1>4, <3>1, <3>3
  <2>4. QED
    BY <1>7, <2>1, <2>2, <2>3
<1>8. ASSUME NEW g \in Gen, Fanout(g)
      PROVE  Channels' /\ Hubs' /\ World'
  <2>1. UNCHANGED <<reg, unreg, hub, panics, panelVars, network, faults>> /\ clients' \subseteq clients
    BY <1>8 DEF Fanout
  <2>2. Channels'
    BY <1>1, <2>1
  <2> HIDE DEF Channels, Hubs, World
  <2>3. QED
    BY <1>3, <1>4, <2>1, <2>2
<1>9. ASSUME NEW g \in Gen, Resume(g) \/ Shutdown(g)
      PROVE  Channels' /\ Hubs' /\ World'
  <2>1. /\ UNCHANGED <<panics, panelVars, network, faults>>
        /\ clients' \subseteq clients /\ reg' \subseteq reg /\ unreg' \subseteq unreg
        /\ hub[g] \in {"running", "paused"}
        /\ hub' \in {[hub EXCEPT ![g] = "stopped"], [hub EXCEPT ![g] = "running"]}
    BY <1>9 DEF Resume, Shutdown, Unread
  <2>2. Hubs'
    BY <1>1, <2>1 DEF panelVars, HubInv
  <2>3. Channels' /\ World'
    BY <1>1, <2>1
  <2>4. QED
    BY <2>2, <2>3
<1>10. ASSUME Panic
      PROVE  Channels' /\ Hubs' /\ World'
  <2>1. /\ hub[gen] = "running" /\ panics' = panics + 1
        /\ hub' = [hub EXCEPT ![gen] = IF panics + 1 < MaxPanics THEN "paused" ELSE "down"]
        /\ UNCHANGED <<clients, reg, unreg, panelVars, network>>
        /\ UNCHANGED faults \/ Fault
    BY <1>10 DEF Panic
  <2>2. panics + 1 \in 0..MaxPanics
    BY <1>1, <2>1, Constants DEF HubInv
  <2>3. Hubs'
    BY <1>1, <2>1, <2>2 DEF panelVars, HubInv
  <2>4. World'
    BY <1>1, <2>1, FaultType
  <2> HIDE DEF Hubs, World
  <2>5. QED
    BY <1>1, <2>1, <2>3, <2>4
<1>11. ASSUME StopHub \/ CloseListeners
      PROVE  Channels' /\ Hubs' /\ World'
  <2>1. /\ UNCHANGED <<hubVars, gen, network, faults>> /\ gen < MaxGen
        /\ cancelled' \subseteq cancelled \cup {gen} /\ panel' \in {"stopping", "down"}
    BY <1>1, <1>11 DEF StopHub, CloseListeners, HubInv
  <2>2. Hubs'
    BY <1>1, <2>1 DEF hubVars, HubInv
  <2>3. UNCHANGED <<clients, reg, unreg>> /\ UNCHANGED <<network, faults>>
    BY <2>1 DEF hubVars
  <2> HIDE DEF Channels, Hubs, World
  <2>4. QED
    BY <1>4, <1>5, <2>2, <2>3
<1>12. ASSUME StartPanel
      PROVE  Channels' /\ Hubs' /\ World'
  <2>1. /\ gen < MaxGen /\ gen' = gen + 1 /\ panel' = "up" /\ panics' = 0
        /\ hub' = [hub EXCEPT ![gen + 1] = "running"]
        /\ UNCHANGED <<clients, reg, unreg, cancelled, network, faults>>
    BY <1>1, <1>12 DEF StartPanel, HubInv
  <2>2. gen + 1 \in Gen
    BY <1>1, <2>1, Constants DEF Gen
  <2>3. Hubs'
    BY <1>1, <2>1, <2>2, Constants DEF HubInv
  <2> HIDE DEF Hubs
  <2>4. QED
    BY <1>1, <2>1, <2>3
<1>13. ASSUME Outage \/ Recover
      PROVE  Channels' /\ Hubs' /\ World'
  <2>1. UNCHANGED <<hubVars, panelVars>> /\ network' \in BOOLEAN
    BY <1>13 DEF Outage, Recover
  <2>2. UNCHANGED faults \/ Fault
    BY <1>13 DEF Outage, Recover
  <2>3. World'
    BY <1>1, <2>1, <2>2, FaultType
  <2>4. UNCHANGED <<clients, reg, unreg>> /\ UNCHANGED <<hub, panics, panelVars>>
    BY <2>1 DEF hubVars
  <2> HIDE DEF Channels, Hubs, World
  <2>5. QED
    BY <1>3, <1>5, <2>3, <2>4
<1>14. ASSUME UNCHANGED vars
      PROVE  Channels' /\ Hubs' /\ World'
  <2>1. /\ UNCHANGED <<clients, reg, unreg>> /\ UNCHANGED <<hub, panics, panelVars>>
        /\ UNCHANGED <<network, faults>>
    BY <1>14 DEF vars, hubVars
  <2> HIDE DEF Channels, Hubs, World
  <2>2. QED
    BY <1>3, <1>4, <1>5, <2>1
<1>15. Channels' /\ Hubs' /\ World'
  <2> HIDE DEF Channels, Hubs, World
  <2>1. QED
    BY <1>6, <1>7, <1>8, <1>9, <1>10, <1>11, <1>12, <1>13, <1>14 DEF Next, Restart
<1> HIDE DEF Channels, Hubs, World
<1>16. QED
  BY <1>2, <1>15

LiveInv == WayInv /\ HubTypes /\ HubInv

LEMMA LiveStart == Init => LiveInv
<1> SUFFICES ASSUME Init PROVE LiveInv
  OBVIOUS
<1>1. Fresh \in Client /\ Free \in Socket /\ Free.browser = "closed"
  <2>1. Fresh \in Client
    BY Constants DEF Fresh, Client
  <2>2. QED
    BY <2>1, SocketSteps
<1>2. Fresh.ws = NoConn /\ Fresh.timer = FALSE /\ Fresh.attempts = 0 /\ Fresh.connected = FALSE
  BY DEF Fresh
<1>3. PagesTyped
  BY <1>1 DEF Init, PagesTyped
<1>4. ASSUME NEW p \in Page
      PROVE  OnItsWay(p)
  <2>1. page[p] = Fresh /\ \A c \in {p} \X Slot : conn[c] = Free
    BY Connections DEF Init
  <2>2. QED
    BY <1>1, <1>2, <2>1 DEF OnItsWay
<1>5. HubTypes /\ HubInv
  <2>1. 1 \in Gen /\ 0 \in 0..MaxPanics /\ 0 \in 0..MaxFaults /\ 0 < MaxPanics
    BY Constants DEF Gen
  <2>2. QED
    BY <2>1 DEF Init, HubTypes, HubInv
<1>6. QED
  BY <1>3, <1>4, <1>5 DEF LiveInv, WayInv

\* Pages, connections and hubs keep their types: attempts, panics and queues
\* stay within their limits, and no start of the panel outruns its hubs.
THEOREM LiveTypes == Spec => []TypeOK
<1>1. LiveInv /\ [Next]_vars => LiveInv'
  BY WayStep, HubStep DEF LiveInv, HubTypes
<1>2. LiveInv => TypeOK
  BY DEF LiveInv, WayInv, PagesTyped, HubTypes, TypeOK
<1>3. QED
  BY <1>1, <1>2, LiveStart, PTL DEF Spec

\* No page ever loses its way back to the panel or holds two sockets, through
\* any number of outages, reloads, panics of the hub and restarts of the panel.
THEOREM PagesFindBack == Spec => []SocketOrTimer
<1>1. LiveInv /\ [Next]_vars => LiveInv'
  BY WayStep, HubStep DEF LiveInv, HubTypes
<1>2. LiveInv => SocketOrTimer
  BY WayBack DEF LiveInv
<1>3. QED
  BY <1>1, <1>2, LiveStart, PTL DEF Spec
=============================================================================
