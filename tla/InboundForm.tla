----------------------------- MODULE InboundForm -----------------------------
(***************************************************************************)
(* The form that adds and edits an inbound (web/html/modals/               *)
(* inbound_modal.html over assets/js/model/inbound.js), the rows it saves  *)
(* and the links made from them (ShareLinks).                              *)
(*                                                                         *)
(* The form keeps one object, inModal.inbound, and every choice rewrites   *)
(* part of it; what a choice makes impossible has to be taken back by the  *)
(* handler of that choice.  The Reality key pair is typed or comes from    *)
(* the server, so an answer may arrive after the form was closed or opened *)
(* for another inbound.  Abstracted: the other fields, the clients of an   *)
(* inbound that is edited (they have a form of their own), the request     *)
(* that saves a row (its answer is one step with it), and the other forms  *)
(* of the page.                                                            *)
(***************************************************************************)
EXTENDS ShareLinks

CONSTANTS Row,          \* inbounds the server has room for
          NoRow,        \* no inbound: the form adds one, or the place is free
          Protocol,     \* the protocols offered by the select (bound)
          Network,      \* the transports offered by the select (bound)
          ForceTls,     \* the forceTls choices of an external proxy (bound)
          Call          \* requests of the form under way at once (bound)

ASSUME FormAssumption ==
    /\ NoKey \notin Key
    /\ NoRow \notin Row
    /\ Protocol \subseteq Protocols
    /\ Network \subseteq Networks \ {"hysteria"}
    /\ ForceTls \subseteq {"same", "tls", "none"} /\ "same" \in ForceTls

VARIABLES inbound,      \* inModal.inbound
          visible,      \* inModal.visible
          editing,      \* the row the form edits, or NoRow when it adds one
          loading,      \* inModal.confirmLoading: OK is not clickable
          call,         \* what each request is for: see CallStates
          rows          \* what the server has stored
vars == <<inbound, visible, editing, loading, call, rows>>

\* "button": the key button's; "other": one for other secrets of the form.
\* The rest are of an ok() that awaits a key.  "waiting": the inbound it
\* captured is the one in the form.  After another show() it is not, and what
\* ok() will find in it is settled: "orphan" without a key, "keyed" with one.
CallStates == {"idle", "button", "other", "waiting", "orphan", "keyed"}

----------------------------------------------------------------------------
(* The inbound object.                                                     *)

\* new Inbound.Settings and new StreamSettings(): the protocol setter, which
\* forces QUIC and TLS on Hysteria.
NewInbound(p) ==
    [protocol |-> p,
     network  |-> IF p = "hysteria" THEN "hysteria" ELSE "tcp",
     mode     |-> "auto",
     security |-> IF p = "hysteria" THEN "tls" ELSE "none",
     key |-> NoKey, pub |-> NoKey, flow |-> "",
     udpMasks |-> FALSE, tcpMasks |-> FALSE, proxy |-> "absent"]

\* Inbound.toJson and fromJson: what is not selected is not written, and is
\* read back as new.
Stored(i) ==
    IF CanEnableStream(i)
    THEN [i EXCEPT !.key  = IF i.security = "reality" THEN @ ELSE NoKey,
                   !.pub  = IF i.security = "reality" THEN @ ELSE NoKey,
                   !.mode = IF i.network = "xhttp" THEN @ ELSE "auto"]
    ELSE [NewInbound("http") EXCEPT !.protocol = i.protocol]

\* Seeded bug: the flow is set to the text of the select, not to its value.
ClearFlowToNone(i) ==
    IF i.protocol = "vless" /\ ~CanEnableTlsFlow(i)
    THEN [i EXCEPT !.flow = "none"] ELSE i

\* VLESS clients lose a flow their stream no longer carries.
ClearFlow(i) ==
    IF i.protocol = "vless" /\ ~CanEnableTlsFlow(i)
    THEN [i EXCEPT !.flow = ""] ELSE i

\* Seeded bug: the masks of mKCP stay behind on another transport.
NetworkKeepsMasks(i, n) ==
    LET moved  == [i EXCEPT !.network = n]
        fitted == IF CanEnableTls(moved) THEN moved
                  ELSE [moved EXCEPT !.security = "none"]
    IN  ClearFlow(fitted)

\* The transport select and streamNetworkChange.  A security the transport
\* cannot carry is taken back only when it is no security at all: Reality
\* stays on a transport that has TLS but no Reality, because the handler
\* clears a field ("reality" of the inbound) that does not exist.  Of the
\* masks only those over UDP are taken back.
NetworkChanged(i, n) ==
    LET moved  == [i EXCEPT !.network = n]
        fitted == IF CanEnableTls(moved) THEN moved
                  ELSE [moved EXCEPT !.security = "none"]
    IN  [ClearFlow(fitted) EXCEPT !.udpMasks = @ /\ n = "kcp"]

\* The security radio and the watcher of stream.security.
SecurityChanged(i, s) == ClearFlow([i EXCEPT !.security = s])

----------------------------------------------------------------------------
Init ==
    /\ inbound = NewInbound("vless")
    /\ visible = FALSE
    /\ editing = NoRow
    /\ loading = FALSE
    /\ call = [c \in Call |-> "idle"]
    /\ rows = [r \in Row |-> NoRow]

\* inModal.show: a new object takes the place of the one ok() captured.
Show(i, r) ==
    /\ inbound' = i
    /\ visible' = TRUE
    /\ editing' = r
    /\ call' = [c \in Call |->
                  IF call[c] # "waiting" THEN call[c]
                  ELSE IF inbound.key = NoKey THEN "orphan" ELSE "keyed"]
    /\ UNCHANGED <<loading, rows>>

OpenAdd ==
    /\ ~visible
    /\ Show(NewInbound("vless"), NoRow)

OpenEdit(r) ==
    /\ ~visible
    /\ rows[r] # NoRow
    /\ Show(rows[r], r)

\* Cancel hides the form; its object, its requests and "loading" stay.
Cancel ==
    /\ visible
    /\ visible' = FALSE
    /\ UNCHANGED <<inbound, editing, loading, call, rows>>

\* One choice in the visible form.
Choose(i) ==
    /\ visible
    /\ inbound' = i
    /\ UNCHANGED <<visible, editing, loading, call, rows>>

SetProtocol(p) == editing = NoRow /\ Choose(NewInbound(p))

SetNetwork(n) ==
    /\ CanEnableStream(inbound) /\ inbound.protocol # "hysteria"
    /\ Choose(NetworkChanged(inbound, n))

SetSecurity(s) ==
    /\ CanEnableTls(inbound) /\ inbound.protocol # "hysteria"
    /\ s = "reality" => CanEnableReality(inbound)
    /\ Choose(SecurityChanged(inbound, s))

\* The first client of an inbound being added.
SetFlow(f) ==
    /\ editing = NoRow
    /\ CanEnableTlsFlow(inbound)
    /\ Choose([inbound EXCEPT !.flow = f])

SetMode(m) ==
    /\ inbound.network = "xhttp"
    /\ Choose([inbound EXCEPT !.mode = m])

SetUdpMasks(on) ==
    /\ inbound.protocol = "hysteria" \/ inbound.network = "kcp"
    /\ Choose([inbound EXCEPT !.udpMasks = on])

SetTcpMasks(on) ==
    /\ CanEnableStream(inbound) /\ inbound.network \notin {"kcp", "hysteria"}
    /\ Choose([inbound EXCEPT !.tcpMasks = on])

\* The external-proxy switch and the Force TLS select of its row.
SetProxy(force) ==
    /\ CanEnableStream(inbound)
    /\ force \notin {"absent", "same"} => inbound.proxy # "absent"
    /\ Choose([inbound EXCEPT !.proxy = force])

\* The two halves of the key pair, each in a text area of its own.
ShowsReality == inbound.security = "reality" /\ CanEnableTls(inbound)

TypePrivateKey(k) == ShowsReality /\ Choose([inbound EXCEPT !.key = k])

TypePublicKey(k) == ShowsReality /\ Choose([inbound EXCEPT !.pub = k])

ClearX25519Cert ==
    ShowsReality /\ Choose([inbound EXCEPT !.key = NoKey, !.pub = NoKey])

\* A button that asks the server for something.
Ask(c, for) ==
    /\ visible
    /\ call[c] = "idle"
    /\ call' = [call EXCEPT ![c] = for]
    /\ loading' = TRUE
    /\ UNCHANGED <<inbound, visible, editing, rows>>

\* The "Get New Cert" button; nothing keeps it from being pressed again.
AskForKey(c) == ShowsReality /\ Ask(c, "button")

\* getNewVlessEnc, getNewEchCert, getNewmldsa65.
AskForOther(c) ==
    /\ \/ inbound.protocol = "vless"
       \/ inbound.security # "none" /\ CanEnableTls(inbound)
    /\ Ask(c, "other")

----------------------------------------------------------------------------
(* Saving.                                                                 *)

\* addInbound or updateInbound, posted with the modal: a success stores the
\* row and closes whatever form is shown; a refusal leaves everything.  The
\* server refuses an edit of a row that is gone, and an addition it has no
\* room for (bound: Row).
Save(i) ==
    \/ \E r \in Row :
         /\ IF editing = NoRow THEN rows[r] = NoRow
                               ELSE r = editing /\ rows[r] # NoRow
         /\ rows' = [rows EXCEPT ![r] = Stored(i)]
         /\ visible' = FALSE
    \/ UNCHANGED <<rows, visible>>

\* ok(): a Reality inbound without a private key asks for one first.
Ok ==
    /\ visible /\ ~loading
    /\ IF inbound.security = "reality" /\ inbound.key = NoKey
       THEN /\ \E c \in Call : /\ call[c] = "idle"
                              /\ call' = [call EXCEPT ![c] = "waiting"]
            /\ loading' = TRUE
            /\ UNCHANGED <<visible, rows>>
       ELSE /\ Save(inbound)
            /\ UNCHANGED <<call, loading>>
    /\ UNCHANGED <<inbound, editing>>

\* Any answer makes OK clickable, whatever else is under way.
Answered(c) ==
    /\ call' = [call EXCEPT ![c] = "idle"]
    /\ loading' = FALSE

OtherAnswered(c) ==
    /\ call[c] = "other"
    /\ Answered(c)
    /\ UNCHANGED <<inbound, visible, editing, rows>>

\* getNewX25519Cert's answer is written to the form of the moment, whichever
\* inbound asked for it; a failed request writes nothing.
KeyAnswered(c) ==
    /\ Answered(c)
    /\ \/ \E k \in Key : inbound' = [inbound EXCEPT !.key = k, !.pub = k]
       \/ inbound' = inbound

ButtonAnswered(c) ==
    /\ call[c] = "button"
    /\ KeyAnswered(c)
    /\ UNCHANGED <<visible, editing, rows>>

\* Seeded bug: ok() saves once the answer is in, whatever it was.
OkAnsweredUnchecked(c) ==
    /\ call[c] \in {"waiting", "orphan", "keyed"}
    /\ KeyAnswered(c)
    /\ Save(inbound')
    /\ UNCHANGED editing

\* ok() continues: with a key in the object it captured it saves the form of
\* the moment, even one that was cancelled meanwhile.
OkAnswered(c) ==
    /\ call[c] \in {"waiting", "orphan", "keyed"}
    /\ KeyAnswered(c)
    /\ IF call[c] = "keyed" \/ (call[c] = "waiting" /\ inbound'.key # NoKey)
       THEN Save(inbound')
       ELSE UNCHANGED <<visible, rows>>
    /\ UNCHANGED editing

\* The row's delete action, on the page behind the form.
Delete(r) ==
    /\ ~visible
    /\ rows[r] # NoRow
    /\ rows' = [rows EXCEPT ![r] = NoRow]
    /\ UNCHANGED <<inbound, visible, editing, loading, call>>

Next ==
    \/ OpenAdd \/ Cancel \/ Ok \/ ClearX25519Cert
    \/ \E c \in Call :
         \/ AskForKey(c) \/ AskForOther(c)
         \/ ButtonAnswered(c) \/ OtherAnswered(c) \/ OkAnswered(c)
    \/ \E r \in Row : OpenEdit(r) \/ Delete(r)
    \/ \E p \in Protocol : SetProtocol(p)
    \/ \E n \in Network : SetNetwork(n)
    \/ \E s \in {"none", "tls", "reality"} : SetSecurity(s)
    \/ \E f \in {"", "vision"} : SetFlow(f)
    \/ \E m \in Modes : SetMode(m)
    \/ \E on \in BOOLEAN : SetUdpMasks(on) \/ SetTcpMasks(on)
    \/ \E k \in Key \cup {NoKey} : TypePrivateKey(k) \/ TypePublicKey(k)
    \/ \E force \in ForceTls \cup {"absent"} : SetProxy(force)

Spec == Init /\ [][Next]_vars

----------------------------------------------------------------------------
(* Properties.                                                             *)

\* Every variable stays in its range.
TypeOK ==
    /\ inbound \in Inbound
    /\ visible \in BOOLEAN /\ loading \in BOOLEAN
    /\ editing \in Row \cup {NoRow}
    /\ call \in [Call -> CallStates]
    /\ rows \in [Row -> Inbound \cup {NoRow}]

Saved == {rows[r] : r \in {r \in Row : rows[r] # NoRow}}

\* Whatever was chosen in whatever order, a stored inbound offers its clients
\* no flow, no security and no UDP masks that its transport cannot carry, and
\* TCP masks only with a protocol that has a transport for them.  The code
\* leaves two exceptions, see NetworkChanged: Reality on a transport that has
\* TLS but no Reality, and TCP masks on mKCP.
SavedStreamFits ==
    \A i \in Saved :
        /\ i.security # "none" => CanEnableTls(i)
        /\ i.flow # "" => CanEnableTlsFlow(i)
        /\ i.udpMasks => i.protocol = "hysteria" \/ i.network = "kcp"
        /\ i.tcpMasks => i.protocol \notin {"hysteria", "http"}

\* No Reality inbound is stored without a private key, which would keep Xray
\* from starting with any inbound at all.  This is what ok() says of itself;
\* it fails when the form was opened again while ok() waited.
SavedRealityHasKey ==
    \A i \in Saved : i.security = "reality" => i.key # NoKey

\* How far ok() keeps that promise: a row becomes a Reality inbound without a
\* key in one way only, by an ok() whose own inbound had got a key and was
\* then replaced in the form by another, not by a failed request, a second
\* OK, a cleared key or an answer that finds another form.
KeylessFromReplacedForm ==
    [][\A r \in Row :
        /\ rows'[r] \notin {rows[r], NoRow}
        /\ rows'[r].security = "reality"
        /\ rows'[r].key = NoKey
        => \E c \in Call : call[c] = "keyed" /\ call'[c] = "idle"]_vars

\* The forceTls under which an inbound's link is written.
ForceTlsOf(i) == IF i.proxy = "absent" THEN "same" ELSE i.proxy

\* What an outbound needs to reach an inbound through a front that keeps or
\* replaces its security.
Expected(i) ==
    LET security == Effective(i, ForceTlsOf(i))
    IN  [protocol |-> i.protocol, network |-> i.network,
         security |-> security,
         pub  |-> IF security = "reality" THEN i.key ELSE NoKey,
         flow |-> IF security = i.security THEN i.flow ELSE "",
         mode |-> IF i.protocol = "vmess" THEN "auto" ELSE i.mode]

\* The panel's link of a stored inbound, read back by the panel, is an
\* outbound that reaches it, when the key pair it was given by hand is one.
\* Not so for Hysteria, whose security is not read back, nor for masks, which
\* are not read back either, nor for the XHTTP mode of VMess, which is written
\* where no one reads.
LinksConnect ==
    \A i \in Saved :
        /\ i.protocol \notin {"http", "hysteria"}
        /\ i.pub = i.key
        /\ ~Masked(i)
        => FromLink(PanelLink(i, ForceTlsOf(i))) = Expected(i)

\* The subscription server and the panel, two programs in two languages,
\* offer the client of an inbound the same transport, security, key, mode,
\* masks and obfuscation; and the same flow, unless the external proxy changes the
\* security (the server then leaves the flow in the link).
SubscriptionAgrees ==
    \A i \in Saved :
        LET panel == PanelLink(i, ForceTlsOf(i))
            sub   == SubLink(i, ForceTlsOf(i))
        IN  i.protocol # "http" =>
              /\ panel.obfs = sub.obfs
              /\ panel.fm = sub.fm
              /\ i.proxy \in {"absent", "same"} => panel.names = sub.names
              /\ \A f \in {"network", "security", "pub"} :
                    FromLink(panel)[f] = FromLink(sub)[f]
              /\ i.protocol # "vmess" => panel.mode = sub.mode
              /\ i.proxy \in {"absent", "same"} => panel.flow = sub.flow
=============================================================================
