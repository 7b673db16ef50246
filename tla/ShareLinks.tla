----------------------------- MODULE ShareLinks -----------------------------
(***************************************************************************)
(* The three programs that must agree about what an inbound offers: the    *)
(* panel page that writes share links (assets/js/model/inbound.js), the    *)
(* subscription server that writes them again in Go (sub/subService.go)    *)
(* and the page that reads them back as outbounds (assets/js/model/        *)
(* outbound.js).                                                           *)
(*                                                                         *)
(* An inbound is the record the form edits; a link is the record of the    *)
(* parameters it carries, not their spelling.  Kept: the transport, the    *)
(* security layer, the Reality public key, the flow, the XHTTP mode,       *)
(* whether the TLS names (sni, alpn, fp) and the final masks travel, and   *)
(* the salamander obfuscation.                                             *)
(* Addresses, names, hosts, paths, paddings and the credential are data.   *)
(***************************************************************************)

CONSTANTS Key,      \* Reality key pairs the server may generate
          NoKey     \* an empty half of a pair

Protocols == {"vless", "vmess", "trojan", "shadowsocks", "hysteria", "http"}
Networks  == {"tcp", "kcp", "ws", "grpc", "httpupgrade", "xhttp", "hysteria"}
Modes     == {"auto", "packet-up"}

\* Whether there is one row under "External Proxy", and its forceTls.
Proxies == {"absent", "same", "tls", "none"}

Inbound ==
    [protocol : Protocols, network : Networks, mode : Modes,
     security : {"none", "tls", "reality"},
     key : Key \cup {NoKey},         \* privateKey, named for its pair
     pub : Key \cup {NoKey},         \* publicKey, likewise
     flow : {"", "vision"},
     udpMasks : BOOLEAN, tcpMasks : BOOLEAN,    \* of finalmask
     proxy : Proxies]

CanEnableStream(i) == i.protocol # "http"

CanEnableTls(i) ==
    \/ i.protocol = "hysteria"
    \/ /\ i.protocol \in {"vmess", "vless", "trojan", "shadowsocks"}
       /\ i.network \in {"tcp", "ws", "grpc", "httpupgrade", "xhttp"}

CanEnableTlsFlow(i) ==
    /\ i.security \in {"tls", "reality"}
    /\ i.network = "tcp"
    /\ i.protocol = "vless"

CanEnableReality(i) ==
    /\ i.protocol \in {"vless", "trojan"}
    /\ i.network \in {"tcp", "grpc", "xhttp"}

----------------------------------------------------------------------------
(* Links.  A parameter that is not set has the value the reader assumes    *)
(* for a missing one.                                                      *)

\* applyFinalMaskToParams, applyFinalMaskParams: there is something to send.
Masked(i) == i.udpMasks \/ i.tcpMasks

Bare(i) ==
    [scheme |-> i.protocol, type |-> i.network, security |-> "none",
     pub |-> NoKey, flow |-> "", mode |-> "auto", names |-> FALSE,
     obfs |-> FALSE, fm |-> Masked(i)]

\* The network switch every generator begins with: only XHTTP has a mode.
NetworkParams(i) ==
    [Bare(i) EXCEPT !.mode = IF i.network = "xhttp" THEN i.mode ELSE "auto"]

\* What forceTls makes of the inbound's own security.
Effective(i, force) == IF force = "same" THEN i.security ELSE force

----------------------------------------------------------------------------
(* The panel's generators.                                                 *)

\* A vmess object names the XHTTP mode "type", which is not where the reader
\* of vmess objects looks for it: the mode does not travel.
PanelVmessLink(i, force) ==
    [Bare(i) EXCEPT !.security = Effective(i, force),
                    !.names = Effective(i, force) = "tls"]

\* Seeded bug: the flow travels with TLS only.
PanelVlessLinkFlowless(i, force) ==
    LET security == Effective(i, force)
        isTls    == i.security = "tls"
    IN  CASE security = "tls" ->
               [NetworkParams(i) EXCEPT
                  !.security = "tls", !.names = isTls,
                  !.flow = IF isTls /\ i.network = "tcp" THEN i.flow ELSE ""]
          [] security = "reality" ->
               [NetworkParams(i) EXCEPT
                  !.security = "reality", !.pub = i.pub, !.names = TRUE]
          [] OTHER -> NetworkParams(i)

\* Under a forced TLS the inbound's own names and flow do not travel.
PanelVlessLink(i, force) ==
    LET security == Effective(i, force)
        isTls    == i.security = "tls"
    IN  CASE security = "tls" ->
               [NetworkParams(i) EXCEPT
                  !.security = "tls", !.names = isTls,
                  !.flow = IF isTls /\ i.network = "tcp" THEN i.flow ELSE ""]
          [] security = "reality" ->
               [NetworkParams(i) EXCEPT
                  !.security = "reality", !.pub = i.pub, !.names = TRUE,
                  !.flow = IF i.network = "tcp" THEN i.flow ELSE ""]
          [] OTHER -> NetworkParams(i)

PanelTrojanLink(i, force) ==
    LET security == Effective(i, force)
    IN  CASE security = "tls" ->
               [NetworkParams(i) EXCEPT
                  !.security = "tls", !.names = i.security = "tls"]
          [] security = "reality" ->
               [NetworkParams(i) EXCEPT
                  !.security = "reality", !.pub = i.pub, !.names = TRUE]
          [] OTHER -> NetworkParams(i)

PanelShadowsocksLink(i, force) ==
    IF Effective(i, force) = "tls"
    THEN [NetworkParams(i) EXCEPT
            !.security = "tls", !.names = i.security = "tls"]
    ELSE NetworkParams(i)

\* No forceTls: a Hysteria link always says TLS.
PanelHysteriaLink(i) ==
    [Bare(i) EXCEPT !.security = "tls", !.names = TRUE, !.obfs = i.udpMasks]

\* genLink.  force is "same" where there is no external proxy.
PanelLink(i, force) ==
    CASE i.protocol = "vmess"       -> PanelVmessLink(i, force)
      [] i.protocol = "vless"       -> PanelVlessLink(i, force)
      [] i.protocol = "trojan"      -> PanelTrojanLink(i, force)
      [] i.protocol = "shadowsocks" -> PanelShadowsocksLink(i, force)
      [] i.protocol = "hysteria"    -> PanelHysteriaLink(i)

----------------------------------------------------------------------------
(* The subscription server's generators: the parameters of the inbound     *)
(* first, the external proxy's security written over them.                 *)

\* applyShareTLSParams, applyShareRealityParams.
SubTlsParams(i)     == [NetworkParams(i) EXCEPT !.security = "tls",
                                                !.names = TRUE]
SubRealityParams(i) == [NetworkParams(i) EXCEPT !.security = "reality",
                                                !.names = TRUE, !.pub = i.pub]

SubFlow(i) == IF i.network = "tcp" THEN i.flow ELSE ""

SubVmessLink(i)  == [NetworkParams(i) EXCEPT !.security = i.security,
                                             !.names = i.security = "tls"]
SubVlessLink(i)  ==
    CASE i.security = "tls"     -> [SubTlsParams(i) EXCEPT !.flow = SubFlow(i)]
      [] i.security = "reality" -> [SubRealityParams(i) EXCEPT
                                                         !.flow = SubFlow(i)]
      [] OTHER                  -> NetworkParams(i)
SubTrojanLink(i) ==
    CASE i.security = "tls"     -> SubTlsParams(i)
      [] i.security = "reality" -> [SubRealityParams(i) EXCEPT
                                                         !.flow = SubFlow(i)]
      [] OTHER                  -> NetworkParams(i)
SubShadowsocksLink(i) ==
    IF i.security = "tls" THEN SubTlsParams(i) ELSE NetworkParams(i)

\* Seeded bug: the obfuscation is left out of the subscription.
SubHysteriaLinkPlain(i) ==
    [Bare(i) EXCEPT !.security = "tls", !.names = TRUE]

SubHysteriaLink(i) ==
    [Bare(i) EXCEPT !.security = "tls", !.names = TRUE, !.obfs = i.udpMasks]

\* buildLinkWithParamsAndSecurity and cloneVmessShareObj: another security,
\* and for "none" without the names; the key and the flow stay.
OverwriteSecurity(link, force) ==
    [link EXCEPT !.security = IF force = "same" THEN @ ELSE force,
                 !.names    = @ /\ force # "none"]

SubLink(i, force) ==
    CASE i.protocol = "vmess"  -> OverwriteSecurity(SubVmessLink(i), force)
      [] i.protocol = "vless"  -> OverwriteSecurity(SubVlessLink(i), force)
      [] i.protocol = "trojan" -> OverwriteSecurity(SubTrojanLink(i), force)
      [] i.protocol = "shadowsocks" ->
            OverwriteSecurity(SubShadowsocksLink(i), force)
      [] i.protocol = "hysteria"    -> SubHysteriaLink(i)

----------------------------------------------------------------------------
(* Reading a link back (Outbound.fromLink).                                *)

\* The reader keeps of a vmess object no key and no flow.
FromVmessLink(link) ==
    [protocol |-> "vmess", network |-> link.type, security |-> link.security,
     pub |-> NoKey, flow |-> "", mode |-> link.mode]

\* The key is read only for Reality, the flow only for VLESS.
FromParamLink(link) ==
    [protocol |-> link.scheme, network |-> link.type,
     security |-> link.security,
     pub      |-> IF link.security = "reality" THEN link.pub ELSE NoKey,
     flow     |-> IF link.scheme = "vless" THEN link.flow ELSE "",
     mode     |-> link.mode]

\* Security and obfuscation of a Hysteria link are not read.
FromHysteriaLink(link) ==
    [protocol |-> "hysteria", network |-> "hysteria", security |-> "none",
     pub |-> NoKey, flow |-> "", mode |-> "auto"]

FromLink(link) ==
    CASE link.scheme = "vmess"    -> FromVmessLink(link)
      [] link.scheme = "hysteria" -> FromHysteriaLink(link)
      [] OTHER                    -> FromParamLink(link)
=============================================================================
