-------------------------- MODULE InboundFormProofs --------------------------
(***************************************************************************)
(* Theorems about InboundForm for any set of transports, key pairs and     *)
(* stored inbounds: what the form holds always fits together, so that what *)
(* it saves does; and what the panel and the subscription server write     *)
(* about a saved inbound is what it takes to reach it.                     *)
(***************************************************************************)
EXTENDS InboundForm, TLAPS

\* An inbound whose parts fit: SavedStreamFits for one inbound, Reality only where
\* the form ever offers it, and Hysteria on its own transport.
Fits(i) ==
  /\ i.security # "none" => CanEnableTls(i)
  /\ i.flow # "" => CanEnableTlsFlow(i)
  /\ i.udpMasks => i.protocol = "hysteria" \/ i.network = "kcp"
  /\ i.tcpMasks => i.protocol \notin {"hysteria", "http"}
  /\ i.security = "reality" => i.protocol \in {"vless", "trojan"}
  /\ i.protocol = "hysteria" => i.network = "hysteria"

\* What only a stored inbound promises: nothing is kept that is not selected.
Clean(i) == i.mode # "auto" => i.network = "xhttp"

FitInv ==
  /\ TypeOK
  /\ Fits(inbound)
  /\ \A r \in Row : rows[r] # NoRow => Fits(rows[r]) /\ Clean(rows[r])

-----------------------------------------------------------------------------
(* The functions on an inbound. *)

LEMMA NewFits ==
  ASSUME NEW p \in Protocols
  PROVE  NewInbound(p) \in Inbound /\ Fits(NewInbound(p)) /\ Clean(NewInbound(p))
BY DEF NewInbound, Inbound, Fits, Clean, CanEnableTls, CanEnableTlsFlow, Protocols, Networks,
       Modes, Proxies

LEMMA StoredFits ==
  ASSUME NEW i \in Inbound, Fits(i)
  PROVE  /\ Stored(i) \in Inbound /\ Fits(Stored(i)) /\ Clean(Stored(i))
         /\ Stored(i).security = "reality" => i.security = "reality" /\ Stored(i).key = i.key
<1>1. CASE CanEnableStream(i)
  <2> DEFINE j == [i EXCEPT !.key = IF i.security = "reality" THEN i.key ELSE NoKey,
                            !.pub = IF i.security = "reality" THEN i.pub ELSE NoKey,
                            !.mode = IF i.network = "xhttp" THEN i.mode ELSE "auto"]
  <2>1. Stored(i) = j
    BY <1>1 DEF Stored
  <2>2. /\ j \in Inbound /\ j.protocol = i.protocol /\ j.network = i.network
        /\ j.security = i.security /\ j.flow = i.flow
        /\ j.udpMasks = i.udpMasks /\ j.tcpMasks = i.tcpMasks
        /\ j.mode = (IF i.network = "xhttp" THEN i.mode ELSE "auto")
        /\ j.key = IF i.security = "reality" THEN i.key ELSE NoKey
    BY DEF Inbound, Modes
  <2> HIDE DEF j
  <2>3. QED
    BY <2>1, <2>2 DEF Fits, Clean, CanEnableTls, CanEnableTlsFlow
<1>2. CASE ~CanEnableStream(i)
  <2> DEFINE new == NewInbound("http")
  <2>1. Stored(i) = [new EXCEPT !.protocol = "http"]
    BY <1>2 DEF Stored, CanEnableStream
  <2>2. new \in Inbound /\ Fits(new) /\ Clean(new)
    BY NewFits DEF Protocols
  <2>3. new.protocol = "http" /\ new.security = "none"
    BY DEF NewInbound
  <2> HIDE DEF new
  <2>4. [new EXCEPT !.protocol = "http"] = new
    BY <2>2, <2>3 DEF Inbound
  <2>5. QED
    BY <2>1, <2>2, <2>3, <2>4
<1>3. QED
  BY <1>1, <1>2

\* A flow that is cleared where it has to be fits.
LEMMA ClearedFits ==
  ASSUME NEW i \in Inbound,
         i.security # "none" => CanEnableTls(i),
         i.flow # "" => i.protocol = "vless",
         i.udpMasks => i.protocol = "hysteria" \/ i.network = "kcp",
         i.tcpMasks => i.protocol \notin {"hysteria", "http"},
         i.security = "reality" => i.protocol \in {"vless", "trojan"},
         i.protocol = "hysteria" => i.network = "hysteria"
  PROVE  ClearFlow(i) \in Inbound /\ Fits(ClearFlow(i))
BY DEF ClearFlow, Inbound, Fits, CanEnableTls, CanEnableTlsFlow

LEMMA NetworkFits ==
  ASSUME NEW i \in Inbound, Fits(i), NEW n \in Network, i.protocol # "hysteria"
  PROVE  NetworkChanged(i, n) \in Inbound /\ Fits(NetworkChanged(i, n))
<1> DEFINE moved == [i EXCEPT !.network = n]
           fitted == IF CanEnableTls(moved) THEN moved ELSE [moved EXCEPT !.security = "none"]
           flowless == ClearFlow(fitted)
           j == [flowless EXCEPT !.udpMasks = flowless.udpMasks /\ n = "kcp"]
<1>1. NetworkChanged(i, n) = j
  BY DEF NetworkChanged
<1>2. n \in Networks
  BY FormAssumption
<1>3. /\ moved \in Inbound /\ moved.protocol = i.protocol /\ moved.network = n
      /\ moved.security = i.security /\ moved.flow = i.flow
      /\ moved.udpMasks = i.udpMasks /\ moved.tcpMasks = i.tcpMasks
  BY <1>2 DEF Inbound
<1> HIDE DEF moved
<1>4. /\ fitted \in Inbound /\ fitted.protocol = i.protocol /\ fitted.network = n
      /\ fitted.flow = i.flow
      /\ fitted.udpMasks = i.udpMasks /\ fitted.tcpMasks = i.tcpMasks
      /\ fitted.security \in {"none", i.security}
      /\ fitted.security # "none" => CanEnableTls(moved)
  BY <1>3 DEF Inbound
<1> HIDE DEF fitted
<1>5. /\ flowless \in Inbound /\ flowless.protocol = i.protocol /\ flowless.network = n
      /\ flowless.security = fitted.security
      /\ flowless.udpMasks = i.udpMasks /\ flowless.tcpMasks = i.tcpMasks
      /\ flowless.flow # "" => CanEnableTlsFlow(fitted)
  BY <1>4 DEF ClearFlow, Inbound, Fits, CanEnableTlsFlow
<1> HIDE DEF flowless
<1>6. /\ j \in Inbound /\ j.protocol = i.protocol /\ j.network = n
      /\ j.security = fitted.security /\ j.flow = flowless.flow
      /\ j.tcpMasks = i.tcpMasks /\ (j.udpMasks => n = "kcp")
  BY <1>5 DEF Inbound
<1> HIDE DEF j
<1>7. QED
  BY <1>1, <1>3, <1>4, <1>5, <1>6 DEF Fits, CanEnableTls, CanEnableTlsFlow

LEMMA SecurityFits ==
  ASSUME NEW i \in Inbound, Fits(i), CanEnableTls(i), NEW s \in {"none", "tls", "reality"},
         s = "reality" => CanEnableReality(i)
  PROVE  SecurityChanged(i, s) \in Inbound /\ Fits(SecurityChanged(i, s))
<1> DEFINE j == [i EXCEPT !.security = s]
<1>1. /\ j \in Inbound /\ j.protocol = i.protocol /\ j.network = i.network
      /\ j.security = s /\ j.flow = i.flow
      /\ j.udpMasks = i.udpMasks /\ j.tcpMasks = i.tcpMasks
  BY DEF Inbound
<1>2. SecurityChanged(i, s) = ClearFlow(j)
  BY DEF SecurityChanged
<1> HIDE DEF j
<1>3. /\ CanEnableTls(j) /\ (j.flow # "" => j.protocol = "vless")
      /\ j.udpMasks => j.protocol = "hysteria" \/ j.network = "kcp"
      /\ j.tcpMasks => j.protocol \notin {"hysteria", "http"}
      /\ j.security = "reality" => j.protocol \in {"vless", "trojan"}
      /\ j.protocol = "hysteria" => j.network = "hysteria"
  BY <1>1 DEF Fits, CanEnableTls, CanEnableTlsFlow, CanEnableReality
<1>4. QED
  BY <1>1, <1>2, <1>3, ClearedFits

-----------------------------------------------------------------------------
(* What the form holds, and what is stored, fits. *)

LEMMA FitInit == Init => FitInv
<1> SUFFICES ASSUME Init PROVE FitInv
  OBVIOUS
<1>1. inbound \in Inbound /\ Fits(inbound)
  BY NewFits DEF Init, Protocols
<1>2. QED
  BY <1>1 DEF Init, FitInv, TypeOK, CallStates

\* A choice leaves the form as the lemmas above say and touches nothing else.
LEMMA ChoiceFits ==
  ASSUME FitInv, NEW i \in Inbound, Fits(i), Choose(i)
  PROVE  FitInv'
<1>1. /\ inbound' = i /\ visible' = visible /\ editing' = editing /\ loading' = loading
      /\ call' = call /\ rows' = rows
  BY DEF Choose
<1>2. QED
  BY <1>1 DEF FitInv, TypeOK

\* The key pair is no part of what has to fit.
LEMMA KeyFits ==
  ASSUME NEW i \in Inbound, Fits(i), NEW k \in Key \cup {NoKey}, NEW q \in Key \cup {NoKey}
  PROVE  [i EXCEPT !.key = k, !.pub = q] \in Inbound /\ Fits([i EXCEPT !.key = k, !.pub = q])
<1> DEFINE j == [i EXCEPT !.key = k, !.pub = q]
<1>1. /\ j \in Inbound /\ j.protocol = i.protocol /\ j.network = i.network
      /\ j.security = i.security /\ j.flow = i.flow
      /\ j.udpMasks = i.udpMasks /\ j.tcpMasks = i.tcpMasks
  BY DEF Inbound
<1> HIDE DEF j
<1>2. j \in Inbound /\ Fits(j)
  BY <1>1 DEF Fits, CanEnableTls, CanEnableTlsFlow
<1>3. QED
  BY <1>2 DEF j

\* An answer brings at most a key pair, and ends one request.
LEMMA AnswerFits ==
  ASSUME FitInv, NEW c \in Call, KeyAnswered(c)
  PROVE  /\ inbound' \in Inbound /\ Fits(inbound')
         /\ loading' = FALSE /\ call' \in [Call -> CallStates]
<1>1. inbound \in Inbound /\ Fits(inbound) /\ call \in [Call -> CallStates]
  BY DEF FitInv, TypeOK
<1>2. loading' = FALSE /\ call' \in [Call -> CallStates]
  BY <1>1 DEF KeyAnswered, Answered, CallStates
<1>3. ASSUME NEW k \in Key, inbound' = [inbound EXCEPT !.key = k, !.pub = k]
      PROVE  inbound' \in Inbound /\ Fits(inbound')
  BY <1>1, <1>3, KeyFits
<1>4. CASE inbound' = inbound
  BY <1>1, <1>2, <1>4
<1>5. QED
  BY <1>2, <1>3, <1>4 DEF KeyAnswered

LEMMA SaveFits ==
  ASSUME FitInv, NEW i \in Inbound, Fits(i), Save(i)
  PROVE  /\ rows' \in [Row -> Inbound \cup {NoRow}] /\ visible' \in BOOLEAN
         /\ \A r \in Row :
              \/ rows'[r] = rows[r]
              \/ rows'[r] = Stored(i) /\ Fits(rows'[r]) /\ Clean(rows'[r])
<1>1. rows \in [Row -> Inbound \cup {NoRow}] /\ visible \in BOOLEAN
  BY DEF FitInv, TypeOK
<1>2. Stored(i) \in Inbound /\ Fits(Stored(i)) /\ Clean(Stored(i))
  BY StoredFits
<1>3. ASSUME NEW r \in Row, rows' = [rows EXCEPT ![r] = Stored(i)], visible' = FALSE
      PROVE  /\ rows' \in [Row -> Inbound \cup {NoRow}] /\ visible' \in BOOLEAN
             /\ \A q \in Row :
                  \/ rows'[q] = rows[q]
                  \/ rows'[q] = Stored(i) /\ Fits(rows'[q]) /\ Clean(rows'[q])
  BY <1>1, <1>2, <1>3
<1>4. CASE UNCHANGED <<rows, visible>>
  BY <1>1, <1>4
<1>5. QED
  BY <1>3, <1>4 DEF Save

LEMMA FitStep ==
  ASSUME FitInv, [Next]_vars
  PROVE  FitInv'
<1>1. /\ TypeOK /\ inbound \in Inbound /\ Fits(inbound)
      /\ \A r \in Row : rows[r] # NoRow => rows[r] \in Inbound /\ Fits(rows[r]) /\ Clean(rows[r])
  BY DEF FitInv, TypeOK
<1>2. ASSUME NEW i \in Inbound, Fits(i), NEW r \in Row \cup {NoRow}, Show(i, r)
      PROVE  FitInv'
  BY <1>1, <1>2 DEF Show, FitInv, TypeOK, CallStates
<1>3. CASE OpenAdd
  BY <1>2, <1>3, NewFits DEF OpenAdd, Protocols
<1>4. ASSUME NEW r \in Row, OpenEdit(r)
      PROVE  FitInv'
  BY <1>1, <1>2, <1>4 DEF OpenEdit
<1>5. CASE Cancel
  BY <1>1, <1>5 DEF Cancel, FitInv, TypeOK
<1>6. ASSUME NEW p \in Protocol, SetProtocol(p)
      PROVE  FitInv'
  <2>1. p \in Protocols
    BY FormAssumption
  <2>2. QED
    BY <1>6, <2>1, NewFits, ChoiceFits DEF SetProtocol
<1>7. ASSUME NEW n \in Network, SetNetwork(n)
      PROVE  FitInv'
  BY <1>1, <1>7, NetworkFits, ChoiceFits DEF SetNetwork
<1>8. ASSUME NEW s \in {"none", "tls", "reality"}, SetSecurity(s)
      PROVE  FitInv'
  BY <1>1, <1>8, SecurityFits, ChoiceFits DEF SetSecurity
<1>9. ASSUME NEW j \in Inbound, Choose(j),
             /\ j.protocol = inbound.protocol /\ j.network = inbound.network
             /\ j.security = inbound.security,
             j.flow = inbound.flow \/ CanEnableTlsFlow(inbound),
             \/ j.udpMasks = inbound.udpMasks
             \/ inbound.protocol = "hysteria" \/ inbound.network = "kcp",
             \/ j.tcpMasks = inbound.tcpMasks
             \/ inbound.protocol \notin {"hysteria", "http"}
      PROVE  FitInv'
  <2>1. Fits(j)
    BY <1>1, <1>9 DEF Fits, CanEnableTls, CanEnableTlsFlow
  <2>2. QED
    BY <1>9, <2>1, ChoiceFits
<1>10. ASSUME NEW f \in {"", "vision"}, SetFlow(f)
       PROVE  FitInv'
  <2> DEFINE j == [inbound EXCEPT !.flow = f]
  <2>1. /\ j \in Inbound /\ j.protocol = inbound.protocol /\ j.network = inbound.network
        /\ j.security = inbound.security
        /\ j.udpMasks = inbound.udpMasks /\ j.tcpMasks = inbound.tcpMasks
    BY <1>1 DEF Inbound
  <2>2. Choose(j) /\ CanEnableTlsFlow(inbound)
    BY <1>10 DEF SetFlow
  <2> HIDE DEF j
  <2>3. QED
    BY <1>9, <2>1, <2>2
<1>11. ASSUME NEW m \in Modes, SetMode(m)
       PROVE  FitInv'
  <2> DEFINE j == [inbound EXCEPT !.mode = m]
  <2>1. /\ j \in Inbound /\ j.protocol = inbound.protocol /\ j.network = inbound.network
        /\ j.security = inbound.security /\ j.flow = inbound.flow
        /\ j.udpMasks = inbound.udpMasks /\ j.tcpMasks = inbound.tcpMasks
    BY <1>1 DEF Inbound
  <2>2. Choose(j)
    BY <1>11 DEF SetMode
  <2> HIDE DEF j
  <2>3. QED
    BY <1>9, <2>1, <2>2
<1>12. ASSUME NEW on \in BOOLEAN, SetUdpMasks(on)
       PROVE  FitInv'
  <2> DEFINE j == [inbound EXCEPT !.udpMasks = on]
  <2>1. /\ j \in Inbound /\ j.protocol = inbound.protocol /\ j.network = inbound.network
        /\ j.security = inbound.security /\ j.flow = inbound.flow
        /\ j.tcpMasks = inbound.tcpMasks
    BY <1>1 DEF Inbound
  <2>2. Choose(j) /\ (inbound.protocol = "hysteria" \/ inbound.network = "kcp")
    BY <1>12 DEF SetUdpMasks
  <2> HIDE DEF j
  <2>3. QED
    BY <1>9, <2>1, <2>2
<1>12a. ASSUME NEW on \in BOOLEAN, SetTcpMasks(on)
       PROVE  FitInv'
  <2> DEFINE j == [inbound EXCEPT !.tcpMasks = on]
  <2>1. /\ j \in Inbound /\ j.protocol = inbound.protocol /\ j.network = inbound.network
        /\ j.security = inbound.security /\ j.flow = inbound.flow
        /\ j.udpMasks = inbound.udpMasks
    BY <1>1 DEF Inbound
  <2>2. Choose(j) /\ inbound.protocol \notin {"hysteria", "http"}
    BY <1>1, <1>12a DEF SetTcpMasks, CanEnableStream, Fits
  <2> HIDE DEF j
  <2>3. QED
    BY <1>9, <2>1, <2>2
<1>13. ASSUME NEW force \in ForceTls \cup {"absent"}, SetProxy(force)
       PROVE  FitInv'
  <2> DEFINE j == [inbound EXCEPT !.proxy = force]
  <2>1. force \in Proxies
    BY FormAssumption DEF Proxies
  <2>2. /\ j \in Inbound /\ j.protocol = inbound.protocol /\ j.network = inbound.network
        /\ j.security = inbound.security /\ j.flow = inbound.flow
        /\ j.udpMasks = inbound.udpMasks /\ j.tcpMasks = inbound.tcpMasks
    BY <1>1, <2>1 DEF Inbound
  <2>3. Choose(j)
    BY <1>13 DEF SetProxy
  <2> HIDE DEF j
  <2>4. QED
    BY <1>9, <2>2, <2>3
<1>14. ASSUME NEW k \in Key \cup {NoKey}, NEW q \in Key \cup {NoKey},
              Choose([inbound EXCEPT !.key = k, !.pub = q])
       PROVE  FitInv'
  BY <1>1, <1>14, KeyFits, ChoiceFits
<1>15. CASE \/ ClearX25519Cert
            \/ \E k \in Key \cup {NoKey} : TypePrivateKey(k) \/ TypePublicKey(k)
  <2>1. /\ inbound.key \in Key \cup {NoKey} /\ inbound.pub \in Key \cup {NoKey}
        /\ \A k : /\ [inbound EXCEPT !.key = k] = [inbound EXCEPT !.key = k, !.pub = inbound.pub]
                  /\ [inbound EXCEPT !.pub = k] = [inbound EXCEPT !.key = inbound.key, !.pub = k]
    BY <1>1 DEF Inbound
  <2>2. QED
    BY <1>14, <1>15, <2>1 DEF ClearX25519Cert, TypePrivateKey, TypePublicKey
<1>16. ASSUME NEW i \in Inbound, Fits(i), Save(i), inbound' \in Inbound, Fits(inbound'),
              editing' = editing, loading' \in BOOLEAN, call' \in [Call -> CallStates]
       PROVE  FitInv'
  BY <1>1, <1>16, SaveFits DEF FitInv, TypeOK
<1>17. CASE Ok
  <2>1. ASSUME NEW c \in Call, call' = [call EXCEPT ![c] = "waiting"], loading' = TRUE,
               UNCHANGED <<visible, rows>>
        PROVE  FitInv'
    BY <1>1, <1>17, <2>1 DEF Ok, FitInv, TypeOK, CallStates
  <2>2. ASSUME Save(inbound), UNCHANGED <<call, loading>>
        PROVE  FitInv'
    BY <1>1, <1>16, <1>17, <2>2 DEF Ok, TypeOK
  <2>3. QED
    BY <1>17, <2>1, <2>2 DEF Ok
<1>18. ASSUME NEW c \in Call,
              AskForKey(c) \/ AskForOther(c) \/ OtherAnswered(c) \/ ButtonAnswered(c)
       PROVE  FitInv'
  <2>1. /\ visible' = visible /\ editing' = editing /\ rows' = rows
        /\ loading' \in BOOLEAN /\ call' \in [Call -> CallStates]
        /\ inbound' \in Inbound /\ Fits(inbound')
    <3>1. CASE AskForKey(c) \/ AskForOther(c)
      BY <1>1, <3>1 DEF AskForKey, AskForOther, Ask, TypeOK, CallStates
    <3>2. CASE OtherAnswered(c)
      BY <1>1, <3>2 DEF OtherAnswered, Answered, TypeOK, CallStates
    <3>3. CASE ButtonAnswered(c)
      BY <3>3, AnswerFits DEF ButtonAnswered
    <3>4. QED
      BY <1>18, <3>1, <3>2, <3>3
  <2>2. QED
    BY <1>1, <2>1 DEF FitInv, TypeOK
<1>19. ASSUME NEW c \in Call, OkAnswered(c)
       PROVE  FitInv'
  <2>1. /\ KeyAnswered(c) /\ editing' = editing
        /\ Save(inbound') \/ UNCHANGED <<visible, rows>>
    BY <1>19 DEF OkAnswered
  <2>2. /\ inbound' \in Inbound /\ Fits(inbound') /\ loading' = FALSE
        /\ call' \in [Call -> CallStates]
    BY <2>1, AnswerFits
  <2>3. CASE UNCHANGED <<visible, rows>>
    BY <1>1, <2>1, <2>2, <2>3 DEF FitInv, TypeOK
  <2>4. ASSUME NEW i, i = inbound', Save(i)
        PROVE  FitInv'
    BY <1>16, <2>1, <2>2, <2>4
  <2>5. QED
    BY <2>1, <2>3, <2>4
<1>20. ASSUME NEW r \in Row, Delete(r)
       PROVE  FitInv'
  <2>1. rows' = [rows EXCEPT ![r] = NoRow]
    BY <1>20 DEF Delete
  <2>2. \A q \in Row : rows'[q] = rows[q] \/ rows'[q] = NoRow
    BY <1>1, <2>1 DEF TypeOK
  <2>3. rows' \in [Row -> Inbound \cup {NoRow}]
    BY <1>1, <2>1 DEF TypeOK
  <2>4. QED
    BY <1>1, <1>20, <2>2, <2>3 DEF Delete, FitInv, TypeOK
<1>21. CASE UNCHANGED vars
  BY <1>1, <1>21 DEF vars, FitInv, TypeOK
<1>22. QED
  BY <1>3, <1>4, <1>5, <1>6, <1>7, <1>8, <1>10, <1>11, <1>12, <1>12a, <1>13, <1>15, <1>17,
     <1>18, <1>19, <1>20, <1>21 DEF Next

\* What the form holds can be stored at any moment, so whatever is stored fits.
THEOREM FormFits == Spec => []FitInv
<1>1. FitInv /\ [Next]_vars => FitInv'
  BY FitStep
<1>2. QED
  BY <1>1, FitInit, PTL DEF Spec

\* Every variable stays in its range.
THEOREM FormTypes == Spec => []TypeOK
<1>1. FitInv => TypeOK
  BY DEF FitInv
<1>2. QED
  BY <1>1, FormFits, PTL

\* Whatever was chosen in whatever order, and whichever form an answer found, a
\* stored inbound offers no flow, no security and no UDP masks that its transport
\* cannot carry, and TCP masks only with a protocol that has a transport for them.
THEOREM StreamsFit == Spec => []SavedStreamFits
<1>1. FitInv => SavedStreamFits
  BY DEF FitInv, Saved, SavedStreamFits, Fits
<1>2. QED
  BY <1>1, FormFits, PTL

-----------------------------------------------------------------------------
(* Keys. *)

\* What is stored of an inbound with a key has one, if it is Reality at all.
LEMMA SaveKeyed ==
  ASSUME FitInv, NEW i \in Inbound, Fits(i), Save(i),
         i.security = "reality" => i.key # NoKey,
         NEW r \in Row, rows'[r] # rows[r], rows'[r].security = "reality"
  PROVE  rows'[r].key # NoKey
<1>1. rows'[r] = Stored(i)
  BY SaveFits
<1>2. Stored(i).security = "reality" => Stored(i).key # NoKey
  BY StoredFits
<1>3. QED
  BY <1>1, <1>2

LEMMA KeylessStep ==
  ASSUME FitInv, Next, NEW r \in Row, rows'[r] \notin {rows[r], NoRow},
         rows'[r].security = "reality", rows'[r].key = NoKey
  PROVE  \E c \in Call : call[c] = "keyed" /\ call'[c] = "idle"
<1>1. inbound \in Inbound /\ Fits(inbound) /\ call \in [Call -> CallStates]
  BY DEF FitInv, TypeOK
<1>2. ~Ok
  BY <1>1, SaveKeyed DEF Ok
<1>3. ASSUME NEW c \in Call, OkAnswered(c)
      PROVE  call[c] = "keyed" /\ call'[c] = "idle"
  <2>1. /\ inbound' \in Inbound /\ Fits(inbound') /\ call' = [call EXCEPT ![c] = "idle"]
    BY <1>3, AnswerFits DEF OkAnswered, KeyAnswered, Answered
  <2>2. ASSUME NEW i, i = inbound', Save(i), i.key # NoKey
        PROVE  FALSE
    BY <2>1, <2>2, SaveKeyed
  <2>3. call[c] = "keyed"
    BY <1>3, <2>2 DEF OkAnswered
  <2>4. QED
    BY <1>1, <2>1, <2>3
<1>4. ASSUME NEW q \in Row, Delete(q)
      PROVE  FALSE
  <2>1. rows \in [Row -> Inbound \cup {NoRow}] /\ rows' = [rows EXCEPT ![q] = NoRow]
    BY <1>4 DEF Delete, FitInv, TypeOK
  <2>2. QED
    BY <2>1
<1>5. CASE rows' = rows
  BY <1>5
<1>6. QED
  BY <1>2, <1>3, <1>4, <1>5
     DEF Next, OpenAdd, OpenEdit, Show, Cancel, ClearX25519Cert, AskForKey, AskForOther, Ask,
         ButtonAnswered, OtherAnswered, SetProtocol, SetNetwork, SetSecurity, SetFlow, SetMode,
         SetUdpMasks, SetTcpMasks, TypePrivateKey, TypePublicKey, SetProxy, Choose

\* A Reality inbound without a key is stored in one way only: an OK had got a key
\* into its own inbound, which another had replaced in the form by then.  Failed
\* requests, several at a time, cleared keys and cancelled forms do not do it.
THEOREM KeylessOnlyReplaced == Spec => KeylessFromReplacedForm
<1>1. FitInv /\ [Next]_vars =>
        [\A r \in Row :
            /\ rows'[r] \notin {rows[r], NoRow}
            /\ rows'[r].security = "reality"
            /\ rows'[r].key = NoKey
            => \E c \in Call : call[c] = "keyed" /\ call'[c] = "idle"]_vars
  BY KeylessStep
<1>2. QED
  BY <1>1, FormFits, PTL DEF Spec, KeylessFromReplacedForm

-----------------------------------------------------------------------------
(* What is written about an inbound.  Each CASE is unfolded once.           *)

LEMMA PanelWrites ==
  ASSUME NEW i, NEW f
  PROVE  /\ i.protocol = "vmess" => PanelLink(i, f) = PanelVmessLink(i, f)
         /\ i.protocol = "vless" => PanelLink(i, f) = PanelVlessLink(i, f)
         /\ i.protocol = "trojan" => PanelLink(i, f) = PanelTrojanLink(i, f)
         /\ i.protocol = "shadowsocks" => PanelLink(i, f) = PanelShadowsocksLink(i, f)
         /\ i.protocol = "hysteria" => PanelLink(i, f) = PanelHysteriaLink(i)
BY Zenon DEF PanelLink

LEMMA SubWrites ==
  ASSUME NEW i, NEW f
  PROVE  /\ i.protocol = "vmess" => SubLink(i, f) = OverwriteSecurity(SubVmessLink(i), f)
         /\ i.protocol = "vless" => SubLink(i, f) = OverwriteSecurity(SubVlessLink(i), f)
         /\ i.protocol = "trojan" => SubLink(i, f) = OverwriteSecurity(SubTrojanLink(i), f)
         /\ i.protocol = "shadowsocks" =>
              SubLink(i, f) = OverwriteSecurity(SubShadowsocksLink(i), f)
         /\ i.protocol = "hysteria" => SubLink(i, f) = SubHysteriaLink(i)
BY Zenon DEF SubLink

LEMMA ReaderReads ==
  ASSUME NEW l
  PROVE  /\ l.scheme = "vmess" => FromLink(l) = FromVmessLink(l)
         /\ l.scheme = "hysteria" => FromLink(l) = FromHysteriaLink(l)
         /\ l.scheme \in {"vless", "trojan", "shadowsocks"} => FromLink(l) = FromParamLink(l)
BY Zenon DEF FromLink

LEMMA PanelSecured ==
  ASSUME NEW i, NEW f
  PROVE  /\ Effective(i, f) = "tls" =>
              /\ PanelVlessLink(i, f) =
                   [NetworkParams(i) EXCEPT
                      !.security = "tls", !.names = i.security = "tls",
                      !.flow = IF i.security = "tls" /\ i.network = "tcp" THEN i.flow ELSE ""]
              /\ PanelTrojanLink(i, f) =
                   [NetworkParams(i) EXCEPT !.security = "tls", !.names = i.security = "tls"]
         /\ Effective(i, f) = "reality" =>
              /\ PanelVlessLink(i, f) =
                   [NetworkParams(i) EXCEPT
                      !.security = "reality", !.pub = i.pub, !.names = TRUE,
                      !.flow = IF i.network = "tcp" THEN i.flow ELSE ""]
              /\ PanelTrojanLink(i, f) =
                   [NetworkParams(i) EXCEPT !.security = "reality", !.pub = i.pub, !.names = TRUE]
         /\ Effective(i, f) = "none" =>
              PanelVlessLink(i, f) = NetworkParams(i) /\ PanelTrojanLink(i, f) = NetworkParams(i)
BY Zenon DEF PanelVlessLink, PanelTrojanLink

LEMMA SubSecured ==
  ASSUME NEW i
  PROVE  /\ i.security = "tls" =>
              /\ SubVlessLink(i) = [SubTlsParams(i) EXCEPT !.flow = SubFlow(i)]
              /\ SubTrojanLink(i) = SubTlsParams(i)
         /\ i.security = "reality" =>
              /\ SubVlessLink(i) = [SubRealityParams(i) EXCEPT !.flow = SubFlow(i)]
              /\ SubTrojanLink(i) = [SubRealityParams(i) EXCEPT !.flow = SubFlow(i)]
         /\ i.security = "none" =>
              SubVlessLink(i) = NetworkParams(i) /\ SubTrojanLink(i) = NetworkParams(i)
BY Zenon DEF SubVlessLink, SubTrojanLink

\* What is known of an inbound and of the security its link says.
LEMMA ForceTypes ==
  ASSUME NEW i \in Inbound, Fits(i)
  PROVE  /\ ForceTlsOf(i) \in {"same", "tls", "none"}
         /\ Effective(i, ForceTlsOf(i)) \in {"none", "tls", "reality"}
         /\ Effective(i, ForceTlsOf(i)) = "reality" => i.security = "reality"
         /\ i.protocol \in Protocols /\ i.security \in {"none", "tls", "reality"}
         /\ i.network \in Networks /\ i.flow \in {"", "vision"} /\ i.mode \in Modes
         /\ Masked(i) \in BOOLEAN /\ i.pub \in Key \cup {NoKey}
BY DEF ForceTlsOf, Effective, Inbound, Proxies, Masked

\* The parameters every generator begins with.
LEMMA BareParts ==
  ASSUME NEW i
  PROVE  LET mode == IF i.network = "xhttp" THEN i.mode ELSE "auto"
         IN  /\ NetworkParams(i) \in
                  [scheme : {i.protocol}, type : {i.network}, security : {"none"},
                   pub : {NoKey}, flow : {""}, mode : {mode},
                   names : {FALSE}, obfs : {FALSE}, fm : {Masked(i)}]
             /\ Bare(i) \in
                  [scheme : {i.protocol}, type : {i.network}, security : {"none"},
                   pub : {NoKey}, flow : {""}, mode : {"auto"},
                   names : {FALSE}, obfs : {FALSE}, fm : {Masked(i)}]
BY DEF NetworkParams, Bare

\* What is known of a stored inbound: only VLESS keeps a flow, and only where its
\* own security carries it.
LEMMA FitParts ==
  ASSUME NEW i \in Inbound, Fits(i)
  PROVE  /\ i.flow # "" => i.protocol = "vless" /\ i.network = "tcp" /\ i.security # "none"
         /\ i.security = "reality" => i.protocol \in {"vless", "trojan"}
BY DEF Fits, CanEnableTlsFlow

\* The panel's link, whichever generator wrote it.
LEMMA PanelParts ==
  ASSUME NEW i \in Inbound, Fits(i), i.protocol \in {"vless", "trojan", "shadowsocks"}
  PROVE  LET l == PanelLink(i, ForceTlsOf(i))
             e == Effective(i, ForceTlsOf(i))
         IN  /\ l.scheme = i.protocol /\ l.type = i.network /\ l.security = e /\ l.obfs = FALSE
             /\ l.fm = Masked(i)
             /\ l.mode = (IF i.network = "xhttp" THEN i.mode ELSE "auto")
             /\ e = "reality" => l.pub = i.pub
             /\ l.flow = (IF e = i.security THEN i.flow ELSE "")
             /\ e = i.security => l.names = (i.security # "none")
<1> DEFINE f == ForceTlsOf(i)
           e == Effective(i, f)
           l == PanelLink(i, f)
           n == NetworkParams(i)
           mode == IF i.network = "xhttp" THEN i.mode ELSE "auto"
           Goal == /\ l.scheme = i.protocol /\ l.type = i.network /\ l.security = e
                   /\ l.obfs = FALSE /\ l.fm = Masked(i) /\ l.mode = mode
                   /\ (e = "reality" => l.pub = i.pub)
                   /\ l.flow = (IF e = i.security THEN i.flow ELSE "")
                   /\ e = i.security => l.names = (i.security # "none")
<1> SUFFICES Goal
  OBVIOUS
<1>1. /\ e \in {"none", "tls", "reality"} /\ i.security \in {"none", "tls", "reality"}
      /\ e = "reality" => i.security = "reality"
      /\ i.flow # "" => i.protocol = "vless" /\ i.network = "tcp" /\ i.security # "none"
      /\ i.security = "reality" => i.protocol \in {"vless", "trojan"}
  BY ForceTypes, FitParts
<1>2. n \in [scheme : {i.protocol}, type : {i.network}, security : {"none"}, pub : {NoKey},
             flow : {""}, mode : {mode}, names : {FALSE}, obfs : {FALSE}, fm : {Masked(i)}]
  BY BareParts
<1>3. /\ i.protocol = "vless" => l = PanelVlessLink(i, f)
      /\ i.protocol = "trojan" => l = PanelTrojanLink(i, f)
      /\ i.protocol = "shadowsocks" => l = PanelShadowsocksLink(i, f)
  BY PanelWrites
<1> HIDE DEF e, f, l, n
<1>4. CASE i.protocol = "vless"
  <2>0. l = PanelVlessLink(i, f)
    BY <1>3, <1>4
  <2>1. CASE e = "tls"
    <3>1. l = [n EXCEPT !.security = "tls", !.names = i.security = "tls",
                 !.flow = IF i.security = "tls" /\ i.network = "tcp" THEN i.flow ELSE ""]
      BY <2>0, <2>1, PanelSecured DEF e, n
    <3>2. QED
      BY <1>1, <1>2, <1>4, <2>1, <3>1
  <2>2. CASE e = "reality"
    <3>1. l = [n EXCEPT !.security = "reality", !.pub = i.pub, !.names = TRUE,
                        !.flow = IF i.network = "tcp" THEN i.flow ELSE ""]
      BY <2>0, <2>2, PanelSecured DEF e, n
    <3>2. QED
      BY <1>1, <1>2, <1>4, <2>2, <3>1
  <2>3. CASE e = "none"
    <3>1. l = n
      BY <2>0, <2>3, PanelSecured DEF e, n
    <3>2. QED
      BY <1>1, <1>2, <1>4, <2>3, <3>1
  <2>4. QED
    BY <1>1, <2>1, <2>2, <2>3
<1>5. CASE i.protocol = "trojan"
  <2>0. l = PanelTrojanLink(i, f)
    BY <1>3, <1>5
  <2>1. CASE e = "tls"
    <3>1. l = [n EXCEPT !.security = "tls", !.names = i.security = "tls"]
      BY <2>0, <2>1, PanelSecured DEF e, n
    <3>2. QED
      BY <1>1, <1>2, <1>5, <2>1, <3>1
  <2>2. CASE e = "reality"
    <3>1. l = [n EXCEPT !.security = "reality", !.pub = i.pub, !.names = TRUE]
      BY <2>0, <2>2, PanelSecured DEF e, n
    <3>2. QED
      BY <1>1, <1>2, <1>5, <2>2, <3>1
  <2>3. CASE e = "none"
    <3>1. l = n
      BY <2>0, <2>3, PanelSecured DEF e, n
    <3>2. QED
      BY <1>1, <1>2, <1>5, <2>3, <3>1
  <2>4. QED
    BY <1>1, <2>1, <2>2, <2>3
<1>6. CASE i.protocol = "shadowsocks"
  <2>1. e # "reality" /\ i.security # "reality"
    BY <1>1, <1>6
  <2>2. l = IF e = "tls" THEN [n EXCEPT !.security = "tls", !.names = i.security = "tls"] ELSE n
    BY <1>3, <1>6 DEF PanelShadowsocksLink, e, n
  <2>3. CASE e = "tls"
    BY <1>1, <1>2, <1>6, <2>1, <2>2, <2>3
  <2>4. CASE e = "none"
    BY <1>1, <1>2, <1>6, <2>1, <2>2, <2>4
  <2>5. QED
    BY <1>1, <2>1, <2>3, <2>4
<1>7. QED
  BY <1>4, <1>5, <1>6

LEMMA PanelVmessParts ==
  ASSUME NEW i, NEW f, i.protocol = "vmess"
  PROVE  LET l == PanelLink(i, f)
         IN  /\ l.scheme = "vmess" /\ l.type = i.network /\ l.security = Effective(i, f)
             /\ l.mode = "auto" /\ l.flow = "" /\ l.obfs = FALSE /\ l.fm = Masked(i)
             /\ l.names = (Effective(i, f) = "tls")
<1> DEFINE l == PanelLink(i, f)
           n == Bare(i)
<1>1. n \in [scheme : {i.protocol}, type : {i.network}, security : {"none"}, pub : {NoKey},
             flow : {""}, mode : {"auto"}, names : {FALSE}, obfs : {FALSE}, fm : {Masked(i)}]
  BY BareParts
<1>2. l = [n EXCEPT !.security = Effective(i, f), !.names = Effective(i, f) = "tls"]
  BY PanelWrites DEF PanelVmessLink
<1> HIDE DEF n, l
<1>3. QED
  BY <1>1, <1>2 DEF l

LEMMA LinkConnects ==
  ASSUME NEW i \in Inbound, Fits(i), Clean(i), i.protocol \notin {"http", "hysteria"},
         i.pub = i.key
  PROVE  FromLink(PanelLink(i, ForceTlsOf(i))) = Expected(i)
<1> DEFINE f == ForceTlsOf(i)
           e == Effective(i, f)
           l == PanelLink(i, f)
<1>1. /\ e = "reality" => i.security = "reality"
      /\ i.protocol \in {"vless", "vmess", "trojan", "shadowsocks"}
      /\ i.mode = IF i.network = "xhttp" THEN i.mode ELSE "auto"
      /\ i.flow # "" => i.protocol = "vless" /\ i.network = "tcp" /\ i.security # "none"
      /\ i.security = "reality" => i.protocol \in {"vless", "trojan"}
  BY ForceTypes, FitParts DEF Protocols, Clean
<1>2. Expected(i) = [protocol |-> i.protocol, network |-> i.network, security |-> e,
                     pub |-> IF e = "reality" THEN i.key ELSE NoKey,
                     flow |-> IF e = i.security THEN i.flow ELSE "",
                     mode |-> IF i.protocol = "vmess" THEN "auto" ELSE i.mode]
  BY DEF Expected
<1>3. CASE i.protocol = "vmess"
  <2>1. l.scheme = "vmess" /\ l.type = i.network /\ l.security = e /\ l.mode = "auto"
    BY <1>3, PanelVmessParts
  <2> HIDE DEF l, e
  <2>2. FromLink(l) = FromVmessLink(l)
    BY <2>1, ReaderReads
  <2>3. i.flow = "" /\ e # "reality"
    BY <1>1, <1>3
  <2>4. QED
    BY <1>2, <1>3, <2>1, <2>2, <2>3 DEF FromVmessLink, l
<1>4. CASE i.protocol # "vmess"
  <2>1. /\ l.scheme = i.protocol /\ l.type = i.network /\ l.security = e
        /\ l.mode = (IF i.network = "xhttp" THEN i.mode ELSE "auto")
        /\ e = "reality" => l.pub = i.pub
        /\ l.flow = (IF e = i.security THEN i.flow ELSE "")
    BY <1>1, <1>4, PanelParts
  <2> HIDE DEF l, e
  <2>2. FromLink(l) = FromParamLink(l)
    BY <1>1, <1>4, <2>1, ReaderReads
  <2>3. l.mode = i.mode /\ (i.protocol # "vless" => i.flow = "")
    BY <1>1, <2>1
  <2>4. QED
    BY <1>1, <1>2, <1>4, <2>1, <2>2, <2>3 DEF FromParamLink, l
<1>5. QED
  BY <1>3, <1>4

\* The panel's own link of any stored inbound, read back by the panel, is an
\* outbound that reaches it, whatever an external proxy makes of its security.
THEOREM LinksReach == Spec => []LinksConnect
<1>1. FitInv => LinksConnect
  BY LinkConnects DEF FitInv, TypeOK, Saved, LinksConnect
<1>2. QED
  BY <1>1, FormFits, PTL

-----------------------------------------------------------------------------
(* The two generators agree. *)

\* The server's link, before an external proxy's security is written over it.
LEMMA SubParts ==
  ASSUME NEW i \in Inbound, Fits(i), i.protocol \in {"vless", "trojan", "shadowsocks"},
         NEW f \in {"same", "tls", "none"}
  PROVE  LET l == SubLink(i, f)
         IN  /\ l.scheme = i.protocol /\ l.type = i.network /\ l.security = Effective(i, f)
             /\ l.mode = (IF i.network = "xhttp" THEN i.mode ELSE "auto")
             /\ l.obfs = FALSE /\ l.fm = Masked(i) /\ l.flow = i.flow
             /\ i.security = "reality" => l.pub = i.pub
             /\ f = "same" => l.names = (i.security # "none")
<1> DEFINE n == NetworkParams(i)
           mode == IF i.network = "xhttp" THEN i.mode ELSE "auto"
           Whole(m) ==
             /\ m \in [scheme : {i.protocol}, type : {i.network}, security : {i.security},
                       pub : {NoKey, i.pub}, flow : {i.flow}, mode : {mode},
                       names : {i.security # "none"}, obfs : {FALSE}, fm : {Masked(i)}]
             /\ i.security = "reality" => m.pub = i.pub
<1>1. /\ i.security \in {"none", "tls", "reality"}
      /\ i.flow # "" => i.protocol = "vless" /\ i.network = "tcp" /\ i.security # "none"
      /\ i.security = "reality" => i.protocol \in {"vless", "trojan"}
  BY ForceTypes, FitParts
<1>2. n \in [scheme : {i.protocol}, type : {i.network}, security : {"none"}, pub : {NoKey},
             flow : {""}, mode : {mode}, names : {FALSE}, obfs : {FALSE}, fm : {Masked(i)}]
  BY BareParts
<1>3. SubFlow(i) = i.flow
  BY <1>1 DEF SubFlow
<1>4. /\ SubTlsParams(i) = [n EXCEPT !.security = "tls", !.names = TRUE]
      /\ SubRealityParams(i) = [n EXCEPT !.security = "reality", !.names = TRUE, !.pub = i.pub]
  BY DEF SubTlsParams, SubRealityParams
<1>5. PICK m : SubLink(i, f) = OverwriteSecurity(m, f) /\ Whole(m)
  <2>1. CASE i.security = "none"
    <3>1. i.flow = "" /\ Whole(n)
      BY <1>1, <1>2, <2>1
    <3>2. SubLink(i, f) = OverwriteSecurity(n, f)
      BY <2>1, SubWrites, SubSecured DEF SubShadowsocksLink
    <3>3. QED
      BY <3>1, <3>2
  <2>2. CASE i.security = "tls"
    <3>1. Whole([SubTlsParams(i) EXCEPT !.flow = i.flow])
      <4> HIDE DEF n, mode
      <4>1. QED
        BY <1>2, <1>4, <2>2
    <3>2. CASE i.protocol = "vless"
      <4>1. SubLink(i, f) = OverwriteSecurity(SubVlessLink(i), f)
        BY <3>2, SubWrites
      <4>2. SubVlessLink(i) = [SubTlsParams(i) EXCEPT !.flow = i.flow]
        BY <1>3, <2>2, SubSecured
      <4>3. QED
        BY <3>1, <4>1, <4>2
    <3>3. CASE i.protocol \in {"trojan", "shadowsocks"}
      <4>1. i.flow = "" /\ SubLink(i, f) = OverwriteSecurity(SubTlsParams(i), f)
        BY <1>1, <2>2, <3>3, SubWrites, SubSecured DEF SubShadowsocksLink
      <4>2. Whole(SubTlsParams(i))
        <5> HIDE DEF n, mode
        <5>1. QED
          BY <1>2, <1>4, <2>2, <4>1
      <4>3. QED
        BY <4>1, <4>2
    <3>4. QED
      BY <3>2, <3>3
  <2>3. CASE i.security = "reality"
    <3>1. Whole([SubRealityParams(i) EXCEPT !.flow = i.flow])
      <4> HIDE DEF n, mode
      <4>1. QED
        BY <1>2, <1>4, <2>3
    <3>2. SubLink(i, f) = OverwriteSecurity([SubRealityParams(i) EXCEPT !.flow = i.flow], f)
      <4>1. \/ SubLink(i, f) = OverwriteSecurity(SubVlessLink(i), f)
            \/ SubLink(i, f) = OverwriteSecurity(SubTrojanLink(i), f)
        BY <1>1, <2>3, SubWrites
      <4>2. /\ SubVlessLink(i) = [SubRealityParams(i) EXCEPT !.flow = i.flow]
            /\ SubTrojanLink(i) = [SubRealityParams(i) EXCEPT !.flow = i.flow]
        BY <1>3, <2>3, SubSecured
      <4>3. QED
        BY <4>1, <4>2
    <3>3. QED
      BY <3>1, <3>2
  <2>4. QED
    BY <1>1, <2>1, <2>2, <2>3
<1> HIDE DEF n, mode
<1>6. SubLink(i, f) = [m EXCEPT !.security = IF f = "same" THEN m.security ELSE f,
                                !.names = m.names /\ f # "none"]
  BY <1>5 DEF OverwriteSecurity
<1>7. QED
  BY <1>1, <1>5, <1>6 DEF Effective, mode

LEMMA SubVmessParts ==
  ASSUME NEW i \in Inbound, i.protocol = "vmess", NEW f \in {"same", "tls", "none"}
  PROVE  LET l == SubLink(i, f)
         IN  /\ l.scheme = "vmess" /\ l.type = i.network /\ l.security = Effective(i, f)
             /\ l.flow = "" /\ l.obfs = FALSE /\ l.fm = Masked(i)
             /\ f = "same" => l.names = (i.security = "tls")
<1> DEFINE n == NetworkParams(i)
           m == SubVmessLink(i)
           mode == IF i.network = "xhttp" THEN i.mode ELSE "auto"
<1>1. n \in [scheme : {i.protocol}, type : {i.network}, security : {"none"}, pub : {NoKey},
             flow : {""}, mode : {mode}, names : {FALSE}, obfs : {FALSE}, fm : {Masked(i)}]
  BY BareParts
<1>2. m = [n EXCEPT !.security = i.security, !.names = i.security = "tls"]
  BY DEF SubVmessLink
<1> HIDE DEF n, mode, m
<1>3. m \in [scheme : {i.protocol}, type : {i.network}, security : {i.security}, pub : {NoKey},
             flow : {""}, mode : {mode},
             names : {i.security = "tls"}, obfs : {FALSE}, fm : {Masked(i)}]
  BY <1>1, <1>2
<1>4. SubLink(i, f) = [m EXCEPT !.security = IF f = "same" THEN m.security ELSE f,
                                !.names = m.names /\ f # "none"]
  BY SubWrites DEF OverwriteSecurity, m
<1>5. QED
  BY <1>3, <1>4 DEF Effective

\* Links that say the same are read as the same.
LEMMA ParamsRead ==
  ASSUME NEW k, NEW l, k.scheme \in {"vless", "trojan", "shadowsocks"}, k.scheme = l.scheme,
         k.type = l.type, k.security = l.security, k.security = "reality" => k.pub = l.pub
  PROVE  /\ FromLink(k).network = FromLink(l).network
         /\ FromLink(k).security = FromLink(l).security
         /\ FromLink(k).pub = FromLink(l).pub
<1>1. FromLink(k) = FromParamLink(k) /\ FromLink(l) = FromParamLink(l)
  BY ReaderReads
<1>2. ASSUME NEW m
      PROVE  /\ FromParamLink(m).network = m.type /\ FromParamLink(m).security = m.security
             /\ FromParamLink(m).pub = IF m.security = "reality" THEN m.pub ELSE NoKey
  BY DEF FromParamLink
<1>3. QED
  BY <1>1, <1>2

LEMMA VmessRead ==
  ASSUME NEW k, NEW l, k.scheme = "vmess", k.scheme = l.scheme,
         k.type = l.type, k.security = l.security
  PROVE  /\ FromLink(k).network = FromLink(l).network
         /\ FromLink(k).security = FromLink(l).security
         /\ FromLink(k).pub = FromLink(l).pub
<1>1. FromLink(k) = FromVmessLink(k) /\ FromLink(l) = FromVmessLink(l)
  BY ReaderReads
<1>2. ASSUME NEW m
      PROVE  /\ FromVmessLink(m).network = m.type /\ FromVmessLink(m).security = m.security
             /\ FromVmessLink(m).pub = NoKey
  BY DEF FromVmessLink
<1>3. QED
  BY <1>1, <1>2

LEMMA LinksAgree ==
  ASSUME NEW i \in Inbound, Fits(i), i.protocol # "http"
  PROVE  LET panel == PanelLink(i, ForceTlsOf(i))
             sub == SubLink(i, ForceTlsOf(i))
         IN  /\ panel.obfs = sub.obfs /\ panel.fm = sub.fm
             /\ i.proxy \in {"absent", "same"} => panel.names = sub.names
             /\ \A c \in {"network", "security", "pub"} : FromLink(panel)[c] = FromLink(sub)[c]
             /\ i.protocol # "vmess" => panel.mode = sub.mode
             /\ i.proxy \in {"absent", "same"} => panel.flow = sub.flow
<1>0. PICK f \in {"same", "tls", "none"} : f = ForceTlsOf(i)
  BY ForceTypes
<1> DEFINE e == Effective(i, f)
           panel == PanelLink(i, f)
           sub == SubLink(i, f)
           Agree ==
             /\ panel.obfs = sub.obfs /\ panel.fm = sub.fm
             /\ i.proxy \in {"absent", "same"} => panel.names = sub.names
             /\ \A c \in {"network", "security", "pub"} : FromLink(panel)[c] = FromLink(sub)[c]
             /\ i.protocol # "vmess" => panel.mode = sub.mode
             /\ i.proxy \in {"absent", "same"} => panel.flow = sub.flow
<1> SUFFICES Agree
  BY <1>0
<1>1. /\ i.protocol \in {"vless", "vmess", "trojan", "shadowsocks", "hysteria"}
      /\ f \in {"same", "tls", "none"} /\ e = "reality" => i.security = "reality"
      /\ i.security = "reality" => i.protocol \in {"vless", "trojan"}
      /\ i.proxy \in {"absent", "same"} => f = "same"
      /\ f = "same" => e = i.security
  BY <1>0, ForceTypes, FitParts DEF Protocols, ForceTlsOf, Effective
<1> HIDE DEF Agree
<1>2. CASE i.protocol = "hysteria"
  <2>1. panel = PanelHysteriaLink(i)
    BY <1>2, PanelWrites
  <2>2. sub = SubHysteriaLink(i)
    BY <1>2, SubWrites
  <2>3. panel = sub
    BY <2>1, <2>2 DEF PanelHysteriaLink, SubHysteriaLink
  <2> HIDE DEF panel, sub
  <2>4. QED
    BY <2>3 DEF Agree
<1>3. CASE i.protocol = "vmess"
  <2>1. /\ panel.scheme = "vmess" /\ panel.type = i.network /\ panel.security = e
        /\ panel.flow = "" /\ panel.obfs = FALSE /\ panel.fm = Masked(i)
        /\ panel.names = (e = "tls")
    BY <1>3, PanelVmessParts
  <2>2. /\ sub.scheme = "vmess" /\ sub.type = i.network /\ sub.security = e
        /\ sub.flow = "" /\ sub.obfs = FALSE /\ sub.fm = Masked(i)
        /\ f = "same" => sub.names = (i.security = "tls")
    BY <1>3, SubVmessParts
  <2> HIDE DEF panel, sub, e
  <2>3. /\ FromLink(panel).network = FromLink(sub).network
        /\ FromLink(panel).security = FromLink(sub).security
        /\ FromLink(panel).pub = FromLink(sub).pub
    BY <2>1, <2>2, VmessRead
  <2>4. QED
    BY <1>1, <1>3, <2>1, <2>2, <2>3 DEF Agree
<1>4. CASE i.protocol \in {"vless", "trojan", "shadowsocks"}
  <2>1. /\ panel.scheme = i.protocol /\ panel.type = i.network /\ panel.security = e
        /\ panel.obfs = FALSE /\ panel.fm = Masked(i) /\ (e = "reality" => panel.pub = i.pub)
        /\ panel.mode = (IF i.network = "xhttp" THEN i.mode ELSE "auto")
        /\ panel.flow = (IF e = i.security THEN i.flow ELSE "")
        /\ e = i.security => panel.names = (i.security # "none")
    BY <1>0, <1>4, PanelParts
  <2>2. /\ sub.scheme = i.protocol /\ sub.type = i.network /\ sub.security = e
        /\ sub.obfs = FALSE /\ sub.fm = Masked(i) /\ (i.security = "reality" => sub.pub = i.pub)
        /\ sub.mode = (IF i.network = "xhttp" THEN i.mode ELSE "auto")
        /\ sub.flow = i.flow
        /\ f = "same" => sub.names = (i.security # "none")
    BY <1>4, SubParts
  <2> HIDE DEF panel, sub, e
  <2>3. /\ FromLink(panel).network = FromLink(sub).network
        /\ FromLink(panel).security = FromLink(sub).security
        /\ FromLink(panel).pub = FromLink(sub).pub
    <3>1. /\ panel.scheme \in {"vless", "trojan", "shadowsocks"} /\ panel.scheme = sub.scheme
          /\ panel.type = sub.type /\ panel.security = sub.security
          /\ panel.security = "reality" => panel.pub = sub.pub
      BY <1>1, <1>4, <2>1, <2>2
    <3>2. QED
      BY <3>1, ParamsRead
  <2>4. QED
    BY <1>1, <1>4, <2>1, <2>2, <2>3 DEF Agree
<1>5. QED
  BY <1>1, <1>2, <1>3, <1>4

\* For any stored inbound the subscription server offers what the panel offers.
THEOREM ServersAgree == Spec => []SubscriptionAgrees
<1>1. FitInv => SubscriptionAgrees
  BY LinksAgree DEF FitInv, TypeOK, Saved, SubscriptionAgrees
<1>2. QED
  BY <1>1, FormFits, PTL
=============================================================================
