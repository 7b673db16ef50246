---------------------------- MODULE MCInboundForm ----------------------------
(* InboundForm for TLC: the bound that keeps requests and links apart. *)
EXTENDS InboundForm

\* What requests and their answers tell apart of an inbound.
MCPlain(i) ==
    /\ i.protocol = "vless" /\ i.network \in {"tcp", "kcp"}
    /\ i.proxy = "absent" /\ ~Masked(i)

\* While a request is under way, only such inbounds are edited and stored.
MCQuiet ==
    \/ \A c \in Call : call[c] = "idle"
    \/ \A i \in {inbound} \cup Saved : MCPlain(i)
=============================================================================
