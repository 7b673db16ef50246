---------------------------- MODULE ChainPromise ----------------------------
(***************************************************************************)
(* What the chain registry promises about its hops, without the table, the *)
(* topology, the revisions and the sweep that keep the promise: the life   *)
(* of a hop from its invitation to the end of its departure, what the      *)
(* others know it as, how far it is known to have followed the chain, and  *)
(* which edge is in force.                                                 *)
(***************************************************************************)
EXTENDS Integers

CONSTANT Hop    \* ids: numbers, handed out in their order

VARIABLES
  life,     \* "none" -> "invited" <-> "entered" -> "leaving" -> "gone"
  edges,    \* the hops that are edges
  known,    \* what the other hops are told about each hop
  seen,     \* the newest revision each hop is known to have taken
  active    \* the edge in force: a set of at most one hop

vars == <<life, edges, known, seen, active>>

Alive == {h \in Hop : life[h] \in {"invited", "entered", "leaving"}}
Open == {h \in Hop : life[h] \in {"invited", "entered"}}

\* What a step says of one hop, it says of no other.
Only(h) == \A g \in Hop \ {h} : known'[g] = known[g] /\ seen'[g] = seen[g]

Becomes(h, l) == life' = [life EXCEPT ![h] = l]

\* An id is new, and stays the name of this hop for ever.
Fresh(h) == life[h] = "none" /\ \A g \in Hop : g < h => life[g] # "none"

-----------------------------------------------------------------------------

Init ==
  /\ life = [h \in Hop |-> "none"]
  /\ edges = {}
  /\ seen = [h \in Hop |-> 0]
  /\ active = {}

Invite(h) ==
  /\ Fresh(h) /\ Becomes(h, "invited") /\ Only(h)
  /\ edges' \in {edges, edges \cup {h}}
  /\ UNCHANGED active

\* The override of a panel without a chain becomes its first hop.
Import(h) ==
  /\ Alive = {} /\ Fresh(h) /\ Becomes(h, "entered") /\ Only(h)
  /\ edges' = {h}
  /\ active' \subseteq {h}

\* A hop enters, with a token and once per token; what it is known as changes.
Enter(h) ==
  /\ life[h] = "invited" /\ Becomes(h, "entered") /\ Only(h)
  /\ UNCHANGED <<edges, seen, active>>

\* Its token is issued anew.  An edge in force stays in force meanwhile.
InviteAgain(h) ==
  /\ h \in Open /\ Becomes(h, "invited") /\ Only(h)
  /\ UNCHANGED <<edges, seen, active>>

\* The owner changes what a hop is known as; a leaving one is left alone.
Describe(h) ==
  /\ h \in Open /\ Only(h)
  /\ UNCHANGED <<life, edges, seen, active>>

\* News of the boxes: freshness goes forward, whatever arrives in which order.
Hear ==
  /\ \A h \in Hop : seen'[h] >= seen[h] /\ (h \notin Alive => seen'[h] = seen[h])
  /\ UNCHANGED <<life, edges, known, active>>

\* An inner that others hang off stays to serve them.
Leave(h) ==
  /\ h \in Open \ edges /\ Becomes(h, "leaving") /\ Only(h)
  /\ UNCHANGED <<edges, seen, active>>

\* The edge in force goes only when no other could take over.
Go(h) ==
  /\ h \in Alive /\ Becomes(h, "gone") /\ Only(h)
  /\ h \in active => \A g \in edges \ {h} : life[g] # "entered"
  /\ edges' = edges \ {h}
  /\ active' = active \ {h}

Switch(h) ==
  /\ h \in edges /\ life[h] = "entered"
  /\ active' = {h}
  /\ UNCHANGED <<life, edges, known, seen>>

SwitchOff == active' = {} /\ UNCHANGED <<life, edges, known, seen>>

Next ==
  \/ \E h \in Hop :
       \/ Invite(h) \/ Import(h) \/ Enter(h) \/ InviteAgain(h) \/ Describe(h)
       \/ Leave(h) \/ Go(h) \/ Switch(h)
  \/ Hear
  \/ SwitchOff

Spec == Init /\ [][Next]_vars
=============================================================================
