------------------------------- MODULE Fabric -------------------------------
(***************************************************************************)
(* What the garnet2.0 fabric promises the NIs (spec sections 1 and 3):     *)
(* a flit enters at its source router, travels only over the links of the *)
(* mesh, leaves only at its destination router, and leaves once.  Where a  *)
(* flit is, abstractly, is the router it is at or is heading to.           *)
(*                                                                         *)
(* One step of an implementation may move many flits, and a flit by up to  *)
(* MaxHops links: a router wakeup that spins the ring m_spin_mult times    *)
(* moves every ring flit that many hops.                                   *)
(***************************************************************************)
EXTENDS Mesh, FiniteSets

CONSTANTS
  Flits,      \* the flits the NIs inject
  Src, Dst,   \* source and destination router of each flit
  MaxHops     \* the most links a flit crosses in one step

VARIABLES
  injected,   \* flits handed to the fabric
  ejected,    \* flits handed back to the destination NI
  at          \* the router each flit is at

vars == <<injected, ejected, at>>

\* Routers a and b are joined by a link of the mesh.
Linked(a, b) == \E d \in Dirs : HasPort(a, d) /\ UpstreamId(d, a) = b

\* The routers at most k links away from a.
RECURSIVE Within(_, _)
Within(a, k) ==
  IF k = 0 THEN {a}
  ELSE LET W == Within(a, k - 1)
       IN  W \cup {b \in Routers : \E c \in W : Linked(c, b)}

\* Where a flit may get to in one step, from each router.
Reach == [a \in Routers |-> Within(a, MaxHops)]

Init ==
  /\ injected = {}
  /\ ejected = {}
  /\ at = Src

\* What one step may do to flit f: nothing, inject it at its source, move
\* it over at most MaxHops links, or eject it at its destination.
FlitStep(f) ==
  \/ /\ (f \in injected') = (f \in injected)
     /\ (f \in ejected') = (f \in ejected)
     /\ at'[f] \in IF f \in injected \ ejected THEN Reach[at[f]]
                   ELSE {at[f]}
  \/ /\ f \notin injected /\ f \in injected' /\ f \notin ejected'
     /\ at'[f] = Src[f]
  \/ /\ f \in injected \ ejected /\ f \in ejected'
     /\ at[f] = Dst[f] /\ at'[f] = Dst[f]

Next ==
  /\ injected' \in SUBSET Flits
  /\ ejected' \in SUBSET Flits
  /\ at' \in [Flits -> Routers]
  /\ \A f \in Flits : FlitStep(f)

Spec == Init /\ [][Next]_vars

(* The fabric's liveness promise (spec 1): every flit handed to it is      *)
(* eventually handed back to its destination NI.                           *)
Delivery == \A f \in Flits : f \in injected ~> f \in ejected

LiveSpec == Spec /\ Delivery

=============================================================================
