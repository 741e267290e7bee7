-------------------------------- MODULE Mesh --------------------------------
(***************************************************************************)
(* The mesh the garnet2.0 topology builder wires up, and the mesh          *)
(* arithmetic GarnetNetwork and Router use on it.  Router ids run row by   *)
(* row: router r sits at column r % Cols and row r \div Cols, "East" is    *)
(* r+1 and "North" is r+Cols (GarnetNetwork::get_upstreamId).              *)
(*                                                                         *)
(* A direction names a port: the inport "East" of router r is fed by the   *)
(* East neighbour's "West" outport (makeInternalLink, addInPort,           *)
(* addOutPort).  "Local" is the NI port.                                   *)
(***************************************************************************)
EXTENDS Integers

CONSTANTS
  Rows,     \* m_num_rows
  Cols,     \* m_num_cols = m_routers.size() / m_num_rows
  Routing   \* "XY" or "ADAPTIVE": the RoutingUnit policy (not under src/)

ASSUME Rows \in Nat \ {0} /\ Cols \in Nat \ {0}
ASSUME Routing \in {"XY", "ADAPTIVE"}

Routers == 0 .. Rows * Cols - 1
Dirs    == {"North", "East", "South", "West"}
Local   == "Local"

\* GarnetNetwork::get_upstreamId: the router on the other side of port d.
UpstreamId(d, r) ==
  CASE d = "East"  -> r + 1
    [] d = "West"  -> r - 1
    [] d = "North" -> r + Cols
    [] d = "South" -> r - Cols
    [] d = Local   -> r

\* GarnetNetwork::get_upstreamOutportDirn: the port on the other side.
UpstreamOutportDirn(d) ==
  CASE d = "East"  -> "West"
    [] d = "West"  -> "East"
    [] d = "North" -> "South"
    [] d = "South" -> "North"

\* The mesh topology creates a link in direction d only towards an
\* existing neighbour in the same row or column.
HasPort(r, d) ==
  CASE d = "East"  -> r % Cols < Cols - 1
    [] d = "West"  -> r % Cols > 0
    [] d = "North" -> r \div Cols < Rows - 1
    [] d = "South" -> r \div Cols > 0

\* The inports (and outports) addInPort/addOutPort give each router, fixed
\* once the topology is built.
PortsOf == [r \in Routers |-> {d \in Dirs : HasPort(r, d)} \cup {Local}]
Ports(r) == PortsOf[r]

\* Router::compute_hops_remaining: Manhattan distance to the destination.
HopsRemaining(r, dest) ==
  LET dx == (dest % Cols) - (r % Cols)
      dy == (dest \div Cols) - (r \div Cols)
  IN  (IF dx < 0 THEN -dx ELSE dx) + (IF dy < 0 THEN -dy ELSE dy)

\* RoutingUnit::lookupRoutingTable_pref_outport: the outports that make
\* forward progress (minimal directions), Local at the destination.
PrefOutports(r, dest) ==
  IF r = dest THEN {Local}
  ELSE {d \in Dirs : HasPort(r, d)
                     /\ HopsRemaining(UpstreamId(d, r), dest)
                          < HopsRemaining(r, dest)}

\* Router::route_compute -> RoutingUnit::outportCompute: the outports the
\* routing unit may return.  Table routing picks one of the minimal
\* candidates at random; XY routing corrects the column first.
RouteChoices(r, dest) ==
  IF Routing = "ADAPTIVE" \/ r = dest THEN PrefOutports(r, dest)
  ELSE LET xs == {d \in PrefOutports(r, dest) : d \in {"East", "West"}}
       IN  IF xs # {} THEN xs ELSE PrefOutports(r, dest)

\* The routing tables RoutingUnit builds when the topology is created: the
\* answers of outportCompute for every router and destination.
RouteTable == [r \in Routers, dest \in Routers |-> RouteChoices(r, dest)]

=============================================================================
