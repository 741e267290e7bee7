--------------------------- MODULE MC_GarnetSpin ---------------------------
(***************************************************************************)
(* GarnetSpin on the 2x2 mesh with one single-slot VC per inport: four     *)
(* flits, each bound for the diagonally opposite router, can fill the      *)
(* four-link cycle and block each other, which is what SPIN must break.    *)
(***************************************************************************)
EXTENDS GarnetSpinFabric

MCFlits == 1 .. 4
MCSrc   == <<0, 1, 3, 2>>
MCDst   == <<3, 2, 0, 1>>
MCFlitVnet == [f \in MCFlits |-> 0]

\* The ring init_spinRing builds from a ring file covering the eight
\* network inports of the 2x2 mesh: node i+1's inport faces node i.
MCRing ==
  << <<0, "North">>, <<2, "South">>, <<3, "West">>, <<1, "North">>,
     <<0, "East">>, <<1, "West">>, <<3, "South">>, <<2, "East">>,
     <<0, "North">> >>

\* A small ring of spec scenario 3: the four inports of the clockwise
\* cycle 0 -> 1 -> 3 -> 2 -> 0 only
\* (ring file "1 W 3 S 2 E").
MCRing4 ==
  << <<0, "North">>, <<1, "West">>, <<3, "South">>, <<2, "East">>,
     <<0, "North">> >>

\* The 2x3 mesh (routers 0 1 2 in row 0, 3 4 5 in row 1) with the ring
\* init_spinRing builds from the ring file "1 W 2 W": its last router is
\* m_num_rows = 2, so node 0 becomes (0, North).  Two flits cross row 0.
MC2x3Flits == 1 .. 2
MC2x3Src   == <<0, 1>>
MC2x3Dst   == <<2, 2>>
MC2x3FlitVnet == [f \in MC2x3Flits |-> 0]
MC2x3Ring  == << <<0, "North">>, <<1, "West">>, <<2, "West">>, <<0, "North">> >>

=============================================================================
