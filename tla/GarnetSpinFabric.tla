-------------------------- MODULE GarnetSpinFabric --------------------------
(***************************************************************************)
(* The GarnetSpin fabric implements Fabric.  The refinement mapping puts a *)
(* flit in a VC buffer at that buffer's router and a flit on a link at the *)
(* router the link leads to; a flit not yet injected is at its source and  *)
(* an ejected one at its destination.                                      *)
(***************************************************************************)
EXTENDS GarnetSpin

\* The router flit f is at, or is crossing a link to.
AtRouter(f) ==
  LET InBuf  == {q \in IVC : \E i \in DOMAIN net.buf[q] : net.buf[q][i] = f}
      OnLink == {l \in NetOut : \E i \in DOMAIN net.link[l] :
                                  net.link[l][i].flit = f}
  IN  IF InBuf # {} THEN (CHOOSE q \in InBuf : TRUE)[1]
      ELSE IF OnLink # {} THEN Downstream((CHOOSE l \in OnLink : TRUE)[1],
                                          (CHOOSE l \in OnLink : TRUE)[2])[1]
      ELSE IF f \in net.ejected THEN Dst[f]
      ELSE Src[f]

(* The most links a flit crosses in one router wakeup: the spins of the   *)
(* release branch move a ring flit once each; set_flit_time then holds it *)
(* 2*m_spin_mult cycles, so only with m_spin_mult = 0 may switch          *)
(* allocation move it once more in the same wakeup.                       *)
SpinHops == IF SpinMult = 0 THEN RandSpinBound + 1 ELSE SpinMult

Abs == INSTANCE Fabric WITH injected <- net.injected,
                            ejected  <- net.ejected,
                            at       <- [f \in Flits |-> AtRouter(f)],
                            MaxHops  <- SpinHops

(* The fabric refines Fabric (spec 1, 3): the routers' switch traversals  *)
(* and the spins of doSpin move a flit only over links of the mesh, and   *)
(* switch allocation ejects a flit only at its destination.  doSpin moves *)
(* a flit from ring node i into the inport of node i+1, so this holds     *)
(* only if init_spinRing built a ring whose consecutive nodes are linked. *)
FabricSpec == Abs!Spec

(* The fabric implements Fabric with its liveness (spec 1, 4.9): on top    *)
(* of FabricSpec, the halts and spins of SPIN never leave a flit stuck,   *)
(* so every injected flit is eventually ejected, although the four flits  *)
(* can deadlock the 2x2 mesh.  It rests on the scheduling fairness of     *)
(* Spec: the routers keep waking up.                                      *)
FabricLiveSpec == Abs!LiveSpec

=============================================================================
