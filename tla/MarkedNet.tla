----------------------------- MODULE MarkedNet ------------------------------
(***************************************************************************)
(* Marked-flit termination (spec 4.10) composed with the GarnetSpin        *)
(* fabric.  Router::mrkd_flt_ starts at the router's marked_flit parameter *)
(* and is the number of marked flits its NI has still to inject; the NI    *)
(* marks the flits it injects while it is positive and counts them with    *)
(* increment_injected_flits.  The NI that receives a flit calls            *)
(* increment_received_flits, which on a marked flit asks check_mrkd_flt    *)
(* whether the run is over and then calls exitSimLoop.                     *)
(*                                                                         *)
(* The NIs are not under src/: marking and the two calls are modelled      *)
(* from the spec, at injection and at ejection.  Latencies are left out    *)
(* (no property is about them), so of increment_received_flits the model   *)
(* keeps the counters and the exit.                                        *)
(***************************************************************************)
EXTENDS GarnetSpin, Functions

CONSTANTS
  MarkedFlit   \* the marked_flit parameter of each router

ASSUME MarkedFlit \in [Routers -> Nat]

VARIABLES
  mrkd,     \* Router::mrkd_flt_ of each router
  marked,   \* the flits the NIs marked (the flit's marked field)
  stats,    \* GarnetNetwork's flit and packet counters
  exited    \* exitSimLoop("All marked packet received.") has been called

mvars == <<vars, mrkd, marked, stats, exited>>

VnetIds == 0 .. VNets - 1
Zero(S) == [x \in S |-> 0]

(* The Router and GarnetNetwork constructors: mrkd_flt_ = marked_flit,    *)
(* marked_flt_injected = marked_flt_received = 0 and the counters zero.   *)
MInit ==
  /\ Init
  /\ mrkd = MarkedFlit
  /\ marked = {}
  /\ stats = [flitsInjected |-> Zero(VnetIds), flitsReceived |-> Zero(VnetIds),
              pktsInjected |-> Zero(VnetIds), pktsReceived |-> Zero(VnetIds),
              mFltInjected |-> Zero(VnetIds), mFltReceived |-> Zero(VnetIds),
              mPktInjected |-> Zero(VnetIds), mPktReceived |-> Zero(VnetIds),
              fltDist |-> Zero(Routers), mFltDist |-> Zero(Routers),
              markedFltInjected |-> 0, markedFltReceived |-> 0,
              totalMarkedFlitReceived |-> 0]
  /\ exited = FALSE

Inc(c, b) == IF b THEN c + 1 ELSE c

(* increment_injected_flits(vnet, marked, router) and, the flit being a   *)
(* HEAD_TAIL packet, increment_injected_packets(vnet, marked).            *)
IncrementInjected(s, vn, m, r) ==
  [s EXCEPT !.flitsInjected[vn] = @ + 1, !.pktsInjected[vn] = @ + 1,
            !.fltDist[r] = @ + 1,
            !.mFltInjected[vn] = Inc(@, m), !.mPktInjected[vn] = Inc(@, m),
            !.mFltDist[r] = Inc(@, m),
            !.markedFltInjected = Inc(@, m)]

\* Mutant of CheckMrkdFlt: the loop over the routers' mrkd_flt_ is missing.
CheckMrkdFltCountsOnly(s, m) == ~(s.markedFltReceived < s.markedFltInjected)

(* GarnetNetwork::check_mrkd_flt: false while some router has mrkd_flt_   *)
(* > 0 or fewer marked flits were received than injected.                 *)
CheckMrkdFlt(s, m) ==
  IF \E r \in Routers : m[r] > 0 THEN FALSE
  ELSE ~(s.markedFltReceived < s.markedFltInjected)

\* Mutant of IncrementReceived: "if (marked = true)", every flit received
\* counts as marked.
IncrementReceivedAnyFlit(s, vn, mk, m) ==
  LET s1 == [s EXCEPT !.flitsReceived[vn] = @ + 1, !.pktsReceived[vn] = @ + 1,
                      !.mFltReceived[vn] = @ + 1, !.mPktReceived[vn] = @ + 1,
                      !.markedFltReceived = @ + 1,
                      !.totalMarkedFlitReceived = @ + 1]
  IN  [stats |-> s1, exit |-> CheckMrkdFlt(s1, m)]

\* Mutant of IncrementReceived: check_mrkd_flt is asked before the
\* received counters are incremented.
IncrementReceivedFirstCheck(s, vn, mk, m) ==
  LET s1 == [s EXCEPT !.flitsReceived[vn] = @ + 1, !.pktsReceived[vn] = @ + 1,
                      !.mFltReceived[vn] = Inc(@, mk),
                      !.mPktReceived[vn] = Inc(@, mk),
                      !.markedFltReceived = Inc(@, mk),
                      !.totalMarkedFlitReceived = Inc(@, mk)]
  IN  [stats |-> s1, exit |-> mk /\ CheckMrkdFlt(s, m)]

(* increment_received_flits(vnet, marked) and increment_received_packets: *)
(* the counters, then for a marked flit check_mrkd_flt, the assert that   *)
(* marked_flt_injected == marked_flt_received and exitSimLoop.            *)
(* Returns the counters and whether the simulation exits.                 *)
IncrementReceived(s, vn, mk, m) ==
  LET s1 == [s EXCEPT !.flitsReceived[vn] = @ + 1, !.pktsReceived[vn] = @ + 1,
                      !.mFltReceived[vn] = Inc(@, mk),
                      !.mPktReceived[vn] = Inc(@, mk),
                      !.markedFltReceived = Inc(@, mk),
                      !.totalMarkedFlitReceived = Inc(@, mk)]
  IN  [stats |-> s1, exit |-> mk /\ CheckMrkdFlt(s1, m)]

(* A router wakeup; the flit its switch allocation ejected, if any, is    *)
(* received by the destination NI.                                        *)
MRouterWakeup(r) ==
  /\ RouterWakeup(r)
  /\ LET E == net'.ejected \ net.ejected
     IN  IF E = {} THEN UNCHANGED <<stats, exited>>
         ELSE LET f == CHOOSE f \in E : TRUE
                  rc == IncrementReceived(stats, FlitVnet[f], f \in marked, mrkd)
              IN  stats' = rc.stats /\ exited' = rc.exit
  /\ UNCHANGED <<mrkd, marked>>

\* Mutant of MNIInject: mrkd_flt_ is decremented on every injection.
MNIInjectAlwaysDec(f) ==
  /\ NIInject(f)
  /\ LET r == Src[f]
         mk == mrkd[r] > 0
     IN  /\ mrkd' = [mrkd EXCEPT ![r] = @ - 1]
         /\ marked' = IF mk THEN marked \cup {f} ELSE marked
         /\ stats' = IncrementInjected(stats, FlitVnet[f], mk, r)
  /\ UNCHANGED exited

(* The NI injects f, marking it while its router's mrkd_flt_ is positive, *)
(* and counts it.                                                         *)
MNIInject(f) ==
  /\ NIInject(f)
  /\ LET r == Src[f]
         mk == mrkd[r] > 0
     IN  /\ mrkd' = IF mk THEN [mrkd EXCEPT ![r] = @ - 1] ELSE mrkd
         /\ marked' = IF mk THEN marked \cup {f} ELSE marked
         /\ stats' = IncrementInjected(stats, FlitVnet[f], mk, r)
  /\ UNCHANGED exited

MTick == Tick /\ UNCHANGED <<mrkd, marked, stats, exited>>

\* The simulation runs until exitSimLoop; after it nothing happens (the
\* runs set CHECK_DEADLOCK FALSE for this stop).
MNext ==
  /\ ~exited
  /\ \/ \E r \in Routers : MRouterWakeup(r)
     \/ \E f \in Flits : MNIInject(f)
     \/ MTick

(* As in GarnetSpin, the event queue runs until the simulation exits.     *)
(* MNext is enabled exactly while ~exited and exited is never reset, so   *)
(* WF_mvars(MNext) is the same as this disjunction.                       *)
MSpec == MInit /\ [][MNext]_mvars /\ (<>exited \/ []<><<MNext>>_mvars)

-----------------------------------------------------------------------------
\* One type invariant for the added state.
MTypeOK ==
  /\ mrkd \in [Routers -> Nat] /\ marked \subseteq net.injected
  /\ exited \in BOOLEAN
  /\ \A k \in {"markedFltInjected", "markedFltReceived",
               "totalMarkedFlitReceived"} : stats[k] \in Nat

(* Spec 4.10: "All marked packet received." is reported only when it is   *)
(* true - every flit the NIs were to mark has been marked, injected and   *)
(* ejected, none is still in the fabric.  check_mrkd_flt is asked on each *)
(* marked flit received, possibly before other routers' NIs have injected *)
(* theirs, so it must look at the routers as well as the two counters.    *)
ExitOnlyWhenDrained ==
  exited => /\ Cardinality(marked) = SumFunction(MarkedFlit)
            /\ marked \subseteq net.ejected

(* The marked counters agree with the fabric (spec 4.10, the assert       *)
(* before exitSimLoop): marked_flt_injected and the per-vnet and          *)
(* per-router counts are the marked flits injected, marked_flt_received   *)
(* and total_marked_flit_received the marked flits ejected.               *)
MarkedCountsAgree ==
  /\ stats.markedFltInjected = Cardinality(marked)
  /\ SumFunction(stats.mFltInjected) = Cardinality(marked)
  /\ SumFunction(stats.mFltDist) = Cardinality(marked)
  /\ stats.markedFltReceived = Cardinality(marked \cap net.ejected)
  /\ stats.totalMarkedFlitReceived = stats.markedFltReceived

(* Scenario 5 of the spec: once every NI has injected its marked flits,   *)
(* the simulation eventually exits with "All marked packet received.".    *)
SimExits == (\A r \in Routers : mrkd[r] = 0) ~> exited

=============================================================================
