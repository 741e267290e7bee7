----------------------------- MODULE GarnetSpin -----------------------------
(***************************************************************************)
(* The garnet2.0 fabric of a Rows x Cols mesh with the SPIN deadlock       *)
(* recovery of Router::wakeup and GarnetNetwork::doSpin.                   *)
(*                                                                         *)
(* Time is the simulator's cycle.  In every cycle each router runs         *)
(* Router::wakeup once, in id order (turn), then the NIs inject and the    *)
(* clock ticks.  Of the cycle number the model keeps what the code reads:  *)
(* clk = curCycle() % m_spin_thrshld and epoch, the number of completed    *)
(* threshold periods capped at 2 (for curCycle() > 0 and                   *)
(* curCycle() > m_spin_thrshld).  Ready times are kept as countdowns.      *)
(*                                                                         *)
(* Packets are single flits (HEAD_TAIL), so a VC holds at most one packet. *)
(* The input/output units, switch allocator and NIs are not under src/:    *)
(* they are modelled from the spec (sections 4.2-4.6).                     *)
(***************************************************************************)
EXTENDS Mesh, Integers, Sequences, FiniteSets, FiniteSetsExt, TLC

CONSTANTS
  VNets,          \* m_virtual_networks
  VcPerVnet,      \* m_vc_per_vnet
  Depth,          \* m_buffers_per_data_vc = m_buffers_per_ctrl_vc
  Flits,          \* the flits (single-flit packets) the NIs will inject
  Src, Dst,       \* source and destination router of each flit
  FlitVnet,       \* virtual network of each flit
  Ring,           \* spinRing after init_spinRing: closed, Ring[1] = Ring[Len]
  Spin,           \* m_spin
  SpinThrshld,    \* m_spin_thrshld
  SpinMult,       \* m_spin_mult
  DrainAllVc,     \* drain_all_vc
  LinkLatency,    \* latency of every network and credit link
  RandSpinBound,  \* bound on rand() % 10 when m_spin_mult == 0 (at most 9)
  InjectEpochs,   \* the NIs inject only while epoch < InjectEpochs (3: always)
  NULL            \* an empty spin-ring slot (flit_ == nullptr)

VCs      == 0 .. VNets * VcPerVnet - 1
VnetOf(v) == v \div VcPerVnet
BaseVCs  == {vn * VcPerVnet : vn \in 0 .. VNets - 1}
NoLock   == -1
PreDrainDelay == 2          \* pre_drain_delay in Router::wakeup
NumRouters == Rows * Cols

ASSUME Depth \in Nat \ {0} /\ LinkLatency \in Nat \ {0}
ASSUME SpinThrshld \in Nat \ {0} /\ SpinMult \in Nat /\ DrainAllVc \in {0, 1}
ASSUME RandSpinBound \in 0 .. 9 /\ InjectEpochs \in 1 .. 3
ASSUME \A f \in Flits : Src[f] \in Routers /\ Dst[f] \in Routers
                        /\ FlitVnet[f] \in 0 .. VNets - 1
ASSUME /\ Len(Ring) > 1 /\ Ring[1] = Ring[Len(Ring)]
       /\ \A i \in 1 .. Len(Ring) : Ring[i][2] \in Ports(Ring[i][1]) \ {Local}

\* Input VCs <<router, inport, vc>>, the network links named by their
\* upstream outport <<router, outport>>, and the output VCs.
IVC    == {q \in Routers \X (Dirs \cup {Local}) \X VCs : q[2] \in Ports(q[1])}
NetIn  == {l \in Routers \X Dirs : HasPort(l[1], l[2])}
NetOut == NetIn
OVC    == {q \in Routers \X Dirs \X VCs : HasPort(q[1], q[2])}

\* The inport fed by outport o of r, and the outport feeding inport d of r.
Downstream(r, o) == <<UpstreamId(o, r), UpstreamOutportDirn(o)>>
Upstream(r, d)   == <<UpstreamId(d, r), UpstreamOutportDirn(d)>>

VARIABLES
  net,    \* the fabric: buffers, VC states, credits, links, halt_, lock
  clk,    \* curCycle() % m_spin_thrshld
  epoch,  \* completed threshold periods, capped at 2
  turn    \* the router whose wakeup runs next in this cycle

vars == <<net, clk, epoch, turn>>

CycleIsZero        == epoch = 0 /\ clk = 0
AfterFirstThreshold == epoch = 2 \/ (epoch = 1 /\ clk > 0)

-----------------------------------------------------------------------------
(* GarnetNetwork's constructor (lock = -1) and the routers' (halt_ =      *)
(* false); every output VC starts idle with a full buffer of credits.     *)
\* The flit_ member of every spinRing node, nullptr as spinStruct builds it.
EmptySlots == [i \in 1 .. Len(Ring) |-> NULL]

Init ==
  /\ net = [buf      |-> [q \in IVC |-> <<>>],
            ivc      |-> [q \in IVC |-> "IDLE"],
            credit   |-> [q \in OVC |-> Depth],
            ovc      |-> [q \in OVC |-> "IDLE"],
            link     |-> [l \in NetOut |-> <<>>],
            clink    |-> [l \in NetIn |-> <<>>],
            route    |-> [f \in Flits |-> Local],
            wait     |-> [f \in Flits |-> 0],
            halt     |-> [r \in Routers |-> FALSE],
            lock     |-> NoLock,
            injected |-> {},
            ejected  |-> {},
            ring     |-> EmptySlots]
  /\ clk = 0
  /\ epoch = 0
  /\ turn = 0

\* GarnetNetwork::set_halt: the same value into every router's halt_.
SetHalt(n, val) == [n EXCEPT !.halt = [r \in Routers |-> val]]

\* GarnetNetwork::chck_link_state: every outport's link buffer is empty.
ChckLinkState(n) == \A l \in NetOut : n.link[l] = <<>>

(* InputUnit::wakeup of every inport of r: a flit whose link latency has  *)
(* passed enters the VC it names, the VC becomes active and the routing   *)
(* unit computes its outport.                                             *)
DrainInputs(n, r) ==
  LET Arr   == {d \in Ports(r) \ {Local} :
                  n.link[Upstream(r, d)] # <<>>
                  /\ Head(n.link[Upstream(r, d)]).wait = 0}
      Msg(d) == Head(n.link[Upstream(r, d)])
      AF    == {Msg(d).flit : d \in Arr}
      In(q) == q[1] = r /\ q[2] \in Arr /\ Msg(q[2]).vc = q[3]
  IN  { [n EXCEPT
           !.link  = [l \in NetOut |->
                        IF l \in {Upstream(r, d) : d \in Arr}
                        THEN Tail(n.link[l]) ELSE n.link[l]],
           !.buf   = [q \in IVC |->
                        IF In(q) THEN Append(n.buf[q], Msg(q[2]).flit)
                        ELSE n.buf[q]],
           !.ivc   = [q \in IVC |-> IF In(q) THEN "ACTIVE" ELSE n.ivc[q]],
           !.route = [f \in Flits |-> IF f \in AF THEN rt[f] ELSE n.route[f]],
           !.wait  = [f \in Flits |-> IF f \in AF THEN 0 ELSE n.wait[f]]]
        : rt \in {rt \in [AF -> Dirs \cup {Local}] :
                    \A f \in AF : rt[f] \in RouteTable[r, Dst[f]]} }

(* OutputUnit::wakeup of every outport of r: an arrived credit returns a  *)
(* buffer slot and, being a free signal, frees the output VC.             *)
DrainCredits(n, r) ==
  LET Arr  == {o \in Ports(r) \ {Local} :
                 n.clink[Downstream(r, o)] # <<>>
                 /\ Head(n.clink[Downstream(r, o)]).wait = 0}
      Ret(q) == q[1] = r /\ q[2] \in Arr
                /\ Head(n.clink[Downstream(r, q[2])]).vc = q[3]
  IN  [n EXCEPT
         !.clink  = [l \in NetIn |->
                       IF l \in {Downstream(r, o) : o \in Arr}
                       THEN Tail(n.clink[l]) ELSE n.clink[l]],
         !.credit = [q \in OVC |-> IF Ret(q) THEN n.credit[q] + 1
                                   ELSE n.credit[q]],
         !.ovc    = [q \in OVC |-> IF Ret(q) THEN "IDLE" ELSE n.ovc[q]]]

-----------------------------------------------------------------------------
\* Mutants of doSpin stage 1, each a plausible slip in that loop.
\* StageABubbleCredit: the credit is returned for every ring node, bubble
\* or not.  StageANoCredit: the stage-1 increment_credit is missing.
RECURSIVE StageABubbleCredit(_, _, _, _, _)
StageABubbleCredit(n, slots, cnt, v, i) ==
  IF i > Len(Ring) - 1 THEN [net |-> n, slots |-> slots, num |-> cnt]
  ELSE
    LET q  == <<Ring[i][1], Ring[i][2], v>>
        up == <<UpstreamId(Ring[i][2], Ring[i][1]),
                UpstreamOutportDirn(Ring[i][2]), v>>
        n1 == [n EXCEPT !.credit = (up :> @[up] + 1) @@ @]
    IN  IF n.buf[q] = <<>>
        THEN StageABubbleCredit(n1, [slots EXCEPT ![i + 1] = NULL], cnt, v, i + 1)
        ELSE StageABubbleCredit([n1 EXCEPT !.buf = (q :> Tail(@[q])) @@ @,
                                           !.ivc = (q :> "IDLE") @@ @,
                                           !.ovc = (up :> "IDLE") @@ @],
                    [slots EXCEPT ![i + 1] = Head(n.buf[q])], cnt + 1, v, i + 1)

RECURSIVE StageANoCredit(_, _, _, _, _)
StageANoCredit(n, slots, cnt, v, i) ==
  IF i > Len(Ring) - 1 THEN [net |-> n, slots |-> slots, num |-> cnt]
  ELSE
    LET q  == <<Ring[i][1], Ring[i][2], v>>
        up == <<UpstreamId(Ring[i][2], Ring[i][1]),
                UpstreamOutportDirn(Ring[i][2]), v>>
    IN  IF n.buf[q] = <<>>
        THEN StageANoCredit(n, [slots EXCEPT ![i + 1] = NULL], cnt, v, i + 1)
        ELSE StageANoCredit([n EXCEPT !.buf = (q :> Tail(@[q])) @@ @,
                                      !.ivc = (q :> "IDLE") @@ @,
                                      !.ovc = (up :> "IDLE") @@ @],
                    [slots EXCEPT ![i + 1] = Head(n.buf[q])], cnt + 1, v, i + 1)

\* Mutant of StageA: the upstream credit and outVC of the vnet's first VC
\* are freed instead of those of VC v.
RECURSIVE StageAWrongVc(_, _, _, _, _)
StageAWrongVc(n, slots, cnt, v, i) ==
  IF i > Len(Ring) - 1 THEN [net |-> n, slots |-> slots, num |-> cnt]
  ELSE
    LET q  == <<Ring[i][1], Ring[i][2], v>>
        up == <<UpstreamId(Ring[i][2], Ring[i][1]),
                UpstreamOutportDirn(Ring[i][2]), VnetOf(v) * VcPerVnet>>
    IN  IF n.buf[q] = <<>>
        THEN StageAWrongVc(n, [slots EXCEPT ![i + 1] = NULL], cnt, v, i + 1)
        ELSE StageAWrongVc([n EXCEPT !.buf    = (q :> Tail(@[q])) @@ @,
                                     !.ivc    = (q :> "IDLE") @@ @,
                                     !.credit = (up :> @[up] + 1) @@ @,
                                     !.ovc    = (up :> "IDLE") @@ @],
                           [slots EXCEPT ![i + 1] = Head(n.buf[q])], cnt + 1, v, i + 1)

\* Mutant of StageA: an empty VC counts a bubble but its slot is not set
\* to nullptr.
RECURSIVE StageAStaleSlot(_, _, _, _, _)
StageAStaleSlot(n, slots, cnt, v, i) ==
  IF i > Len(Ring) - 1 THEN [net |-> n, slots |-> slots, num |-> cnt]
  ELSE
    LET q  == <<Ring[i][1], Ring[i][2], v>>
        up == <<UpstreamId(Ring[i][2], Ring[i][1]),
                UpstreamOutportDirn(Ring[i][2]), v>>
    IN  IF n.buf[q] = <<>>
        THEN StageAStaleSlot(n, slots, cnt, v, i + 1)
        ELSE StageAStaleSlot([n EXCEPT !.buf    = (q :> Tail(@[q])) @@ @,
                                       !.ivc    = (q :> "IDLE") @@ @,
                                       !.credit = (up :> @[up] + 1) @@ @,
                                       !.ovc    = (up :> "IDLE") @@ @],
                             [slots EXCEPT ![i + 1] = Head(n.buf[q])], cnt + 1, v, i + 1)

(* GarnetNetwork::doSpin(vc_), stage 1 ("remove"): for ring nodes         *)
(* 0..N-1 in order, the top flit of VC v at the node's inport moves into  *)
(* ring slot idx+1, the input VC goes idle and the upstream output VC is  *)
(* marked idle with one more credit; an empty VC leaves slot idx+1 NULL.  *)
(* Returns the fabric, the slots and num_pkts.                            *)
RECURSIVE StageA(_, _, _, _, _)
StageA(n, slots, cnt, v, i) ==
  IF i > Len(Ring) - 1 THEN [net |-> n, slots |-> slots, num |-> cnt]
  ELSE
    LET q  == <<Ring[i][1], Ring[i][2], v>>
        up == <<UpstreamId(Ring[i][2], Ring[i][1]),
                UpstreamOutportDirn(Ring[i][2]), v>>
    IN  IF n.buf[q] = <<>>
        THEN StageA(n, [slots EXCEPT ![i + 1] = NULL], cnt, v, i + 1)
        ELSE StageA([n EXCEPT !.buf    = (q :> Tail(@[q])) @@ @,
                              !.ivc    = (q :> "IDLE") @@ @,
                              !.credit = (up :> @[up] + 1) @@ @,
                              !.ovc    = (up :> "IDLE") @@ @],
                    [slots EXCEPT ![i + 1] = Head(n.buf[q])], cnt + 1, v, i + 1)

\* Mutant of StageB: the upstream outVC is not marked active.
RECURSIVE StageBNoOvc(_, _, _, _, _)
StageBNoOvc(n, slots, v, rt, i) ==
  IF i > Len(Ring) THEN n
  ELSE IF slots[i] = NULL THEN StageBNoOvc(n, slots, v, rt, i + 1)
  ELSE
    LET q  == <<Ring[i][1], Ring[i][2], v>>
        up == <<UpstreamId(Ring[i][2], Ring[i][1]),
                UpstreamOutportDirn(Ring[i][2]), v>>
    IN  StageBNoOvc([n EXCEPT !.route[slots[i]] = rt[i],
                              !.buf    = (q :> Append(@[q], slots[i])) @@ @,
                              !.ivc    = (q :> "ACTIVE") @@ @,
                              !.credit = (up :> @[up] - 1) @@ @], slots, v, rt, i + 1)

(* doSpin stage 2 ("insert"): for ring nodes 1..N in order, the flit of   *)
(* the slot gets a new outport from route_compute (rt[i]), enters VC v of *)
(* the node's inport, which becomes active, and the upstream output VC    *)
(* becomes active with one credit less.                                   *)
RECURSIVE StageB(_, _, _, _, _)
StageB(n, slots, v, rt, i) ==
  IF i > Len(Ring) THEN n
  ELSE IF slots[i] = NULL THEN StageB(n, slots, v, rt, i + 1)
  ELSE
    LET q  == <<Ring[i][1], Ring[i][2], v>>
        up == <<UpstreamId(Ring[i][2], Ring[i][1]),
                UpstreamOutportDirn(Ring[i][2]), v>>
    IN  StageB([n EXCEPT !.route[slots[i]] = rt[i],
                         !.buf    = (q :> Append(@[q], slots[i])) @@ @,
                         !.ivc    = (q :> "ACTIVE") @@ @,
                         !.credit = (up :> @[up] - 1) @@ @,
                         !.ovc    = (up :> "ACTIVE") @@ @], slots, v, rt, i + 1)

\* The outports route_compute may give the flits of the filled slots.
SpinRoutes(slots) ==
  LET Occ == {i \in 2 .. Len(Ring) : slots[i] # NULL}
  IN  {rt \in [Occ -> Dirs \cup {Local}] :
         \A i \in Occ : rt[i] \in RouteTable[Ring[i][1], Dst[slots[i]]]}

(* One doSpin(v): the fabrics it may produce.  Stage 1 starts from the   *)
(* flit_ members the previous doSpin left: the closing "clean ring" loop  *)
(* (for (auto itr : spinRing) itr.flit_ = nullptr) clears copies of the   *)
(* nodes, so spinRing keeps this spin's slots.                            *)
DoSpin(n, v) ==
  LET a == StageA(n, n.ring, 0, v, 1)
  IN  {[StageB(a.net, a.slots, v, rt, 2) EXCEPT !.ring = a.slots]
         : rt \in SpinRoutes(a.slots)}

\* doSpin for each VC of vcs in increasing order (the loops over vc_ and
\* vnet_ in Router::wakeup), applied to every fabric of S.
RECURSIVE SpinVcsFrom(_, _, _)
SpinVcsFrom(S, vcs, v) ==
  IF v > VNets * VcPerVnet - 1 THEN S
  ELSE SpinVcsFrom(IF v \in vcs THEN UNION {DoSpin(m, v) : m \in S} ELSE S,
                   vcs, v + 1)

\* Mutant of SpinRounds: the loop over m_spin_mult starts at i = 1.
RECURSIVE SpinRoundsFromOne(_, _, _)
SpinRoundsFromOne(S, k, vcs) ==
  IF k <= 1 THEN S ELSE SpinRoundsFromOne(SpinVcsFrom(S, vcs, 0), k - 1, vcs)

RECURSIVE SpinRounds(_, _, _)
SpinRounds(S, k, vcs) ==
  IF k = 0 THEN S ELSE SpinRounds(SpinVcsFrom(S, vcs, 0), k - 1, vcs)

\* The VCs whose flits set_flit_time re-times after the spins.
FlitTimeVCs == IF DrainAllVc = 1 THEN VCs ELSE BaseVCs

\* Mutant of SetFlitTime: set_flit_time is not called after the spins.
SetFlitTimeNone(n) == n

(* GarnetNetwork::set_flit_time for every VC of FlitTimeVCs: the top flit *)
(* of each such VC at a North/East/South/West inport may not compete in   *)
(* switch allocation before curCycle() + 2*m_spin_mult.                   *)
SetFlitTime(n) ==
  LET Tops == {Head(n.buf[q]) : q \in {q \in IVC : q[2] \in Dirs
                                        /\ q[3] \in FlitTimeVCs
                                        /\ n.buf[q] # <<>>}}
  IN  [n EXCEPT !.wait = [f \in Flits |->
                            IF f \in Tops THEN 2 * SpinMult ELSE n.wait[f]]]

\* Mutant of Release: the set_halt(false) call is missing.
ReleaseKeepsHalt(n) ==
  LET Spun == IF SpinMult = 0
              THEN UNION {SpinRounds({n}, k, BaseVCs) : k \in 0 .. RandSpinBound}
              ELSE SpinRounds({n}, SpinMult,
                              IF DrainAllVc = 1 THEN VCs ELSE BaseVCs)
  IN  {[SetFlitTime(m) EXCEPT !.lock = NoLock] : m \in Spun}

(* The release branch of Router::wakeup: halt_ is cleared everywhere, the *)
(* ring is spun m_spin_mult times over the base VC of every vnet (or all  *)
(* VCs when drain_all_vc), or rand() % 10 times over the base VCs when    *)
(* m_spin_mult == 0, the flits are re-timed and the lock is released.     *)
(* (assert(halt_ = true) assigns halt_, so "if (halt_ == true)" is taken.)*)
Release(n) ==
  LET n1 == SetHalt(n, FALSE)
      Spun == IF SpinMult = 0
              THEN UNION {SpinRounds({n1}, k, BaseVCs) : k \in 0 .. RandSpinBound}
              ELSE SpinRounds({n1}, SpinMult,
                              IF DrainAllVc = 1 THEN VCs ELSE BaseVCs)
  IN  {[SetFlitTime(m) EXCEPT !.lock = NoLock] : m \in Spun}

\* Mutant of Quiesce: the lock is taken but set_halt(true) is missing.
QuiesceNoHalt(n, r) ==
  IF n.lock = NoLock THEN [n EXCEPT !.lock = r] ELSE n

(* The threshold branch of Router::wakeup: the first router to wake sets  *)
(* halt_ in every router and, the lock being free, takes it.              *)
Quiesce(n, r) ==
  LET n1 == IF ~n.halt[r] THEN SetHalt(n, TRUE) ELSE n
  IN  IF n1.lock = NoLock THEN [n1 EXCEPT !.lock = r] ELSE n1

(* The SPIN part of Router::wakeup, run after the input and output units. *)
(* The third branch (curCycle() % thr < 3) only asserts chck_link_state.  *)
SpinStep(n, r) ==
  IF ~Spin THEN {n}
  ELSE IF ~CycleIsZero /\ clk = 0 THEN {Quiesce(n, r)}
  ELSE IF AfterFirstThreshold /\ clk > PreDrainDelay /\ n.lock # NoLock
       THEN Release(n)
  ELSE {n}

-----------------------------------------------------------------------------
\* OutputUnit::select_free_vc: the lowest idle output VC of the vnet.
FreeVcs(n, r, o, vn) ==
  {w \in VCs : VnetOf(w) = vn /\ n.ovc[<<r, o, w>>] = "IDLE"
               /\ n.credit[<<r, o, w>>] > 0}

(* SwitchAllocator::wakeup and CrossbarSwitch::wakeup of r (spec 4.5,     *)
(* 4.6).  Stage 1: every inport with a ready top flit whose outport is    *)
(* Local or has a free VC nominates one such VC; stage 2: every           *)
(* nominated outport grants one inport (round robin, so any one).  A      *)
(* winner leaves its VC, which goes idle and returns a free credit        *)
(* upstream; it is ejected at Local or goes onto the link in the free VC. *)
(* halt_ suppresses every departure.                                      *)
SwitchAlloc(n, r) ==
  LET Top(d, v) == Head(n.buf[<<r, d, v>>])
      Ready(d, v) ==
        /\ n.buf[<<r, d, v>>] # <<>>
        /\ n.wait[Top(d, v)] = 0
        /\ \/ n.route[Top(d, v)] = Local
           \/ FreeVcs(n, r, n.route[Top(d, v)], VnetOf(v)) # {}
      Req == {d \in Ports(r) : \E v \in VCs : Ready(d, v)}
      Noms == {nom \in [Req -> VCs] : \A d \in Req : Ready(d, nom[d])}
      Out(nom, d) == n.route[Top(d, nom[d])]
      Wins(nom) == {w \in [{Out(nom, d) : d \in Req} -> Req] :
                      \A o \in DOMAIN w : Out(nom, w[o]) = o}
      Grant(nom, w) ==
        LET G   == {w[o] : o \in DOMAIN w}          \* winning inports
            Sent == (DOMAIN w) \ {Local}            \* outports used
            Fl(o) == Top(w[o], nom[w[o]])
            OutVc(o) == Min(FreeVcs(n, r, o, VnetOf(nom[w[o]])))
            Won(q) == q[1] = r /\ q[2] \in G /\ nom[q[2]] = q[3]
            Used(q) == q[1] = r /\ q[2] \in Sent /\ OutVc(q[2]) = q[3]
        IN  [n EXCEPT
              !.buf    = [q \in IVC |-> IF Won(q) THEN Tail(n.buf[q])
                                        ELSE n.buf[q]],
              !.ivc    = [q \in IVC |-> IF Won(q) THEN "IDLE" ELSE n.ivc[q]],
              !.clink  = [l \in NetIn |->
                            IF l[1] = r /\ l[2] \in G
                            THEN Append(n.clink[l], [vc   |-> nom[l[2]],
                                                     wait |-> LinkLatency])
                            ELSE n.clink[l]],
              !.link   = [l \in NetOut |->
                            IF l[1] = r /\ l[2] \in Sent
                            THEN Append(n.link[l], [flit |-> Fl(l[2]),
                                                    vc   |-> OutVc(l[2]),
                                                    wait |-> LinkLatency])
                            ELSE n.link[l]],
              !.credit = [q \in OVC |-> IF Used(q) THEN n.credit[q] - 1
                                        ELSE n.credit[q]],
              !.ovc    = [q \in OVC |-> IF Used(q) THEN "ACTIVE" ELSE n.ovc[q]],
              !.ejected = n.ejected \cup
                            (IF Local \in DOMAIN w THEN {Fl(Local)} ELSE {})]
  IN  IF n.halt[r] THEN {n}
      ELSE UNION {{Grant(nom, w) : w \in Wins(nom)} : nom \in Noms}

-----------------------------------------------------------------------------
(* Router::wakeup of router r: input units, output units, the SPIN state  *)
(* machine, then switch allocation and traversal.                         *)
RouterWakeup(r) ==
  /\ turn = r
  /\ net' \in UNION {UNION {SwitchAlloc(m2, r) : m2 \in SpinStep(m1, r)}
                     : m1 \in {DrainCredits(m0, r) : m0 \in DrainInputs(net, r)}}
  /\ turn' = turn + 1
  /\ UNCHANGED <<clk, epoch>>

(* The NI of Src[f] injects f into a free VC of its vnet at the Local     *)
(* inport once the routers of this cycle have run (spec 4.2; the NI is    *)
(* not under src/).  The router computes its outport on arrival.          *)
NIInject(f) ==
  /\ turn = NumRouters
  /\ epoch < InjectEpochs
  /\ f \notin net.injected
  /\ \E v \in VCs, rt \in RouteTable[Src[f], Dst[f]] :
       LET q == <<Src[f], Local, v>>
       IN  /\ VnetOf(v) = FlitVnet[f]
           /\ net.buf[q] = <<>> /\ net.ivc[q] = "IDLE"
           /\ net' = [net EXCEPT !.buf = (q :> <<f>>) @@ @, !.ivc = (q :> "ACTIVE") @@ @,
                                 !.route[f] = rt, !.wait[f] = 0,
                                 !.injected = @ \cup {f}]
  /\ UNCHANGED <<clk, epoch, turn>>

Dec(x) == IF x > 0 THEN x - 1 ELSE 0

(* The simulator advances the cycle: link latencies and SA-stage times    *)
(* count down by one.                                                     *)
Tick ==
  /\ turn = NumRouters
  /\ clk' = (clk + 1) % SpinThrshld
  /\ epoch' = IF clk + 1 = SpinThrshld THEN Min({epoch + 1, 2}) ELSE epoch
  /\ turn' = 0
  /\ net' = [net EXCEPT
               !.link  = [l \in NetOut |->
                            [i \in DOMAIN net.link[l] |->
                               [net.link[l][i] EXCEPT !.wait = Dec(@)]]],
               !.clink = [l \in NetIn |->
                            [i \in DOMAIN net.clink[l] |->
                               [net.clink[l][i] EXCEPT !.wait = Dec(@)]]],
               !.wait  = [f \in Flits |-> Dec(net.wait[f])]]

Next ==
  \/ \E r \in Routers : RouterWakeup(r)
  \/ \E f \in Flits : NIInject(f)
  \/ Tick

(* The simulator's event queue never stops: the next wakeup or the clock *)
(* always happens.  Since only the routers' wakeups are enabled while     *)
(* turn < NumRouters, and only injections and Tick after, this gives each *)
(* router its wakeup and the clock its tick; the NIs need not inject.     *)
(* <<Next>>_vars is enabled in every state (each step moves turn), so    *)
(* WF_vars(Next) is the same as []<><<Next>>_vars, which is stated here.  *)
Spec == Init /\ [][Next]_vars /\ []<><<Next>>_vars

-----------------------------------------------------------------------------
(* Types, with the bounds the code asserts: no VC holds more flits than   *)
(* its depth (VC overflow) and no credit counter leaves 0..Depth (credit  *)
(* underflow in decrement_credit, overflow in increment_credit).          *)
TypeOK ==
  /\ clk \in 0 .. SpinThrshld - 1 /\ epoch \in 0 .. 2 /\ turn \in 0 .. NumRouters
  /\ net.buf \in [IVC -> Seq(Flits)] /\ \A q \in IVC : Len(net.buf[q]) <= Depth
  /\ net.ivc \in [IVC -> {"IDLE", "ACTIVE"}]
  /\ net.credit \in [OVC -> 0 .. Depth]
  /\ net.ovc \in [OVC -> {"IDLE", "ACTIVE"}]
  /\ net.route \in [Flits -> Dirs \cup {Local}]
  /\ net.halt \in [Routers -> BOOLEAN]
  /\ net.lock \in Routers \cup {NoLock}
  /\ net.ejected \subseteq net.injected /\ net.injected \subseteq Flits

\* Flits of VC v in a link or credit-link queue.
OnVc(s, v) == Len(SelectSeq(s, LAMBDA m : m.vc = v))
Count(s, f) == Len(SelectSeq(s, LAMBDA x : x = f))

(* Flit conservation (spec 8.3): every injected flit that has not been    *)
(* ejected is in exactly one VC buffer or link, and no other flit is      *)
(* anywhere.  A doSpin stage that drops, duplicates or aliases a ring     *)
(* slot, or a credit error that overwrites a buffer, breaks it.           *)
FlitConservation ==
  \A f \in Flits :
    MapThenSumSet(LAMBDA q : Count(net.buf[q], f), IVC)
      + MapThenSumSet(LAMBDA l : Len(SelectSeq(net.link[l],
                                               LAMBDA m : m.flit = f)), NetOut)
    = IF f \in net.injected \ net.ejected THEN 1 ELSE 0

(* Credit conservation (spec 8.1): for every link and VC, the upstream    *)
(* credits plus the flits on the link, in the downstream VC and the       *)
(* credits on their way back add up to the VC's depth.  doSpin moves      *)
(* flits without the links, so its two credit stages must keep this.      *)
CreditMirror ==
  \A l \in NetOut, v \in VCs :
    LET d == Downstream(l[1], l[2])
    IN  net.credit[<<l[1], l[2], v>>] + OnVc(net.link[l], v)
          + Len(net.buf[<<d[1], d[2], v>>]) + OnVc(net.clink[d], v) = Depth

(* VC exclusivity (spec 3, 8.2): an output VC the upstream router sees    *)
(* idle has nothing downstream - no flit on the link, in the VC or a      *)
(* credit in flight - so allocating it never puts two packets in one VC.  *)
(* doSpin marks output VCs idle and active behind the allocator's back.   *)
IdleOutVcIsFree ==
  \A l \in NetOut, v \in VCs :
    LET d == Downstream(l[1], l[2])
    IN  net.ovc[<<l[1], l[2], v>>] = "IDLE" =>
          /\ OnVc(net.link[l], v) = 0
          /\ net.buf[<<d[1], d[2], v>>] = <<>>
          /\ OnVc(net.clink[d], v) = 0

(* Link quiescence (spec 8.4, the asserts on chck_link_state in           *)
(* Router::wakeup): once the lock holder has run at cycle t+2 of a SPIN,  *)
(* and when the release runs at t+3, no flit is on any link.  Halting for *)
(* pre_drain_delay = 2 cycles must be long enough for every link.         *)
LinksQuiescentForSpin ==
  /\ net.lock # NoLock
  /\ \/ clk = PreDrainDelay /\ turn > net.lock
     \/ clk > PreDrainDelay
  => ChckLinkState(net)

(* The count assert of doSpin (spun_pkt_num == num_pkts): when the spin   *)
(* runs, every occupied spun VC at a non-Local inport is one the ring     *)
(* empties, i.e. the ring reaches every flit it must move.                *)
SpinCountsAgree ==
  net.lock # NoLock /\ clk > PreDrainDelay =>
    \A v \in (IF SpinMult > 0 /\ DrainAllVc = 1 THEN VCs ELSE BaseVCs) :
      Cardinality({q \in IVC : q[2] \in Dirs /\ q[3] = v /\ net.buf[q] # <<>>})
        = StageA(net, EmptySlots, 0, v, 1).num

(* SPIN always ends (spec 4.9 step 3): once set_halt(true) has stopped    *)
(* the routers, a later wakeup clears halt_ in all of them again, so the  *)
(* fabric resumes after every spin.                                       *)
HaltLifted == (\E r \in Routers : net.halt[r]) ~> (\A r \in Routers : ~net.halt[r])

(* SPIN's promise (spec 1, 4.9): the routers' halts and spins never leave *)
(* a flit stuck, so every injected flit is eventually ejected at its      *)
(* destination, although the four flits can deadlock the 2x2 mesh.        *)
EveryFlitEjected == \A f \in Flits : f \in net.injected ~> f \in net.ejected

=============================================================================
