---------------------------- MODULE GetLockProofs ---------------------------
(***************************************************************************)
(* Module GetLock for every configuration and every number of packets and  *)
(* requests: its types, and what it takes to get a get through before a    *)
(* threshold has been met.                                                 *)
(***************************************************************************)
EXTENDS GetLock, TLAPS

(* The packet that is being handled has not been counted yet.              *)
Uncounted == IF pktPc \in {"created", "notify"} THEN 1 ELSE 0

(* The get that waits for the lock has not been handled yet.               *)
WaitingGets == IF stPc = "get" THEN 1 ELSE 0

(* Flows come with packets and with put requests only; handled gets are    *)
(* requests.                                                               *)
BoundsInv ==
  /\ pkts_received + Uncounted <= MaxPackets
  /\ flows <= peak /\ peak <= pkts_received + Uncounted + requests
  /\ handled + WaitingGets <= requests

TypeInv == TypeOK /\ BoundsInv

(* Changes of the counter that have been decided and not been written.     *)
PacketsChange == IF pktPc = "created" THEN 1 ELSE IF pktPc = "destroyed" THEN -1 ELSE 0
PutsChange    == IF stPc \in {"put", "count"} THEN 1 ELSE 0

(* The counter, and the value the packet thread has read of it, exceed the *)
(* flows there are by no more than what puts have written too much.        *)
Within(n) == n + PacketsChange + PutsChange <= flows + lost
CountInv  == Within(flows_active) /\ (pktPc \in {"created", "destroyed"} => Within(pktTmp))

(* A configured lock is open, or has been held by a get, only if enough    *)
(* packets or flows have been there: nobody but the packet thread opens it *)
(* first. Before it is taken any get is an early one.                      *)
Met       == EnoughPackets \/ EnoughFlows(peak + lost)
StartInv  == initPc # "done" /\ ~early => handled = 0 /\ stPc # "local"
OpenedInv ==
  (/\ Waiting /\ config.flows > 0 /\ initPc = "done" /\ ~early
   /\ ~locked \/ stPc = "local" \/ handled > 0) => Met

LockInv == TypeInv /\ CountInv /\ StartInv /\ OpenedInv

-----------------------------------------------------------------------------
(* One step keeps the types and the bounds: one case per action.           *)
LEMMA TypeStep ==
  TypeInv /\ [Next]_vars => TypeInv'
<1> SUFFICES ASSUME TypeInv, [Next]_vars
             PROVE  TypeInv'
  OBVIOUS
<1> USE GetLockAssumption DEF TypeInv, TypeOK, BoundsInv, Uncounted, WaitingGets, stats, pkt, st, hist
<1>0. CASE Starting
  BY <1>0 DEF Starting, create_lock, take_lock
<1>1. CASE packet_known
  BY <1>1 DEF packet_known
<1>2. CASE flow_new
  BY <1>2 DEF flow_new, Most
<1>3. CASE flow_ends
  BY <1>3 DEF flow_ends
<1>4. CASE sdmbn_notify_flow_created
  BY <1>4 DEF sdmbn_notify_flow_created
<1>5. CASE sdmbn_notify_flow_destroyed
  BY <1>5 DEF sdmbn_notify_flow_destroyed
<1>6. CASE sdmbn_notify_packet_received
  <2>1. (config \in Configs)' /\ (pkts_received \in 0 .. MaxPackets)' /\ (flows_active \in Int)'
        /\ (pktPc \in {"idle", "created", "destroyed", "notify"})' /\ (pktTmp \in Int)'
        /\ (requests \in 0 .. MaxRequests)' /\ (faults \in 0 .. MaxFaults)'
        /\ (handled \in 0 .. MaxRequests)'
        /\ (stPc \in {"idle", "get", "local", "put", "count"})' /\ (stTmp \in Int)'
        /\ (flows \in 0 .. MaxPackets + MaxRequests)' /\ (peak \in 0 .. MaxPackets + MaxRequests)'
        /\ (lost \in Nat)' /\ BoundsInv'
    BY <1>6 DEF sdmbn_notify_packet_received
  <2>2. (locked \in BOOLEAN)' /\ (early \in BOOLEAN)' /\ (initPc \in {"create", "take", "done"})'
    BY <1>6, Zenon DEF sdmbn_notify_packet_received
  <2>3. QED
    BY <2>1, <2>2
<1>7. CASE handle_get_perflow
  BY <1>7 DEF handle_get_perflow, Request
<1>8. CASE handle_put_perflow
  BY <1>8 DEF handle_put_perflow, Request, Most
<1>9. CASE lock_get
  BY <1>9 DEF lock_get
<1>10. CASE get_done
  BY <1>10 DEF get_done
<1>11. CASE count_put
  BY <1>11 DEF count_put
<1>12. CASE get_fails
  BY <1>12 DEF get_fails
<1>13. CASE UNCHANGED vars
  BY <1>13 DEF vars
<1>14. QED
  BY <1>0, <1>1, <1>2, <1>3, <1>4, <1>5, <1>6, <1>7, <1>8, <1>9, <1>10, <1>11, <1>12, <1>13
     DEF Next, Counting, Serving

(* The bounds hold when the network function starts.                       *)
LEMMA TypeInit ==
  Init => TypeInv
<1> SUFFICES ASSUME Init
             PROVE  TypeInv
  OBVIOUS
<1>1. /\ config \in Configs /\ initPc = "create" /\ locked = FALSE
      /\ pkts_received = 0 /\ flows_active = 0 /\ flows = 0
      /\ pktPc = "idle" /\ pktTmp = 0 /\ stPc = "idle" /\ stTmp = 0
      /\ requests = 0 /\ faults = 0 /\ handled = 0 /\ peak = 0 /\ early = FALSE /\ lost = 0
  BY DEF Init
<1>2. BoundsInv
  BY <1>1, GetLockAssumption DEF BoundsInv, Uncounted, WaitingGets
<1>3. 0 \in 0 .. MaxPackets /\ 0 \in 0 .. MaxPackets + MaxRequests /\ 0 \in 0 .. MaxRequests
      /\ 0 \in 0 .. MaxFaults /\ 0 \in Int /\ 0 \in Nat
  BY GetLockAssumption
<1>4. QED
  BY <1>1, <1>2, <1>3 DEF TypeInv, TypeOK

(* TypeOK, for every configuration and every bound: the network function   *)
(* never counts a packet, a flow or a handled get too many, although the   *)
(* counter of active flows may take any value.                             *)
THEOREM TypeCorrect ==
  Spec => []TypeOK
<1>1. Spec => []TypeInv
  BY TypeInit, TypeStep, PTL DEF Spec
<1>2. TypeInv => TypeOK
  BY DEF TypeInv
<1>3. QED
  BY <1>1, <1>2, PTL

-----------------------------------------------------------------------------
(* One step keeps the counter within what there is and what puts have      *)
(* written too much. Flows come and go before they are counted; a write    *)
(* from an old read is too high by what the counter has lost since.        *)
LEMMA CountStep ==
  LockInv /\ [Next]_vars => CountInv'
<1> SUFFICES ASSUME LockInv, [Next]_vars
             PROVE  CountInv'
  OBVIOUS
<1> USE DEF LockInv, TypeInv, TypeOK, CountInv, Within, PacketsChange, PutsChange, stats, pkt, st, hist
<1>1. CASE Starting
  BY <1>1 DEF Starting, create_lock, take_lock
<1>2. CASE packet_known
  BY <1>2 DEF packet_known
<1>3. CASE flow_new
  BY <1>3 DEF flow_new
<1>4. CASE flow_ends
  BY <1>4 DEF flow_ends
<1>5. CASE sdmbn_notify_flow_created
  BY <1>5 DEF sdmbn_notify_flow_created
<1>6. CASE sdmbn_notify_flow_destroyed
  BY <1>6 DEF sdmbn_notify_flow_destroyed
<1>7. CASE sdmbn_notify_packet_received
  BY <1>7 DEF sdmbn_notify_packet_received
<1>8. CASE handle_get_perflow
  BY <1>8 DEF handle_get_perflow, Request
<1>9. CASE handle_put_perflow
  BY <1>9 DEF handle_put_perflow, Request
<1>10. CASE lock_get \/ get_done \/ get_fails
  BY <1>10 DEF lock_get, get_done, get_fails
<1>11. CASE count_put
  <2>1. CASE stPc = "put"
    BY <1>11, <2>1 DEF count_put
  <2>2. CASE stPc = "count" /\ stTmp > flows_active
    BY <1>11, <2>2 DEF count_put
  <2>3. CASE stPc = "count" /\ ~(stTmp > flows_active)
    BY <1>11, <2>3 DEF count_put
  <2>4. QED
    BY <1>11, <2>1, <2>2, <2>3 DEF count_put
<1>12. CASE UNCHANGED vars
  BY <1>12 DEF vars
<1>13. QED
  BY <1>1, <1>2, <1>3, <1>4, <1>5, <1>6, <1>7, <1>8, <1>9, <1>10, <1>11, <1>12
     DEF Next, Counting, Serving

(* The tests of sdmbn_notify_packet_received open the lock only when       *)
(* enough packets or, what puts have written too much aside, enough flows  *)
(* have been there, provided that a threshold on flows is configured: with *)
(* none, -1 is compared with a counter that lost increments can take there. *)
LEMMA ReleaseMeansMet ==
  ASSUME TypeInv, CountInv, pktPc = "notify", config.flows > 0, Release(pkts_received + 1)
  PROVE  \/ config.pkts > 0 /\ pkts_received + 1 >= config.pkts
         \/ EnoughFlows(peak + lost)
<1>1. flows_active <= peak + lost
  BY DEF TypeInv, TypeOK, BoundsInv, CountInv, Within, PacketsChange, PutsChange
<1>2. config.pkts \in Int /\ config.flows \in Int /\ pkts_received \in Int
  BY GetLockAssumption DEF TypeInv, TypeOK
<1>3. QED
  BY <1>1, <1>2 DEF Release, EnoughFlows, TypeInv, TypeOK

(* What has been met stays so.                                             *)
LEMMA MetLasts ==
  ASSUME TypeInv, [Next]_vars, Met
  PROVE  Met'
<1>1. config' = config /\ pkts_received' >= pkts_received /\ peak' >= peak /\ lost' >= lost
  <2> USE DEF TypeInv, TypeOK, stats, pkt, st, hist
  <2>1. CASE Starting \/ packet_known \/ flow_ends \/ get_fails
    BY <2>1 DEF Starting, create_lock, take_lock, packet_known, flow_ends, get_fails
  <2>2. CASE flow_new
    BY <2>2 DEF flow_new, Most
  <2>3. CASE Counting
    BY <2>3 DEF Counting, sdmbn_notify_flow_created, sdmbn_notify_flow_destroyed,
                sdmbn_notify_packet_received
  <2>4. CASE handle_get_perflow
    BY <2>4 DEF handle_get_perflow, Request
  <2>5. CASE handle_put_perflow
    BY <2>5 DEF handle_put_perflow, Request, Most
  <2>6. CASE Serving
    BY <2>6 DEF Serving, lock_get, get_done, count_put
  <2>7. CASE UNCHANGED vars
    BY <2>7 DEF vars
  <2>8. QED
    BY <2>1, <2>2, <2>3, <2>4, <2>5, <2>6, <2>7 DEF Next
<1>2. config.pkts \in Int /\ config.flows \in Int
  BY GetLockAssumption DEF TypeInv, TypeOK
<1>3. (TypeInv => pkts_received \in Int /\ peak \in Int /\ lost \in Int)
      /\ (TypeInv => pkts_received \in Int /\ peak \in Int /\ lost \in Int)'
  BY DEF TypeInv, TypeOK
<1>4. TypeInv'
  BY TypeStep
<1>5. QED
  BY <1>1, <1>2, <1>3, <1>4 DEF Met, EnoughPackets, EnoughFlows

(* One step keeps the lock closed until enough traffic has been there.     *)
LEMMA OpenedStep ==
  LockInv /\ [Next]_vars => StartInv' /\ OpenedInv'
<1> SUFFICES ASSUME LockInv, [Next]_vars
             PROVE  StartInv' /\ OpenedInv'
  OBVIOUS
<1>0. Met => Met'
  BY MetLasts DEF LockInv
<1> USE <1>0 DEF LockInv, StartInv, OpenedInv, Waiting
<1>1. CASE Starting
  <2>1. CASE create_lock
    BY <2>1 DEF create_lock, st, hist
  <2>2. CASE take_lock
    <3>1. Waiting => locked'
      BY <2>2, Zenon DEF take_lock
    <3>2. initPc = "take" /\ UNCHANGED <<config, stPc, handled, early>>
      BY <2>2 DEF take_lock, st, hist
    <3>3. QED
      BY <3>1, <3>2
  <2>3. QED
    BY <1>1, <2>1, <2>2 DEF Starting
<1>2. CASE packet_known \/ flow_new \/ flow_ends
  BY <1>2 DEF packet_known, flow_new, flow_ends, st, stats, pkt, hist
<1>3. CASE sdmbn_notify_flow_created \/ sdmbn_notify_flow_destroyed
  BY <1>3 DEF sdmbn_notify_flow_created, sdmbn_notify_flow_destroyed, st, stats, pkt, hist
<1>4. CASE sdmbn_notify_packet_received
  <2>1. UNCHANGED <<config, initPc, stPc, handled, early, peak, lost>> /\ pktPc = "notify"
        /\ pkts_received' = pkts_received + 1
    BY <1>4 DEF sdmbn_notify_packet_received, st, hist
  <2>2. CASE config.flows > 0 /\ Release(pkts_received + 1)
    <3>1. \/ config.pkts > 0 /\ pkts_received + 1 >= config.pkts
          \/ EnoughFlows(peak + lost)
      BY <2>1, <2>2, ReleaseMeansMet
    <3>2. Met'
      BY <2>1, <3>1 DEF Met, EnoughPackets, EnoughFlows
    <3>3. QED
      BY <2>1, <3>2
  <2>3. CASE ~Release(pkts_received + 1)
    <3>1. ~locked' => ~locked
      BY <1>4, <2>3, Zenon DEF sdmbn_notify_packet_received
    <3>2. QED
      BY <2>1, <3>1
  <2>4. CASE ~(config.flows > 0)
    BY <2>1, <2>4
  <2>5. QED
    BY <2>2, <2>3, <2>4
<1>5. CASE handle_get_perflow \/ handle_put_perflow
  BY <1>5 DEF handle_get_perflow, handle_put_perflow, Request, st, stats, pkt, hist
<1>6. CASE lock_get
  BY <1>6 DEF lock_get, st, stats, pkt, hist
<1>7. CASE get_done
  BY <1>7 DEF get_done, st, stats, pkt, hist
<1>8. CASE count_put
  BY <1>8 DEF count_put, st, stats, pkt, hist
<1>9. CASE get_fails
  BY <1>9 DEF get_fails, st, stats, pkt, hist
<1>10. CASE UNCHANGED vars
  BY <1>10 DEF vars, st, hist
<1>11. QED
  BY <1>1, <1>2, <1>3, <1>4, <1>5, <1>6, <1>7, <1>8, <1>9, <1>10 DEF Next, Counting, Serving

(* NotBeforeThreshold, for every configuration with a threshold on flows   *)
(* and every number of packets, requests and failing gets: of a network    *)
(* function that had started, a getPerflow call is handled only when the   *)
(* packets have come or the flows, those that there really were at a time, *)
(* short by no more than the decrements that puts have undone. Without a   *)
(* threshold on flows it is false (MCGetLockEarly.cfg), and so is the      *)
(* claim without what is lost (MCGetLockRace.cfg).                         *)
THEOREM GetsWait ==
  Spec => [](config.flows > 0 => NotBeforeThreshold)
<1>1. Init => LockInv
  <2> SUFFICES ASSUME Init
               PROVE  LockInv
    OBVIOUS
  <2>1. TypeInv
    BY TypeInit
  <2>2. CountInv
    BY DEF Init, CountInv, Within, PacketsChange, PutsChange
  <2>3. StartInv /\ OpenedInv
    BY DEF Init, StartInv, OpenedInv
  <2>4. QED
    BY <2>1, <2>2, <2>3 DEF LockInv
<1>2. LockInv /\ [Next]_vars => LockInv'
  BY TypeStep, CountStep, OpenedStep DEF LockInv
<1>3. LockInv => (config.flows > 0 => NotBeforeThreshold)
  BY DEF LockInv, StartInv, OpenedInv, NotBeforeThreshold, Met, TypeInv, TypeOK
<1>4. QED
  BY <1>1, <1>2, <1>3, PTL DEF Spec
=============================================================================
