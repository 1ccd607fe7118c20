------------------------------ MODULE GetLock -------------------------------
(***************************************************************************)
(* The get lock of a network function (sdmbn_lock_get: shared/SDMBNCore.c, *)
(* shared/state.c). When a threshold is configured the lock is taken at    *)
(* start-up and the packet thread unlocks it when the threshold is met, so *)
(* that a getPerflow request waits for enough traffic. The state thread    *)
(* runs before the lock is made, and the counter of active flows is        *)
(* written by the packet thread and by the state thread without a lock: an *)
(* increment or decrement is a read and a write.                           *)
(***************************************************************************)
EXTENDS Integers

CONSTANTS
  Configs,      \* release_get_pkts and release_get_flows
  MaxPackets,   \* bound: packets received
  MaxRequests,  \* bound: getPerflow and putPerflow requests
  MaxFaults     \* bound: local get functions that fail

ASSUME GetLockAssumption ==
  /\ Configs \subseteq [pkts : Int, flows : Int]
  /\ MaxPackets \in Nat /\ MaxRequests \in Nat /\ MaxFaults \in Nat

VARIABLES
  config,         \* sdmbn_config
  initPc,         \* sdmbn_init: the lock is to be made, to be taken, or all is done
  locked,         \* sdmbn_lock_get is taken
  pkts_received,
  flows_active,
  flows,          \* flows there really are
  pktPc, pktTmp,  \* packet thread: what it does, and the counter it read
  stPc, stTmp,    \* state thread: the same
  requests,       \* requests received
  faults,
  handled,        \* getPerflow requests for which the local function was called
  \* what the properties remember
  peak,           \* the most flows there have been at a time
  early,          \* whether a get was handled before sdmbn_init had taken the lock
  lost            \* by how much puts have written the counter too high

stats  == <<pkts_received, flows_active, flows>>
hist   == <<peak, early, lost>>
pkt    == <<pktPc, pktTmp>>
st     == <<stPc, stTmp>>
vars   == <<config, initPc, locked, stats, pkt, st, requests, faults, handled, hist>>

Waiting == config.pkts > 0 \/ config.flows > 0      \* a threshold is configured

TypeOK ==
  /\ config \in Configs
  /\ initPc \in {"create", "take", "done"} /\ locked \in BOOLEAN
  /\ pkts_received \in 0 .. MaxPackets
  /\ flows_active \in Int
  /\ flows \in 0 .. MaxPackets + MaxRequests
  /\ pktPc \in {"idle", "created", "destroyed", "notify"} /\ pktTmp \in Int
  /\ stPc \in {"idle", "get", "local", "put", "count"} /\ stTmp \in Int
  /\ requests \in 0 .. MaxRequests
  /\ faults \in 0 .. MaxFaults
  /\ handled \in 0 .. MaxRequests
  /\ peak \in 0 .. MaxPackets + MaxRequests /\ early \in BOOLEAN /\ lost \in Nat

(* sdmbn_init up to state_init and events_init: the state thread serves    *)
(* requests, and the lock is zeroed memory, a lock that is free.           *)
Init ==
  /\ config \in Configs
  /\ initPc = "create" /\ locked = FALSE
  /\ pkts_received = 0 /\ flows_active = 0 /\ flows = 0
  /\ pktPc = "idle" /\ pktTmp = 0
  /\ stPc = "idle" /\ stTmp = 0
  /\ requests = 0 /\ faults = 0 /\ handled = 0
  /\ peak = 0 /\ early = FALSE /\ lost = 0

-----------------------------------------------------------------------------
(* The rest of sdmbn_init; packets are read when it has returned. The lock *)
(* is made: one that a get holds already is made free again.               *)
create_lock ==
  /\ initPc = "create"
  /\ initPc' = "take"
  /\ locked' = FALSE
  /\ UNCHANGED <<config, stats, pkt, st, requests, faults, handled, hist>>

(* It is taken, when a threshold is configured and no get holds it.        *)
take_lock ==
  /\ initPc = "take" /\ ~(Waiting /\ locked)
  /\ initPc' = "done"
  /\ locked' = (locked \/ Waiting)
  /\ UNCHANGED <<config, stats, pkt, st, requests, faults, handled, hist>>

-----------------------------------------------------------------------------
(* Packet thread.                                                          *)

Most(n) == IF n > peak THEN n ELSE peak

(* A packet of a flow it knows ...                                         *)
packet_known ==
  /\ initPc = "done" /\ pktPc = "idle" /\ flows > 0 /\ pkts_received < MaxPackets
  /\ pktPc' = "notify"
  /\ UNCHANGED <<config, initPc, locked, stats, pktTmp, st, requests, faults, handled, hist>>

(* ... or of a new one; a flow that ends.                                  *)
flow_new ==
  /\ initPc = "done" /\ pktPc = "idle" /\ pkts_received < MaxPackets
  /\ flows' = flows + 1 /\ peak' = Most(flows + 1)
  /\ pktPc' = "created" /\ pktTmp' = flows_active
  /\ UNCHANGED <<config, initPc, locked, pkts_received, flows_active, st, requests, faults, handled,
                 early, lost>>

flow_ends ==
  /\ initPc = "done" /\ pktPc = "idle" /\ flows > 0
  /\ flows' = flows - 1
  /\ pktPc' = "destroyed" /\ pktTmp' = flows_active
  /\ UNCHANGED <<config, initPc, locked, pkts_received, flows_active, st, requests, faults, handled, hist>>

sdmbn_notify_flow_created ==
  /\ pktPc = "created"
  /\ flows_active' = pktTmp + 1
  /\ pktPc' = "notify"
  /\ UNCHANGED <<config, initPc, locked, pkts_received, flows, pktTmp, st, requests, faults, handled, hist>>

sdmbn_notify_flow_destroyed ==
  /\ pktPc = "destroyed"
  /\ flows_active' = pktTmp - 1
  /\ pktPc' = "idle"
  /\ UNCHANGED <<config, initPc, locked, pkts_received, flows, pktTmp, st, requests, faults, handled, hist>>

(* Mutants: the threshold less one; the threshold plus one.                *)
Release_less(n) == Waiting /\ (config.pkts = n + 1 \/ config.flows = flows_active + 1)
Release_more(n) == Waiting /\ (config.pkts + 1 = n \/ config.flows = flows_active)

(* The tests of sdmbn_notify_packet_received: equality, not at least.      *)
Release(n) == Waiting /\ (config.pkts = n \/ config.flows = flows_active)

(* Unlocking a lock that is free leaves it free; one that the state thread *)
(* holds is taken from it.                                                 *)
sdmbn_notify_packet_received ==
  /\ pktPc = "notify"
  /\ pktPc' = "idle"
  /\ pkts_received' = pkts_received + 1
  /\ locked' = (locked /\ ~Release(pkts_received + 1))
  /\ UNCHANGED <<config, initPc, flows_active, flows, pktTmp, st, requests, faults, handled, hist>>

-----------------------------------------------------------------------------
(* State thread: one request after the other.                              *)

Request(to) ==
  /\ stPc = "idle" /\ requests < MaxRequests
  /\ requests' = requests + 1
  /\ stPc' = to

handle_get_perflow ==
  /\ Request("get")
  /\ UNCHANGED <<config, initPc, locked, stats, pkt, stTmp, faults, handled, hist>>

(* "Wait for get lock to release"                                          *)
lock_get ==
  /\ stPc = "get" /\ ~locked
  /\ locked' = TRUE
  /\ stPc' = "local"
  /\ handled' = handled + 1
  /\ early' = (early \/ initPc # "done")
  /\ UNCHANGED <<config, initPc, stats, pkt, stTmp, requests, faults, peak, lost>>

(* Mutant: back to waiting instead of the next request.                    *)
get_done_again ==
  /\ stPc = "local"
  /\ stPc' = "get"
  /\ locked' = FALSE
  /\ UNCHANGED <<config, initPc, stats, pkt, stTmp, requests, faults, handled, hist>>

(* The local function has sent the chunks: ack, and unlock.                *)
get_done ==
  /\ stPc = "local"
  /\ stPc' = "idle"
  /\ locked' = FALSE
  /\ UNCHANGED <<config, initPc, stats, pkt, stTmp, requests, faults, handled, hist>>

(* The local function fails: an error message, and the lock is kept.       *)
get_fails ==
  /\ stPc = "local" /\ faults < MaxFaults
  /\ stPc' = "idle"
  /\ faults' = faults + 1
  /\ UNCHANGED <<config, initPc, locked, stats, pkt, stTmp, requests, handled, hist>>

(* A putPerflow request installs a flow and then counts it.                *)
handle_put_perflow ==
  /\ Request("put")
  /\ flows' = flows + 1 /\ peak' = Most(flows + 1)
  /\ UNCHANGED <<config, initPc, locked, pkts_received, flows_active, pkt, stTmp, faults, handled,
                 early, lost>>

(* The counter is read, and written: a decrement by the packet thread      *)
(* between the two is undone.                                              *)
count_put ==
  \/ /\ stPc = "put"
     /\ stPc' = "count"
     /\ stTmp' = flows_active
     /\ UNCHANGED <<config, initPc, locked, stats, pkt, requests, faults, handled, hist>>
  \/ /\ stPc = "count"
     /\ stPc' = "idle"
     /\ flows_active' = stTmp + 1
     /\ lost' = IF stTmp > flows_active THEN lost + (stTmp - flows_active) ELSE lost
     /\ UNCHANGED <<config, initPc, locked, pkts_received, flows, pkt, stTmp, requests, faults,
                    handled, peak, early>>

-----------------------------------------------------------------------------
Starting  == create_lock \/ take_lock
Counting  == sdmbn_notify_flow_created \/ sdmbn_notify_flow_destroyed \/ sdmbn_notify_packet_received
Serving   == lock_get \/ get_done \/ count_put

Next ==
  \/ Starting
  \/ packet_known \/ flow_new \/ flow_ends
  \/ Counting
  \/ handle_get_perflow \/ handle_put_perflow
  \/ Serving
  \/ get_fails

Spec == Init /\ [][Next]_vars

(* The threads keep running; packets and requests need not come.           *)
FairSpec == Spec /\ WF_vars(Starting) /\ WF_vars(Counting) /\ WF_vars(Serving)

-----------------------------------------------------------------------------
EnoughPackets == config.pkts > 0 /\ pkts_received >= config.pkts
EnoughFlows(n) == config.flows > 0 /\ n >= config.flows

(* With a threshold on flows, a get is handled before a threshold is met   *)
(* for two reasons only: sdmbn_init had not taken the lock yet, or puts    *)
(* have undone decrements of the counter, and then it is early by no more  *)
(* flows than decrements were undone. The flows are those there are, not   *)
(* those the counter tells of.                                             *)
NotBeforeThreshold ==
  Waiting /\ handled > 0 => early \/ EnoughPackets \/ EnoughFlows(peak + lost)

(* shared/README, release_get_pkts and release_get_flows: the NF "should   *)
(* have recenved at least that many packets before handling a getPerflow   *)
(* call"; "the number of active flows that should be present before a      *)
(* getPerflow call is processed": of a network function that has started,  *)
(* and of one that is starting.                                            *)
WaitsForTraffic == Waiting /\ ~early /\ handled > 0 => EnoughPackets \/ EnoughFlows(peak)
WaitsFromStart  == Waiting => ~early

(* Packets are counted by one thread and one at a time: the threshold on   *)
(* packets opens the lock for every get that waits, whatever happens to    *)
(* the counter of flows, as long as no get has failed.                     *)
PacketThresholdServes ==
  (stPc = "get" /\ config.pkts > 0 /\ pkts_received >= config.pkts)
    ~> (stPc # "get" \/ faults > 0)

(* shared/README: "a pending getPerflow call will be processed as soon as  *)
(* one of the two thresholds is reached".                                  *)
HandledOnceReached ==
  (stPc = "get" /\ (EnoughPackets \/ EnoughFlows(peak))) ~> stPc # "get"
=============================================================================
