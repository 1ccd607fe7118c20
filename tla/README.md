# OFM: a TLA+ verification project

OFM (an extension of OpenNF/SDMBN) moves, copies and shares the state of network
functions (NFs) between instances while traffic is flowing. An SDN controller
(`src/controller`, Java on Floodlight) runs the operations; a C library linked into
every NF (`src/shared`) serves the controller's requests, filters packets and raises
events; patches (`src/prads.patch`, `src/bro.patch`, `src/iptables-sdmbn`) hook the
library into real NFs; `src/Algorithms` decides which flows to migrate.

This directory models the parts in which the difficulty lies: the **move**, the **copy**
and the **share** of state under traffic, with all of their threads and the NF code they
rely on; the registration of NFs; and the algorithms that decide what is migrated.

## 1. Inventory

| Component | State it keeps | Operations | Interacts with |
|---|---|---|---|
| Move operation (`operation/MoveOperation.java`, `core/StateChunk.java`, `core/ReprocessEvent.java`) | get-ack flags, get counts, put-ack counts, held chunks, held events, `immediateRelease`, per-chunk ack and events | `execute`, handlers of state chunks, get acks, put acks, events acks, reprocess events, packet-ins | channels (calls from their threads), thread pool, switch |
| Copy, MoveConfig (`CopyOperation`, `MoveConfigOperation`) | chunk counts / one configuration chunk | get, put, acks | channels |
| Share (`ShareStrongOperation`, `ShareStrictOperation`) | map of reported packets, last packet returned, whose turn it is, counts of gets and puts, acks of every instance | start, initial synchronization of every instance, one packet at a time back to its instance, its state spread to the others | channels, events, pool, switch |
| Operation manager (`core/SdmbnManager.java`) | table of operations, of middleboxes, installed rules | argument checks, dispatch of packet-ins and messages, forwarding rules | operations, discovery, switch |
| Registration, discovery (`Middlebox`, `MiddleboxDiscovery`, `MiddleboxInput`, `shared/discovery.c`) | known NFs, their channels and switch ports | SYN, discovery packets, disconnects | manager |
| Channels (`channel/*`) | one TCP connection per channel, its middlebox | dispatch by message type, close on an exception | operations |
| Event filters of the NF (`shared/event.c`) | linked list of filters, packet buffer per filter, `lock_processing_pkt` | add, match, remove and release, report | packet thread, state thread |
| State handling of the NF (`shared/state.c`) | get lock, statistics | get, put, delete for per-flow, multi-flow, all-flows, configuration | local functions of the NF |
| NF core (`shared/SDMBNCore.c`, `SDMBNConfig.c`) | thresholds, counters, base64 | start-up, notifications of packets and flows | state handling |
| PRADS callbacks (`prads.patch`) | connections, exported marks | `got_packet`, local get and put functions | NF library |
| Switch and rules (`utils/FlowUtil.java`, `PerflowKey.java`) | one rule per move | flow-mods, packet-outs | manager, operations |
| Scaling algorithms (`src/Algorithms/OFMAlgorithm`) | NFs, their loads and flows | load balancing, scale-in, scale-out | none (offline) |
| Applications, messages, JSON, connections | scripts, records, sockets | start operations, (de)serialise | all |

What is hard in this system:

* **Interleaving in the controller.** Every connection is served by its own thread,
  and an NF has two connections (state, events). Four threads and a cached thread pool
  run the handlers of one `MoveOperation`, which has no lock: it relies on atomic
  integers, concurrent collections and volatile flags.
* **Interleaving in the NF.** Packets and requests are handled by different threads;
  the list of filters has no lock (the lock calls are commented out); counters are
  plain integers.
* **Ordering.** Put acks overtake the get ack; events overtake the put ack of
  their flow; pool tasks overtake each other.
* **Failure of one step.** A local get or put function may fail; the controller logs
  the error and goes on waiting. A handler that throws closes its channel.
* **Unreliable delivery.** Discovery frames may be lost, and are repeated.
* **Stale state.** Records of a host are merged or ignored by the second they were last
  seen; flows to migrate are remembered by their place in a list that changes.
* **Limits.** An operation id kept in a `char`, thresholds compared with `==`, and -1 both
  as "no threshold" and as a value the counter can take.

What makes the parts correct:

* move: the end is announced once, and only when everything that left has arrived; no
  packet is processed before its flow's state is there; no packet takes effect twice, or
  (loss-free) never; packets stay in order (order-preserving); the move ends;
* event filters: each packet has exactly one fate; lookups meet live memory;
  buffered packets are released with their filter; the packet lock is given back;
* get lock: no get before as many packets or flows were there as a threshold asks for, and every get once one is met;
* copy: as for the move, without packets; the end may be announced more than once, but not early;
* share: packets are processed one at a time, with the state of all instances equal before each;
  every reported packet is returned;
* registration: each NF is one object, announced once, whatever thread comes first; an
  operation is known before its first answer;
* scaling: what is migrated is what was decided, loads are conserved, thresholds kept.

`PROJECT.json` lists the hazards at their lines, with the properties that watch them.

## 2. Modules and how they correspond to the code

| Module | What it is |
|---|---|
| `Transfer` | abstract specification of a state transfer: chunks leave, arrive, and completion is reported only when all that left have arrived |
| `Move` | one `MoveOperation`, source NF, destination NF, switch and traffic, composed |
| `MoveProperties` | what a move promises; refinement mapping to `Transfer` |
| `MoveInvariant` | the inductive invariants: `TransferInv` for the transfer; `QuietInv`, `OnceInv`, `FlowsInv`, `ReadyInv`, `OnePlaceInv` for packets and announcements |
| `QueueTheorems` | lemmas on queues: contents, distinct messages, order, what a queue carries for whom |
| `ShareInvariant` | the inductive invariants of a share: `ShareInv` for types and acks of events; `RoundInv`, `TurnInv`, `OutInv`, `ReportsInv`, `MarksInv` for rounds and returned packets; `Copies` for what the records tell |
| `MoveProofs` | proofs about `Move` |
| `ShareProofs`, `ShareTurnProofs` | proofs about `Share`: types, acks of events and rounds; on top of these, turns and contents |
| `CopyProofs`, `NFEventsProofs`, `RegistryProofs`, `GetLockProofs` | proofs about `Copy`, `NFEvents`, `Registry`, `GetLock` |
| `NFEvents` | event filters of an NF, in full detail (`event.c`) |
| `GetLock` | get lock, thresholds and racing counters (`SDMBNCore.c`, `state.c`) |
| `Copy` | one `CopyOperation` or `MoveConfigOperation`, source and destination NF; refines `Transfer` |
| `Share` | one `ShareStrongOperation` or `ShareStrictOperation`, its instances, switch and traffic |
| `Registry` | middlebox and operation tables of `SdmbnManager`, start-up and discovery of the NFs, the step machine of `TestTimed` |
| `Planner` | the algorithms of `OFMAlgorithm` |
| `MCMove`, `MCNFEvents`, `MCGetLock`, `MCCopy`, `MCShare`, `MCRegistry`, `MCPlanner` | small instances for TLC |

### Move

The threads of the controller and their labels in `pc`:

| Thread | Connection | Handlers |
|---|---|---|
| `ss` | source state channel | `receiveStateMessage`, `receiveGetAck` then `setGetCount`, `receiveEventsAckSrc` |
| `se` | source event channel | `receiveReprocess`, then `holdEvent` when the event is to be kept |
| `de` | destination event channel | `receivePutAck` then `releaseChunkEvents` |
| `ds` | destination state channel | `receiveEventsAckDst` |
| pool | | `callChunk` (sends a put), `callEvent` (sends a packet-out) |

`checkIfStateMoved`, `releaseEvents`, `awaitEvents` and `setImmediateRelease` are run by
`ss` or `de`, whichever handled the last ack. A handler is cut into actions exactly where
another thread may see the difference: between the ack flag and the count of a get ack,
between counting a put ack and emptying the chunk's list, between the test of
`immediateRelease` (or `ack`) and adding the event, between the parts of
`checkIfStateMoved`. Per-flow and multi-flow handlers, which differ in the fields they use,
are one action with `acked`, `count` and `putAcks` indexed by the kind.

`args` is any combination of scope, guarantee and optimization `SdmbnManager.move`
accepts; what a combination switches on is named once (`Batched`, `LocksEarly`,
`RaiseEvents`, `EarlyRelease`). The source NF has a state thread (`handle_get`,
`send_state`, `send_get_ack`) and a packet thread (`sdmbn_preprocess_packet`,
`process_packet`) that meet at the exported mark of a flow, which PRADS sets and reads
under its connection lock. A packet is a number, in the order of arrival at the switch;
`applied` holds packets counted in state that was, or is, still to leave, `dstLog`
what the destination processed.

### NFEvents

The packet thread and, during a removal, the state thread run `lookup`, `apply_filter`
and `sdmbn_postprocess_packet` under `lock_processing_pkt`; the state thread adds filters
and removes them in the steps of `events_remove_filter`: release the buffer packet by
packet, unlink, free. The member `ProcessContext.injected` is read and never set; the
model lets it be anything. `ProcessContext.event` is a `char`.

### GetLock

`flows_active++` and `--` are a read and a write, by two threads. Unlocking
`sdmbn_lock_get` from the packet thread is the code's way to release a waiting get.

`Init` is the state in which `sdmbn_init` has called `state_init` and `events_init`: the state thread
serves requests, and the lock is zeroed memory. `create_lock` and `take_lock` are the rest of
`sdmbn_init`; packets come when it has returned. A get that is served before `take_lock` waits for nothing,
and one that holds the lock at `create_lock` finds it free again.

The properties go by the flows there really are: `peak` is the most there have been at a time. `early` remembers a
get served before `sdmbn_init` had taken the lock, and `lost` by how much a put has written the counter too high
(it read the counter, the packet thread wrote a decrement, the put wrote).

### Copy

`scope` is one of the seven scopes `copy` accepts, or `CONFIG` for a move of configuration.
Thread `ss` (source state channel) runs `receiveState` and `receiveGetAck`, then
`setGetCount`; `de` (destination event channel) runs `receivePutAck`; both go on to
`checkIfFinished`, and `finishes` counts the announcements. Per-flow and multi-flow chunks
are put by pool tasks (`callChunk`), configuration by `ss` itself. `hash` gives each chunk a hash
key: two chunks with one key share a `StateChunk`, whose task sends the message stored last.
All-flows state has no branch in `StateChannel.processMessage`; the message is lost.

### Share

Instance *i* has the controller threads `<<"ss", i>>` and `<<"se", i>>`. `receiveEventsAck`,
`incrementEventAckCount` and `checkEventAckCount` are the unsynchronized `eventAckCount++`
and its test; `receivePutAck`, `incrementPutAcks`, `incrementAcked`, `compareAcked` the
counting of a put ack. `checkIfInstFinished` runs under `finishCheckLock`,
`syncAllInstances` under the operation's monitor (with `dequeueEvent` inside it), and
`receiveReprocess` and `dequeueEvent` under the monitor of `originalEvents`; these are steps.
A packet is a model value with a flow and a text: `Text[p]` is what `new String(pkt)` and
`getBytes` make of it, so that the map, which goes by the text, and the comparison with
`lastPacket`, which goes by the bytes, differ. A record is the set of packets it has learned
from and the second it was last seen; `put_asset_per_sip` merges or ignores it,
`local_put_perflow` adds one. What the instances know when the operation starts, and since when, is part of
`args`: any facts in any seconds.

The put of a connection also puts the two assets that came with it (`prads.patch:1377`). `AssetOf` is what
`serialize_conn_asset` sends along: the asset of a connection that points to it, the first time it is met under the operation's id
(`sent`, the field `sdmbn_msgid`). Connections point to assets (`assets`) once a packet has been looked up; one that was put
points to none. As a host has one flow in the model, one asset stands for `c_asset` and `s_asset`. In scopes without multi-flow
state the assets are of no interest, and are left out with it.

`strays` remembers packets an instance processed without telling the
operation, `starts` how often the synchronization was started.

### Registry

Each NF starts with `state_init` and `events_init`, which send a SYN each, then sends
discovery frames again and again. The SYNs are served by a thread per channel, the frames by
the switch's thread: `receiveSyn` obtains the `Middlebox` under the lock of the table,
`channelConnected` and `middleboxDiscovered` change it under its own lock,
`middleboxConnected` and `middleboxLocationUpdated` look into the application's map
without a lock, `addMiddlebox` under one. The scheduler's steps are `executeStep(1)` to `(4)`,
each scheduled by its predecessor; an exception ends the chain. The operation of
step 2 is cut between creation, table entry and first request; one answer stands for all of
its replies. Nothing calls `channelDisconnected`: an NF that stops (`stop`) stays registered.

### Planner

One call of `LoadBalancingCheck`, `ScaleOutCheck` (greedy, random, best) or `ScaleInRandom` per
behaviour, followed by `MigrateTotal`, one step per flow. Positions, lists and sort orders are
those of the code (counted from 1). Loads are whole numbers; percentages are compared by cross
multiplication; constants are rounded. `nchoosek` recurses as in the code, and the call that would
not return ends with the label `overflow`. It is `RECURSIVE`, so the module is for TLC only.

### Abstractions

* Chunks and packets have no contents. Hash keys of flows do not collide.
* `checkIfStateMoved` reads its fields in one step: counts that agree stay equal, so
  later reads find what the last one finds. Java fields written before a volatile store
  are taken as visible after it.
* `invokeAll` makes thread `ss` wait for the puts; nothing else arrives there meanwhile,
  so the wait is left out. The wait for events is there (`awaitEvents`).
* The test and removal of the head of the events list, in the loop of an order-preserving
  release, is one step.
* The walk along the filter list is one step; freed memory is taken to hold what it held.
* A write to a closed channel is dropped.
* The reaction to a reprocess event of the destination (disable events on the last packet)
  needs phase 1 of the route update, which never completes; it has no effect and no action.
* Copy and Share: a send that fails at once (`MessageException`) is left out; failures of the
  NFs' local functions are in Copy, unsupported kinds in Share.
* Share: the records of one get leave in one step, since packets are held off by locks or by
  the filter, and in any order that keeps the list order of each unit; the clocks of the instances agree; a host has one flow.
* The switch is external: one FIFO control channel, one rule, and packet-outs that reach
  the destination.

## 3. Runs

Twelve runs, of which eight pass; with two workers each takes at most three minutes. All cfgs
but `MCRegistry.cfg` set `CHECK_DEADLOCK FALSE` because the system may come to rest: an
operation ends, traffic and requests are bounded. The NFs of the registry never stop sending frames,
and a deadlock there would be an error.

| Run | Instance | Checks |
|---|---|---|
| `move_scopes` | all 34 admissible arguments, one chunk of each kind, 2 packets, 1 packet-in, 1 fault (1,435,700 states) | type invariant; completion; one announcement; the assertion that no event comes without guarantee; refinement of `Transfer` |
| `move_flows` | per-flow and multi-flow arguments, PF_MF loss-free, 2 flows and 1 multi-flow chunk, 2 packets, 1 fault, fairness (279,511) | the inductive invariant; state before packets; no double effect; no packet vanishes (late lock); the move ends; held events reach the destination |
| `nf_events` | 3 packets, 2 keys, 3 requests, ids 1 and 128, fairness | one fate per packet; no dangling filter; events name an operation with a matching filter; the packet lock comes back |
| `get_lock` | thresholds (-1,-1), (-1,2), (2,2), (3,1), (3,9), 3 packets, 3 requests, 1 fault, fairness (1,113,000) | no get before enough packets or flows, but in the start-up window or by as many flows as decrements were undone; the threshold on packets always serves |
| `copy` | all scopes and CONFIG, colliding hash keys, 1 fault, fairness (794,000) | end only when installed; at most 2 (one kind) or 3 announcements; refinement of `Transfer`; the copy ends |
| `share` | strong and strict, 2 instances with up to 2 packets, 3 without, per-flow and multi-flow state and both, records of 2 seconds at the start, fairness (236,000) | one packet at a time and none during a copy; equal records, unless a later record knew less at the start; what one learned all have; every report is returned |
| `registry` | 2 NFs, one may stop, 1 lost frame, fairness (195,000) | one start, on different NFs; one announcement per NF; no unknown operation; everyone is registered |
| `planner` | all algorithms, 1 to 5 instances, up to 6 flows (95,000) | the flows decided on are migrated; loads conserved; new instance safe; best choice against a definition by sets |
| `move_both_kinds`, `move_late_lock`, `move_order`, `share_fresh` | the smallest instance that shows it | disagreements of code and documentation, next section |

**Bounds.** `Perflow`, `Multiflow`: a chunk of each kind is what the completion test
tells apart, and two flows are what the per-chunk events do. `NumPackets`: two packets are
needed for a lost order or for one held and one late event. `MaxPacketIns` = 1: only the
first packet-in has an effect. `MaxFaults` = 1: a failure stops the operation. `MaxRequests` =
3 in `NFEvents`: add, add, remove (or add, remove, add). `MaxPackets` = 3 in `GetLock`
reaches the packet thresholds of `get_lock` and goes past the lower one; with three requests two puts and a get
meet two flows of the packet thread, which is what an undone decrement takes. In
`Share`, two packets are one returned and one waiting, two instances a source and a
destination, three a race of put acks; `MaxTime` = 1 gives an older and a newer record, among those the instances
start with too (`PassConfigs` has the older one first and last, with and without facts of its own). In
`Registry`, two NFs are what the experiment waits for, and `MaxLost` = 1 loses the first frame of either.

`MCShare.cfg` has the constraint `Single`: behaviours are cut when the synchronization is
started a second time (the race of section 4), after which nothing is promised.

**Fairness.** Weak fairness of every thread of the controller, of the pool (a cached
pool gives each task its own thread), of the NFs' threads and of the switch's control channel:
each is a loop over a blocking read, or a runnable thread. The application starts the operation.
Traffic, packet-ins, requests and failures are not fair: they need not happen. In
`NFEvents` the lock is free whenever a thread is outside a handler, and after the last
request and packet only finitely many steps remain; `PacketThreadReturns` asks for the
packet thread's return when no removal is in progress for ever, since a removal whose
packets are buffered again need not end. In `Registry` an NF goes on sending frames
(`while(1)`), and the network loses finitely many.

**Mutants.** Each property of a passing run has a mutated definition (`..._suffix`, next to
the definition it changes), under which TLC finds the property violated.

## 4. What the code does otherwise than documented

Violation runs:

* `move_both_kinds`: the flag of a get ack is set before its count is stored. In between,
  the put-ack thread compares 0 put acks with the initial count 0 and completes the move with
  a chunk on its way (scope PF_MF, parallel puts).
* `move_late_lock`: an event added to the events list while the list is being released stays
  there for ever. The same happens in `StateChunk.receivedReprocess` (PZ_LL_ER): it reads
  `ack`, the put ack empties the chunk's list, the event is added (hazard list, `LossFree`
  with `PZ_LL_ER`).
* `move_order`: after the transfer, events go to the pool one by one and overtake each other.
* `share_fresh`: "Bring all NFs to a synchronized state" does not: an instance ignores a
  record older than its own, also where the older one holds what it lacks.

Further configurations, each of one property that TLC refutes, kept beside the runs:

* `MCMoveEarlyLock.cfg` (`DropFilterLosesNothing`): a packet past the filters when the drop
  filter is linked is processed after its flow has left and is not reported.
* `MCMoveOrderEnds.cfg` (`OrderPreservingEnds`): an order-preserving move never ends; the handler
  of the second events ack stores beyond the end of an array, and the exception closes the channel.
* `MCNFEventsRelease.cfg` (`ReleasedBeforeFreed`): a packet that matched a filter before its removal
  is appended to its buffer after the last look at it and is lost. (A released packet may also
  go back into the buffer, since nobody sets `injected`.)
* `MCGetLockSkip.cfg` (`HandledOnceReached`): `==` on a counter that state imports can carry past
  the threshold. A failing local function returns with the lock held (`faults > 0`).
* `MCGetLockEarly.cfg` (`NotBeforeThreshold` with a threshold on packets alone): lost updates take the
  flow counter to -1, which equals "no threshold" (the default of `release_get_flows`), and the lock
  opens before the packets have been seen. `get_lock` has no such configuration, and the theorem
  `GetsWait` asks for a threshold on flows. The proof attempt without it is what showed the case.
* `MCGetLockRace.cfg` (`WaitsForTraffic`): `release_get_flows` is "the number of active flows that should be present before a
  getPerflow call is processed" (`src/shared/README:46`). One flow is there and counted; the put reads 1, the end of the flow writes 0,
  the put writes 2, and the next packet opens a lock that waits for two flows.
* `MCGetLockStart.cfg` (`WaitsFromStart`): a get that arrives before `sdmbn_init` has taken the lock is served at once.
* `MCShareLater.cfg` (`BroughtInSync`): the same as `share_fresh` without a packet in between, when an instance starts with a later
  record of a host than the one copied before it, and knows less. The instances differ when the first packet is returned, which
  is why `StrongConsistency` asks for `InOrder`.
* `MCShareStart.cfg` (`SyncStarts`): an increment of `eventAckCount` is lost and the share
  never starts. The same race lets two threads start it.
* `MCCopyAllflows.cfg` (`AllflowsCopyEnds`): a copy of all-flows state never ends.

Seen while modelling, and not the subject of a property: a third NF restarts the experiment
(`TestTimed.java:185`); a step that meets an NF without a location ends the chain of steps
(`TestTimed.java:239`); `TestShareStrong` never starts if both NFs connect before they are
discovered (line 116); `nextOperationId++` is not synchronized (`Operation.java:44`); a strict share
of per-flow state reports a returned packet twice (`prads.patch:1147`); put acks of two instances
counted at once, of three instances or more, may be lost (`ShareStrongOperation.java:490`); `ScaleOutCheck` looks at the first
instance only (`Algorithms.java:287`); `ScaleOutBest` adds the migrated load to the old instance where it
should subtract it (line 350), and overflows the stack with fewer than five flows (line 520); a
packet-in before the end re-routes the traffic (`MoveOperation.java:525`).

The scope of the passing properties reflects this: `CountsSettled` excludes PF_MF with
parallel puts, `AtMostOnce` excludes PZ and PZ_LL (both `ss` and `de` may find the transfer
complete and release the list), `AnnouncedOnce` asks for `Batched`: under parallel puts the end may be announced twice and a
packet released twice, and no property says otherwise. `NoPacketVanishes` is about a late lock, `EventsNameAMatchingFilter` about ids
up to 256, `ResultIsOfTheOutcome` about outcomes in which no flow fell to index 0. `NotBeforeThreshold` asks for a threshold on
flows. Share's consistency asks for a
share started once, for no packet processed behind its back (`strays`) and for records that are `InOrder`, `EveryReportReturns`
for two instances and kinds PRADS has; `EndMeansInstalled` leaves out the kind requested last when there
are several (the flag before the count, as in `move_both_kinds`), `CopyEnds` leaves out all-flows state and chunks of
different kinds with one hash key.

## 5. Proofs

Checked by TLAPS for every value of the constants. The assumptions are those the modules name and TLC
evaluates in the runs: `ChunksAssumption`, `CopyChunksAssumption` (finite, disjoint sets of chunks),
`BoundsAssumption`, `CopyBoundsAssumption` and the like (bounds are numbers, every packet has a flow,
a hash key is a number), `ConfigsAssumption` (arguments the manager accepts).

| Module | Theorem | Shows |
|---|---|---|
| `MoveProofs` | `TypeCorrect`, `TransferInvariant`, `CompletionCorrect`, `MoveImplementsTransfer` | `TypeOK`; `TransferInv`; `CompleteMeansTransferred`: a move of one kind, or one that holds chunks back, finds its counts equal only when every chunk that left is installed; each step of a move is a step of `Transfer` or none |
| `MoveProofs` | `QuietWithoutGuarantee`, `EndAnnouncedOnce`, `StateBeforePackets`, `PacketsAccounted`, `EffectsAtMostOnce` | `NoEventsWithoutGuarantee`, `AnnouncedOnce`, `NoPacketBeforeState`, `NoPacketVanishes`, `AtMostOnce` |
| `CopyProofs` | `TypeCorrect`, `EndIsTrue`, `AnnouncedFewTimes`, `CopyRefinesTransfer` | `TypeOK`, `EndMeansInstalled`, `FewAnnouncements`, refinement of `Transfer` |
| `ShareProofs` | `ShareInvariant`, `TypeCorrect` | `TypeOK`, and in it the bounds of `eventAckCount`, `starts` and `nextInstIndex` |
| `ShareTurnProofs` | `TurnInvariant`, `ReturnsOneAtATime` | `OneAtATime`: while `Ordinary` holds, one packet at a time is on its way to its instance and back, and none while state is fetched or copied |
| `ShareTurnProofs` | `CopiesInvariant`, `KeepsConsistent`, `AllLearn` | `StrongConsistency`, `LearnedByAll`, while `Ordinary` holds: whenever a returned packet is about to be processed the instances agree, if what they started with is `InOrder`, and know of all packets processed |
| `NFEventsProofs` | `TypeCorrect`, `ListIsLive`, `EventsAreOfMatchingFilters`, `EveryPacketHasOneFate` | `TypeOK`, `NoDanglingFilter`, `EventsNameAMatchingFilter` (ids 1 to 256), `ExactlyOneFate` |
| `RegistryProofs` | `TypeCorrect`, `AnnouncedExactlyOnce`, `StartsOnce`, `AnswersAreKnown` | `TypeOK`, `ConnectedOnce`, `StartsOnceOnDifferentInstances`, `NoUnknownOperation` |
| `GetLockProofs` | `TypeCorrect`, `GetsWait` | `TypeOK`, `NotBeforeThreshold` for configurations with a threshold on flows: a get is early in the start-up window, or by as many flows as decrements were undone, and for no other reason |

### Move

`CompleteMeansTransferred` compares *numbers* of acks with a *number* reported by the source,
and is not inductive. The strengthening `TransferInv` has four parts:

* `RequestsInv`: requests go out once for each kind in scope, nothing leaves before the drop
  filter is in place; so no chunk of a kind leaves after its get ack.
* `CountsInv`: a get ack in flight, in hand or stored carries the number of exported chunks of
  its kind; the stored count is 0 until then.
* `PlacesInv`: a chunk is in one place (message, task, put, ack, counted), so nothing is
  counted twice.
* `ChunksInv`: `putAcks` is the cardinality of the set of counted chunks, these are installed,
  and a move that holds chunks back sends none before all counts are stored.

If the counts agree, the counted chunks are a subset of the exported ones with the same
cardinality, hence equal. TLC checks `TransferInv` in `move_flows`.

The properties about packets and announcements rest on it, each with an invariant of its own. TLC
checks these on the instance of `MCMovePackets.cfg`.

* `QuietInv` (`NoEventsWithoutGuarantee`): without a guarantee no events are asked for, no drop
  filter is installed and no flow is marked, so nothing can be reported.
* `OnceInv` (`AnnouncedOnce`): where chunks are held back, the puts leave after the last get ack, so
  thread `ss` never finds the counts equal. When thread `de` does, every exported chunk has been
  counted; a put ack still to come would be of a chunk counted already, which `PlacesInv` excludes.
* `FlowsInv`, `ReadyInv` (`NoPacketBeforeState`): a chunk keeps events of its own flow, and releases
  them after its own put ack; every other redirection, of an event or of the traffic, comes after
  a claim that the transfer is complete. `CompletionCorrect` says that the claim is true.
* `NoPacketVanishes` is inductive: each action hands the packet on before it lets go of it.
* `OnePlaceInv` (`AtMostOnce`): there is a function that gives every packet one place, and no queue
  holds a packet twice. The function is an existential in place of a history variable. Releasing the
  list hands copies to the pool and leaves the list as it was, so the list stops being a place once it is `Released`;
  `OnceInv` says that it is released once. With `PZ_LL_ER` the list is not used. With `PZ` and
  `PZ_LL` two threads may release it, and the property excludes these.

### Copy

A copy has no such invariant: two chunks with one hash key share a `StateChunk`, a task sends the
message stored last, and a put of a per-flow chunk may be acknowledged as one of a multi-flow chunk. The
argument is in three layers.

* `OrderInv`: requests, chunks and get acks come in the order of the kinds (`Rank`), along both
  queues; what has arrived is not after what is on its way; a count is what was exported, but between
  flag and count (`CountsInv`).
* `PoolInv` and `LedgerInv`: there is an assignment of the puts and acks on their way, and of the acks
  counted, to different exported chunks (`Ledger`), in which a message stands for a chunk of the same `StateChunk` and of
  no lower rank. It is an existential in place of a history variable.
* `EndInv`: per-flow acks can only be for per-flow chunks; if they are as many as were exported, no
  per-flow chunk is left for a multi-flow ack, and so on; hence `EndMeansInstalled`. In the window
  between flag and count the last kind is excluded.

`AnnounceInv` bounds the announcements by three events that happen at most once: `ss` looks after the
last get ack, `de` passes the total of the counts without the last kind, `de` passes the total.

### Share

`TypeOK` bounds `eventAckCount` by the number of instances it is compared with, and that is not a matter of types: the
threads read and write it without a lock. `ShareInv` adds to the types of variables and messages
(`VarsType`)

* `IdleInv`: before `execute()` all threads are idle and the connections carry nothing but reports;
* `FirstInv`: an instance is asked for events once, before everything else; its ack is the first answer and
  is in one place: queue, or hand of its thread;
* `AckCountInv`: the count, and what each thread has read of it, is at most the number of instances whose ack
  has been counted; as many starts at most as threads that have compared it.

A write adds one to a value that was within the bound when it was read; the bound only grows, and grows by
one with the write itself. Lost increments make the count smaller, never larger. So the share may fail to start
(`MCShareStart.cfg`), and may start more than once, but never more often than there are instances.

`OneAtATime` is proved under `[]Ordinary`, for a share that was started once (`Single`, as in the property itself).
`Ordinary` has three parts, and the code needs each of them:

* `DistinctTraffic`: packets are different texts. `receiveReprocess` takes a report equal to `lastPacket` for the
  echo of that packet, and the map of held packets goes by the text.
* `Unmarked`: no strict share of per-flow state, whose gets mark the records; an instance reports a packet that
  meets a mark, and reports it once more because it was returned.
* `FewRecords`: an instance has fewer than 100000 records of a kind. The code initializes the counts with "a large
  number" and sets the flag of a get ack before the count, so between the two it compares put acks with that number.

The invariant `TurnsInv` says, of a share started once:

* `RoundInv`: one instance, `currentSource`, is asked and answers, and the puts go to all others (`SourceInv`); each kind is asked for once, the ack
  comes behind the state and tells how much that was (`AnswersInv`); the table has one chunk for a hashkey
  (`TableInv`); a put is in one place until it is counted (`PutsInv`); and no more put acks are counted than came (`PutAcksInv`).
  If put acks equal records times other instances, all puts have been counted, and the round has left nothing behind.
  The increments are not atomic; a lost one leaves the count too small, and the round open.
* `TurnInv`: at most one of a round, a thread at `sync` or `dequeue`, a packet that is out, and `callFromReprocess`.
* `OutInv`: the packet that is out is `lastPacket`, and is in one place: control channel, hand of an instance, report.
* `ReportsInv`: every other report is of a packet the operation has neither returned last nor holds.

The proof takes the steps in groups: those that leave a round as it is, those of answers and puts, the end of a round,
the start of the next, and the packet that is returned.

`StrongConsistency` and `LearnedByAll` compare records of different instances, which agree only when a returned packet is
waiting; in between the source of a round is ahead of some destinations and equal to others. `CopiesInv` says where the difference
is, of a share started once whose instances processed no packet without reporting it (`strays = {}`, as in the properties). It has four parts:

* `CarryInv`: gets ask for the units of the round (`key`), and every state answer, chunk and put carries a record of
  `currentSource` as that instance holds it *now*, and with a connection its host's asset as it is now, or none. This is what fails
  without `OneAtATime`: a packet processed during a round would make the record of the source newer than the copy on its way.
* `CopiedInv`: during a round, each record of the source in `key` is still to be put to a destination (`Waits`: asked for, sent, in the pool,
  put), or the destination has got it (`Got`): it knows of the packets processed and, of multi-flow state, is as new and tells as much. When
  the round is complete nothing waits, so all destinations have got it. An asset put with a connection is the record the destination gets,
  or has got, anyway; putting it twice changes nothing.
* `OrderInv`, for multi-flow state: an instance has one record of a unit at most. In the first synchronization (`FirstSync`) it compares what
  each instance will hold when the round is over (`Final`); afterwards (`LaterSync`) only the source of the round,
  or the instance that has processed the packet returned and has not been copied yet, is `Ahead` of the others, in the unit of that packet
  only, in facts and in seconds. With neither, nobody is ahead, and records of which each is below the other are equal.
* `LearnedInv`: every instance knows of every processed packet, except of `lastPacket` while it is being spread; then
  the source has it in the first record of the unit.

The seconds matter for a put: `put_asset_per_sip` ignores a record that is older than its own and merges any
other. After the first synchronization no put of a round is ignored: a packet takes the current second, so the source is at
least as new as its destinations. In the first synchronization records may be of any second, and puts are ignored. `FirstSync` says that the
instances copied so far are `Below` all others, and that no instance is later than one before it without telling as much; so the
source of a round, after all earlier ones, makes the others as new as itself, and whoever ignores it tells as much already. That is `InOrder` of what
the instances start with, kept through all rounds. Without it the one that ignores lacks a fact, and the instances still differ
in the end (`MCShareLater.cfg`); packets processed before the filters were in place have the same effect (`share_fresh`). `Tell` makes facts
count only under `InOrder`, since `LearnedByAll` holds without it. TLC found `CopiesInv` to hold on
the instances of `MCShare.cfg` before it was proved.

### NFEvents

`ListInv` and `MatchInv`: the list has no filter twice and no freed one, and what a thread or a removal
holds is in the list or is being removed by it. The removal unlinks before it frees, so the list is live; a matched
filter may be freed (that is `ReleasedBeforeFreed`, false). `FateInv` counts the places of each packet
(`OnePlace`) over buffers, threads, processed and dropped packets; each handler moves the packet from one place to
another. `ProcessContext.event` is a `char`: up to id 256 the value -1 .. -128 or 0 is nobody's id or the
operation's own, from 257 on it is another's.

### Registry

`RegistryInv` gives each NF at most one object (`ObjectsInv`), each thread the object of its NF (`BoxInv`),
each channel one of: not yet sent, SYN on its way, being connected, connected (`ChannelsInv`), so the thread that completes the pair is
unique; each slot a different connected NF (`SlotsInv`); the chain of steps one pending step (`TasksInv`);
and an operation a table entry before its requests (`OperationsInv`).

### Get lock

`NotBeforeThreshold` speaks of flows, the code of a counter that is wrong. `CountInv` relates the two: the counter, and what the packet
thread has read of it, plus the changes decided and not yet written, is at most the flows there are plus `lost`. A flow comes before it is
counted, and a lost increment makes the counter smaller; only a put that writes from an old read makes it larger, by what the counter
has lost in between, which is what `lost` adds up. `StartInv`: before the lock is taken any get is an `early` one. `OpenedInv`: once it
is taken, it is open, or a get is or was in its local function, only if enough packets came or the counter met the threshold, since
nobody but the packet thread opens it the first time; then `CountInv` turns the counter into flows. `TypeInv` adds to `TypeOK` the bounds of
the counters (`BoundsInv`).

### Only model-checked

* Liveness and everything under fairness, which is outside the prover's reach.
* `Planner`, which recurses as the code does (`RECURSIVE`).

Every other safety invariant of a passing run is proved, `MCGetLockEarly.cfg` and the other scopes
of section 4 aside.

## 6. Not modelled, and why

* Two operations at once on one NF (removal of a filter by key, stale packet-ins, marks of a
  move overwritten by a copy): each of `Move`, `Copy` and `Share` has one operation; the product of two
  exceeds what TLC can search with their traffic.
* `ScaleInCheck`: a linear program handed to an external solver. Costs and variances the
  algorithms return: numbers nobody acts on.
* `PerflowKey.toOFMatches`, base64: pure conversions, planned as operators.
* `SDMBNConn.c`, `SDMBNJson.c`, message classes: input and output without decisions.
* iptables and Bro: further users of the library; PRADS stands for them.
* Test applications other than `TestTimed` and `TestTimedMoveAll`: scripts of experiments.
* Delete requests of `state.c`, which no operation sends; direct injection
  (`handle_reprocess_event`), which the controller never uses.
* `src/boost_1_54_0`, `src/bro-2.1` and the like are third-party code the build needs.

## 7. Plan

1. (done) `Transfer`, `Move`, `NFEvents`, `GetLock`; type invariant, transfer invariant,
   completion and refinement of the move proved.
2. (done) `Share`, `Registry`, `Copy` with `MoveConfig`, `Planner`.
3. (done) Proofs about `Copy`, `NFEvents`, `Registry` and `GetLock`.
4. (done) Proofs about the packets and the announcements of `Move`, types, ack counts, turns and contents of `Share`.
5. `PerflowKey` and base64 as operators against a reference; two operations with one key.
