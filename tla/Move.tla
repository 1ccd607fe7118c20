-------------------------------- MODULE Move --------------------------------
(***************************************************************************)
(* One MoveOperation of the controller (operation/MoveOperation.java, with *)
(* core/StateChunk.java and core/ReprocessEvent.java), the two network     *)
(* functions it moves state between (shared/state.c, shared/event.c, and   *)
(* the PRADS callbacks of prads.patch) and the switch in front of them.    *)
(*                                                                         *)
(* A network function has a state connection and an event connection; the  *)
(* controller serves every connection with a thread of its own, so that    *)
(* four threads run the operation's handlers concurrently:                 *)
(*   ss  source state channel        state chunks, get acks, events acks   *)
(*   se  source event channel        reprocess events                      *)
(*   de  destination event channel   put acks                              *)
(*   ds  destination state channel   events acks                           *)
(* Chunks and events are sent by the tasks of a cached thread pool.        *)
(***************************************************************************)
EXTENDS Naturals, Sequences, FiniteSets, Functions

CONSTANTS
  Perflow,        \* per-flow state chunks (flows) of the source
  Multiflow,      \* multi-flow state chunks of the source
  NumPackets,     \* bound: packets the traffic source sends
  FlowOf,         \* the flow of each packet
  Configs,        \* the arguments move() is called with
  MaxPacketIns,   \* bound: unrelated packets the switch sends to the controller
  MaxFaults       \* bound: local get and put functions that fail

Kinds   == {"pf", "mf"}
Chunks  == Perflow \cup Multiflow
Packets == 1 .. NumPackets

Scopes        == {"PERFLOW", "MULTIFLOW", "PF_MF"}
Guarantees    == {"NO_GUARANTEE", "LOSS_FREE", "ORDER_PRESERVING"}
Optimizations == {"NO_OPTIMIZATION", "PZ", "LL", "PZ_LL", "PZ_LL_ER"}

(* The arguments SdmbnManager.move accepts. *)
ValidMove(a) ==
  /\ a.optimization \in {"LL", "PZ_LL", "PZ_LL_ER"} => a.guarantee # "NO_GUARANTEE"
  /\ a.optimization = "PZ_LL_ER" => a.scope # "PF_MF"

ValidConfigs ==
  {a \in [scope : Scopes, guarantee : Guarantees, optimization : Optimizations] : ValidMove(a)}

ASSUME ChunksAssumption ==
  /\ IsFiniteSet(Perflow) /\ IsFiniteSet(Multiflow)
  /\ Perflow \cap Multiflow = {}

ASSUME BoundsAssumption ==
  /\ NumPackets \in Nat /\ MaxPacketIns \in Nat /\ MaxFaults \in Nat
  /\ FlowOf \in [Packets -> Perflow]

ASSUME ConfigsAssumption == Configs \subseteq ValidConfigs

KindOf(c)   == IF c \in Perflow THEN "pf" ELSE "mf"
ChunksOf(k) == IF k = "pf" THEN Perflow ELSE Multiflow

-----------------------------------------------------------------------------
VARIABLES
  args,             \* scope, guarantee and optimization of the operation
  \* fields of the MoveOperation and its StateChunks
  acked,            \* getPerflowAcked, getMultiflowAcked
  count,            \* getPerflowCount, getMultiflowCount
  putAcks,          \* putPerflowAcks, putMultiflowAcks
  statesList,       \* chunks held back until the get ends
  eventsList,       \* events held back until the transfer completes
  chunkAck,         \* chunks whose StateChunk.ack is set
  chunkEvents,      \* StateChunk.eventsList
  immediateRelease,
  bufferingEnabled,
  packetCount,
  finishes,         \* how often operationFinished was announced
  \* threads of the controller
  pc, ssMsg, seMsg, deMsg,
  putTasks, eventTasks,
  \* connections
  toSrc, fromSrc, srcEvents, toDst, dstAcks, dstEventsAcks, dstOpen,
  \* network functions
  srcGet, exported, getDone, dropFilter, srcHand, applied,
  imported, bufferFilter, dstBuffer, dstLog, faults,
  \* switch and traffic
  rule, ofq, srcIn, injected

getVars    == <<acked, count, putAcks, statesList>>
eventVars  == <<eventsList, chunkAck, chunkEvents, immediateRelease>>
opVars     == <<bufferingEnabled, packetCount, finishes>>
msgVars    == <<ssMsg, seMsg, deMsg>>
poolVars   == <<putTasks, eventTasks>>
srcChan    == <<toSrc, fromSrc, srcEvents>>
dstChan    == <<toDst, dstAcks, dstEventsAcks, dstOpen>>
getState   == <<srcGet, exported, getDone>>
pktState   == <<dropFilter, srcHand, applied>>
dstVars    == <<imported, bufferFilter, dstBuffer, dstLog>>
netVars    == <<rule, ofq, srcIn, injected>>
vars       == <<args, getVars, eventVars, opVars, pc, msgVars, poolVars, srcChan, dstChan,
                getState, pktState, dstVars, faults, netVars>>

None == 0                       \* no packet in hand

Threads == {"app", "ss", "se", "de"}
Labels  == {"start", "idle", "count", "ack", "check", "events", "await", "release", "list", "chunk"}

StateMsgs  == [type : {"State"}, chunk : Chunks]
GetAckMsgs == [type : {"GetAck"}, kind : Kinds, count : Nat]
SrcMsgs    == StateMsgs \cup GetAckMsgs \cup [type : {"EventsAck"}]
DstMsgs    == [type : {"Put"}, chunk : Chunks] \cup [type : {"EnableEvents"}]
SwitchMsgs == [type : {"FlowMod"}] \cup [type : {"PacketOut"}, pkt : Packets]
EventTasks == [pkt : Packets, by : {"ss", "se", "de"}]

(* Every field, connection and network function has a value of its type. *)
FieldsType ==
  /\ acked \in [Kinds -> BOOLEAN]
  /\ count \in [Kinds -> Nat]
  /\ putAcks \in [Kinds -> Nat]
  /\ statesList \subseteq Chunks
EventsType ==
  /\ eventsList \in Seq(Packets)
  /\ chunkAck \subseteq Chunks
  /\ chunkEvents \in [Perflow -> Seq(Packets)]
  /\ immediateRelease \in BOOLEAN
OperationType ==
  /\ bufferingEnabled \in BOOLEAN
  /\ packetCount \in 0 .. MaxPacketIns
  /\ finishes \in Nat
ThreadsType ==
  /\ pc \in [Threads -> Labels]
  /\ ssMsg \in GetAckMsgs
  /\ seMsg \in Packets \cup {None}
  /\ deMsg \in Chunks \cup {None}
  /\ pc["se"] \in {"list", "chunk"} => seMsg \in Packets
  /\ pc["de"] = "ack" => deMsg \in Chunks
PoolType ==
  /\ putTasks \subseteq Chunks
  /\ eventTasks \subseteq EventTasks
SrcChanType ==
  /\ toSrc \in Seq({"EnableEvents"} \cup Kinds)
  /\ fromSrc \in Seq(SrcMsgs)
  /\ srcEvents \in Seq(Packets)
DstChanType ==
  /\ toDst \in Seq(DstMsgs)
  /\ dstAcks \in Seq(Chunks)
  /\ dstEventsAcks \in Nat
  /\ dstOpen \in BOOLEAN
SrcType ==
  /\ srcGet \in Kinds \cup {"none"}
  /\ exported \subseteq Chunks
  /\ getDone \subseteq Kinds
  /\ dropFilter \in BOOLEAN
  /\ srcHand \in Packets \cup {None}
  /\ applied \subseteq Packets
DstType ==
  /\ imported \subseteq Chunks
  /\ bufferFilter \in BOOLEAN
  /\ dstBuffer \in Seq(Packets)
  /\ dstLog \in Seq(Packets)
NetType ==
  /\ faults \in 0 .. MaxFaults
  /\ rule \in {"src", "dst"}
  /\ ofq \in Seq(SwitchMsgs)
  /\ srcIn \in Seq(Packets)
  /\ injected \in 0 .. NumPackets

TypeOK ==
  /\ args \in Configs
  /\ FieldsType /\ EventsType /\ OperationType
  /\ ThreadsType /\ PoolType
  /\ SrcChanType /\ DstChanType
  /\ SrcType /\ DstType /\ NetType

Init ==
  /\ args \in Configs
  /\ acked = [k \in Kinds |-> FALSE]
  /\ count = [k \in Kinds |-> 0]
  /\ putAcks = [k \in Kinds |-> 0]
  /\ statesList = {}
  /\ eventsList = <<>>
  /\ chunkAck = {}
  /\ chunkEvents = [c \in Perflow |-> <<>>]
  /\ immediateRelease = FALSE
  /\ bufferingEnabled = FALSE
  /\ packetCount = 0
  /\ finishes = 0
  /\ pc = [t \in Threads |-> IF t = "app" THEN "start" ELSE "idle"]
  /\ ssMsg = [type |-> "GetAck", kind |-> "pf", count |-> 0]
  /\ seMsg = None
  /\ deMsg = None
  /\ putTasks = {}
  /\ eventTasks = {}
  /\ toSrc = <<>> /\ fromSrc = <<>> /\ srcEvents = <<>>
  /\ toDst = <<>> /\ dstAcks = <<>> /\ dstEventsAcks = 0 /\ dstOpen = TRUE
  /\ srcGet = "none" /\ exported = {} /\ getDone = {}
  /\ dropFilter = FALSE /\ srcHand = None /\ applied = {}
  /\ imported = {} /\ bufferFilter = FALSE /\ dstBuffer = <<>> /\ dstLog = <<>>
  /\ faults = 0
  /\ rule = "src" /\ ofq = <<>> /\ srcIn = <<>> /\ injected = 0

Goto(t, from, to) ==
  /\ pc[t] = from
  /\ pc' = [pc EXCEPT ![t] = to]

-----------------------------------------------------------------------------
(* What the arguments select. *)

ScopeOf(k) == IF k = "pf" THEN "PERFLOW" ELSE "MULTIFLOW"
ScopeKinds == {k \in Kinds : args.scope \in {ScopeOf(k), "PF_MF"}}

OrderPreserving == args.guarantee = "ORDER_PRESERVING"

(* Chunks wait in statesList until the get has ended. *)
Batched == args.optimization \in {"NO_OPTIMIZATION", "LL"}

(* Traffic is stopped at the source with a drop filter before the get. *)
LocksEarly ==
  /\ args.guarantee # "NO_GUARANTEE"
  /\ args.optimization \in {"NO_OPTIMIZATION", "PZ"}

(* Mutant: with PZ as well.                                                *)
RaiseEvents_PZ == args.optimization # "NO_OPTIMIZATION"

(* The get asks the source to report packets of the flows it has exported. *)
RaiseEvents ==
  ~ \/ args.guarantee = "NO_GUARANTEE"
    \/ args.optimization \in {"NO_OPTIMIZATION", "PZ"}

EarlyRelease == args.optimization = "PZ_LL_ER"

(* The get requests of issueGet, in the order in which it sends them. *)
GetRequests ==
  IF args.scope = "PF_MF" THEN <<"pf", "mf">>
  ELSE IF args.scope = "PERFLOW" THEN <<"pf">> ELSE <<"mf">>

-----------------------------------------------------------------------------
(* MoveOperation, started by the application. *)

execute ==
  /\ Goto("app", "start", "idle")
  /\ toSrc' = toSrc \o IF LocksEarly THEN <<"EnableEvents">> ELSE GetRequests
  /\ UNCHANGED <<args, getVars, eventVars, opVars, msgVars, poolVars, fromSrc, srcEvents, dstChan,
                 getState, pktState, dstVars, faults, netVars>>

(* Thread ss: the source has installed the drop filter. *)
receiveEventsAckSrc ==
  /\ pc["ss"] = "idle"
  /\ fromSrc # <<>>
  /\ Head(fromSrc).type = "EventsAck"
  /\ fromSrc' = Tail(fromSrc)
  /\ toSrc' = toSrc \o GetRequests
  /\ UNCHANGED <<args, getVars, eventVars, opVars, pc, msgVars, poolVars, srcEvents, dstChan,
                 getState, pktState, dstVars, faults, netVars>>

receiveStateMessage ==
  /\ pc["ss"] = "idle"
  /\ fromSrc # <<>>
  /\ Head(fromSrc).type = "State"
  /\ fromSrc' = Tail(fromSrc)
  /\ IF Batched
       THEN /\ statesList' = statesList \cup {Head(fromSrc).chunk}
            /\ UNCHANGED putTasks
       ELSE /\ putTasks' = putTasks \cup {Head(fromSrc).chunk}
            /\ UNCHANGED statesList
  /\ UNCHANGED <<args, acked, count, putAcks, eventVars, opVars, pc, msgVars, eventTasks, toSrc,
                 srcEvents, dstChan, getState, pktState, dstVars, faults, netVars>>

(* receiveGetPerflowAck and receiveGetMultiflowAck set the flag first and  *)
(* the count after it; thread de may look at both in between.              *)
receiveGetAck ==
  /\ Goto("ss", "idle", "count")
  /\ fromSrc # <<>>
  /\ Head(fromSrc).type = "GetAck"
  /\ fromSrc' = Tail(fromSrc)
  /\ ssMsg' = Head(fromSrc)
  /\ acked' = [acked EXCEPT ![Head(fromSrc).kind] = TRUE]
  /\ UNCHANGED <<args, count, putAcks, statesList, eventVars, opVars, seMsg, deMsg, poolVars,
                 toSrc, srcEvents, dstChan, getState, pktState, dstVars, faults, netVars>>

(* Mutants: the check also after a release, or never.                      *)
AfterGetAck_check == "check"
AfterGetAck_idle  == "idle"

(* The second half: releaseBufferedStates() or checkIfStateMoved().        *)
AfterGetAck == IF Batched THEN "idle" ELSE "check"

(* Mutant: the count is one less than reported.                            *)
setGetCount_less ==
  /\ Goto("ss", "count", AfterGetAck)
  /\ count' = [count EXCEPT ![ssMsg.kind] = ssMsg.count - 1]
  /\ putTasks' = IF Batched /\ \A k \in ScopeKinds : acked[k]
                   THEN putTasks \cup statesList ELSE putTasks
  /\ UNCHANGED <<args, acked, putAcks, statesList, eventVars, opVars, msgVars, eventTasks,
                 srcChan, dstChan, getState, pktState, dstVars, faults, netVars>>

(* The wait of invokeAll is left out: nothing else arrives at this thread. *)
setGetCount ==
  /\ Goto("ss", "count", AfterGetAck)
  /\ count' = [count EXCEPT ![ssMsg.kind] = ssMsg.count]
  /\ putTasks' = IF Batched /\ \A k \in ScopeKinds : acked[k]
                   THEN putTasks \cup statesList ELSE putTasks
  /\ UNCHANGED <<args, acked, putAcks, statesList, eventVars, opVars, msgVars, eventTasks,
                 srcChan, dstChan, getState, pktState, dstVars, faults, netVars>>

(* Thread de: receivePutPerflowAck and receivePutMultiflowAck. *)
receivePutAck ==
  /\ Goto("de", "idle", "ack")
  /\ dstAcks # <<>>
  /\ dstAcks' = Tail(dstAcks)
  /\ deMsg' = Head(dstAcks)
  /\ putAcks' = [putAcks EXCEPT ![KindOf(Head(dstAcks))] = @ + 1]
  /\ UNCHANGED <<args, acked, count, statesList, eventVars, opVars, ssMsg, seMsg, poolVars,
                 srcChan, toDst, dstEventsAcks, dstOpen, getState, pktState, dstVars, faults,
                 netVars>>

FlowMod      == [type |-> "FlowMod"]
PacketOut(p) == [type |-> "PacketOut", pkt |-> p]

(* StateChunk.receivedPutAck: set ack, then send the chunk's events.       *)
releaseChunkEvents ==
  /\ Goto("de", "ack", "check")
  /\ chunkAck' = chunkAck \cup {deMsg}
  /\ IF deMsg \in Perflow
       THEN /\ ofq' = ofq \o [i \in 1 .. Len(chunkEvents[deMsg]) |-> PacketOut(chunkEvents[deMsg][i])]
            /\ chunkEvents' = [chunkEvents EXCEPT ![deMsg] = <<>>]
       ELSE UNCHANGED <<ofq, chunkEvents>>
  /\ UNCHANGED <<args, getVars, eventsList, immediateRelease, opVars, msgVars, poolVars, srcChan,
                 dstChan, getState, pktState, dstVars, faults, rule, srcIn, injected>>

(* Mutants: one kind is enough; one ack early.                             *)
Completed_any   == \E k \in ScopeKinds : acked[k] /\ putAcks[k] = count[k]
Completed_early == \A k \in ScopeKinds : acked[k] /\ putAcks[k] + 1 >= count[k]

Completed == \A k \in ScopeKinds : acked[k] /\ putAcks[k] = count[k]

(* checkIfStateMoved, by thread ss or de. Once the counts agree they stay  *)
(* equal, so reading the fields one after the other finds what one look at *)
(* the moment of the last read finds.                                      *)
checkIfStateMoved(t) ==
  /\ Goto(t, "check", IF Completed THEN "events" ELSE "idle")
  /\ toDst' = IF Completed /\ OrderPreserving /\ dstOpen
                THEN Append(toDst, [type |-> "EnableEvents"]) ELSE toDst
  /\ ofq' = IF Completed /\ ~OrderPreserving THEN Append(ofq, FlowMod) ELSE ofq
  /\ UNCHANGED <<args, getVars, eventVars, opVars, msgVars, poolVars, srcChan, dstAcks,
                 dstEventsAcks, dstOpen, getState, pktState, dstVars, faults, rule, srcIn,
                 injected>>

(* The held events go to the pool: all of them, which leaves them in the   *)
(* list, or for an order-preserving move one at a time from its head.      *)
releaseEvents(t) ==
  /\ IF ~OrderPreserving
       THEN /\ Goto(t, "events", "await")
            /\ eventTasks' = eventTasks \cup {[pkt |-> p, by |-> t] : p \in Range(eventsList)}
            /\ UNCHANGED eventsList
       ELSE IF eventsList # <<>>
              THEN /\ Goto(t, "events", "await")
                   /\ eventTasks' = eventTasks \cup {[pkt |-> Head(eventsList), by |-> t]}
                   /\ eventsList' = Tail(eventsList)
              ELSE /\ Goto(t, "events", "release")
                   /\ UNCHANGED <<eventTasks, eventsList>>
  /\ UNCHANGED <<args, getVars, chunkAck, chunkEvents, immediateRelease, opVars, msgVars,
                 putTasks, srcChan, dstChan, getState, pktState, dstVars, faults, netVars>>

(* The tasks have run: back to the list, or announce the end.              *)
awaitEvents(t) ==
  /\ \A e \in eventTasks : e.by # t
  /\ Goto(t, "await", IF OrderPreserving THEN "events" ELSE "release")
  /\ finishes' = IF OrderPreserving THEN finishes ELSE finishes + 1
  /\ UNCHANGED <<args, getVars, eventVars, bufferingEnabled, packetCount, msgVars, poolVars,
                 srcChan, dstChan, getState, pktState, dstVars, faults, netVars>>

setImmediateRelease(t) ==
  /\ Goto(t, "release", "idle")
  /\ immediateRelease' = TRUE
  /\ UNCHANGED <<args, getVars, eventsList, chunkAck, chunkEvents, opVars, msgVars, poolVars,
                 srcChan, dstChan, getState, pktState, dstVars, faults, netVars>>

(* Mutant: with the ack of any chunk.                                      *)
ReleaseNow_any(p) == immediateRelease \/ (EarlyRelease /\ chunkAck # {})

(* Thread se: receiveReprocess decides what to do with an event: release   *)
(* it at once or hold it ...                                               *)
ReleaseNow(p) == immediateRelease \/ (EarlyRelease /\ FlowOf[p] \in chunkAck)

receiveReprocess ==
  /\ srcEvents # <<>>
  /\ srcEvents' = Tail(srcEvents)
  /\ seMsg' = Head(srcEvents)
  /\ IF args.guarantee # "NO_GUARANTEE" /\ ReleaseNow(Head(srcEvents))
       THEN eventTasks' = eventTasks \cup {[pkt |-> Head(srcEvents), by |-> "se"]}
       ELSE UNCHANGED eventTasks
  /\ IF args.guarantee = "NO_GUARANTEE" \/ ReleaseNow(Head(srcEvents))
       THEN Goto("se", "idle", "idle")
       ELSE Goto("se", "idle", IF EarlyRelease THEN "chunk" ELSE "list")
  /\ UNCHANGED <<args, getVars, eventVars, opVars, ssMsg, deMsg, putTasks, toSrc, fromSrc,
                 dstChan, getState, pktState, dstVars, faults, netVars>>

(* ... and then does it, on what it has read.                              *)
holdEvent ==
  \/ /\ Goto("se", "list", "idle")
     /\ eventsList' = Append(eventsList, seMsg)
     /\ UNCHANGED <<args, getVars, chunkAck, chunkEvents, immediateRelease, opVars, msgVars,
                    poolVars, srcChan, dstChan, getState, pktState, dstVars, faults, netVars>>
  \/ /\ Goto("se", "chunk", "idle")
     /\ chunkEvents' = [chunkEvents EXCEPT ![FlowOf[seMsg]] = Append(@, seMsg)]
     /\ UNCHANGED <<args, getVars, eventsList, chunkAck, immediateRelease, opVars, msgVars,
                    poolVars, srcChan, dstChan, getState, pktState, dstVars, faults, netVars>>

(* Mutants: a chunk or an event stays in the pool; an event gets lost.     *)
callChunk_again(c) ==
  /\ c \in putTasks
  /\ toDst' = Append(toDst, [type |-> "Put", chunk |-> c])
  /\ UNCHANGED <<args, getVars, eventVars, opVars, pc, msgVars, poolVars, srcChan, dstAcks,
                 dstEventsAcks, dstOpen, getState, pktState, dstVars, faults, netVars>>
callEvent_again(e) ==
  /\ e \in eventTasks
  /\ ofq' = Append(ofq, PacketOut(e.pkt))
  /\ UNCHANGED <<args, getVars, eventVars, opVars, pc, msgVars, poolVars, srcChan, dstChan,
                 getState, pktState, dstVars, faults, rule, srcIn, injected>>
callEvent_lost(e) ==
  /\ e \in eventTasks
  /\ eventTasks' = eventTasks \ {e}
  /\ UNCHANGED <<args, getVars, eventVars, opVars, pc, msgVars, putTasks, srcChan, dstChan,
                 getState, pktState, dstVars, faults, netVars>>

(* Tasks of the pool: StateChunk.call and ReprocessEvent.call. A write to  *)
(* a closed channel is dropped without an exception.                       *)
callChunk(c) ==
  /\ c \in putTasks
  /\ putTasks' = putTasks \ {c}
  /\ toDst' = IF dstOpen THEN Append(toDst, [type |-> "Put", chunk |-> c]) ELSE toDst
  /\ UNCHANGED <<args, getVars, eventVars, opVars, pc, msgVars, eventTasks, srcChan, dstAcks,
                 dstEventsAcks, dstOpen, getState, pktState, dstVars, faults, netVars>>

callEvent(e) ==
  /\ e \in eventTasks
  /\ eventTasks' = eventTasks \ {e}
  /\ ofq' = Append(ofq, PacketOut(e.pkt))
  /\ UNCHANGED <<args, getVars, eventVars, opVars, pc, msgVars, putTasks, srcChan, dstChan,
                 getState, pktState, dstVars, faults, rule, srcIn, injected>>

(* Thread ds: phase 1 of the route update stores to the second element of  *)
(* a one-element array; the exception reaches exceptionCaught, which       *)
(* closes the channel. No rule is installed.                               *)
receiveEventsAckDst ==
  /\ dstOpen
  /\ dstEventsAcks > 0
  /\ dstEventsAcks' = dstEventsAcks - 1
  /\ bufferingEnabled' = TRUE
  /\ dstOpen' = FALSE
  /\ UNCHANGED <<args, getVars, eventVars, packetCount, finishes, pc, msgVars, poolVars, srcChan,
                 toDst, dstAcks, getState, pktState, dstVars, faults, netVars>>

(* A packet the switch could not match, on the operation's input port: the *)
(* manager hands every packet-in to every operation, which takes the first *)
(* one for the signal to perform phase 2 of the route update.              *)
receivePacket ==
  /\ pc["app"] = "idle"
  /\ packetCount < MaxPacketIns
  /\ packetCount' = packetCount + 1
  /\ ofq' = IF packetCount = 0 THEN Append(ofq, FlowMod) ELSE ofq
  /\ UNCHANGED <<args, getVars, eventVars, bufferingEnabled, finishes, pc, msgVars, poolVars,
                 srcChan, dstChan, getState, pktState, dstVars, faults, rule, srcIn, injected>>

-----------------------------------------------------------------------------
(* Source network function: the state thread. *)

handle_enable_events ==
  /\ srcGet = "none"
  /\ toSrc # <<>>
  /\ Head(toSrc) = "EnableEvents"
  /\ toSrc' = Tail(toSrc)
  /\ dropFilter' = TRUE
  /\ fromSrc' = Append(fromSrc, [type |-> "EventsAck"])
  /\ UNCHANGED <<args, getVars, eventVars, opVars, pc, msgVars, poolVars, srcEvents, dstChan,
                 getState, srcHand, applied, dstVars, faults, netVars>>

handle_get ==
  /\ srcGet = "none"
  /\ toSrc # <<>>
  /\ Head(toSrc) \in Kinds
  /\ toSrc' = Tail(toSrc)
  /\ srcGet' = Head(toSrc)
  /\ UNCHANGED <<args, getVars, eventVars, opVars, pc, msgVars, poolVars, fromSrc, srcEvents,
                 dstChan, exported, getDone, pktState, dstVars, faults, netVars>>

(* The local get function marks and sends one chunk it found.              *)
send_state(c) ==
  /\ srcGet # "none"
  /\ c \in ChunksOf(srcGet) \ exported
  /\ exported' = exported \cup {c}
  /\ fromSrc' = Append(fromSrc, [type |-> "State", chunk |-> c])
  /\ UNCHANGED <<args, getVars, eventVars, opVars, pc, msgVars, poolVars, toSrc, srcEvents,
                 dstChan, srcGet, getDone, pktState, dstVars, faults, netVars>>

(* The local get function returns how many chunks it has sent.             *)
send_get_ack ==
  /\ srcGet # "none"
  /\ srcGet' = "none"
  /\ getDone' = getDone \cup {srcGet}
  /\ fromSrc' = Append(fromSrc, [type |-> "GetAck", kind |-> srcGet,
                                 count |-> Cardinality(exported \cap ChunksOf(srcGet))])
  /\ UNCHANGED <<args, getVars, eventVars, opVars, pc, msgVars, poolVars, toSrc, srcEvents,
                 dstChan, exported, pktState, dstVars, faults, netVars>>

(* The local get function fails: an error message, which the controller    *)
(* logs, takes the place of the ack.                                       *)
get_fails ==
  /\ srcGet # "none"
  /\ faults < MaxFaults
  /\ faults' = faults + 1
  /\ srcGet' = "none"
  /\ UNCHANGED <<args, getVars, eventVars, opVars, pc, msgVars, poolVars, srcChan, dstChan,
                 exported, getDone, pktState, dstVars, netVars>>

(* Source network function: the packet thread. A packet that meets the     *)
(* drop filter is reported and dropped; any other one is in hand until it  *)
(* has been processed.                                                     *)
sdmbn_preprocess_packet ==
  /\ srcHand = None
  /\ srcIn # <<>>
  /\ srcIn' = Tail(srcIn)
  /\ IF dropFilter
       THEN /\ srcEvents' = Append(srcEvents, Head(srcIn))
            /\ UNCHANGED srcHand
       ELSE /\ srcHand' = Head(srcIn)
            /\ UNCHANGED srcEvents
  /\ UNCHANGED <<args, getVars, eventVars, opVars, pc, msgVars, poolVars, toSrc, fromSrc, dstChan,
                 getState, dropFilter, applied, dstVars, faults, rule, ofq, injected>>

(* Mutant: dropped without an event.                                       *)
process_packet_silent ==
  /\ srcHand # None
  /\ srcHand' = None
  /\ applied' = IF FlowOf[srcHand] \in exported THEN applied ELSE applied \cup {srcHand}
  /\ UNCHANGED <<args, getVars, eventVars, opVars, pc, msgVars, poolVars, srcChan, dstChan,
                 getState, dropFilter, dstVars, faults, netVars>>

(* A packet of a flow that has not been exported updates state that is     *)
(* still to leave (or that stays); one of an exported flow updates state   *)
(* nobody will read again, and is reported if the get asked for it.        *)
process_packet ==
  /\ srcHand # None
  /\ srcHand' = None
  /\ LET moved == FlowOf[srcHand] \in exported
     IN  /\ applied' = IF moved THEN applied ELSE applied \cup {srcHand}
         /\ srcEvents' = IF moved /\ RaiseEvents THEN Append(srcEvents, srcHand) ELSE srcEvents
  /\ UNCHANGED <<args, getVars, eventVars, opVars, pc, msgVars, poolVars, toSrc, fromSrc, dstChan,
                 getState, dropFilter, dstVars, faults, netVars>>

-----------------------------------------------------------------------------
(* Destination network function. *)

handle_put ==
  /\ toDst # <<>>
  /\ Head(toDst).type = "Put"
  /\ toDst' = Tail(toDst)
  /\ imported' = imported \cup {Head(toDst).chunk}
  /\ dstAcks' = Append(dstAcks, Head(toDst).chunk)
  /\ UNCHANGED <<args, getVars, eventVars, opVars, pc, msgVars, poolVars, srcChan, dstEventsAcks,
                 dstOpen, getState, pktState, bufferFilter, dstBuffer, dstLog, faults, netVars>>

(* The local put function fails: an error message, and no ack.             *)
put_fails ==
  /\ toDst # <<>>
  /\ Head(toDst).type = "Put"
  /\ faults < MaxFaults
  /\ faults' = faults + 1
  /\ toDst' = Tail(toDst)
  /\ UNCHANGED <<args, getVars, eventVars, opVars, pc, msgVars, poolVars, srcChan, dstAcks,
                 dstEventsAcks, dstOpen, getState, pktState, dstVars, netVars>>

handle_enable_buffer ==
  /\ toDst # <<>>
  /\ Head(toDst).type = "EnableEvents"
  /\ toDst' = Tail(toDst)
  /\ bufferFilter' = TRUE
  /\ dstEventsAcks' = dstEventsAcks + 1
  /\ UNCHANGED <<args, getVars, eventVars, opVars, pc, msgVars, poolVars, srcChan, dstAcks,
                 dstOpen, getState, pktState, imported, dstBuffer, dstLog, faults, netVars>>

(* The packet thread. Packets the controller sends carry the flag that     *)
(* exempts them from the buffer filter. Any other packet is exempt too if  *)
(* the `injected' member of its ProcessContext, which nobody sets, happens *)
(* not to be zero.                                                         *)
DstReceive(p, doNotBuffer) ==
  \/ /\ bufferFilter /\ ~doNotBuffer
     /\ dstBuffer' = Append(dstBuffer, p)
     /\ UNCHANGED dstLog
  \/ /\ dstLog' = Append(dstLog, p)
     /\ UNCHANGED dstBuffer

-----------------------------------------------------------------------------
(* The switch. *)

installRule ==
  /\ ofq # <<>>
  /\ Head(ofq).type = "FlowMod"
  /\ ofq' = Tail(ofq)
  /\ rule' = "dst"
  /\ UNCHANGED <<args, getVars, eventVars, opVars, pc, msgVars, poolVars, srcChan, dstChan,
                 getState, pktState, dstVars, faults, srcIn, injected>>

packetOut ==
  /\ ofq # <<>>
  /\ Head(ofq).type = "PacketOut"
  /\ ofq' = Tail(ofq)
  /\ DstReceive(Head(ofq).pkt, TRUE)
  /\ UNCHANGED <<args, getVars, eventVars, opVars, pc, msgVars, poolVars, srcChan, dstChan,
                 getState, pktState, imported, bufferFilter, faults, rule, srcIn, injected>>

(* The next packet of the traffic arrives at the switch.                   *)
forward ==
  /\ injected < NumPackets
  /\ injected' = injected + 1
  /\ IF rule = "src"
       THEN srcIn' = Append(srcIn, injected + 1) /\ UNCHANGED <<dstBuffer, dstLog>>
       ELSE DstReceive(injected + 1, FALSE) /\ UNCHANGED srcIn
  /\ UNCHANGED <<args, getVars, eventVars, opVars, pc, msgVars, poolVars, srcChan, dstChan,
                 getState, pktState, imported, bufferFilter, faults, rule, ofq>>

-----------------------------------------------------------------------------
Controller ==
  \/ receiveEventsAckSrc
  \/ receiveStateMessage
  \/ receiveGetAck
  \/ setGetCount
  \/ receivePutAck
  \/ releaseChunkEvents
  \/ \E t \in {"ss", "de"} : \/ checkIfStateMoved(t)
                             \/ releaseEvents(t)
                             \/ awaitEvents(t)
                             \/ setImmediateRelease(t)
  \/ receiveReprocess
  \/ holdEvent
  \/ \E c \in putTasks : callChunk(c)
  \/ \E e \in eventTasks : callEvent(e)
  \/ receiveEventsAckDst

SrcNF ==
  \/ handle_enable_events
  \/ handle_get
  \/ \E c \in Chunks : send_state(c)
  \/ send_get_ack
  \/ sdmbn_preprocess_packet
  \/ process_packet

DstNF == handle_put \/ handle_enable_buffer

Switch == installRule \/ packetOut

Environment == execute \/ receivePacket \/ forward \/ get_fails \/ put_fails

Next == Controller \/ SrcNF \/ DstNF \/ Switch \/ Environment

Spec == Init /\ [][Next]_vars

(* Threads of the controller, of the network functions and of the pool     *)
(* keep running, the switch serves its control channel, and the            *)
(* application starts the move. Traffic, packet-ins and faults need not    *)
(* happen.                                                                 *)
Fairness ==
  /\ WF_vars(execute)
  /\ \A t \in {"ss", "de"} :
       WF_vars(checkIfStateMoved(t) \/ releaseEvents(t) \/ awaitEvents(t) \/ setImmediateRelease(t))
  /\ WF_vars(receiveEventsAckSrc \/ receiveStateMessage \/ receiveGetAck \/ setGetCount)
  /\ WF_vars(receivePutAck \/ releaseChunkEvents)
  /\ WF_vars(receiveReprocess \/ holdEvent)
  /\ WF_vars(receiveEventsAckDst)
  /\ \A c \in Chunks : WF_vars(callChunk(c))
  /\ \A e \in EventTasks : WF_vars(callEvent(e))
  /\ WF_vars(handle_enable_events \/ handle_get \/ send_get_ack)
  /\ WF_vars(sdmbn_preprocess_packet \/ process_packet)
  /\ WF_vars(DstNF)
  /\ WF_vars(Switch)

FairSpec == Spec /\ Fairness
=============================================================================
