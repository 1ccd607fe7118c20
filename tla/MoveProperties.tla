--------------------------- MODULE MoveProperties ---------------------------
(***************************************************************************)
(* What a move promises, stated over the behaviours of module Move.        *)
(***************************************************************************)
EXTENDS Move

(* The counts of the kinds in scope are all known before the first put is  *)
(* sent, or there is only one: the moves that cannot mistake a count not   *)
(* yet stored for an empty transfer.                                       *)
CountsSettled == args.scope # "PF_MF" \/ Batched

(* checkIfStateMoved has found the transfer complete in thread t.          *)
Completing(t) == pc[t] \in {"events", "await", "release"}
StateMoved    == immediateRelease \/ Completing("ss") \/ Completing("de")
Claimed       == StateMoved \/ finishes > 0
Transferred   == ScopeKinds \subseteq getDone /\ exported = imported

(* The operation holds the transfer complete (it announces the end, or     *)
(* releases events without asking which flow they belong to) only when the *)
(* source has ended every get and each chunk it exported is installed at   *)
(* the destination.                                                        *)
CompleteMeansTransferred == CountsSettled /\ Claimed => Transferred

(* The comment on immediateRelease in receiveReprocess: "irrespective of   *)
(* the optimization, this implies the state transfer is complete".         *)
ImmediateReleaseMeansTransferred == immediateRelease => Transferred

(* The destination processes no packet of an exported flow, redirected or  *)
(* routed, before the flow's state is there. Packet-ins are excluded: the  *)
(* first one re-routes the traffic whatever the transfer's progress.       *)
NoPacketBeforeState ==
  CountsSettled /\ packetCount = 0 =>
    \A p \in Range(dstLog) \cup Range(dstBuffer) : FlowOf[p] \in exported => FlowOf[p] \in imported

(* How often the effect of packet p is in the state the traffic now meets. *)
Occurrences(s, p) == Cardinality({i \in DOMAIN s : s[i] = p})
Effects(p) == Occurrences(dstLog, p) + IF p \in applied THEN 1 ELSE 0

(* No packet takes effect twice: none that was counted in the exported     *)
(* state is redirected as well, and no held event is released twice. With  *)
(* PZ and PZ_LL two threads may both find the transfer complete and both   *)
(* release the list.                                                       *)
AtMostOnce ==
  args.optimization \notin {"PZ", "PZ_LL"} => \A p \in Packets : Effects(p) <= 1

(* The application is told of the end once. The end is found by thread de  *)
(* alone when the chunks were held back; otherwise thread ss may find it   *)
(* as well.                                                                *)
AnnouncedOnce == Batched => finishes <= 1

(* "Should not receive any events for NONE(no_guarantees) option": the     *)
(* assertion in receiveReprocess.                                          *)
NoEventsWithoutGuarantee == args.guarantee = "NO_GUARANTEE" => srcEvents = <<>>

(* Nothing is under way any more: no thread, task, message or packet.      *)
Quiescent ==
  /\ \A t \in Threads : pc[t] = "idle"
  /\ putTasks = {} /\ eventTasks = {}
  /\ toSrc = <<>> /\ fromSrc = <<>> /\ srcEvents = <<>> /\ toDst = <<>> /\ dstAcks = <<>>
  /\ srcGet = "none" /\ srcHand = None /\ srcIn = <<>> /\ ofq = <<>>

(* Where a packet can be. *)
InFlight(p) ==
  \/ p \in Range(srcIn) \/ p = srcHand \/ p \in Range(srcEvents)
  \/ pc["se"] \in {"list", "chunk"} /\ p = seMsg
  \/ p \in Range(eventsList) \/ \E c \in Perflow : p \in Range(chunkEvents[c])
  \/ \E e \in eventTasks : e.pkt = p
  \/ PacketOut(p) \in Range(ofq)
  \/ p \in Range(dstBuffer)

Accounted(p) == p \in applied \/ InFlight(p) \/ p \in Range(dstLog)

(* Late locking: the source marks a flow and reports its packets under the *)
(* same lock, so a packet may wait in a list for ever but never vanishes.  *)
NoPacketVanishes == RaiseEvents => \A p \in 1 .. injected : Accounted(p)

(* Early locking: the same promise for a drop filter installed before the  *)
(* get (LOSS_FREE, "with 'guarantee' required").                           *)
DropFilterLosesNothing == LocksEarly => \A p \in 1 .. injected : Accounted(p)

(* LOSS_FREE ("with 'guarantee' required"): when a loss-free move has been *)
(* announced and everything has settled, every packet has taken effect.    *)
LossFree ==
  args.guarantee = "LOSS_FREE" /\ finishes > 0 /\ Quiescent =>
    \A p \in 1 .. injected : Effects(p) >= 1

(* ORDER_PRESERVING ("with 'guarantee' required"): the destination meets   *)
(* the packets of a flow in the order in which they reached the switch.    *)
OrderPreserved ==
  OrderPreserving =>
    \A i, j \in DOMAIN dstLog :
      i < j /\ FlowOf[dstLog[i]] = FlowOf[dstLog[j]] => dstLog[i] <= dstLog[j]

(* The get is over and found nothing, while chunks were to be held back:   *)
(* only a put ack makes the controller look, and none will come.           *)
NothingToMove == Batched /\ ScopeKinds \subseteq getDone /\ exported = {}

(* Every move that asks for less than order eventually ends, unless a      *)
(* local function failed or there was nothing to move and chunks were to   *)
(* be held back.                                                           *)
MoveEnds == ~OrderPreserving ~> (finishes > 0 \/ faults > 0 \/ NothingToMove)

(* An event that is in the list before the transfer is found complete      *)
(* reaches the destination, unless the move cannot end.                    *)
HeldEventsReleased ==
  \A p \in Packets :
    (~OrderPreserving /\ p \in Range(eventsList) /\ ~StateMoved)
      ~> (p \in Range(dstLog) \/ faults > 0 \/ NothingToMove)

(* A move of one kind of state, or one that holds chunks back, implements  *)
(* the abstract transfer; of the others only the movement of the chunks is *)
(* claimed.                                                                *)
T == INSTANCE Transfer WITH
       left     <- exported,
       closed   <- ScopeKinds \subseteq getDone,
       arrived  <- imported,
       reported <- finishes > 0 /\ CountsSettled

ImplementsTransfer == T!Spec

(* The comment in receiveEventsAck: "This is the ack for disable events at *)
(* destination", the step that ends an order-preserving move.              *)
OrderPreservingEnds == OrderPreserving ~> (finishes > 0 \/ faults > 0)
=============================================================================
