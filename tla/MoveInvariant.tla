--------------------------- MODULE MoveInvariant ---------------------------
(***************************************************************************)
(* Why a move that finds its counts equal has transferred everything: the  *)
(* inductive invariant behind CompleteMeansTransferred. A chunk is in one  *)
(* place at a time on its way from the source to the put ack, so counting  *)
(* acks counts chunks; and a get ack carries the number of chunks that     *)
(* left, because no chunk of that kind leaves after it.                    *)
(***************************************************************************)
EXTENDS MoveProperties, QueueTheorems

EventsAck == [type |-> "EventsAck"]
State(c)  == [type |-> "State", chunk |-> c]
Put(c)    == [type |-> "Put", chunk |-> c]
PutMsgs   == [type : {"Put"}, chunk : Chunks]

-----------------------------------------------------------------------------
(* The source has not been asked for state.                                *)
Untouched == srcGet = "none" /\ getDone = {} /\ exported = {}

(* The requests: nothing leaves before the drop filter is in place, and    *)
(* the source is asked at most once for each kind in the move's scope.     *)
RequestsInv ==
  /\ pc["app"] = "start" => toSrc = <<>> /\ fromSrc = <<>> /\ Untouched
  /\ "EnableEvents" \in Range(toSrc) =>
       toSrc = <<"EnableEvents">> /\ fromSrc = <<>> /\ Untouched
  /\ EventsAck \in Range(fromSrc) =>
       fromSrc = <<EventsAck>> /\ toSrc = <<>> /\ Untouched /\ pc["app"] # "start"
  /\ Distinct(toSrc, Kinds)
  /\ \A k \in Kinds : k \in Range(toSrc) => k \in ScopeKinds \ getDone /\ k # srcGet
  /\ srcGet # "none" => srcGet \in ScopeKinds \ getDone
  /\ getDone \subseteq ScopeKinds
  /\ \A c \in exported : KindOf(c) \in ScopeKinds

-----------------------------------------------------------------------------
ExportedCount(k) == Cardinality(exported \cap ChunksOf(k))

(* Thread ss is between setting the flag of kind k and storing its count.  *)
Counting(k) == pc["ss"] = "count" /\ ssMsg.kind = k

(* The counts: a get ack reports what was exported, is received once, and  *)
(* its count is stored one step after its flag.                            *)
CountsInv ==
  /\ Distinct(fromSrc, StateMsgs \cup GetAckMsgs)
  /\ \A m \in Range(fromSrc) : m.type = "GetAck" =>
       m.kind \in getDone /\ ~acked[m.kind] /\ m.count = ExportedCount(m.kind)
  /\ \A k \in Kinds : acked[k] => k \in getDone
  /\ pc["ss"] = "count" => acked[ssMsg.kind] /\ ssMsg.count = ExportedCount(ssMsg.kind)
  /\ \A k \in Kinds : count[k] = IF acked[k] /\ ~Counting(k) THEN ExportedCount(k) ELSE 0

-----------------------------------------------------------------------------
(* The places of a chunk between the source and the end of its put.        *)
Arriving  == {c \in Chunks : State(c) \in Range(fromSrc)}
Sent      == {c \in Chunks : Put(c) \in Range(toDst)}
InAck     == IF pc["de"] = "ack" THEN {deMsg} ELSE {}
Counted   == chunkAck \cup InAck
Pipeline  == putTasks \cup Sent \cup Range(dstAcks) \cup Counted

AllAcked == \A k \in ScopeKinds : acked[k]

(* Chunks are held back and not all counts are stored.                     *)
Withheld == Batched /\ (pc["ss"] = "count" \/ ~AllAcked)

(* A chunk is in one place.                                                *)
PlacesInv ==
  /\ Distinct(toDst, PutMsgs)
  /\ Distinct(dstAcks, Chunks)
  /\ Arriving \cap (statesList \cup Pipeline) = {}
  /\ putTasks \cap (Sent \cup Range(dstAcks) \cup Counted) = {}
  /\ Sent \cap (Range(dstAcks) \cup Counted) = {}
  /\ Range(dstAcks) \cap Counted = {}
  /\ pc["de"] = "ack" => deMsg \notin chunkAck

(* What is on its way has left the source; what is acknowledged has        *)
(* arrived; put acks are counted once; and a move that holds chunks back   *)
(* starts no put before every count is stored.                             *)
ChunksInv ==
  /\ Arriving \cup statesList \cup Pipeline \subseteq exported
  /\ Range(dstAcks) \cup Counted \subseteq imported
  /\ imported \subseteq exported
  /\ \A k \in Kinds : putAcks[k] = Cardinality(Counted \cap ChunksOf(k))
  /\ pc["de"] = "check" => chunkAck # {}
  /\ Withheld => Pipeline = {}

(* The inductive invariant of the transfer.                                *)
TransferInv == TypeOK /\ RequestsInv /\ CountsInv /\ PlacesInv /\ ChunksInv

-----------------------------------------------------------------------------
(* Without a guarantee the source is never asked to report packets.        *)
QuietInv ==
  args.guarantee = "NO_GUARANTEE" =>
    srcEvents = <<>> /\ ~dropFilter /\ "EnableEvents" \notin Range(toSrc)

(* A move that holds chunks back finds the transfer complete once: thread  *)
(* ss never looks, and thread de has no put ack left to look after.        *)
OnceInv ==
  Batched =>
    /\ pc["ss"] \in {"idle", "count"}
    /\ Claimed => /\ ScopeKinds \subseteq getDone /\ exported \subseteq chunkAck
                  /\ pc["de"] \notin {"ack", "check"}
    /\ Completing("de") => ~immediateRelease
    /\ pc["de"] \in {"events", "await"} => finishes = 0
    /\ finishes <= 1

-----------------------------------------------------------------------------
(* The packets on their way to the destination, or there.                  *)
Redirected ==
  {e.pkt : e \in eventTasks} \cup {p \in Packets : PacketOut(p) \in Range(ofq)}
    \cup Range(dstLog) \cup Range(dstBuffer)

(* A chunk holds events of its own flow. Without packet-ins the traffic is *)
(* re-routed after the claim that the transfer is complete, and a packet   *)
(* is redirected after that or after the state of its flow was installed.  *)
FlowsInv == \A c \in Perflow : \A p \in Range(chunkEvents[c]) : FlowOf[p] = c
ReadyInv ==
  packetCount = 0 =>
    /\ FlowMod \in Range(ofq) \/ rule = "dst" => Claimed
    /\ \A p \in Redirected : FlowOf[p] \in imported \/ Claimed

-----------------------------------------------------------------------------
(* The list has been handed to the pool whole; nobody reads it again.      *)
Released == ~OrderPreserving /\ (pc["de"] \in {"await", "release"} \/ immediateRelease)

PlaceNames ==
  {"outside", "arriving", "hand", "reported", "held", "list", "chunk", "task", "sent",
   "buffered", "processed", "applied"}

(* Function place tells where each packet is.                              *)
PlacedBy(place) ==
  /\ \A p \in Packets : p > injected => place[p] = "outside"
  /\ \A p \in Range(srcIn) : place[p] = "arriving"
  /\ srcHand # None => place[srcHand] = "hand"
  /\ \A p \in Range(srcEvents) : place[p] = "reported"
  /\ pc["se"] \in {"list", "chunk"} => place[seMsg] = "held"
  /\ ~Released => \A p \in Range(eventsList) : place[p] = "list"
  /\ \A c \in Perflow : \A p \in Range(chunkEvents[c]) : place[p] = "chunk"
  /\ \A e \in eventTasks : place[e.pkt] = "task"
  /\ \A p \in Packets : PacketOut(p) \in Range(ofq) => place[p] = "sent"
  /\ \A p \in Range(dstBuffer) : place[p] = "buffered"
  /\ \A p \in Range(dstLog) : place[p] = "processed"
  /\ \A p \in applied : place[p] = "applied"

(* No queue holds a packet twice.                                          *)
PacketOuts == [type : {"PacketOut"}, pkt : Packets]
NoRepeats ==
  /\ Distinct(srcIn, Packets) /\ Distinct(srcEvents, Packets)
  /\ ~Released => Distinct(eventsList, Packets)
  /\ \A c \in Perflow : Distinct(chunkEvents[c], Packets)
  /\ \A e1, e2 \in eventTasks : e1.pkt = e2.pkt => e1 = e2
  /\ Distinct(ofq, PacketOuts) /\ Distinct(dstLog, Packets)

(* Where at most one thread releases the list of events, or the list is    *)
(* not used, every packet is in one place, and there once.                 *)
ReleasedOnce == args.optimization \notin {"PZ", "PZ_LL"}
OnePlaceInv ==
  ReleasedOnce =>
    /\ \E place \in [Packets -> PlaceNames] : PlacedBy(place)
    /\ NoRepeats
    /\ EarlyRelease => eventsList = <<>> /\ pc["se"] # "list"
=============================================================================
