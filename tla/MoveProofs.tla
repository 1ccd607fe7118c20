----------------------------- MODULE MoveProofs -----------------------------
(***************************************************************************)
(* Module Move is type correct for every set of chunks, every number of    *)
(* packets and every set of valid arguments; the invariant of the transfer *)
(* of module MoveInvariant holds, with it what a move promises on          *)
(* completion, and a move implements the abstract transfer. Then what      *)
(* happens to the packets that arrive during a move: which of them are     *)
(* reported, that none is lost between the parts of the system, that none  *)
(* takes effect twice, and that none overtakes the state of its flow.      *)
(***************************************************************************)
EXTENDS MoveInvariant, FiniteSetTheorems

-----------------------------------------------------------------------------
(* TypeOK is inductive. *)

(* A step that leaves a group of variables alone keeps their types.        *)
LEMMA TypeStable ==
  ASSUME TypeOK
  PROVE  /\ UNCHANGED args => (args \in Configs)'
         /\ UNCHANGED <<getVars>> => FieldsType'
         /\ UNCHANGED <<eventVars>> => EventsType'
         /\ UNCHANGED <<opVars>> => OperationType'
         /\ UNCHANGED <<pc, msgVars>> => ThreadsType'
         /\ UNCHANGED <<poolVars>> => PoolType'
         /\ UNCHANGED <<srcChan>> => SrcChanType'
         /\ UNCHANGED <<dstChan>> => DstChanType'
         /\ UNCHANGED <<getState, pktState>> => SrcType'
         /\ UNCHANGED <<dstVars>> => DstType'
         /\ UNCHANGED <<faults, netVars>> => NetType'
<1> USE DEF TypeOK
<1>1. UNCHANGED args => (args \in Configs)'
  OBVIOUS
<1>2. UNCHANGED <<getVars>> => FieldsType'
  BY DEF FieldsType, getVars
<1>3. UNCHANGED <<eventVars>> => EventsType'
  BY DEF EventsType, eventVars
<1>4. UNCHANGED <<opVars>> => OperationType'
  BY DEF OperationType, opVars
<1>5. UNCHANGED <<pc, msgVars>> => ThreadsType'
  BY DEF ThreadsType, msgVars
<1>6. UNCHANGED <<poolVars>> => PoolType'
  BY DEF PoolType, poolVars
<1>7. UNCHANGED <<srcChan>> => SrcChanType'
  BY DEF SrcChanType, srcChan
<1>8. UNCHANGED <<dstChan>> => DstChanType'
  BY DEF DstChanType, dstChan
<1>9. UNCHANGED <<getState, pktState>> => SrcType'
  BY DEF SrcType, getState, pktState
<1>10. UNCHANGED <<dstVars>> => DstType'
  BY DEF DstType, dstVars
<1>11. UNCHANGED <<faults, netVars>> => NetType'
  BY DEF NetType, netVars
<1>12. QED
  BY <1>1, <1>2, <1>3, <1>4, <1>5, <1>6, <1>7, <1>8, <1>9, <1>10, <1>11

(* What execute and receiveEventsAck send is a queue of requests.          *)
LEMMA RequestsType ==
  /\ GetRequests \in Seq({"EnableEvents"} \cup Kinds)
  /\ <<"EnableEvents">> \in Seq({"EnableEvents"} \cup Kinds)
<1> DEFINE S == {"EnableEvents"} \cup Kinds
<1>1. "pf" \in S /\ "mf" \in S /\ "EnableEvents" \in S
  BY DEF Kinds
<1> HIDE DEF S
<1>2. <<"pf">> \in Seq(S) /\ <<"mf">> \in Seq(S) /\ <<"EnableEvents">> \in Seq(S)
  BY <1>1
<1>3. <<"pf", "mf">> \in Seq(S)
  BY <1>1
<1>4. QED
  BY <1>2, <1>3 DEF GetRequests, S

(* The chunks of a kind among the exported ones can be counted.            *)
LEMMA CountType ==
  ASSUME SrcType, NEW k
  PROVE  /\ IsFiniteSet(exported \cap ChunksOf(k))
         /\ Cardinality(exported \cap ChunksOf(k)) \in Nat
<1>1. IsFiniteSet(ChunksOf(k))
  BY ChunksAssumption DEF ChunksOf
<1>2. IsFiniteSet(exported \cap ChunksOf(k))
  BY <1>1, FS_Subset
<1>3. QED
  BY <1>2, FS_CardinalityType

(* Every step of the specification keeps the types: one case per action.   *)
LEMMA TypeStep ==
  TypeOK /\ [Next]_vars => TypeOK'
<1> SUFFICES ASSUME TypeOK, [Next]_vars
             PROVE  TypeOK'
  OBVIOUS
<1> USE BoundsAssumption
<1>1. CASE execute
  <2>1. ThreadsType'
    BY <1>1 DEF TypeOK, ThreadsType, SrcChanType, execute, Goto, Threads, Labels,
       GetAckMsgs, StateMsgs, SrcMsgs, GetRequests, msgVars, srcChan
  <2>2. SrcChanType'
    <3>1. toSrc' \in Seq({"EnableEvents"} \cup Kinds)
      BY <1>1, RequestsType, ConcatProperties DEF TypeOK, SrcChanType, execute
    <3>2. QED
      BY <1>1, <3>1 DEF TypeOK, SrcChanType, execute
  <2>3. QED
    BY <1>1, <2>1, <2>2, TypeStable DEF TypeOK, execute
<1>2. CASE receiveEventsAckSrc
  <2>1. SrcChanType'
    <3>1. toSrc' \in Seq({"EnableEvents"} \cup Kinds)
      BY <1>2, RequestsType, ConcatProperties DEF TypeOK, SrcChanType, receiveEventsAckSrc
    <3>2. QED
      BY <1>2, <3>1 DEF TypeOK, SrcChanType, receiveEventsAckSrc
  <2>2. QED
    BY <1>2, <2>1, TypeStable DEF TypeOK, receiveEventsAckSrc
<1>3. CASE receiveStateMessage
  <2>1. FieldsType'
    BY <1>3, SMTT(30) DEF TypeOK, FieldsType, PoolType, SrcChanType, receiveStateMessage, Kinds,
       KindOf, GetAckMsgs, StateMsgs, SrcMsgs, getVars, poolVars, srcChan
  <2>2. PoolType'
    BY <1>3 DEF TypeOK, PoolType, FieldsType, SrcChanType, receiveStateMessage, EventTasks,
       GetAckMsgs, StateMsgs, SrcMsgs, getVars, poolVars, srcChan
  <2>3. SrcChanType'
    BY <1>3 DEF TypeOK, SrcChanType, FieldsType, PoolType, receiveStateMessage, Kinds,
       SrcMsgs, StateMsgs, GetAckMsgs, getVars, poolVars, srcChan
  <2>4. QED
    BY <1>3, <2>1, <2>2, <2>3, TypeStable DEF TypeOK, receiveStateMessage
<1>4. CASE receiveGetAck
  <2>1. FieldsType'
    BY <1>4 DEF TypeOK, FieldsType, ThreadsType, SrcChanType, receiveGetAck, Kinds, KindOf,
       GetAckMsgs, StateMsgs, SrcMsgs, getVars, msgVars, srcChan
  <2>2. ThreadsType'
    BY <1>4 DEF TypeOK, ThreadsType, FieldsType, SrcChanType, receiveGetAck, Goto, Threads,
       Labels, GetAckMsgs, StateMsgs, SrcMsgs, getVars, msgVars, srcChan
  <2>3. SrcChanType'
    BY <1>4 DEF TypeOK, SrcChanType, FieldsType, ThreadsType, receiveGetAck, Kinds, SrcMsgs,
       StateMsgs, GetAckMsgs, getVars, msgVars, srcChan
  <2>4. QED
    BY <1>4, <2>1, <2>2, <2>3, TypeStable DEF TypeOK, receiveGetAck
<1>5. CASE setGetCount
  <2>1. FieldsType'
    BY <1>5 DEF TypeOK, FieldsType, ThreadsType, PoolType, setGetCount, Kinds, KindOf,
       GetAckMsgs, StateMsgs, SrcMsgs, getVars, msgVars, poolVars
  <2>2. ThreadsType'
    BY <1>5 DEF TypeOK, ThreadsType, FieldsType, PoolType, setGetCount, Goto, AfterGetAck, Threads,
       Labels, GetAckMsgs, StateMsgs, SrcMsgs, getVars, msgVars, poolVars
  <2>3. PoolType'
    BY <1>5 DEF TypeOK, PoolType, FieldsType, ThreadsType, setGetCount, EventTasks,
       GetAckMsgs, StateMsgs, SrcMsgs, getVars, msgVars, poolVars
  <2>4. QED
    BY <1>5, <2>1, <2>2, <2>3, TypeStable DEF TypeOK, setGetCount
<1>6. CASE receivePutAck
  <2>1. FieldsType'
    BY <1>6, SMTT(30) DEF TypeOK, FieldsType, ThreadsType, DstChanType, receivePutAck, Kinds, KindOf,
       GetAckMsgs, StateMsgs, SrcMsgs, getVars, msgVars, dstChan
  <2>2. ThreadsType'
    BY <1>6 DEF TypeOK, ThreadsType, FieldsType, DstChanType, receivePutAck, Goto, Threads,
       Labels, GetAckMsgs, StateMsgs, SrcMsgs, getVars, msgVars, dstChan
  <2>3. DstChanType'
    BY <1>6 DEF TypeOK, DstChanType, FieldsType, ThreadsType, receivePutAck, DstMsgs,
       getVars, msgVars, dstChan
  <2>4. QED
    BY <1>6, <2>1, <2>2, <2>3, TypeStable DEF TypeOK, receivePutAck
<1>7. CASE releaseChunkEvents
  <2>1. EventsType'
    BY <1>7, EmptySeq DEF TypeOK, EventsType, ThreadsType, releaseChunkEvents, Goto,
       eventVars
  <2>2. ThreadsType'
    BY <1>7 DEF TypeOK, ThreadsType, EventsType, NetType, releaseChunkEvents, Goto, Threads,
       Labels, GetAckMsgs, StateMsgs, SrcMsgs, PacketOut, eventVars, msgVars, netVars
  <2>3. NetType'
    <3>1. CASE deMsg \in Perflow
      <4> DEFINE held == chunkEvents[deMsg]
                 sent == [i \in 1 .. Len(held) |-> PacketOut(held[i])]
      <4>1. held \in Seq(Packets)
        BY <3>1 DEF TypeOK, EventsType
      <4>2. \A i \in 1 .. Len(held) : PacketOut(held[i]) \in SwitchMsgs
        BY <4>1 DEF PacketOut, SwitchMsgs
      <4>3. sent \in Seq(SwitchMsgs)
        BY <4>1, <4>2, LenProperties, IsASeq
      <4>4. ofq' = ofq \o sent
        BY <1>7, <3>1 DEF releaseChunkEvents
      <4>5. ofq' \in Seq(SwitchMsgs)
        <5> HIDE DEF sent
        <5>1. QED
          BY <4>3, <4>4, ConcatProperties DEF TypeOK, NetType
      <4>6. QED
        BY <1>7, <4>5 DEF TypeOK, NetType, releaseChunkEvents
    <3>2. CASE deMsg \notin Perflow
      BY <1>7, <3>2 DEF TypeOK, NetType, releaseChunkEvents
    <3>3. QED
      BY <3>1, <3>2
  <2>4. QED
    BY <1>7, <2>1, <2>2, <2>3, TypeStable DEF TypeOK, releaseChunkEvents
<1>8. CASE receiveReprocess
  <2>1. ThreadsType'
    BY <1>8 DEF TypeOK, ThreadsType, PoolType, SrcChanType, EventsType, receiveReprocess,
       Goto, Threads, Labels, GetAckMsgs, StateMsgs, SrcMsgs, msgVars, poolVars, srcChan
  <2>2. PoolType'
    BY <1>8 DEF TypeOK, PoolType, ThreadsType, SrcChanType, receiveReprocess, EventTasks,
       GetAckMsgs, StateMsgs, SrcMsgs, msgVars, poolVars, srcChan
  <2>3. SrcChanType'
    BY <1>8 DEF TypeOK, SrcChanType, ThreadsType, PoolType, receiveReprocess, Kinds,
       SrcMsgs, StateMsgs, GetAckMsgs, msgVars, poolVars, srcChan
  <2>4. QED
    BY <1>8, <2>1, <2>2, <2>3, TypeStable DEF TypeOK, receiveReprocess
<1>9. CASE holdEvent
  <2>1. EventsType'
    <3>1. seMsg \in Packets
      BY <1>9 DEF TypeOK, ThreadsType, holdEvent, Goto
    <3>2. eventsList' \in Seq(Packets)
      <4>1. Append(eventsList, seMsg) \in Seq(Packets)
        BY <3>1, AppendProperties DEF TypeOK, EventsType
      <4>2. QED
        BY <1>9, <4>1 DEF TypeOK, EventsType, holdEvent
    <3>3. chunkEvents' \in [Perflow -> Seq(Packets)]
      <4> DEFINE c == FlowOf[seMsg]
                 held == Append(chunkEvents[c], seMsg)
      <4>1. c \in Perflow /\ chunkEvents[c] \in Seq(Packets)
        BY <3>1 DEF TypeOK, EventsType
      <4>2. held \in Seq(Packets)
        BY <3>1, <4>1, AppendProperties
      <4>3. chunkEvents' = [chunkEvents EXCEPT ![c] = held] \/ chunkEvents' = chunkEvents
        BY <1>9 DEF holdEvent
      <4> HIDE DEF held, c
      <4>4. QED
        BY <4>2, <4>3 DEF TypeOK, EventsType
    <3>4. QED
      BY <1>9, <3>2, <3>3 DEF TypeOK, EventsType, holdEvent
  <2>2. ThreadsType'
    BY <1>9 DEF TypeOK, ThreadsType, EventsType, holdEvent, Goto, Threads, Labels,
       GetAckMsgs, StateMsgs, SrcMsgs, eventVars, msgVars
  <2>3. QED
    BY <1>9, <2>1, <2>2, TypeStable DEF TypeOK, holdEvent
<1>10. CASE receiveEventsAckDst
  <2>1. OperationType'
    BY <1>10 DEF TypeOK, OperationType, DstChanType, receiveEventsAckDst, opVars, dstChan
  <2>2. DstChanType'
    <3>1. dstEventsAcks' \in Nat
      BY <1>10 DEF TypeOK, DstChanType, receiveEventsAckDst
    <3>2. QED
      BY <1>10, <3>1 DEF TypeOK, DstChanType, receiveEventsAckDst
  <2>3. QED
    BY <1>10, <2>1, <2>2, TypeStable DEF TypeOK, receiveEventsAckDst
<1>11. CASE handle_enable_events
  <2>1. SrcChanType'
    BY <1>11 DEF TypeOK, SrcChanType, SrcType, handle_enable_events, Kinds, SrcMsgs,
       StateMsgs, GetAckMsgs, srcChan, getState, pktState
  <2>2. SrcType'
    BY <1>11 DEF TypeOK, SrcType, SrcChanType, handle_enable_events, Kinds, srcChan,
       getState, pktState
  <2>3. QED
    BY <1>11, <2>1, <2>2, TypeStable DEF TypeOK, handle_enable_events
<1>12. CASE handle_get
  <2>1. SrcChanType'
    BY <1>12 DEF TypeOK, SrcChanType, SrcType, handle_get, Kinds, SrcMsgs, StateMsgs,
       GetAckMsgs, srcChan, getState, pktState
  <2>2. SrcType'
    BY <1>12 DEF TypeOK, SrcType, SrcChanType, handle_get, Kinds, srcChan, getState,
       pktState
  <2>3. QED
    BY <1>12, <2>1, <2>2, TypeStable DEF TypeOK, handle_get
<1>13. CASE send_get_ack
  <2>1. SrcChanType'
    <3>1. Cardinality(exported \cap ChunksOf(srcGet)) \in Nat
      BY CountType DEF TypeOK
    <3>2. [type |-> "GetAck", kind |-> srcGet,
           count |-> Cardinality(exported \cap ChunksOf(srcGet))] \in SrcMsgs
      BY <1>13, <3>1 DEF TypeOK, SrcType, send_get_ack, SrcMsgs, GetAckMsgs
    <3>3. QED
      BY <1>13, <3>2 DEF TypeOK, SrcChanType, send_get_ack
  <2>2. SrcType'
    BY <1>13 DEF TypeOK, SrcType, SrcChanType, send_get_ack, Kinds, srcChan, getState,
       pktState
  <2>3. QED
    BY <1>13, <2>1, <2>2, TypeStable DEF TypeOK, send_get_ack
<1>14. CASE sdmbn_preprocess_packet
  <2>1. SrcChanType'
    <3>1. Head(srcIn) \in Packets
      BY <1>14 DEF TypeOK, NetType, sdmbn_preprocess_packet
    <3>2. Append(srcEvents, Head(srcIn)) \in Seq(Packets)
      BY <3>1 DEF TypeOK, SrcChanType
    <3>3. QED
      BY <1>14, <3>2 DEF TypeOK, SrcChanType, sdmbn_preprocess_packet
  <2>2. SrcType'
    BY <1>14 DEF TypeOK, SrcType, SrcChanType, NetType, sdmbn_preprocess_packet, Kinds,
       srcChan, getState, pktState, netVars
  <2>3. NetType'
    BY <1>14 DEF TypeOK, NetType, SrcChanType, SrcType, sdmbn_preprocess_packet, SwitchMsgs,
       srcChan, getState, pktState, netVars
  <2>4. QED
    BY <1>14, <2>1, <2>2, <2>3, TypeStable DEF TypeOK, sdmbn_preprocess_packet
<1>15. CASE process_packet
  <2>1. SrcChanType'
    BY <1>15 DEF TypeOK, SrcChanType, SrcType, process_packet, Kinds, SrcMsgs, StateMsgs,
       GetAckMsgs, srcChan, getState, pktState
  <2>2. SrcType'
    BY <1>15 DEF TypeOK, SrcType, SrcChanType, process_packet, Kinds, srcChan, getState,
       pktState
  <2>3. QED
    BY <1>15, <2>1, <2>2, TypeStable DEF TypeOK, process_packet
<1>16. CASE handle_put
  <2>1. DstChanType'
    BY <1>16 DEF TypeOK, DstChanType, DstType, handle_put, DstMsgs, dstChan, dstVars
  <2>2. DstType'
    BY <1>16 DEF TypeOK, DstType, DstChanType, handle_put, DstMsgs
  <2>3. QED
    BY <1>16, <2>1, <2>2, TypeStable DEF TypeOK, handle_put
<1>17. CASE handle_enable_buffer
  <2>1. DstChanType'
    BY <1>17 DEF TypeOK, DstChanType, DstType, handle_enable_buffer, DstMsgs, dstChan,
       dstVars
  <2>2. DstType'
    BY <1>17 DEF TypeOK, DstType, DstChanType, handle_enable_buffer, dstChan, dstVars
  <2>3. QED
    BY <1>17, <2>1, <2>2, TypeStable DEF TypeOK, handle_enable_buffer
<1>18. CASE installRule
  <2>1. NetType'
    BY <1>18 DEF TypeOK, NetType, installRule, SwitchMsgs, netVars
  <2>2. QED
    BY <1>18, <2>1, TypeStable DEF TypeOK, installRule
<1>19. CASE packetOut
  <2>1. DstType'
    <3>1. Head(ofq).pkt \in Packets
      BY <1>19 DEF TypeOK, NetType, packetOut, SwitchMsgs
    <3>2. dstLog' \in Seq(Packets) /\ dstBuffer' \in Seq(Packets)
      BY <1>19, <3>1, SMTT(30) DEF TypeOK, DstType, packetOut, DstReceive
    <3>3. QED
      BY <1>19, <3>2 DEF TypeOK, DstType, packetOut
  <2>2. NetType'
    BY <1>19 DEF TypeOK, NetType, DstType, packetOut, SwitchMsgs, DstReceive, dstVars,
       netVars
  <2>3. QED
    BY <1>19, <2>1, <2>2, TypeStable DEF TypeOK, packetOut
<1>20. CASE receivePacket
  <2>1. OperationType'
    BY <1>20 DEF TypeOK, OperationType, NetType, receivePacket, FlowMod, opVars, netVars
  <2>2. NetType'
    BY <1>20 DEF TypeOK, NetType, OperationType, receivePacket, SwitchMsgs, FlowMod, opVars,
       netVars
  <2>3. QED
    BY <1>20, <2>1, <2>2, TypeStable DEF TypeOK, receivePacket
<1>21. CASE forward
  <2>1. DstType'
    <3>1. injected + 1 \in Packets
      BY <1>21 DEF TypeOK, NetType, forward, Packets
    <3>2. dstLog' \in Seq(Packets) /\ dstBuffer' \in Seq(Packets)
      <4>1. dstLog \in Seq(Packets) /\ dstBuffer \in Seq(Packets)
        BY DEF TypeOK, DstType
      <4>2. /\ Append(dstLog, injected + 1) \in Seq(Packets)
            /\ Append(dstBuffer, injected + 1) \in Seq(Packets)
        BY <3>1, <4>1, AppendProperties
      <4>3. /\ dstLog' = Append(dstLog, injected + 1) \/ dstLog' = dstLog
            /\ dstBuffer' = Append(dstBuffer, injected + 1) \/ dstBuffer' = dstBuffer
        BY <1>21 DEF forward, DstReceive
      <4>4. QED
        BY <4>1, <4>2, <4>3
    <3>3. QED
      BY <1>21, <3>2 DEF TypeOK, DstType, forward
  <2>2. NetType'
    <3>1. injected + 1 \in 0 .. NumPackets /\ injected + 1 \in Packets
      BY <1>21 DEF TypeOK, NetType, forward, Packets
    <3>2. srcIn' \in Seq(Packets)
      <4>1. srcIn \in Seq(Packets)
        BY DEF TypeOK, NetType
      <4>2. Append(srcIn, injected + 1) \in Seq(Packets)
        BY <3>1, <4>1, AppendProperties
      <4>3. srcIn' = Append(srcIn, injected + 1) \/ srcIn' = srcIn
        BY <1>21 DEF forward
      <4>4. QED
        BY <4>1, <4>2, <4>3
    <3>3. QED
      BY <1>21, <3>1, <3>2 DEF TypeOK, NetType, forward
  <2>3. QED
    BY <1>21, <2>1, <2>2, TypeStable DEF TypeOK, forward
<1>22. CASE get_fails
  <2>1. SrcType'
    BY <1>22 DEF TypeOK, SrcType, NetType, get_fails, Kinds, getState, pktState, netVars
  <2>2. NetType'
    BY <1>22 DEF TypeOK, NetType, SrcType, get_fails, SwitchMsgs, getState, pktState,
       netVars
  <2>3. QED
    BY <1>22, <2>1, <2>2, TypeStable DEF TypeOK, get_fails
<1>23. CASE put_fails
  <2>1. DstChanType'
    BY <1>23 DEF TypeOK, DstChanType, NetType, put_fails, DstMsgs, dstChan, netVars
  <2>2. NetType'
    BY <1>23 DEF TypeOK, NetType, DstChanType, put_fails, SwitchMsgs, dstChan, netVars
  <2>3. QED
    BY <1>23, <2>1, <2>2, TypeStable DEF TypeOK, put_fails
<1>24. ASSUME NEW t \in {"ss", "de"}, checkIfStateMoved(t)
      PROVE  TypeOK'
  <2>1. ThreadsType'
    BY <1>24 DEF TypeOK, ThreadsType, DstChanType, NetType, checkIfStateMoved, Goto,
       Threads, Labels, GetAckMsgs, StateMsgs, SrcMsgs, FlowMod, msgVars, dstChan, netVars
  <2>2. DstChanType'
    BY <1>24 DEF TypeOK, DstChanType, ThreadsType, NetType, checkIfStateMoved, DstMsgs,
       FlowMod, msgVars, dstChan, netVars
  <2>3. NetType'
    BY <1>24 DEF TypeOK, NetType, ThreadsType, DstChanType, checkIfStateMoved, SwitchMsgs,
       FlowMod, msgVars, dstChan, netVars
  <2>4. QED
    BY <1>24, <2>1, <2>2, <2>3, TypeStable DEF TypeOK, checkIfStateMoved
<1>25. ASSUME NEW t \in {"ss", "de"}, releaseEvents(t)
      PROVE  TypeOK'
  <2>1. EventsType'
    <3>1. eventsList # <<>> => Tail(eventsList) \in Seq(Packets)
      BY RangeTail DEF TypeOK, EventsType
    <3>2. QED
      BY <1>25, <3>1 DEF TypeOK, EventsType, releaseEvents, eventVars
  <2>2. ThreadsType'
    BY <1>25 DEF TypeOK, ThreadsType, EventsType, PoolType, releaseEvents, Goto, Threads,
       Labels, GetAckMsgs, StateMsgs, SrcMsgs, eventVars, msgVars, poolVars
  <2>3. PoolType'
    <3>1. Range(eventsList) \subseteq Packets /\ (eventsList # <<>> => Head(eventsList) \in Packets)
      BY RangeType, RangeTail DEF TypeOK, EventsType
    <3>2. QED
      BY <1>25, <3>1 DEF TypeOK, PoolType, releaseEvents, EventTasks, poolVars
  <2>4. QED
    BY <1>25, <2>1, <2>2, <2>3, TypeStable DEF TypeOK, releaseEvents
<1>26. ASSUME NEW t \in {"ss", "de"}, awaitEvents(t)
      PROVE  TypeOK'
  <2>1. OperationType'
    BY <1>26 DEF TypeOK, OperationType, ThreadsType, awaitEvents, opVars, msgVars
  <2>2. ThreadsType'
    BY <1>26 DEF TypeOK, ThreadsType, OperationType, awaitEvents, Goto, Threads, Labels,
       GetAckMsgs, StateMsgs, SrcMsgs, opVars, msgVars
  <2>3. QED
    BY <1>26, <2>1, <2>2, TypeStable DEF TypeOK, awaitEvents
<1>27. ASSUME NEW t \in {"ss", "de"}, setImmediateRelease(t)
      PROVE  TypeOK'
  <2>1. EventsType'
    BY <1>27 DEF TypeOK, EventsType, ThreadsType, setImmediateRelease, eventVars, msgVars
  <2>2. ThreadsType'
    BY <1>27 DEF TypeOK, ThreadsType, EventsType, setImmediateRelease, Goto, Threads,
       Labels, GetAckMsgs, StateMsgs, SrcMsgs, eventVars, msgVars
  <2>3. QED
    BY <1>27, <2>1, <2>2, TypeStable DEF TypeOK, setImmediateRelease
<1>28. ASSUME NEW c \in putTasks, callChunk(c)
      PROVE  TypeOK'
  <2>1. PoolType'
    BY <1>28 DEF TypeOK, PoolType, DstChanType, callChunk, EventTasks, GetAckMsgs,
       StateMsgs, SrcMsgs, poolVars, dstChan
  <2>2. DstChanType'
    BY <1>28 DEF TypeOK, DstChanType, PoolType, callChunk, DstMsgs, poolVars, dstChan
  <2>3. QED
    BY <1>28, <2>1, <2>2, TypeStable DEF TypeOK, callChunk
<1>29. ASSUME NEW e \in eventTasks, callEvent(e)
      PROVE  TypeOK'
  <2>1. PoolType'
    BY <1>29 DEF TypeOK, PoolType, NetType, callEvent, EventTasks, GetAckMsgs, StateMsgs,
       SrcMsgs, PacketOut, poolVars, netVars
  <2>2. NetType'
    BY <1>29 DEF TypeOK, NetType, PoolType, callEvent, EventTasks, SwitchMsgs, PacketOut,
       netVars
  <2>3. QED
    BY <1>29, <2>1, <2>2, TypeStable DEF TypeOK, callEvent
<1>30. ASSUME NEW c \in Chunks, send_state(c)
      PROVE  TypeOK'
  <2>1. SrcChanType'
    BY <1>30 DEF TypeOK, SrcChanType, SrcType, send_state, Kinds, SrcMsgs, StateMsgs,
       GetAckMsgs, srcChan, getState, pktState
  <2>2. SrcType'
    BY <1>30 DEF TypeOK, SrcType, SrcChanType, send_state, Kinds, srcChan, getState,
       pktState
  <2>3. QED
    BY <1>30, <2>1, <2>2, TypeStable DEF TypeOK, send_state
<1>31. CASE UNCHANGED vars
  BY <1>31, TypeStable DEF TypeOK, vars
<1>32. QED
  BY <1>1, <1>2, <1>3, <1>4, <1>5, <1>6, <1>7, <1>8, <1>9, <1>10, <1>11, <1>12, <1>13,
     <1>14, <1>15, <1>16, <1>17, <1>18, <1>19, <1>20, <1>21, <1>22, <1>23, <1>24, <1>25,
     <1>26, <1>27, <1>28, <1>29, <1>30, <1>31
     DEF Next, Controller, SrcNF, DstNF, Switch, Environment

(* The fields as the constructor and the network functions set them.       *)
LEMMA InitTypes ==
  Init => TypeOK
<1> SUFFICES ASSUME Init
             PROVE  TypeOK
  OBVIOUS
<1> USE BoundsAssumption, EmptySeq DEF Init
<1>1. FieldsType
  <2>1. acked \in [Kinds -> BOOLEAN]
    OBVIOUS
  <2>2. count \in [Kinds -> Nat] /\ putAcks \in [Kinds -> Nat]
    OBVIOUS
  <2>3. QED
    BY <2>1, <2>2 DEF FieldsType
<1>2. args \in Configs /\ OperationType
  <2>1. args \in Configs /\ bufferingEnabled \in BOOLEAN
    OBVIOUS
  <2>2. packetCount \in 0 .. MaxPacketIns /\ finishes \in Nat
    OBVIOUS
  <2>3. QED
    BY <2>1, <2>2 DEF OperationType
<1>3. EventsType
  BY DEF EventsType
<1>4. ThreadsType /\ PoolType
  BY DEF ThreadsType, PoolType, Threads, Labels, GetAckMsgs, Kinds
<1>5. SrcChanType /\ DstChanType
  BY DEF SrcChanType, DstChanType
<1>6. SrcType /\ DstType
  BY DEF SrcType, DstType
<1>7. NetType
  BY DEF NetType
<1>8. QED
  BY <1>1, <1>2, <1>3, <1>4, <1>5, <1>6, <1>7 DEF TypeOK

(* Types hold in every reachable state: no handler stores a value its      *)
(* field, queue or connection cannot hold.                                 *)
THEOREM TypeCorrect == Spec => []TypeOK
<1>1. QED
  BY InitTypes, TypeStep, PTL DEF Spec

-----------------------------------------------------------------------------
(* The transfer. *)

(* The arguments of the move never change, nor does what they select.      *)
LEMMA ArgsStable ==
  ASSUME UNCHANGED args
  PROVE  /\ ScopeKinds' = ScopeKinds
         /\ Batched' <=> Batched
         /\ CountsSettled' <=> CountsSettled
  BY DEF ScopeKinds, Batched, CountsSettled

(* A chunk belongs to the kind it is exported with.                        *)
LEMMA KindOfChunk ==
  ASSUME NEW k \in Kinds, NEW c \in ChunksOf(k)
  PROVE  KindOf(c) = k
  BY ChunksAssumption DEF Kinds, ChunksOf, KindOf

-----------------------------------------------------------------------------
(* Requests.                                                               *)

(* A step that concerns neither the requests nor the gets.                 *)
RequestsFrame ==
  /\ UNCHANGED <<args, toSrc, fromSrc, srcGet, getDone, exported>>
  /\ pc'["app"] = pc["app"]

(* Every step leaves the requests alone or is one of these actions.        *)
LEMMA RequestsFrameCases ==
  ASSUME TypeOK, Next
  PROVE  \/ RequestsFrame
         \/ execute
         \/ receiveEventsAckSrc
         \/ receiveStateMessage
         \/ receiveGetAck
         \/ handle_enable_events
         \/ handle_get
         \/ \E c \in Chunks : send_state(c)
         \/ send_get_ack
         \/ get_fails
<1>1. pc \in [Threads -> Labels]
  BY DEF TypeOK, ThreadsType
<1> USE <1>1 DEF RequestsFrame, Threads
<1>2. CASE setGetCount
  BY <1>2 DEF setGetCount, Goto, AfterGetAck, srcChan, getState
<1>3. CASE receivePutAck
  BY <1>3 DEF receivePutAck, Goto, srcChan, getState
<1>4. CASE releaseChunkEvents
  BY <1>4 DEF releaseChunkEvents, Goto, srcChan, getState
<1>5. ASSUME NEW t \in {"ss", "de"}, checkIfStateMoved(t)
      PROVE  RequestsFrame
  BY <1>5 DEF checkIfStateMoved, Goto, srcChan, getState
<1>6. ASSUME NEW t \in {"ss", "de"}, releaseEvents(t)
      PROVE  RequestsFrame
  BY <1>6 DEF releaseEvents, Goto, srcChan, getState
<1>7. ASSUME NEW t \in {"ss", "de"}, awaitEvents(t)
      PROVE  RequestsFrame
  BY <1>7 DEF awaitEvents, Goto, srcChan, getState
<1>8. ASSUME NEW t \in {"ss", "de"}, setImmediateRelease(t)
      PROVE  RequestsFrame
  BY <1>8 DEF setImmediateRelease, Goto, srcChan, getState
<1>9. CASE receiveReprocess
  BY <1>9 DEF receiveReprocess, Goto, srcChan, getState
<1>10. CASE holdEvent
  BY <1>10 DEF holdEvent, Goto, srcChan, getState
<1>11. ASSUME NEW c \in putTasks, callChunk(c)
      PROVE  RequestsFrame
  BY <1>11 DEF callChunk, srcChan, getState
<1>12. ASSUME NEW e \in eventTasks, callEvent(e)
      PROVE  RequestsFrame
  BY <1>12 DEF callEvent, srcChan, getState
<1>13. CASE receiveEventsAckDst
  BY <1>13 DEF receiveEventsAckDst, srcChan, getState
<1>14. CASE sdmbn_preprocess_packet
  BY <1>14 DEF sdmbn_preprocess_packet, srcChan, getState
<1>15. CASE process_packet
  BY <1>15 DEF process_packet, srcChan, getState
<1>16. CASE handle_put
  BY <1>16 DEF handle_put, srcChan, getState
<1>17. CASE handle_enable_buffer
  BY <1>17 DEF handle_enable_buffer, srcChan, getState
<1>18. CASE installRule
  BY <1>18 DEF installRule, srcChan, getState
<1>19. CASE packetOut
  BY <1>19 DEF packetOut, srcChan, getState
<1>20. CASE receivePacket
  BY <1>20 DEF receivePacket, srcChan, getState
<1>21. CASE forward
  BY <1>21 DEF forward, srcChan, getState
<1>22. CASE put_fails
  BY <1>22 DEF put_fails, srcChan, getState
<1> HIDE DEF RequestsFrame
<1>23. QED
  BY <1>2, <1>3, <1>4, <1>5, <1>6, <1>7, <1>8, <1>9, <1>10, <1>11, <1>12, <1>13, <1>14,
     <1>15, <1>16, <1>17, <1>18, <1>19, <1>20, <1>21, <1>22 DEF Next, Controller, SrcNF,
     DstNF, Switch, Environment

(* The requests issueGet sends: each kind in scope, once.                  *)
LEMMA RequestsSent ==
  ASSUME TypeOK
  PROVE  /\ GetRequests \in Seq(Kinds)
         /\ Range(GetRequests) = ScopeKinds
         /\ Distinct(GetRequests, Kinds)
<1> USE DEF Kinds
<1>1. <<"pf">> \in Seq(Kinds) /\ <<"mf">> \in Seq(Kinds) /\ <<"pf", "mf">> \in Seq(Kinds)
  OBVIOUS
<1>2. Range(<<"pf">>) = {"pf"} /\ Range(<<"mf">>) = {"mf"} /\ Range(<<"pf", "mf">>) = {"pf", "mf"}
  BY DEF Range
<1>3. Distinct(<<"pf">>, Kinds) /\ Distinct(<<"mf">>, Kinds) /\ Distinct(<<"pf", "mf">>, Kinds)
  BY DEF Distinct
<1>4. args.scope \in Scopes
  BY ConfigsAssumption DEF TypeOK, ValidConfigs
<1>5. QED
  BY <1>1, <1>2, <1>3, <1>4 DEF GetRequests, ScopeKinds, ScopeOf, Scopes

(* Every step keeps the invariant of the requests.                         *)
LEMMA RequestsStep ==
  ASSUME TypeOK, RequestsInv, Next
  PROVE  RequestsInv'
<1>1. /\ toSrc \in Seq({"EnableEvents"} \cup Kinds) /\ fromSrc \in Seq(SrcMsgs)
      /\ srcGet \in Kinds \cup {"none"} /\ pc \in [Threads -> Labels]
  BY DEF TypeOK, SrcChanType, SrcType, ThreadsType
<1>2. CASE RequestsFrame
  <2>1. ScopeKinds' = ScopeKinds
    BY <1>2, ArgsStable DEF RequestsFrame
  <2>2. QED
    BY <1>2, <2>1 DEF RequestsInv, RequestsFrame, Untouched
<1>3. CASE execute
  <2>1. /\ toSrc = <<>> /\ fromSrc = <<>> /\ Untouched /\ pc'["app"] = "idle"
        /\ fromSrc' = fromSrc /\ Untouched' /\ ScopeKinds' = ScopeKinds
    BY <1>1, <1>3, ArgsStable DEF execute, Goto, RequestsInv, Untouched, getState, Threads
  <2>2. Range(fromSrc') = {}
    BY <2>1, EmptyQueue
  <2>3. CASE LocksEarly
    <3>1. toSrc' = <<"EnableEvents">>
      BY <1>3, <2>1, <2>3 DEF execute
    <3>2. Range(toSrc') = {"EnableEvents"} /\ Distinct(toSrc', Kinds)
      BY <3>1 DEF Range, Distinct, Kinds
    <3>3. QED
      BY <2>1, <2>2, <3>1, <3>2 DEF RequestsInv, Untouched, Kinds
  <2>4. CASE ~LocksEarly
    <3>1. toSrc' = GetRequests
      BY <1>3, <2>1, <2>4, RequestsSent, ConcatEmptySeq DEF execute
    <3>2. Range(toSrc') = ScopeKinds /\ Distinct(toSrc', Kinds) /\ "EnableEvents" \notin ScopeKinds
      BY <3>1, RequestsSent DEF ScopeKinds, Kinds
    <3>3. QED
      BY <2>1, <2>2, <3>2 DEF RequestsInv, Untouched, Kinds
  <2>5. QED
    BY <2>3, <2>4
<1>4. CASE receiveEventsAckSrc
  <2>1. Head(fromSrc) = EventsAck /\ Head(fromSrc) \in Range(fromSrc)
    BY <1>1, <1>4, RangeTail
       DEF receiveEventsAckSrc, EventsAck, SrcMsgs, StateMsgs, GetAckMsgs
  <2>2. /\ fromSrc = <<EventsAck>> /\ toSrc = <<>> /\ Untouched /\ pc["app"] # "start"
        /\ Untouched' /\ pc' = pc /\ ScopeKinds' = ScopeKinds
    BY <1>4, <2>1, ArgsStable DEF receiveEventsAckSrc, RequestsInv, Untouched, getState
  <2>3. fromSrc' = <<>> /\ Range(fromSrc') = {}
    BY <1>4, <2>2, EmptyQueue DEF receiveEventsAckSrc
  <2>4. toSrc' = GetRequests
    BY <1>4, <2>2, RequestsSent, ConcatEmptySeq DEF receiveEventsAckSrc
  <2>5. Range(toSrc') = ScopeKinds /\ Distinct(toSrc', Kinds) /\ "EnableEvents" \notin ScopeKinds
    BY <2>4, RequestsSent DEF ScopeKinds, Kinds
  <2>6. QED
    BY <2>2, <2>3, <2>5 DEF RequestsInv, Untouched, Kinds
<1>5. ASSUME receiveStateMessage \/ receiveGetAck
      PROVE  RequestsInv'
  <2>1. /\ fromSrc # <<>> /\ Head(fromSrc) # EventsAck /\ fromSrc' = Tail(fromSrc)
        /\ UNCHANGED <<args, toSrc, srcGet, getDone, exported>> /\ pc'["app"] = pc["app"]
    BY <1>1, <1>5
       DEF receiveStateMessage, receiveGetAck, Goto, Threads, EventsAck, srcChan, getState
  <2>2. Head(fromSrc) \in Range(fromSrc) /\ Range(fromSrc') \subseteq Range(fromSrc)
    BY <1>1, <2>1, RangeTail
  <2>3. EventsAck \notin Range(fromSrc)
    BY <2>1, <2>2 DEF RequestsInv
  <2>4. ScopeKinds' = ScopeKinds
    BY <2>1, ArgsStable
  <2>5. QED
    BY <2>1, <2>2, <2>3, <2>4 DEF RequestsInv, Untouched
<1>6. CASE handle_enable_events
  <2>1. /\ Head(toSrc) = "EnableEvents" /\ Head(toSrc) \in Range(toSrc)
        /\ toSrc' = Tail(toSrc) /\ fromSrc' = Append(fromSrc, EventsAck)
        /\ pc' = pc /\ UNCHANGED <<args, srcGet, getDone, exported>>
    BY <1>1, <1>6, RangeTail DEF handle_enable_events, getState, EventsAck
  <2>2. /\ toSrc = <<"EnableEvents">> /\ fromSrc = <<>> /\ Untouched /\ Untouched'
        /\ pc["app"] # "start" /\ ScopeKinds' = ScopeKinds
    BY <2>1, EmptyQueue, ArgsStable DEF RequestsInv, Untouched
  <2>3. toSrc' = <<>> /\ fromSrc' = <<EventsAck>>
    BY <2>1, <2>2
  <2>4. Range(toSrc') = {} /\ Distinct(toSrc', Kinds)
    BY <2>3, EmptyQueue
  <2>5. QED
    BY <2>1, <2>2, <2>3, <2>4 DEF RequestsInv, Untouched
<1>7. CASE handle_get
  <2> DEFINE k == Head(toSrc)
  <2>1. /\ k \in Kinds /\ toSrc # <<>> /\ toSrc' = Tail(toSrc) /\ srcGet' = k
        /\ pc' = pc /\ UNCHANGED <<args, fromSrc, getDone, exported>>
    BY <1>7 DEF handle_get
  <2>2. k \in Range(toSrc) /\ Range(toSrc) = {k} \cup Range(toSrc')
    BY <1>1, <2>1, RangeTail
  <2>3. Distinct(toSrc', Kinds) /\ k \notin Range(toSrc')
    BY <1>1, <2>1, DistinctTail DEF RequestsInv
  <2> HIDE DEF k
  <2>4. /\ pc["app"] # "start" /\ "EnableEvents" \notin Range(toSrc)
        /\ EventsAck \notin Range(fromSrc) /\ k # "EnableEvents"
    <3>1. k # "EnableEvents"
      BY <2>1 DEF Kinds
    <3>2. toSrc # <<>>
      BY <2>1
    <3>3. "EnableEvents" \notin Range(toSrc)
      <4>1. ASSUME toSrc = <<"EnableEvents">>
            PROVE  FALSE
        BY <3>1, <4>1 DEF k
      <4>2. QED
        BY <4>1 DEF RequestsInv
    <3>4. QED
      BY <3>1, <3>2, <3>3 DEF RequestsInv
  <2>5. ScopeKinds' = ScopeKinds
    BY <2>1, ArgsStable
  <2>6. QED
    BY <2>1, <2>2, <2>3, <2>4, <2>5 DEF RequestsInv
<1>8. ASSUME NEW c \in Chunks, send_state(c)
      PROVE  RequestsInv'
  <2>1. /\ srcGet # "none" /\ c \in ChunksOf(srcGet) /\ fromSrc' = Append(fromSrc, State(c))
        /\ exported' = exported \cup {c} /\ UNCHANGED <<args, toSrc, srcGet, getDone, pc>>
    BY <1>8 DEF send_state, State
  <2>2. State(c) \in SrcMsgs /\ State(c) # EventsAck
    BY DEF State, SrcMsgs, StateMsgs, EventsAck
  <2>3. Range(fromSrc') = Range(fromSrc) \cup {State(c)}
    BY <1>1, <2>1, <2>2, RangeAppend
  <2>4. KindOf(c) = srcGet
    BY <1>1, <2>1, KindOfChunk
  <2>5. ScopeKinds' = ScopeKinds
    BY <2>1, ArgsStable
  <2>6. QED
    BY <2>1, <2>2, <2>3, <2>4, <2>5 DEF RequestsInv, Untouched
<1>9. CASE send_get_ack
  <2> DEFINE m == [type |-> "GetAck", kind |-> srcGet,
                   count |-> Cardinality(exported \cap ChunksOf(srcGet))]
  <2>1. /\ srcGet # "none" /\ fromSrc' = Append(fromSrc, m) /\ srcGet' = "none"
        /\ getDone' = getDone \cup {srcGet} /\ UNCHANGED <<args, toSrc, exported, pc>>
    BY <1>9 DEF send_get_ack
  <2>2. m \in SrcMsgs /\ m # EventsAck
    BY <1>1, <2>1, CountType DEF TypeOK, SrcMsgs, GetAckMsgs, EventsAck
  <2> HIDE DEF m
  <2>3. Range(fromSrc') = Range(fromSrc) \cup {m}
    BY <1>1, <2>1, <2>2, RangeAppend
  <2>4. ScopeKinds' = ScopeKinds
    BY <2>1, ArgsStable
  <2>5. QED
    BY <2>1, <2>2, <2>3, <2>4 DEF RequestsInv, Untouched, Kinds
<1>10. CASE get_fails
  <2>1. ScopeKinds' = ScopeKinds
    BY <1>10, ArgsStable DEF get_fails
  <2>2. QED
    BY <1>10, <2>1 DEF get_fails, RequestsInv, Untouched, srcChan, Kinds
<1>11. QED
  BY <1>2, <1>3, <1>4, <1>5, <1>6, <1>7, <1>8, <1>9, <1>10, RequestsFrameCases

-----------------------------------------------------------------------------
(* Counts.                                                                 *)

(* A step that concerns neither the get acks nor the counts.               *)
CountsFrame ==
  /\ UNCHANGED <<fromSrc, acked, count, getDone, exported, ssMsg>>
  /\ pc'["ss"] = "count" <=> pc["ss"] = "count"

(* Every step leaves acks and counts alone or is one of these actions.     *)
LEMMA CountsFrameCases ==
  ASSUME TypeOK, Next
  PROVE  \/ CountsFrame
         \/ receiveEventsAckSrc
         \/ receiveStateMessage
         \/ receiveGetAck
         \/ setGetCount
         \/ handle_enable_events
         \/ \E c \in Chunks : send_state(c)
         \/ send_get_ack
<1>1. pc \in [Threads -> Labels]
  BY DEF TypeOK, ThreadsType
<1> USE <1>1 DEF CountsFrame, Threads
<1>2. CASE execute
  BY <1>2 DEF execute, Goto, getVars, msgVars, srcChan, getState
<1>3. CASE receivePutAck
  BY <1>3 DEF receivePutAck, Goto, getVars, msgVars, srcChan, getState
<1>4. CASE releaseChunkEvents
  BY <1>4 DEF releaseChunkEvents, Goto, getVars, msgVars, srcChan, getState
<1>5. ASSUME NEW t \in {"ss", "de"}, checkIfStateMoved(t)
      PROVE  CountsFrame
  BY <1>5 DEF checkIfStateMoved, Goto, getVars, msgVars, srcChan, getState
<1>6. ASSUME NEW t \in {"ss", "de"}, releaseEvents(t)
      PROVE  CountsFrame
  BY <1>6 DEF releaseEvents, Goto, getVars, msgVars, srcChan, getState
<1>7. ASSUME NEW t \in {"ss", "de"}, awaitEvents(t)
      PROVE  CountsFrame
  BY <1>7 DEF awaitEvents, Goto, getVars, msgVars, srcChan, getState
<1>8. ASSUME NEW t \in {"ss", "de"}, setImmediateRelease(t)
      PROVE  CountsFrame
  BY <1>8 DEF setImmediateRelease, Goto, getVars, msgVars, srcChan, getState
<1>9. CASE receiveReprocess
  BY <1>9 DEF receiveReprocess, Goto, getVars, msgVars, srcChan, getState
<1>10. CASE holdEvent
  BY <1>10 DEF holdEvent, Goto, getVars, msgVars, srcChan, getState
<1>11. ASSUME NEW c \in putTasks, callChunk(c)
      PROVE  CountsFrame
  BY <1>11 DEF callChunk, getVars, msgVars, srcChan, getState
<1>12. ASSUME NEW e \in eventTasks, callEvent(e)
      PROVE  CountsFrame
  BY <1>12 DEF callEvent, getVars, msgVars, srcChan, getState
<1>13. CASE receiveEventsAckDst
  BY <1>13 DEF receiveEventsAckDst, getVars, msgVars, srcChan, getState
<1>14. CASE handle_get
  BY <1>14 DEF handle_get, getVars, msgVars, srcChan, getState
<1>15. CASE sdmbn_preprocess_packet
  BY <1>15 DEF sdmbn_preprocess_packet, getVars, msgVars, srcChan, getState
<1>16. CASE process_packet
  BY <1>16 DEF process_packet, getVars, msgVars, srcChan, getState
<1>17. CASE handle_put
  BY <1>17 DEF handle_put, getVars, msgVars, srcChan, getState
<1>18. CASE handle_enable_buffer
  BY <1>18 DEF handle_enable_buffer, getVars, msgVars, srcChan, getState
<1>19. CASE installRule
  BY <1>19 DEF installRule, getVars, msgVars, srcChan, getState
<1>20. CASE packetOut
  BY <1>20 DEF packetOut, getVars, msgVars, srcChan, getState
<1>21. CASE receivePacket
  BY <1>21 DEF receivePacket, getVars, msgVars, srcChan, getState
<1>22. CASE forward
  BY <1>22 DEF forward, getVars, msgVars, srcChan, getState
<1>23. CASE get_fails
  BY <1>23 DEF get_fails, getVars, msgVars, srcChan, getState
<1>24. CASE put_fails
  BY <1>24 DEF put_fails, getVars, msgVars, srcChan, getState
<1> HIDE DEF CountsFrame
<1>25. QED
  BY <1>2, <1>3, <1>4, <1>5, <1>6, <1>7, <1>8, <1>9, <1>10, <1>11, <1>12, <1>13, <1>14,
     <1>15, <1>16, <1>17, <1>18, <1>19, <1>20, <1>21, <1>22, <1>23, <1>24 DEF Next,
     Controller, SrcNF, DstNF, Switch, Environment

(* Every step keeps the invariant of the counts.                           *)
LEMMA CountsStep ==
  ASSUME TypeOK, RequestsInv, CountsInv, ChunksInv, Next
  PROVE  CountsInv'
<1> DEFINE Q == StateMsgs \cup GetAckMsgs
<1>1. /\ fromSrc \in Seq(SrcMsgs) /\ srcGet \in Kinds \cup {"none"}
      /\ pc \in [Threads -> Labels] /\ ssMsg \in GetAckMsgs
      /\ acked \in [Kinds -> BOOLEAN] /\ count \in [Kinds -> Nat]
  BY DEF TypeOK, SrcChanType, SrcType, ThreadsType, FieldsType
<1>2. CASE CountsFrame
  BY <1>2 DEF CountsInv, CountsFrame, Counting, ExportedCount
<1>3. ASSUME receiveEventsAckSrc \/ receiveStateMessage
      PROVE  CountsInv'
  <2>1. /\ fromSrc # <<>> /\ fromSrc' = Tail(fromSrc)
        /\ UNCHANGED <<acked, count, getDone, exported, ssMsg, pc>>
    BY <1>3 DEF receiveEventsAckSrc, receiveStateMessage, getVars, getState, msgVars
  <2>2. Distinct(fromSrc', Q) /\ Range(fromSrc') \subseteq Range(fromSrc)
    BY <1>1, <2>1, RangeTail, DistinctTail DEF CountsInv
  <2>3. QED
    BY <2>1, <2>2 DEF CountsInv, Counting, ExportedCount
<1>4. CASE receiveGetAck
  <2> DEFINE m == Head(fromSrc)
  <2>1. /\ fromSrc # <<>> /\ fromSrc' = Tail(fromSrc) /\ m.type = "GetAck" /\ ssMsg' = m
        /\ acked' = [acked EXCEPT ![m.kind] = TRUE] /\ UNCHANGED <<count, getDone, exported>>
        /\ pc["ss"] = "idle" /\ pc'["ss"] = "count"
    BY <1>1, <1>4 DEF receiveGetAck, Goto, Threads, getState
  <2>2. m \in GetAckMsgs /\ m.kind \in Kinds
    BY <1>1, <2>1, RangeTail DEF SrcMsgs, StateMsgs, GetAckMsgs
  <2>3. m \in Range(fromSrc) /\ Range(fromSrc) = {m} \cup Range(fromSrc')
    BY <1>1, <2>1, RangeTail
  <2>4. Distinct(fromSrc', Q) /\ m \notin Range(fromSrc')
    BY <1>1, <2>1, <2>2, DistinctTail DEF CountsInv
  <2>5. \A n \in Range(fromSrc') : n \in SrcMsgs
    BY <1>1, <2>3, RangeType
  <2> HIDE DEF m
  <2>6. ASSUME NEW n \in Range(fromSrc'), n.type = "GetAck"
        PROVE  /\ n.kind \in getDone' /\ n.count = ExportedCount(n.kind)'
               /\ ~acked'[n.kind]
    <3>1. n.kind \in getDone /\ ~acked[n.kind] /\ n.count = ExportedCount(n.kind)
      BY <2>3, <2>6 DEF CountsInv
    <3>2. m.count = ExportedCount(m.kind)
      BY <2>1, <2>3 DEF CountsInv
    <3>3. n \in GetAckMsgs
      BY <2>5, <2>6 DEF SrcMsgs, StateMsgs, GetAckMsgs
    <3>4. n.kind # m.kind
      <4>1. ASSUME n.kind = m.kind
            PROVE  n = m
        BY <2>2, <3>1, <3>2, <3>3, <4>1 DEF GetAckMsgs
      <4>2. QED
        BY <2>4, <2>6, <4>1
    <3>5. acked'[n.kind] = acked[n.kind]
      BY <1>1, <2>1, <3>3, <3>4 DEF GetAckMsgs
    <3>6. QED
      BY <2>1, <3>1, <3>5 DEF ExportedCount
  <2>7. /\ (acked[ssMsg.kind] /\ ssMsg.count = ExportedCount(ssMsg.kind))'
        /\ ssMsg'.kind \in getDone /\ ~acked[m.kind]
    <3>1. m.kind \in getDone /\ ~acked[m.kind] /\ m.count = ExportedCount(m.kind)
      BY <2>1, <2>3 DEF CountsInv
    <3>2. QED
      BY <1>1, <2>1, <2>2, <3>1 DEF ExportedCount
  <2>8. ASSUME NEW k \in Kinds
        PROVE  /\ acked'[k] => k \in getDone'
               /\ count'[k] = IF acked'[k] /\ ~Counting(k)' THEN ExportedCount(k)' ELSE 0
    <3>1. CASE k = m.kind
      BY <2>1, <2>7, <3>1 DEF CountsInv, Counting
    <3>2. CASE k # m.kind
      <4>1. acked'[k] = acked[k] /\ ~Counting(k) /\ ~Counting(k)'
        BY <1>1, <2>1, <3>2 DEF Counting
      <4>2. QED
        BY <2>1, <4>1 DEF CountsInv, ExportedCount
    <3>3. QED
      BY <3>1, <3>2
  <2>9. QED
    BY <2>4, <2>6, <2>7, <2>8 DEF CountsInv
<1>5. CASE setGetCount
  <2>1. /\ pc["ss"] = "count" /\ pc'["ss"] # "count"
        /\ count' = [count EXCEPT ![ssMsg.kind] = ssMsg.count]
        /\ UNCHANGED <<fromSrc, acked, getDone, exported, ssMsg>>
    BY <1>1, <1>5 DEF setGetCount, Goto, AfterGetAck, Threads, getState, srcChan, msgVars
  <2>2. ssMsg.kind \in Kinds
    BY <1>1 DEF GetAckMsgs
  <2>3. ASSUME NEW k \in Kinds
        PROVE  count'[k] = IF acked'[k] /\ ~Counting(k)' THEN ExportedCount(k)' ELSE 0
    <3>1. CASE k = ssMsg.kind
      <4>1. count'[k] = ExportedCount(k) /\ acked[k]
        BY <1>1, <2>1, <2>2, <3>1 DEF CountsInv
      <4>2. QED
        BY <2>1, <4>1 DEF Counting, ExportedCount
    <3>2. CASE k # ssMsg.kind
      <4>1. count'[k] = count[k] /\ ~Counting(k)
        BY <1>1, <2>1, <3>2 DEF Counting
      <4>2. QED
        BY <2>1, <4>1 DEF CountsInv, Counting, ExportedCount
    <3>3. QED
      BY <3>1, <3>2
  <2>4. QED
    BY <2>1, <2>3 DEF CountsInv, ExportedCount
<1>6. CASE handle_enable_events
  <2>1. /\ fromSrc' = Append(fromSrc, EventsAck)
        /\ UNCHANGED <<acked, count, getDone, exported, ssMsg, pc>>
    BY <1>6 DEF handle_enable_events, EventsAck, getVars, getState, msgVars
  <2>2. EventsAck \in SrcMsgs /\ EventsAck \notin Q /\ EventsAck.type # "GetAck"
    BY DEF EventsAck, SrcMsgs, StateMsgs, GetAckMsgs
  <2>3. Distinct(fromSrc', Q) /\ Range(fromSrc') = Range(fromSrc) \cup {EventsAck}
    BY <1>1, <2>1, <2>2, RangeAppend, DistinctAppend DEF CountsInv
  <2>4. QED
    BY <2>1, <2>2, <2>3 DEF CountsInv, Counting, ExportedCount
<1>7. ASSUME NEW c \in Chunks, send_state(c), State(c) \notin Range(fromSrc)
      PROVE  CountsInv'
  <2>1. /\ srcGet # "none" /\ c \in ChunksOf(srcGet) /\ fromSrc' = Append(fromSrc, State(c))
        /\ exported' = exported \cup {c} /\ UNCHANGED <<acked, count, getDone, ssMsg, pc>>
    BY <1>7 DEF send_state, State, getVars, msgVars
  <2>2. State(c) \in SrcMsgs /\ State(c).type # "GetAck"
    BY DEF State, SrcMsgs, StateMsgs
  <2>3. Distinct(fromSrc', Q) /\ Range(fromSrc') = Range(fromSrc) \cup {State(c)}
    BY <1>1, <1>7, <2>1, <2>2, RangeAppend, DistinctAppend DEF CountsInv
  <2>4. ASSUME NEW k \in Kinds, k \in getDone
        PROVE  ExportedCount(k)' = ExportedCount(k)
    <3>1. k # srcGet
      BY <2>1, <2>4 DEF RequestsInv
    <3>2. c \notin ChunksOf(k)
      BY <1>1, <2>1, <3>1, KindOfChunk
    <3>3. exported' \cap ChunksOf(k) = exported \cap ChunksOf(k)
      BY <2>1, <3>2
    <3>4. QED
      BY <3>3 DEF ExportedCount
  <2>5. getDone \subseteq Kinds /\ ssMsg.kind \in Kinds
    BY <1>1 DEF TypeOK, SrcType, GetAckMsgs
  <2>6. \A m \in Range(fromSrc') : m.type = "GetAck" =>
          m.kind \in getDone' /\ ~acked'[m.kind] /\ m.count = ExportedCount(m.kind)'
    BY <2>1, <2>2, <2>3, <2>4, <2>5 DEF CountsInv
  <2>7. (pc["ss"] = "count" => acked[ssMsg.kind] /\ ssMsg.count = ExportedCount(ssMsg.kind))'
    BY <2>1, <2>4, <2>5 DEF CountsInv
  <2>8. \A k \in Kinds : count'[k] = IF acked'[k] /\ ~Counting(k)' THEN ExportedCount(k)' ELSE 0
    BY <2>1, <2>4 DEF CountsInv, Counting
  <2>9. QED
    BY <2>1, <2>3, <2>6, <2>7, <2>8 DEF CountsInv
<1>8. CASE send_get_ack
  <2> DEFINE m == [type |-> "GetAck", kind |-> srcGet, count |-> ExportedCount(srcGet)]
  <2>1. /\ srcGet # "none" /\ fromSrc' = Append(fromSrc, m) /\ getDone' = getDone \cup {srcGet}
        /\ UNCHANGED <<acked, count, exported, ssMsg, pc>>
    BY <1>8 DEF send_get_ack, ExportedCount, getVars, msgVars
  <2>2. m \in SrcMsgs /\ m.kind = srcGet /\ m.count = ExportedCount(srcGet) /\ m.type = "GetAck"
    BY <1>1, <2>1, CountType DEF TypeOK, SrcMsgs, GetAckMsgs, ExportedCount
  <2> HIDE DEF m
  <2>3. srcGet \in Kinds /\ srcGet \notin getDone /\ ~acked[srcGet]
    BY <1>1, <2>1 DEF RequestsInv, CountsInv
  <2>4. m \notin Range(fromSrc)
    BY <2>2, <2>3 DEF CountsInv
  <2>5. Distinct(fromSrc', Q) /\ Range(fromSrc') = Range(fromSrc) \cup {m}
    BY <1>1, <2>1, <2>2, <2>4, RangeAppend, DistinctAppend DEF CountsInv
  <2>6. QED
    BY <2>1, <2>2, <2>3, <2>5 DEF CountsInv, Counting, ExportedCount
<1>9. ASSUME NEW c \in Chunks, send_state(c)
      PROVE  State(c) \notin Range(fromSrc)
  BY <1>9 DEF send_state, ChunksInv, Arriving
<1>10. QED
  BY <1>2, <1>3, <1>4, <1>5, <1>6, <1>7, <1>8, <1>9, CountsFrameCases

-----------------------------------------------------------------------------
(* Chunks on their way.                                                    *)

(* Nothing but the source's send adds to the chunks that are arriving.     *)
LEMMA ArrivingShrinks ==
  ASSUME TypeOK, Next
  PROVE  Arriving' \subseteq Arriving \/ \E c \in Chunks : send_state(c)
<1>1. fromSrc \in Seq(SrcMsgs)
  BY DEF TypeOK, SrcChanType
<1>2. CASE CountsFrame \/ setGetCount
  BY <1>2 DEF CountsFrame, setGetCount, srcChan, Arriving
<1>3. ASSUME receiveEventsAckSrc \/ receiveStateMessage \/ receiveGetAck
      PROVE  Arriving' \subseteq Arriving
  <2>1. fromSrc # <<>> /\ fromSrc' = Tail(fromSrc)
    BY <1>3 DEF receiveEventsAckSrc, receiveStateMessage, receiveGetAck
  <2>2. Range(fromSrc') \subseteq Range(fromSrc)
    BY <1>1, <2>1, RangeTail
  <2>3. QED
    BY <2>2 DEF Arriving
<1>4. ASSUME NEW m \in SrcMsgs, m.type # "State", fromSrc' = Append(fromSrc, m)
      PROVE  Arriving' \subseteq Arriving
  <2>1. Range(fromSrc') = Range(fromSrc) \cup {m}
    BY <1>1, <1>4, RangeAppend
  <2>2. \A c : State(c) # m
    BY <1>4 DEF State
  <2>3. QED
    BY <2>1, <2>2 DEF Arriving
<1>5. CASE handle_enable_events
  <2>1. EventsAck \in SrcMsgs /\ EventsAck.type # "State"
    BY DEF EventsAck, SrcMsgs
  <2>2. QED
    BY <1>4, <1>5, <2>1 DEF handle_enable_events, EventsAck
<1>6. CASE send_get_ack
  <2> DEFINE m == [type |-> "GetAck", kind |-> srcGet, count |-> ExportedCount(srcGet)]
  <2>1. m \in SrcMsgs /\ m.type # "State"
    BY <1>6, CountType DEF send_get_ack, TypeOK, SrcType, SrcMsgs, GetAckMsgs, ExportedCount
  <2>2. fromSrc' = Append(fromSrc, m)
    BY <1>6 DEF send_get_ack, ExportedCount
  <2> HIDE DEF m
  <2>3. QED
    BY <1>4, <2>1, <2>2
<1>7. QED
  BY <1>2, <1>3, <1>5, <1>6, CountsFrameCases

(* What sending to the destination and receiving there do to the puts.     *)
LEMMA SentAppend ==
  ASSUME TypeOK, Distinct(toDst, PutMsgs), NEW c \in Chunks, c \notin Sent,
         toDst' = Append(toDst, Put(c))
  PROVE  Distinct(toDst', PutMsgs) /\ Sent' = Sent \cup {c}
<1>1. toDst \in Seq(DstMsgs) /\ Put(c) \in DstMsgs /\ Put(c) \notin Range(toDst)
  BY DEF TypeOK, DstChanType, DstMsgs, Put, Sent
<1>2. Distinct(toDst', PutMsgs) /\ Range(toDst') = Range(toDst) \cup {Put(c)}
  BY <1>1, RangeAppend, DistinctAppend
<1>3. \A d \in Chunks : Put(d) = Put(c) => d = c
  BY DEF Put
<1>4. QED
  BY <1>2, <1>3 DEF Sent

(* Taking the head off toDst takes at most that chunk out of Sent.         *)
LEMMA SentTail ==
  ASSUME TypeOK, Distinct(toDst, PutMsgs), toDst # <<>>, Head(toDst).type = "Put",
         toDst' = Tail(toDst)
  PROVE  /\ Head(toDst).chunk \in Sent
         /\ Distinct(toDst', PutMsgs) /\ Sent' = Sent \ {Head(toDst).chunk}
<1> DEFINE m == Head(toDst)
           c == m.chunk
<1>1. toDst \in Seq(DstMsgs)
  BY DEF TypeOK, DstChanType
<1>2. m \in Range(toDst) /\ m \in DstMsgs /\ Range(toDst) = {m} \cup Range(toDst')
  BY <1>1, RangeTail
<1>3. c \in Chunks /\ m = Put(c) /\ m \in PutMsgs
  BY <1>2 DEF DstMsgs, Put, PutMsgs
<1>4. Distinct(toDst', PutMsgs) /\ m \notin Range(toDst')
  BY <1>1, <1>3, DistinctTail
<1>5. \A d \in Chunks : Put(d) = Put(c) => d = c
  BY DEF Put
<1> HIDE DEF m, c
<1>6. c \in Sent /\ Sent' = Sent \ {c}
  BY <1>2, <1>3, <1>4, <1>5 DEF Sent
<1>7. QED
  BY <1>4, <1>6 DEF m, c

(* Other messages on that connection are no puts.                          *)
LEMMA SentOther ==
  ASSUME TypeOK, Distinct(toDst, PutMsgs),
         \/ toDst' = toDst
         \/ toDst' = Append(toDst, [type |-> "EnableEvents"])
         \/ toDst # <<>> /\ Head(toDst).type = "EnableEvents" /\ toDst' = Tail(toDst)
  PROVE  Distinct(toDst', PutMsgs) /\ Sent' = Sent
<1> DEFINE e == [type |-> "EnableEvents"]
<1>1. toDst \in Seq(DstMsgs) /\ e \in DstMsgs /\ e \notin PutMsgs
  BY DEF TypeOK, DstChanType, DstMsgs, PutMsgs
<1>2. \A c : Put(c).type = "Put" /\ Put(c) # e
  BY DEF Put
<1>3. CASE toDst' = toDst
  BY <1>3 DEF Sent
<1>4. CASE toDst' = Append(toDst, e)
  <2> HIDE DEF e
  <2>1. Distinct(toDst', PutMsgs) /\ Range(toDst') = Range(toDst) \cup {e}
    BY <1>1, <1>4, RangeAppend, DistinctAppend
  <2>2. QED
    BY <1>2, <2>1 DEF Sent
<1>5. CASE toDst # <<>> /\ Head(toDst).type = "EnableEvents" /\ toDst' = Tail(toDst)
  <2>1. Distinct(toDst', PutMsgs) /\ Range(toDst) = {Head(toDst)} \cup Range(toDst')
    BY <1>1, <1>5, RangeTail, DistinctTail
  <2>2. \A c : Put(c) # Head(toDst)
    BY <1>2, <1>5
  <2>3. QED
    BY <2>1, <2>2 DEF Sent
<1>6. QED
  BY <1>3, <1>4, <1>5

(* The arguments are never written.                                        *)
LEMMA ArgsKept ==
  ASSUME Next
  PROVE  UNCHANGED args
<1>1. CASE execute
  BY <1>1 DEF execute
<1>2. CASE receiveEventsAckSrc
  BY <1>2 DEF receiveEventsAckSrc
<1>3. CASE receiveStateMessage
  BY <1>3 DEF receiveStateMessage
<1>4. CASE receiveGetAck
  BY <1>4 DEF receiveGetAck
<1>5. CASE setGetCount
  BY <1>5 DEF setGetCount
<1>6. CASE receivePutAck
  BY <1>6 DEF receivePutAck
<1>7. CASE releaseChunkEvents
  BY <1>7 DEF releaseChunkEvents
<1>8. ASSUME NEW t, checkIfStateMoved(t)
      PROVE  UNCHANGED args
  BY <1>8 DEF checkIfStateMoved
<1>9. ASSUME NEW t, releaseEvents(t)
      PROVE  UNCHANGED args
  BY <1>9 DEF releaseEvents
<1>10. ASSUME NEW t, awaitEvents(t)
      PROVE  UNCHANGED args
  BY <1>10 DEF awaitEvents
<1>11. ASSUME NEW t, setImmediateRelease(t)
      PROVE  UNCHANGED args
  BY <1>11 DEF setImmediateRelease
<1>12. CASE receiveReprocess
  BY <1>12 DEF receiveReprocess
<1>13. CASE holdEvent
  BY <1>13 DEF holdEvent
<1>14. ASSUME NEW c, callChunk(c)
      PROVE  UNCHANGED args
  BY <1>14 DEF callChunk
<1>15. ASSUME NEW e, callEvent(e)
      PROVE  UNCHANGED args
  BY <1>15 DEF callEvent
<1>16. CASE receiveEventsAckDst
  BY <1>16 DEF receiveEventsAckDst
<1>17. CASE handle_enable_events
  BY <1>17 DEF handle_enable_events
<1>18. CASE handle_get
  BY <1>18 DEF handle_get
<1>19. ASSUME NEW c, send_state(c)
      PROVE  UNCHANGED args
  BY <1>19 DEF send_state
<1>20. CASE send_get_ack
  BY <1>20 DEF send_get_ack
<1>21. CASE sdmbn_preprocess_packet
  BY <1>21 DEF sdmbn_preprocess_packet
<1>22. CASE process_packet
  BY <1>22 DEF process_packet
<1>23. CASE handle_put
  BY <1>23 DEF handle_put
<1>24. CASE handle_enable_buffer
  BY <1>24 DEF handle_enable_buffer
<1>25. CASE installRule
  BY <1>25 DEF installRule
<1>26. CASE packetOut
  BY <1>26 DEF packetOut
<1>27. CASE receivePacket
  BY <1>27 DEF receivePacket
<1>28. CASE forward
  BY <1>28 DEF forward
<1>29. CASE get_fails
  BY <1>29 DEF get_fails
<1>30. CASE put_fails
  BY <1>30 DEF put_fails
<1>31. QED
  BY <1>1, <1>2, <1>3, <1>4, <1>5, <1>6, <1>7, <1>8, <1>9, <1>10, <1>11, <1>12, <1>13,
     <1>14, <1>15, <1>16, <1>17, <1>18, <1>19, <1>20, <1>21, <1>22, <1>23, <1>24, <1>25,
     <1>26, <1>27, <1>28, <1>29, <1>30 DEF Next, Controller, SrcNF, DstNF, Switch,
     Environment

(* A step that moves no chunk.                                             *)
ChunksFrame ==
  /\ UNCHANGED <<acked, putAcks, statesList, chunkAck, deMsg, putTasks, toDst, dstAcks,
                 exported, imported>>
  /\ pc'["ss"] = "count" <=> pc["ss"] = "count"
  /\ pc'["de"] = "ack" <=> pc["de"] = "ack"
  /\ pc'["de"] = "check" <=> pc["de"] = "check"

(* Every step moves no chunk or is one of these actions.                   *)
LEMMA ChunksFrameCases ==
  ASSUME TypeOK, Next
  PROVE  \/ ChunksFrame
         \/ receiveStateMessage
         \/ receiveGetAck
         \/ setGetCount
         \/ receivePutAck
         \/ releaseChunkEvents
         \/ \E t \in {"ss", "de"} : checkIfStateMoved(t)
         \/ \E c \in putTasks : callChunk(c)
         \/ \E c \in Chunks : send_state(c)
         \/ handle_put
         \/ handle_enable_buffer
         \/ put_fails
<1>1. pc \in [Threads -> Labels]
  BY DEF TypeOK, ThreadsType
<1> USE <1>1 DEF ChunksFrame, Threads
<1>2. CASE execute
  BY <1>2 DEF execute, Goto, getVars, eventVars, msgVars, poolVars, dstChan, getState,
     dstVars
<1>3. CASE receiveEventsAckSrc
  BY <1>3 DEF receiveEventsAckSrc, getVars, eventVars, msgVars, poolVars, dstChan, getState,
     dstVars
<1>4. ASSUME NEW t \in {"ss", "de"}, releaseEvents(t)
      PROVE  ChunksFrame
  BY <1>4 DEF releaseEvents, Goto, getVars, eventVars, msgVars, poolVars, dstChan, getState,
     dstVars
<1>5. ASSUME NEW t \in {"ss", "de"}, awaitEvents(t)
      PROVE  ChunksFrame
  BY <1>5 DEF awaitEvents, Goto, getVars, eventVars, msgVars, poolVars, dstChan, getState,
     dstVars
<1>6. ASSUME NEW t \in {"ss", "de"}, setImmediateRelease(t)
      PROVE  ChunksFrame
  BY <1>6 DEF setImmediateRelease, Goto, getVars, eventVars, msgVars, poolVars, dstChan,
     getState, dstVars
<1>7. CASE receiveReprocess
  BY <1>7 DEF receiveReprocess, Goto, getVars, eventVars, msgVars, poolVars, dstChan,
     getState, dstVars
<1>8. CASE holdEvent
  BY <1>8 DEF holdEvent, Goto, getVars, eventVars, msgVars, poolVars, dstChan, getState,
     dstVars
<1>9. ASSUME NEW e \in eventTasks, callEvent(e)
      PROVE  ChunksFrame
  BY <1>9 DEF callEvent, getVars, eventVars, msgVars, poolVars, dstChan, getState, dstVars
<1>10. CASE receiveEventsAckDst
  BY <1>10 DEF receiveEventsAckDst, getVars, eventVars, msgVars, poolVars, dstChan,
     getState, dstVars
<1>11. CASE handle_enable_events
  BY <1>11 DEF handle_enable_events, getVars, eventVars, msgVars, poolVars, dstChan,
     getState, dstVars
<1>12. CASE handle_get
  BY <1>12 DEF handle_get, getVars, eventVars, msgVars, poolVars, dstChan, getState, dstVars
<1>13. CASE send_get_ack
  BY <1>13 DEF send_get_ack, getVars, eventVars, msgVars, poolVars, dstChan, getState,
     dstVars
<1>14. CASE sdmbn_preprocess_packet
  BY <1>14 DEF sdmbn_preprocess_packet, getVars, eventVars, msgVars, poolVars, dstChan,
     getState, dstVars
<1>15. CASE process_packet
  BY <1>15 DEF process_packet, getVars, eventVars, msgVars, poolVars, dstChan, getState,
     dstVars
<1>16. CASE installRule
  BY <1>16 DEF installRule, getVars, eventVars, msgVars, poolVars, dstChan, getState,
     dstVars
<1>17. CASE packetOut
  BY <1>17 DEF packetOut, getVars, eventVars, msgVars, poolVars, dstChan, getState, dstVars
<1>18. CASE receivePacket
  BY <1>18 DEF receivePacket, getVars, eventVars, msgVars, poolVars, dstChan, getState,
     dstVars
<1>19. CASE forward
  BY <1>19 DEF forward, getVars, eventVars, msgVars, poolVars, dstChan, getState, dstVars
<1>20. CASE get_fails
  BY <1>20 DEF get_fails, getVars, eventVars, msgVars, poolVars, dstChan, getState, dstVars
<1> HIDE DEF ChunksFrame
<1>21. QED
  BY <1>2, <1>3, <1>4, <1>5, <1>6, <1>7, <1>8, <1>9, <1>10, <1>11, <1>12, <1>13, <1>14,
     <1>15, <1>16, <1>17, <1>18, <1>19, <1>20 DEF Next, Controller, SrcNF, DstNF, Switch,
     Environment

(* Every step keeps each chunk in one place and every ack counted once.    *)
LEMMA ChunksStep ==
  ASSUME TypeOK, RequestsInv, CountsInv, PlacesInv, ChunksInv, Next
  PROVE  PlacesInv' /\ ChunksInv'
<1>1. /\ pc \in [Threads -> Labels] /\ dstAcks \in Seq(Chunks) /\ fromSrc \in Seq(SrcMsgs)
      /\ acked \in [Kinds -> BOOLEAN] /\ putAcks \in [Kinds -> Nat]
      /\ chunkAck \subseteq Chunks /\ putTasks \subseteq Chunks
      /\ (pc["de"] = "ack" => deMsg \in Chunks)
  BY DEF TypeOK, ThreadsType, DstChanType, SrcChanType, FieldsType, EventsType, PoolType
<1>2. /\ Batched' <=> Batched
      /\ ScopeKinds' = ScopeKinds
  BY ArgsStable, ArgsKept
<1>4. ASSUME ChunksFrame, Arriving' \subseteq Arriving
      PROVE  PlacesInv' /\ ChunksInv'
  <2>1. /\ Sent' = Sent /\ InAck' = InAck /\ Counted' = Counted
        /\ Range(dstAcks') = Range(dstAcks) /\ Pipeline' = Pipeline
    BY <1>4 DEF ChunksFrame, Sent, InAck, Counted, Pipeline
  <2>2. Withheld' <=> Withheld
    BY <1>2, <1>4 DEF ChunksFrame, Withheld, AllAcked
  <2>3. PlacesInv'
    BY <1>4, <2>1 DEF PlacesInv, ChunksFrame
  <2>4. QED
    BY <1>4, <2>1, <2>2, <2>3 DEF ChunksInv, ChunksFrame
<1>5. ASSUME NEW c \in Chunks, send_state(c)
      PROVE  PlacesInv' /\ ChunksInv'
  <2>1. /\ c \notin exported /\ exported' = exported \cup {c}
        /\ fromSrc' = Append(fromSrc, State(c))
        /\ UNCHANGED <<args, acked, putAcks, statesList, chunkAck, pc, deMsg, putTasks, toDst,
                       dstAcks, imported>>
    BY <1>5 DEF send_state, State, getVars, eventVars, msgVars, poolVars, dstChan, dstVars
  <2>2. State(c) \in SrcMsgs /\ \A d \in Chunks : State(d) = State(c) => d = c
    BY DEF State, SrcMsgs, StateMsgs
  <2>3. Range(fromSrc') = Range(fromSrc) \cup {State(c)}
    BY <1>1, <2>1, <2>2, RangeAppend
  <2>4. Arriving' = Arriving \cup {c}
    BY <2>2, <2>3 DEF Arriving
  <2>5. /\ Sent' = Sent /\ InAck' = InAck /\ Counted' = Counted
        /\ Range(dstAcks') = Range(dstAcks) /\ Pipeline' = Pipeline
    BY <2>1 DEF Sent, InAck, Counted, Pipeline
  <2>6. Withheld' <=> Withheld
    BY <1>2, <2>1 DEF Withheld, AllAcked
  <2>7. c \notin Pipeline /\ c \notin statesList
    BY <2>1 DEF ChunksInv
  <2>8. PlacesInv'
    BY <2>1, <2>4, <2>5, <2>7 DEF PlacesInv
  <2>9. QED
    BY <2>1, <2>4, <2>5, <2>6, <2>8 DEF ChunksInv
<1>6. CASE receiveStateMessage
  <2> DEFINE m == Head(fromSrc)
             c == m.chunk
  <2>1. /\ fromSrc # <<>> /\ m.type = "State" /\ fromSrc' = Tail(fromSrc)
        /\ IF Batched THEN statesList' = statesList \cup {c} /\ putTasks' = putTasks
                      ELSE putTasks' = putTasks \cup {c} /\ statesList' = statesList
        /\ UNCHANGED <<args, acked, putAcks, chunkAck, pc, deMsg, toDst, dstAcks, exported,
                       imported>>
    BY <1>6 DEF receiveStateMessage, eventVars, msgVars, dstChan, getState, dstVars
  <2>2. m \in Range(fromSrc) /\ m \in SrcMsgs /\ Range(fromSrc) = {m} \cup Range(fromSrc')
    BY <1>1, <2>1, RangeTail
  <2>3. m \in StateMsgs /\ c \in Chunks /\ m = State(c)
    BY <2>1, <2>2 DEF SrcMsgs, StateMsgs, GetAckMsgs, State
  <2>4. m \notin Range(fromSrc')
    BY <1>1, <2>1, <2>3, DistinctTail DEF CountsInv
  <2>5. \A d \in Chunks : State(d) = State(c) => d = c
    BY DEF State
  <2> HIDE DEF m, c
  <2>6. c \in Arriving /\ Arriving' = Arriving \ {c}
    BY <2>2, <2>3, <2>4, <2>5 DEF Arriving
  <2>7. Sent' = Sent /\ InAck' = InAck /\ Counted' = Counted /\ Range(dstAcks') = Range(dstAcks)
    BY <2>1 DEF Sent, InAck, Counted
  <2>8. Withheld' <=> Withheld
    BY <1>2, <2>1 DEF Withheld, AllAcked
  <2>9. c \in exported /\ c \notin Pipeline /\ c \notin statesList
    BY <2>6 DEF PlacesInv, ChunksInv
  <2>10. /\ Pipeline' = IF Batched THEN Pipeline ELSE Pipeline \cup {c}
         /\ statesList' \subseteq statesList \cup {c}
         /\ putTasks' \subseteq putTasks \cup {c}
         /\ (statesList' \cup Pipeline') \subseteq (statesList \cup Pipeline \cup {c})
    BY <2>1, <2>7 DEF Pipeline
  <2>11. PlacesInv'
    <3>1. Arriving' \cap (statesList' \cup Pipeline') = {}
      BY <2>6, <2>10 DEF PlacesInv
    <3>2. putTasks' \cap (Sent \cup Range(dstAcks) \cup Counted) = {}
      BY <2>9, <2>10 DEF PlacesInv, Pipeline
    <3>3. QED
      BY <2>1, <2>7, <3>1, <3>2 DEF PlacesInv
  <2>12. Withheld' => Pipeline' = {}
    BY <2>8, <2>10 DEF ChunksInv, Withheld
  <2>13. (Arriving' \cup statesList' \cup Pipeline') \subseteq exported'
    BY <2>1, <2>6, <2>9, <2>10 DEF ChunksInv
  <2>14. QED
    BY <2>1, <2>7, <2>11, <2>12, <2>13 DEF ChunksInv
<1>7. ASSUME receiveGetAck, Arriving' \subseteq Arriving
      PROVE  PlacesInv' /\ ChunksInv'
  <2> DEFINE m == Head(fromSrc)
  <2>1. /\ fromSrc # <<>> /\ m.type = "GetAck"
        /\ UNCHANGED <<args, putAcks, statesList, chunkAck, deMsg, putTasks, toDst, dstAcks,
                       exported, imported>>
        /\ pc'["de"] = pc["de"]
    BY <1>1, <1>7 DEF receiveGetAck, Goto, Threads, eventVars, poolVars, dstChan, getState, dstVars
  <2>2. m \in Range(fromSrc)
    BY <1>1, <2>1, RangeTail
  <2> HIDE DEF m
  <2>3. m.kind \in ScopeKinds /\ ~acked[m.kind]
    BY <2>1, <2>2 DEF CountsInv, RequestsInv
  <2>4. Batched => Pipeline = {}
    BY <2>3 DEF ChunksInv, Withheld, AllAcked
  <2>5. /\ Sent' = Sent /\ InAck' = InAck /\ Counted' = Counted
        /\ Range(dstAcks') = Range(dstAcks) /\ Pipeline' = Pipeline
    BY <2>1 DEF Sent, InAck, Counted, Pipeline
  <2>6. Withheld' => Pipeline' = {}
    BY <1>2, <2>4, <2>5 DEF Withheld
  <2>7. PlacesInv'
    BY <1>7, <2>1, <2>5 DEF PlacesInv
  <2>8. QED
    BY <1>7, <2>1, <2>5, <2>6, <2>7 DEF ChunksInv
<1>8. ASSUME setGetCount, Arriving' \subseteq Arriving
      PROVE  PlacesInv' /\ ChunksInv'
  <2>1. /\ pc["ss"] = "count" /\ pc'["ss"] # "count" /\ pc'["de"] = pc["de"]
        /\ putTasks' = IF Batched /\ AllAcked THEN putTasks \cup statesList ELSE putTasks
        /\ UNCHANGED <<args, acked, putAcks, statesList, chunkAck, deMsg, toDst, dstAcks,
                       exported, imported>>
    BY <1>1, <1>8
       DEF setGetCount, AllAcked, Goto, AfterGetAck, Threads, eventVars, msgVars, dstChan, getState, dstVars
  <2>2. Sent' = Sent /\ InAck' = InAck /\ Counted' = Counted /\ Range(dstAcks') = Range(dstAcks)
    BY <2>1 DEF Sent, InAck, Counted
  <2>3. Batched => Pipeline = {}
    BY <2>1 DEF ChunksInv, Withheld
  <2>4. CASE Batched /\ AllAcked
    <3>1. /\ putTasks' = statesList /\ Sent = {} /\ Range(dstAcks) = {} /\ Counted = {}
          /\ Pipeline' = statesList
      BY <2>1, <2>2, <2>3, <2>4 DEF Pipeline
    <3>2. ~Withheld'
      BY <1>2, <2>1, <2>4 DEF Withheld, AllAcked
    <3>3. PlacesInv'
      BY <1>8, <2>1, <2>2, <3>1 DEF PlacesInv
    <3>4. QED
      BY <1>8, <2>1, <2>2, <3>1, <3>2, <3>3 DEF ChunksInv
  <2>5. CASE ~(Batched /\ AllAcked)
    <3>1. Pipeline' = Pipeline /\ putTasks' = putTasks
      BY <2>1, <2>2, <2>5 DEF Pipeline
    <3>2. Withheld' => Pipeline' = {}
      BY <1>2, <2>3, <3>1 DEF Withheld
    <3>3. PlacesInv'
      BY <1>8, <2>1, <2>2, <3>1 DEF PlacesInv
    <3>4. QED
      BY <1>8, <2>1, <2>2, <3>1, <3>2, <3>3 DEF ChunksInv
  <2>6. QED
    BY <2>4, <2>5
<1>9. ASSUME receivePutAck, Arriving' \subseteq Arriving
      PROVE  PlacesInv' /\ ChunksInv'
  <2> DEFINE c == Head(dstAcks)
  <2>1. /\ dstAcks # <<>> /\ dstAcks' = Tail(dstAcks) /\ deMsg' = c
        /\ pc["de"] = "idle" /\ pc'["de"] = "ack" /\ pc'["ss"] = pc["ss"]
        /\ putAcks' = [putAcks EXCEPT ![KindOf(c)] = @ + 1]
        /\ UNCHANGED <<args, acked, statesList, chunkAck, putTasks, toDst, exported, imported>>
    BY <1>1, <1>9 DEF receivePutAck, Goto, Threads, eventVars, poolVars, getState, dstVars
  <2>2. c \in Chunks /\ c \in Range(dstAcks) /\ Range(dstAcks) = {c} \cup Range(dstAcks')
    BY <1>1, <2>1, RangeTail
  <2>3. Distinct(dstAcks', Chunks) /\ c \notin Range(dstAcks')
    BY <1>1, <2>1, <2>2, DistinctTail DEF PlacesInv
  <2> HIDE DEF c
  <2>4. /\ Sent' = Sent /\ Counted = chunkAck /\ Counted' = chunkAck \cup {c}
    BY <2>1 DEF Sent, InAck, Counted
  <2>5. Pipeline' = Pipeline /\ c \in Pipeline
    BY <2>1, <2>2, <2>4 DEF Pipeline
  <2>6. Withheld' => Pipeline' = {}
    BY <1>2, <2>1, <2>5 DEF ChunksInv, Withheld, AllAcked
  <2>7. c \notin Counted /\ c \notin putTasks /\ c \notin Sent /\ c \in imported
    BY <2>2 DEF PlacesInv, ChunksInv
  <2>8. PlacesInv'
    BY <1>9, <2>1, <2>2, <2>3, <2>4, <2>5, <2>7 DEF PlacesInv
  <2>9. ASSUME NEW k \in Kinds
        PROVE  putAcks'[k] = Cardinality(Counted' \cap ChunksOf(k))
    <3>1. IsFiniteSet(Counted \cap ChunksOf(k))
      BY ChunksAssumption, FS_Subset DEF ChunksOf
    <3>2. putAcks[k] = Cardinality(Counted \cap ChunksOf(k))
      BY DEF ChunksInv
    <3>3. CASE k = KindOf(c)
      <4>1. c \in ChunksOf(k)
        BY <2>2, <3>3 DEF Chunks, KindOf, ChunksOf
      <4>2. Counted' \cap ChunksOf(k) = (Counted \cap ChunksOf(k)) \cup {c}
        BY <2>4, <4>1
      <4>3. Cardinality(Counted' \cap ChunksOf(k)) = Cardinality(Counted \cap ChunksOf(k)) + 1
        BY <2>7, <3>1, <4>2, FS_AddElement
      <4>4. QED
        BY <1>1, <2>1, <3>2, <3>3, <4>3
    <3>4. CASE k # KindOf(c)
      <4>1. c \notin ChunksOf(k)
        BY <3>4, KindOfChunk
      <4>2. Counted' \cap ChunksOf(k) = Counted \cap ChunksOf(k)
        BY <2>4, <4>1
      <4>3. QED
        BY <1>1, <2>1, <3>2, <3>4, <4>2
    <3>5. QED
      BY <3>3, <3>4
  <2>10. QED
    BY <1>9, <2>1, <2>2, <2>4, <2>5, <2>6, <2>7, <2>8, <2>9 DEF ChunksInv
<1>10. ASSUME releaseChunkEvents, Arriving' \subseteq Arriving
       PROVE  PlacesInv' /\ ChunksInv'
  <2>1. /\ chunkAck' = chunkAck \cup {deMsg}
        /\ pc["de"] = "ack" /\ pc'["de"] = "check" /\ pc'["ss"] = pc["ss"]
        /\ UNCHANGED <<args, acked, putAcks, statesList, putTasks, toDst, dstAcks, exported,
                       imported>>
    BY <1>1, <1>10
       DEF releaseChunkEvents, Goto, Threads, getVars, poolVars, dstChan, getState, dstVars
  <2>2. Sent' = Sent /\ Counted' = Counted /\ Range(dstAcks') = Range(dstAcks)
    BY <2>1 DEF Sent, InAck, Counted
  <2>3. Pipeline' = Pipeline
    BY <2>1, <2>2 DEF Pipeline
  <2>4. Withheld' <=> Withheld
    BY <1>2, <2>1 DEF Withheld, AllAcked
  <2>5. PlacesInv'
    BY <1>10, <2>1, <2>2, <2>3 DEF PlacesInv
  <2>6. QED
    BY <1>10, <2>1, <2>2, <2>3, <2>4, <2>5 DEF ChunksInv
<1>11. ASSUME (\E t \in {"ss", "de"} : checkIfStateMoved(t)) \/ handle_enable_buffer,
              Arriving' \subseteq Arriving
       PROVE  PlacesInv' /\ ChunksInv'
  <2>1. /\ \/ toDst' = toDst
           \/ toDst' = Append(toDst, [type |-> "EnableEvents"])
           \/ toDst # <<>> /\ Head(toDst).type = "EnableEvents" /\ toDst' = Tail(toDst)
        /\ UNCHANGED <<args, acked, putAcks, statesList, chunkAck, deMsg, putTasks, dstAcks,
                       exported, imported>>
        /\ pc'["ss"] = "count" <=> pc["ss"] = "count"
        /\ pc'["de"] = "ack" <=> pc["de"] = "ack"
        /\ pc'["de"] = "check" => pc["de"] = "check"
    BY <1>1, <1>11
       DEF checkIfStateMoved, handle_enable_buffer, Goto, Threads, getVars, eventVars, msgVars,
           poolVars, getState, dstVars
  <2>2. Distinct(toDst', PutMsgs) /\ Sent' = Sent
    BY <2>1, SentOther DEF PlacesInv
  <2>3. InAck' = InAck /\ Counted' = Counted /\ Range(dstAcks') = Range(dstAcks)
    BY <2>1 DEF InAck, Counted
  <2>4. Pipeline' = Pipeline
    BY <2>1, <2>2, <2>3 DEF Pipeline
  <2>5. Withheld' <=> Withheld
    BY <1>2, <2>1 DEF Withheld, AllAcked
  <2>6. PlacesInv'
    BY <1>11, <2>1, <2>2, <2>3, <2>4 DEF PlacesInv
  <2>7. QED
    BY <1>11, <2>1, <2>3, <2>4, <2>5, <2>6 DEF ChunksInv
<1>12. ASSUME NEW c \in putTasks, callChunk(c), Arriving' \subseteq Arriving
       PROVE  PlacesInv' /\ ChunksInv'
  <2>1. /\ putTasks' = putTasks \ {c} /\ c \in Chunks
        /\ toDst' = Append(toDst, Put(c)) \/ toDst' = toDst
        /\ UNCHANGED <<args, acked, putAcks, statesList, chunkAck, pc, deMsg, dstAcks,
                       exported, imported>>
    BY <1>1, <1>12 DEF callChunk, Put, getVars, eventVars, msgVars, getState, dstVars
  <2>2. c \notin Sent /\ c \notin Range(dstAcks) /\ c \notin Counted /\ c \in Pipeline
    BY DEF PlacesInv, Pipeline
  <2>3. Distinct(toDst', PutMsgs) /\ (Sent' = Sent \/ Sent' = Sent \cup {c})
    BY <2>1, <2>2, SentAppend, SentOther DEF PlacesInv
  <2>4. InAck' = InAck /\ Counted' = Counted /\ Range(dstAcks') = Range(dstAcks)
    BY <2>1 DEF InAck, Counted
  <2>5. Pipeline' \subseteq Pipeline
    BY <2>1, <2>3, <2>4 DEF Pipeline
  <2>6. Withheld' => Pipeline' = {}
    BY <1>2, <2>1, <2>2 DEF ChunksInv, Withheld, AllAcked
  <2>7. PlacesInv'
    BY <1>12, <2>1, <2>2, <2>3, <2>4, <2>5 DEF PlacesInv
  <2>8. QED
    BY <1>12, <2>1, <2>4, <2>5, <2>6, <2>7 DEF ChunksInv
<1>13. ASSUME handle_put, Arriving' \subseteq Arriving
       PROVE  PlacesInv' /\ ChunksInv'
  <2> DEFINE c == Head(toDst).chunk
  <2>1. /\ toDst # <<>> /\ Head(toDst).type = "Put" /\ toDst' = Tail(toDst)
        /\ imported' = imported \cup {c} /\ dstAcks' = Append(dstAcks, c)
        /\ UNCHANGED <<args, acked, putAcks, statesList, chunkAck, pc, deMsg, putTasks, exported>>
    BY <1>13 DEF handle_put, getVars, eventVars, msgVars, poolVars, getState
  <2>2. c \in Sent /\ Distinct(toDst', PutMsgs) /\ Sent' = Sent \ {c}
    BY <2>1, SentTail DEF PlacesInv
  <2> HIDE DEF c
  <2>3. /\ c \in Chunks /\ c \notin Range(dstAcks) /\ c \notin Counted /\ c \notin putTasks
        /\ c \in Pipeline /\ c \in exported
    BY <2>2 DEF PlacesInv, ChunksInv, Pipeline, Sent
  <2>4. Distinct(dstAcks', Chunks) /\ Range(dstAcks') = Range(dstAcks) \cup {c}
    BY <1>1, <2>1, <2>3, RangeAppend, DistinctAppend DEF PlacesInv
  <2>5. InAck' = InAck /\ Counted' = Counted
    BY <2>1 DEF InAck, Counted
  <2>6. Pipeline' = Pipeline
    BY <2>1, <2>2, <2>4, <2>5 DEF Pipeline
  <2>7. Withheld' => Pipeline' = {}
    BY <1>2, <2>1, <2>3 DEF ChunksInv, Withheld, AllAcked
  <2>8. PlacesInv'
    BY <1>13, <2>1, <2>2, <2>3, <2>4, <2>5, <2>6 DEF PlacesInv
  <2>9. QED
    BY <1>13, <2>1, <2>3, <2>4, <2>5, <2>6, <2>7, <2>8 DEF ChunksInv
<1>14. ASSUME put_fails, Arriving' \subseteq Arriving
       PROVE  PlacesInv' /\ ChunksInv'
  <2> DEFINE c == Head(toDst).chunk
  <2>1. /\ toDst # <<>> /\ Head(toDst).type = "Put" /\ toDst' = Tail(toDst)
        /\ UNCHANGED <<args, acked, putAcks, statesList, chunkAck, pc, deMsg, putTasks, dstAcks,
                       exported, imported>>
    BY <1>14 DEF put_fails, getVars, eventVars, msgVars, poolVars, getState, dstVars
  <2>2. c \in Sent /\ Distinct(toDst', PutMsgs) /\ Sent' = Sent \ {c}
    BY <2>1, SentTail DEF PlacesInv
  <2> HIDE DEF c
  <2>3. InAck' = InAck /\ Counted' = Counted /\ Range(dstAcks') = Range(dstAcks)
    BY <2>1 DEF InAck, Counted
  <2>4. Pipeline' \subseteq Pipeline
    BY <2>1, <2>2, <2>3 DEF Pipeline
  <2>5. Withheld' <=> Withheld
    BY <1>2, <2>1 DEF Withheld, AllAcked
  <2>6. PlacesInv'
    BY <1>14, <2>1, <2>2, <2>3, <2>4 DEF PlacesInv
  <2>7. QED
    BY <1>14, <2>1, <2>3, <2>4, <2>5, <2>6 DEF ChunksInv
<1>15. QED
  BY <1>4, <1>5, <1>6, <1>7, <1>8, <1>9, <1>10, <1>11, <1>12, <1>13, <1>14, ArrivingShrinks,
     ChunksFrameCases

-----------------------------------------------------------------------------
(* Completion.                                                             *)

(* A step that exports and installs nothing and ends no get.               *)
SetsFrame ==
  UNCHANGED <<getDone, exported, imported>>

(* Every step leaves the sets alone or is one of these actions.            *)
LEMMA SetsFrameCases ==
  ASSUME TypeOK, Next
  PROVE  \/ SetsFrame
         \/ \E c \in Chunks : send_state(c)
         \/ send_get_ack
         \/ handle_put
<1>1. pc \in [Threads -> Labels]
  BY DEF TypeOK, ThreadsType
<1> USE <1>1 DEF SetsFrame, Threads
<1>2. CASE execute
  BY <1>2 DEF execute, Goto, getState, dstVars
<1>3. CASE receiveEventsAckSrc
  BY <1>3 DEF receiveEventsAckSrc, getState, dstVars
<1>4. CASE receiveStateMessage
  BY <1>4 DEF receiveStateMessage, getState, dstVars
<1>5. CASE receiveGetAck
  BY <1>5 DEF receiveGetAck, Goto, getState, dstVars
<1>6. CASE setGetCount
  BY <1>6 DEF setGetCount, Goto, AfterGetAck, getState, dstVars
<1>7. CASE receivePutAck
  BY <1>7 DEF receivePutAck, Goto, getState, dstVars
<1>8. CASE releaseChunkEvents
  BY <1>8 DEF releaseChunkEvents, Goto, getState, dstVars
<1>9. ASSUME NEW t \in {"ss", "de"}, checkIfStateMoved(t)
      PROVE  SetsFrame
  BY <1>9 DEF checkIfStateMoved, Goto, getState, dstVars
<1>10. ASSUME NEW t \in {"ss", "de"}, releaseEvents(t)
      PROVE  SetsFrame
  BY <1>10 DEF releaseEvents, Goto, getState, dstVars
<1>11. ASSUME NEW t \in {"ss", "de"}, awaitEvents(t)
      PROVE  SetsFrame
  BY <1>11 DEF awaitEvents, Goto, getState, dstVars
<1>12. ASSUME NEW t \in {"ss", "de"}, setImmediateRelease(t)
      PROVE  SetsFrame
  BY <1>12 DEF setImmediateRelease, Goto, getState, dstVars
<1>13. CASE receiveReprocess
  BY <1>13 DEF receiveReprocess, Goto, getState, dstVars
<1>14. CASE holdEvent
  BY <1>14 DEF holdEvent, Goto, getState, dstVars
<1>15. ASSUME NEW c \in putTasks, callChunk(c)
      PROVE  SetsFrame
  BY <1>15 DEF callChunk, getState, dstVars
<1>16. ASSUME NEW e \in eventTasks, callEvent(e)
      PROVE  SetsFrame
  BY <1>16 DEF callEvent, getState, dstVars
<1>17. CASE receiveEventsAckDst
  BY <1>17 DEF receiveEventsAckDst, getState, dstVars
<1>18. CASE handle_enable_events
  BY <1>18 DEF handle_enable_events, getState, dstVars
<1>19. CASE handle_get
  BY <1>19 DEF handle_get, getState, dstVars
<1>20. CASE sdmbn_preprocess_packet
  BY <1>20 DEF sdmbn_preprocess_packet, getState, dstVars
<1>21. CASE process_packet
  BY <1>21 DEF process_packet, getState, dstVars
<1>22. CASE handle_enable_buffer
  BY <1>22 DEF handle_enable_buffer, getState, dstVars
<1>23. CASE installRule
  BY <1>23 DEF installRule, getState, dstVars
<1>24. CASE packetOut
  BY <1>24 DEF packetOut, getState, dstVars
<1>25. CASE receivePacket
  BY <1>25 DEF receivePacket, getState, dstVars
<1>26. CASE forward
  BY <1>26 DEF forward, getState, dstVars
<1>27. CASE get_fails
  BY <1>27 DEF get_fails, getState, dstVars
<1>28. CASE put_fails
  BY <1>28 DEF put_fails, getState, dstVars
<1> HIDE DEF SetsFrame
<1>29. QED
  BY <1>2, <1>3, <1>4, <1>5, <1>6, <1>7, <1>8, <1>9, <1>10, <1>11, <1>12, <1>13, <1>14,
     <1>15, <1>16, <1>17, <1>18, <1>19, <1>20, <1>21, <1>22, <1>23, <1>24, <1>25, <1>26,
     <1>27, <1>28 DEF Next, Controller, SrcNF, DstNF, Switch, Environment

(* A step that makes no new claim that the transfer is complete.           *)
ClaimsFrame ==
  Claimed' => Claimed

(* Only the check in checkIfStateMoved makes a new claim.                  *)
LEMMA ClaimsFrameCases ==
  ASSUME TypeOK, Next
  PROVE  \/ ClaimsFrame
         \/ \E t \in {"ss", "de"} : checkIfStateMoved(t)
<1>1. pc \in [Threads -> Labels]
  BY DEF TypeOK, ThreadsType
<1> USE <1>1 DEF ClaimsFrame, Threads
<1>2. CASE execute
  BY <1>2 DEF execute, Goto, Claimed, StateMoved, Completing, eventVars, opVars
<1>3. CASE receiveEventsAckSrc
  BY <1>3 DEF receiveEventsAckSrc, Claimed, StateMoved, Completing, eventVars, opVars
<1>4. CASE receiveStateMessage
  BY <1>4 DEF receiveStateMessage, Claimed, StateMoved, Completing, eventVars, opVars
<1>5. CASE receiveGetAck
  BY <1>5 DEF receiveGetAck, Goto, Claimed, StateMoved, Completing, eventVars, opVars
<1>6. CASE setGetCount
  BY <1>6 DEF setGetCount, Goto, AfterGetAck, Claimed, StateMoved, Completing, eventVars, opVars
<1>7. CASE receivePutAck
  BY <1>7 DEF receivePutAck, Goto, Claimed, StateMoved, Completing, eventVars, opVars
<1>8. CASE releaseChunkEvents
  BY <1>8 DEF releaseChunkEvents, Goto, Claimed, StateMoved, Completing, eventVars, opVars
<1>9. ASSUME NEW t \in {"ss", "de"}, releaseEvents(t)
      PROVE  ClaimsFrame
  BY <1>9 DEF releaseEvents, Goto, Claimed, StateMoved, Completing, eventVars, opVars
<1>10. ASSUME NEW t \in {"ss", "de"}, awaitEvents(t)
      PROVE  ClaimsFrame
  BY <1>10 DEF awaitEvents, Goto, Claimed, StateMoved, Completing, eventVars, opVars
<1>11. ASSUME NEW t \in {"ss", "de"}, setImmediateRelease(t)
      PROVE  ClaimsFrame
  BY <1>11 DEF setImmediateRelease, Goto, Claimed, StateMoved, Completing, eventVars, opVars
<1>12. CASE receiveReprocess
  BY <1>12 DEF receiveReprocess, Goto, Claimed, StateMoved, Completing, eventVars, opVars
<1>13. CASE holdEvent
  BY <1>13 DEF holdEvent, Goto, Claimed, StateMoved, Completing, eventVars, opVars
<1>14. ASSUME NEW c \in putTasks, callChunk(c)
      PROVE  ClaimsFrame
  BY <1>14 DEF callChunk, Claimed, StateMoved, Completing, eventVars, opVars
<1>15. ASSUME NEW e \in eventTasks, callEvent(e)
      PROVE  ClaimsFrame
  BY <1>15 DEF callEvent, Claimed, StateMoved, Completing, eventVars, opVars
<1>16. CASE receiveEventsAckDst
  BY <1>16 DEF receiveEventsAckDst, Claimed, StateMoved, Completing, eventVars, opVars
<1>17. CASE handle_enable_events
  BY <1>17 DEF handle_enable_events, Claimed, StateMoved, Completing, eventVars, opVars
<1>18. CASE handle_get
  BY <1>18 DEF handle_get, Claimed, StateMoved, Completing, eventVars, opVars
<1>19. ASSUME NEW c \in Chunks, send_state(c)
      PROVE  ClaimsFrame
  BY <1>19 DEF send_state, Claimed, StateMoved, Completing, eventVars, opVars
<1>20. CASE send_get_ack
  BY <1>20 DEF send_get_ack, Claimed, StateMoved, Completing, eventVars, opVars
<1>21. CASE sdmbn_preprocess_packet
  BY <1>21 DEF sdmbn_preprocess_packet, Claimed, StateMoved, Completing, eventVars, opVars
<1>22. CASE process_packet
  BY <1>22 DEF process_packet, Claimed, StateMoved, Completing, eventVars, opVars
<1>23. CASE handle_put
  BY <1>23 DEF handle_put, Claimed, StateMoved, Completing, eventVars, opVars
<1>24. CASE handle_enable_buffer
  BY <1>24 DEF handle_enable_buffer, Claimed, StateMoved, Completing, eventVars, opVars
<1>25. CASE installRule
  BY <1>25 DEF installRule, Claimed, StateMoved, Completing, eventVars, opVars
<1>26. CASE packetOut
  BY <1>26 DEF packetOut, Claimed, StateMoved, Completing, eventVars, opVars
<1>27. CASE receivePacket
  BY <1>27 DEF receivePacket, Claimed, StateMoved, Completing, eventVars, opVars
<1>28. CASE forward
  BY <1>28 DEF forward, Claimed, StateMoved, Completing, eventVars, opVars
<1>29. CASE get_fails
  BY <1>29 DEF get_fails, Claimed, StateMoved, Completing, eventVars, opVars
<1>30. CASE put_fails
  BY <1>30 DEF put_fails, Claimed, StateMoved, Completing, eventVars, opVars
<1> HIDE DEF ClaimsFrame
<1>31. QED
  BY <1>2, <1>3, <1>4, <1>5, <1>6, <1>7, <1>8, <1>9, <1>10, <1>11, <1>12, <1>13, <1>14,
     <1>15, <1>16, <1>17, <1>18, <1>19, <1>20, <1>21, <1>22, <1>23, <1>24, <1>25, <1>26,
     <1>27, <1>28, <1>29, <1>30 DEF Next, Controller, SrcNF, DstNF, Switch, Environment

(* Counts that agree when checkIfStateMoved looks mean that the put of     *)
(* every exported chunk has been acknowledged.                             *)
LEMMA AllCounted ==
  ASSUME TransferInv, CountsSettled, Completed,
         pc["ss"] = "check" \/ pc["de"] = "check"
  PROVE  ScopeKinds \subseteq getDone /\ exported \subseteq Counted
<1> USE DEF TransferInv
<1>1. /\ ScopeKinds \subseteq Kinds /\ exported \subseteq Chunks
      /\ ssMsg \in GetAckMsgs /\ ssMsg.kind \in Kinds
  BY DEF TypeOK, SrcType, ThreadsType, ScopeKinds, GetAckMsgs
<1>2. ScopeKinds \subseteq getDone
  BY <1>1 DEF Completed, CountsInv
<1>3. \A c \in Counted : c \in exported /\ c \in Pipeline
  BY DEF ChunksInv, Pipeline
<1>4. \A k : IsFiniteSet(exported \cap ChunksOf(k)) /\ IsFiniteSet(Counted \cap ChunksOf(k))
  BY ChunksAssumption, FS_Subset DEF ChunksOf
<1>5. \A c \in exported : KindOf(c) \in ScopeKinds /\ c \in ChunksOf(KindOf(c))
  BY <1>1 DEF RequestsInv, Chunks, KindOf, ChunksOf
<1>6. pc["ss"] # "count"
  <2> SUFFICES ASSUME pc["ss"] = "count"
               PROVE  FALSE
    OBVIOUS
  <2>1. chunkAck # {}
    BY DEF ChunksInv
  <2>2. PICK c : c \in chunkAck
    BY <2>1
  <2>3. c \in Counted /\ c \in exported /\ c \in Pipeline
    BY <1>3, <2>2 DEF Counted
  <2>4. ~Batched
    BY <2>3 DEF ChunksInv, Withheld
  <2>5. ssMsg.kind \in ScopeKinds
    BY <1>1 DEF CountsInv, RequestsInv
  <2>6. KindOf(c) = ssMsg.kind
    BY <1>5, <2>3, <2>4, <2>5 DEF CountsSettled, ScopeKinds, ScopeOf, Kinds
  <2> DEFINE k == ssMsg.kind
  <2>7. count[k] = 0
    BY <1>1 DEF CountsInv, Counting
  <2>8. putAcks[k] = Cardinality(Counted \cap ChunksOf(k)) /\ putAcks[k] = count[k]
    BY <1>1, <2>5 DEF ChunksInv, Completed
  <2>9. c \in Counted \cap ChunksOf(k)
    BY <1>5, <2>3, <2>6
  <2>10. Cardinality(Counted \cap ChunksOf(k)) # 0
    BY <1>4, <2>9, FS_EmptySet
  <2>11. QED
    BY <2>7, <2>8, <2>10
<1>7. ASSUME NEW k \in ScopeKinds
      PROVE  Counted \cap ChunksOf(k) = exported \cap ChunksOf(k)
  <2>1. count[k] = ExportedCount(k)
    BY <1>1, <1>6 DEF Completed, CountsInv, Counting
  <2>2. Cardinality(Counted \cap ChunksOf(k)) = Cardinality(exported \cap ChunksOf(k))
    BY <1>1, <2>1 DEF Completed, ChunksInv, ExportedCount
  <2>3. Counted \cap ChunksOf(k) \subseteq exported \cap ChunksOf(k)
    BY <1>3
  <2>4. QED
    BY <1>4, <2>2, <2>3, FS_Subset
<1>8. exported \subseteq Counted
  BY <1>5, <1>7
<1>9. QED
  BY <1>2, <1>8

(* ... and that every exported chunk is installed.                         *)
LEMMA EqualCounts ==
  ASSUME TransferInv, CountsSettled, Completed,
         pc["ss"] = "check" \/ pc["de"] = "check"
  PROVE  Transferred
  BY AllCounted DEF Transferred, TransferInv, ChunksInv

(* What has been transferred stays transferred: the source exports nothing *)
(* more once every get has ended.                                          *)
LEMMA TransferredStable ==
  ASSUME TransferInv, Transferred, Next
  PROVE  Transferred'
<1> USE DEF TransferInv
<1>1. ScopeKinds' = ScopeKinds
  BY ArgsKept, ArgsStable
<1>2. CASE SetsFrame
  BY <1>1, <1>2 DEF SetsFrame, Transferred
<1>3. ASSUME NEW c \in Chunks, send_state(c)
      PROVE  FALSE
  BY <1>3 DEF send_state, Transferred, RequestsInv
<1>4. CASE send_get_ack
  BY <1>1, <1>4 DEF send_get_ack, Transferred, dstVars
<1>5. CASE handle_put
  <2>1. Head(toDst).chunk \in Sent
    BY <1>5, SentTail DEF handle_put, PlacesInv
  <2>2. Head(toDst).chunk \in exported
    BY <2>1 DEF ChunksInv, Pipeline
  <2>3. QED
    BY <1>1, <1>5, <2>2 DEF handle_put, Transferred, getState
<1>6. QED
  BY <1>2, <1>3, <1>4, <1>5, SetsFrameCases

(* The invariant of the transfer is inductive.                             *)
LEMMA TransferInvStep ==
  TransferInv /\ [Next]_vars => TransferInv'
<1> SUFFICES ASSUME TransferInv, [Next]_vars
             PROVE  TransferInv'
  OBVIOUS
<1>1. CASE Next
  BY <1>1, TypeStep, RequestsStep, CountsStep, ChunksStep DEF TransferInv
<1>2. CASE UNCHANGED vars
  <2>1. TypeOK'
    BY <1>2, TypeStep DEF TransferInv
  <2>2. UNCHANGED args /\ RequestsFrame /\ CountsFrame /\ ChunksFrame
    BY <1>2
       DEF vars, RequestsFrame, CountsFrame, ChunksFrame, getVars, eventVars, msgVars, poolVars,
           srcChan, dstChan, getState, dstVars
  <2>3. ScopeKinds' = ScopeKinds /\ (Batched' <=> Batched)
    BY <2>2, ArgsStable
  <2>4. RequestsInv'
    BY <2>2, <2>3 DEF TransferInv, RequestsInv, RequestsFrame, Untouched
  <2>5. CountsInv'
    BY <2>2 DEF TransferInv, CountsInv, CountsFrame, Counting, ExportedCount
  <2>6. /\ Sent' = Sent /\ InAck' = InAck /\ Counted' = Counted /\ Arriving' = Arriving
        /\ Range(dstAcks') = Range(dstAcks) /\ Pipeline' = Pipeline
    BY <2>2 DEF CountsFrame, ChunksFrame, Arriving, Sent, InAck, Counted, Pipeline
  <2>7. Withheld' <=> Withheld
    BY <2>2, <2>3 DEF ChunksFrame, Withheld, AllAcked
  <2>8. PlacesInv'
    BY <2>2, <2>6 DEF TransferInv, PlacesInv, ChunksFrame
  <2>9. ChunksInv'
    BY <2>2, <2>6, <2>7 DEF TransferInv, ChunksInv, ChunksFrame
  <2>10. QED
    BY <2>1, <2>4, <2>5, <2>8, <2>9 DEF TransferInv
<1>3. QED
  BY <1>1, <1>2

(* The inductive invariant holds at the start.                             *)
LEMMA TransferInvInit ==
  Init /\ TypeOK => TransferInv
<1> SUFFICES ASSUME Init, TypeOK
             PROVE  TransferInv
  OBVIOUS
<1>1. /\ Range(toSrc) = {} /\ Range(fromSrc) = {} /\ Range(toDst) = {} /\ Range(dstAcks) = {}
      /\ Distinct(toSrc, Kinds) /\ Distinct(fromSrc, StateMsgs \cup GetAckMsgs)
      /\ Distinct(toDst, PutMsgs) /\ Distinct(dstAcks, Chunks)
  BY EmptyQueue DEF Init
<1>2. /\ pc["app"] = "start" /\ pc["ss"] = "idle" /\ pc["de"] = "idle"
      /\ \A k \in Kinds : ~acked[k] /\ count[k] = 0 /\ putAcks[k] = 0
  BY DEF Init, Threads
<1>3. Arriving = {} /\ Sent = {} /\ InAck = {} /\ Counted = {} /\ Pipeline = {}
  BY <1>1, <1>2 DEF Init, Arriving, Sent, InAck, Counted, Pipeline
<1>4. RequestsInv
  BY <1>1, <1>2 DEF Init, RequestsInv, Untouched
<1>5. CountsInv
  BY <1>1, <1>2 DEF CountsInv
<1>6. PlacesInv
  BY <1>1, <1>2, <1>3 DEF PlacesInv
<1>7. ChunksInv
  <2>1. \A k \in Kinds : Cardinality(Counted \cap ChunksOf(k)) = 0
    BY <1>3, FS_EmptySet
  <2>2. QED
    BY <1>1, <1>2, <1>3, <2>1 DEF Init, ChunksInv
<1>8. QED
  BY <1>4, <1>5, <1>6, <1>7 DEF TransferInv

(* In every reachable state a chunk is in one place between the source and *)
(* the put ack, and the counters of the operation count what they stand    *)
(* for.                                                                    *)
THEOREM TransferInvariant == Spec => []TransferInv
<1>1. Init => TypeOK
  BY InitTypes
<1>2. Init => TransferInv
  BY <1>1, TransferInvInit
<1>3. QED
  BY <1>2, TransferInvStep, PTL DEF Spec

(* The claim of completeness is made by checkIfStateMoved, and it is true. *)
LEMMA CompleteStep ==
  TransferInv /\ CompleteMeansTransferred /\ [Next]_vars => CompleteMeansTransferred'
<1> SUFFICES ASSUME TransferInv, CompleteMeansTransferred, [Next]_vars
             PROVE  CompleteMeansTransferred'
  OBVIOUS
<1>1. CASE UNCHANGED vars
  <2>1. UNCHANGED <<args, pc, immediateRelease, finishes, getDone, exported, imported>>
    BY <1>1 DEF vars, eventVars, opVars, getState, dstVars
  <2>2. ScopeKinds' = ScopeKinds /\ (CountsSettled' <=> CountsSettled)
    BY <2>1, ArgsStable
  <2>3. QED
    BY <2>1, <2>2
       DEF CompleteMeansTransferred, Claimed, StateMoved, Completing, Transferred
<1>2. CASE Next
  <2>1. CountsSettled' <=> CountsSettled
    BY <1>2, ArgsKept, ArgsStable
  <2>2. CASE ClaimsFrame
    BY <1>2, <2>1, <2>2, TransferredStable DEF ClaimsFrame, CompleteMeansTransferred
  <2>3. ASSUME NEW t \in {"ss", "de"}, checkIfStateMoved(t), CountsSettled, Claimed'
        PROVE  Transferred'
    <3>1. pc \in [Threads -> Labels] /\ pc[t] = "check"
      BY <2>3 DEF TransferInv, TypeOK, ThreadsType, checkIfStateMoved, Goto
    <3>2. CASE Completed
      <4>1. Transferred
        BY <2>3, <3>1, <3>2, EqualCounts
      <4>2. QED
        BY <1>2, <4>1, TransferredStable
    <3>3. CASE ~Completed
      <4>1. Claimed
        BY <2>3, <3>1, <3>3
           DEF checkIfStateMoved, Goto, Threads, Claimed, StateMoved, Completing, eventVars, opVars
      <4>2. QED
        BY <1>2, <2>3, <4>1, TransferredStable DEF CompleteMeansTransferred
    <3>4. QED
      BY <3>2, <3>3
  <2>4. QED
    BY <1>2, <2>1, <2>2, <2>3, ClaimsFrameCases DEF CompleteMeansTransferred, TransferInv
<1>3. QED
  BY <1>1, <1>2

(* When a move of one kind of state, or one that holds chunks back, claims *)
(* to be complete, every chunk the source exported is at the destination.  *)
THEOREM CompletionCorrect == Spec => []CompleteMeansTransferred
<1>1. Init => CompleteMeansTransferred
  BY DEF Init, CompleteMeansTransferred, Claimed, StateMoved, Completing, Threads
<1>2. QED
  BY <1>1, CompleteStep, TransferInvariant, PTL DEF Spec

-----------------------------------------------------------------------------
(* A move implements the abstract transfer of module Transfer.             *)

(* What the mapping shows of the end of the gets and of the announcement.  *)
GetsEnded == ScopeKinds \subseteq getDone
Announced == finishes > 0 /\ CountsSettled

(* The source is asked for something.                                      *)
LEMMA ScopeNotEmpty ==
  ASSUME TypeOK
  PROVE  ScopeKinds # {}
<1>1. args.scope \in Scopes
  BY ConfigsAssumption DEF TypeOK, ValidConfigs
<1>2. QED
  BY <1>1 DEF Scopes, ScopeKinds, ScopeOf, Kinds

(* A step that neither moves a chunk, ends a get nor announces the end is  *)
(* no step of the abstract transfer.                                       *)
LEMMA StutterStep ==
  ASSUME UNCHANGED <<args, getDone, exported, imported>>, Announced' <=> Announced
  PROVE  UNCHANGED T!vars
<1>1. GetsEnded' <=> GetsEnded
  BY ArgsStable DEF GetsEnded
<1>2. (ScopeKinds \subseteq getDone)' = (ScopeKinds \subseteq getDone)
  BY <1>1 DEF GetsEnded
<1>3. (finishes > 0 /\ CountsSettled)' = (finishes > 0 /\ CountsSettled)
  BY DEF Announced
<1>4. QED
  BY <1>2, <1>3 DEF T!vars

(* The end is announced by awaitEvents alone.                              *)
LEMMA FinishesKept ==
  ASSUME Next
  PROVE  UNCHANGED finishes \/ \E t \in {"ss", "de"} : awaitEvents(t)
<1>1. CASE execute
  BY <1>1 DEF execute, opVars
<1>2. CASE receiveEventsAckSrc
  BY <1>2 DEF receiveEventsAckSrc, opVars
<1>3. CASE receiveStateMessage
  BY <1>3 DEF receiveStateMessage, opVars
<1>4. CASE receiveGetAck
  BY <1>4 DEF receiveGetAck, opVars
<1>5. CASE setGetCount
  BY <1>5 DEF setGetCount, opVars
<1>6. CASE receivePutAck
  BY <1>6 DEF receivePutAck, opVars
<1>7. CASE releaseChunkEvents
  BY <1>7 DEF releaseChunkEvents, opVars
<1>8. ASSUME NEW t, checkIfStateMoved(t)
      PROVE  UNCHANGED finishes
  BY <1>8 DEF checkIfStateMoved, opVars
<1>9. ASSUME NEW t, releaseEvents(t)
      PROVE  UNCHANGED finishes
  BY <1>9 DEF releaseEvents, opVars
<1>10. ASSUME NEW t, setImmediateRelease(t)
      PROVE  UNCHANGED finishes
  BY <1>10 DEF setImmediateRelease, opVars
<1>11. CASE receiveReprocess
  BY <1>11 DEF receiveReprocess, opVars
<1>12. CASE holdEvent
  BY <1>12 DEF holdEvent, opVars
<1>13. ASSUME NEW c, callChunk(c)
      PROVE  UNCHANGED finishes
  BY <1>13 DEF callChunk, opVars
<1>14. ASSUME NEW e, callEvent(e)
      PROVE  UNCHANGED finishes
  BY <1>14 DEF callEvent, opVars
<1>15. CASE receiveEventsAckDst
  BY <1>15 DEF receiveEventsAckDst, opVars
<1>16. CASE handle_enable_events
  BY <1>16 DEF handle_enable_events, opVars
<1>17. CASE handle_get
  BY <1>17 DEF handle_get, opVars
<1>18. ASSUME NEW c, send_state(c)
      PROVE  UNCHANGED finishes
  BY <1>18 DEF send_state, opVars
<1>19. CASE send_get_ack
  BY <1>19 DEF send_get_ack, opVars
<1>20. CASE sdmbn_preprocess_packet
  BY <1>20 DEF sdmbn_preprocess_packet, opVars
<1>21. CASE process_packet
  BY <1>21 DEF process_packet, opVars
<1>22. CASE handle_put
  BY <1>22 DEF handle_put, opVars
<1>23. CASE handle_enable_buffer
  BY <1>23 DEF handle_enable_buffer, opVars
<1>24. CASE installRule
  BY <1>24 DEF installRule, opVars
<1>25. CASE packetOut
  BY <1>25 DEF packetOut, opVars
<1>26. CASE receivePacket
  BY <1>26 DEF receivePacket, opVars
<1>27. CASE forward
  BY <1>27 DEF forward, opVars
<1>28. CASE get_fails
  BY <1>28 DEF get_fails, opVars
<1>29. CASE put_fails
  BY <1>29 DEF put_fails, opVars
<1>30. QED
  BY <1>1, <1>2, <1>3, <1>4, <1>5, <1>6, <1>7, <1>8, <1>9, <1>10, <1>11, <1>12, <1>13,
     <1>14, <1>15, <1>16, <1>17, <1>18, <1>19, <1>20, <1>21, <1>22, <1>23, <1>24, <1>25,
     <1>26, <1>27, <1>28, <1>29 DEF Next, Controller, SrcNF, DstNF, Switch, Environment

(* Every step of a move is a step of the abstract transfer, or none.       *)
LEMMA RefinementStep ==
  ASSUME TransferInv, CompleteMeansTransferred, Next
  PROVE  [T!Next]_(T!vars)
<1>1. UNCHANGED args /\ ScopeKinds' = ScopeKinds /\ (CountsSettled' <=> CountsSettled)
  BY ArgsKept, ArgsStable
<1>2. ASSUME UNCHANGED finishes
      PROVE  Announced' <=> Announced
  BY <1>1, <1>2 DEF Announced
<1>3. ASSUME NEW c \in Chunks, send_state(c)
      PROVE  T!Leave(c)
  <2>1. /\ srcGet # "none" /\ exported' = exported \cup {c}
        /\ UNCHANGED <<getDone, imported, finishes>>
    BY <1>3 DEF send_state, opVars, dstVars
  <2>2. ~GetsEnded /\ (GetsEnded' <=> GetsEnded)
    BY <1>1, <2>1 DEF TransferInv, RequestsInv, GetsEnded
  <2>3. (ScopeKinds \subseteq getDone)' = (ScopeKinds \subseteq getDone)
    BY <2>2 DEF GetsEnded
  <2>4. (finishes > 0 /\ CountsSettled)' = (finishes > 0 /\ CountsSettled)
    BY <1>2, <2>1 DEF Announced
  <2>5. QED
    BY <2>1, <2>2, <2>3, <2>4 DEF T!Leave, GetsEnded
<1>4. CASE send_get_ack
  <2>1. UNCHANGED <<exported, imported, finishes>> /\ getDone \subseteq getDone'
    BY <1>4 DEF send_get_ack, opVars, dstVars
  <2>2. (finishes > 0 /\ CountsSettled)' = (finishes > 0 /\ CountsSettled)
    BY <1>2, <2>1 DEF Announced
  <2>3. CASE GetsEnded'
    <3>1. (ScopeKinds \subseteq getDone)' = TRUE
      BY <2>3 DEF GetsEnded
    <3>2. T!Close
      BY <2>1, <2>2, <3>1 DEF T!Close
    <3>3. QED
      BY <3>2 DEF T!Next
  <2>4. CASE ~GetsEnded'
    <3>1. ~GetsEnded
      BY <1>1, <2>1, <2>4 DEF GetsEnded
    <3>2. (ScopeKinds \subseteq getDone)' = (ScopeKinds \subseteq getDone)
      BY <2>4, <3>1 DEF GetsEnded
    <3>3. QED
      BY <2>1, <2>2, <3>2 DEF T!vars
  <2>5. QED
    BY <2>3, <2>4
<1>5. CASE handle_put
  <2> DEFINE c == Head(toDst).chunk
  <2>1. imported' = imported \cup {c} /\ UNCHANGED <<exported, getDone, finishes>>
    BY <1>5 DEF handle_put, opVars, getState
  <2>2. c \in Sent
    BY <1>5, SentTail DEF handle_put, TransferInv, PlacesInv
  <2>3. c \in Chunks /\ c \in exported
    BY <2>2 DEF TransferInv, ChunksInv, Pipeline, Sent
  <2> HIDE DEF c
  <2>4. (ScopeKinds \subseteq getDone)' = (ScopeKinds \subseteq getDone)
    BY <1>1, <2>1
  <2>5. (finishes > 0 /\ CountsSettled)' = (finishes > 0 /\ CountsSettled)
    BY <1>2, <2>1 DEF Announced
  <2>6. T!Arrive(c)
    BY <2>1, <2>3, <2>4, <2>5 DEF T!Arrive
  <2>7. QED
    BY <2>3, <2>6 DEF T!Next
<1>6. ASSUME NEW t \in {"ss", "de"}, awaitEvents(t)
      PROVE  [T!Next]_(T!vars)
  <2>1. /\ UNCHANGED <<exported, imported, getDone>> /\ pc[t] = "await"
        /\ finishes' = finishes \/ finishes' = finishes + 1
    BY <1>6 DEF awaitEvents, Goto, getState, dstVars
  <2>2. CASE Announced' <=> Announced
    BY <1>1, <2>1, <2>2, StutterStep
  <2>3. CASE ~(Announced' <=> Announced)
    <3>1. CountsSettled /\ finishes' > 0
      BY <1>1, <2>1, <2>3 DEF Announced, TransferInv, TypeOK, OperationType
    <3>2. Transferred
      BY <2>1, <3>1 DEF CompleteMeansTransferred, Claimed, StateMoved, Completing
    <3>3. GetsEnded /\ exported = imported /\ GetsEnded'
      BY <1>1, <2>1, <3>2 DEF Transferred, GetsEnded
    <3>4. (ScopeKinds \subseteq getDone)' = (ScopeKinds \subseteq getDone)
      BY <3>3 DEF GetsEnded
    <3>5. (finishes > 0 /\ CountsSettled)' = TRUE
      BY <1>1, <3>1
    <3>6. T!Report
      BY <2>1, <3>3, <3>4, <3>5 DEF T!Report, GetsEnded
    <3>7. QED
      BY <3>6 DEF T!Next
  <2>4. QED
    BY <2>2, <2>3
<1>7. ASSUME SetsFrame, UNCHANGED finishes
      PROVE  UNCHANGED T!vars
  BY <1>1, <1>2, <1>7, StutterStep DEF SetsFrame
<1>8. \/ UNCHANGED finishes
      \/ \E t \in {"ss", "de"} : awaitEvents(t)
  BY FinishesKept
<1>9. CASE \E c \in Chunks : send_state(c)
  BY <1>3, <1>9 DEF T!Next
<1>10. CASE SetsFrame
  BY <1>6, <1>7, <1>8, <1>10
<1>11. QED
  BY <1>4, <1>5, <1>9, <1>10, SetsFrameCases DEF TransferInv

(* A move of one kind of state, or one that holds chunks back, implements  *)
(* the abstract transfer: chunks leave before the gets have ended, arrive  *)
(* after they left, and the end is announced when all have arrived.        *)
THEOREM MoveImplementsTransfer == Spec => ImplementsTransfer
<1>1. Init => T!Init
  <2> SUFFICES ASSUME Init
               PROVE  T!Init
    OBVIOUS
  <2>1. exported = {} /\ imported = {} /\ getDone = {} /\ finishes = 0
    BY DEF Init
  <2>2. (ScopeKinds \subseteq getDone) = FALSE
    BY <2>1, InitTypes, ScopeNotEmpty
  <2>3. (finishes > 0 /\ CountsSettled) = FALSE
    BY <2>1
  <2>4. QED
    BY <2>1, <2>2, <2>3 DEF T!Init
<1>2. TransferInv /\ CompleteMeansTransferred /\ [Next]_vars => [T!Next]_(T!vars)
  <2> SUFFICES ASSUME TransferInv, CompleteMeansTransferred, [Next]_vars
               PROVE  [T!Next]_(T!vars)
    OBVIOUS
  <2>1. CASE Next
    BY <2>1, RefinementStep
  <2>2. CASE UNCHANGED vars
    <3>1. UNCHANGED <<args, getDone, exported, imported, finishes>>
      BY <2>2 DEF vars, getState, dstVars, opVars
    <3>2. Announced' <=> Announced
      BY <3>1, ArgsStable DEF Announced
    <3>3. QED
      BY <3>1, <3>2, StutterStep
  <2>3. QED
    BY <2>1, <2>2
<1>3. QED
  BY <1>1, <1>2, TransferInvariant, CompletionCorrect, PTL
     DEF Spec, ImplementsTransfer, T!Spec

-----------------------------------------------------------------------------
(* The packets of a move.                                                  *)

(* The packet-handling parts of the types.                                 *)
LEMMA PacketTypes ==
  ASSUME TypeOK
  PROVE  /\ eventsList \in Seq(Packets) /\ chunkEvents \in [Perflow -> Seq(Packets)]
         /\ srcEvents \in Seq(Packets) /\ srcIn \in Seq(Packets) /\ ofq \in Seq(SwitchMsgs)
         /\ dstBuffer \in Seq(Packets) /\ dstLog \in Seq(Packets)
         /\ eventTasks \subseteq EventTasks
         /\ applied \subseteq Packets /\ srcHand \in Packets \cup {None}
         /\ injected \in 0 .. NumPackets /\ pc \in [Threads -> Labels]
         /\ pc["se"] \in {"list", "chunk"} => seMsg \in Packets
         /\ FlowOf \in [Packets -> Perflow]
  BY BoundsAssumption
     DEF TypeOK, EventsType, ThreadsType, PoolType, SrcChanType, SrcType, DstType, NetType

(* The arguments never change, nor does what they select.                  *)
LEMMA SelectionStable ==
  ASSUME UNCHANGED args
  PROVE  /\ OrderPreserving' <=> OrderPreserving
         /\ RaiseEvents' <=> RaiseEvents
         /\ EarlyRelease' <=> EarlyRelease
         /\ ReleasedOnce' <=> ReleasedOnce
  BY DEF OrderPreserving, RaiseEvents, EarlyRelease, ReleasedOnce

-----------------------------------------------------------------------------
(* A step that moves no packet and sends nothing to the switch.            *)
PacketsFrame ==
  /\ UNCHANGED <<eventsList, chunkEvents, eventTasks, srcEvents, srcIn, ofq, dstBuffer, dstLog,
                 applied, srcHand, injected, seMsg, rule, packetCount>>
  /\ pc'["se"] = pc["se"]

(* Every step leaves the packets alone or is one of these actions.         *)
LEMMA PacketsFrameCases ==
  ASSUME TypeOK, Next
  PROVE  \/ PacketsFrame
         \/ releaseChunkEvents
         \/ \E t \in {"ss", "de"} : checkIfStateMoved(t)
         \/ \E t \in {"ss", "de"} : releaseEvents(t)
         \/ receiveReprocess
         \/ holdEvent
         \/ \E e \in eventTasks : callEvent(e)
         \/ sdmbn_preprocess_packet
         \/ process_packet
         \/ installRule
         \/ packetOut
         \/ receivePacket
         \/ forward
<1>1. pc \in [Threads -> Labels]
  BY DEF TypeOK, ThreadsType
<1> USE <1>1 DEF PacketsFrame, Threads
<1>2. CASE execute
  BY <1>2 DEF execute, Goto, eventVars, opVars, msgVars, poolVars, srcChan, pktState, dstVars,
     netVars
<1>3. CASE receiveEventsAckSrc
  BY <1>3 DEF receiveEventsAckSrc, eventVars, opVars, msgVars, poolVars, srcChan, pktState,
     dstVars, netVars
<1>4. CASE receiveStateMessage
  BY <1>4 DEF receiveStateMessage, eventVars, opVars, msgVars, poolVars, srcChan, pktState,
     dstVars, netVars
<1>5. CASE receiveGetAck
  BY <1>5 DEF receiveGetAck, Goto, eventVars, opVars, msgVars, poolVars, srcChan, pktState,
     dstVars, netVars
<1>6. CASE setGetCount
  BY <1>6 DEF setGetCount, Goto, AfterGetAck, eventVars, opVars, msgVars, poolVars, srcChan,
     pktState, dstVars, netVars
<1>7. CASE receivePutAck
  BY <1>7 DEF receivePutAck, Goto, eventVars, opVars, msgVars, poolVars, srcChan, pktState,
     dstVars, netVars
<1>8. ASSUME NEW t \in {"ss", "de"}, awaitEvents(t)
      PROVE  PacketsFrame
  BY <1>8 DEF awaitEvents, Goto, eventVars, opVars, msgVars, poolVars, srcChan, pktState,
     dstVars, netVars
<1>9. ASSUME NEW t \in {"ss", "de"}, setImmediateRelease(t)
      PROVE  PacketsFrame
  BY <1>9 DEF setImmediateRelease, Goto, eventVars, opVars, msgVars, poolVars, srcChan,
     pktState, dstVars, netVars
<1>10. ASSUME NEW c \in putTasks, callChunk(c)
      PROVE  PacketsFrame
  BY <1>10 DEF callChunk, eventVars, opVars, msgVars, poolVars, srcChan, pktState, dstVars,
     netVars
<1>11. CASE receiveEventsAckDst
  BY <1>11 DEF receiveEventsAckDst, eventVars, opVars, msgVars, poolVars, srcChan, pktState,
     dstVars, netVars
<1>12. CASE handle_enable_events
  BY <1>12 DEF handle_enable_events, eventVars, opVars, msgVars, poolVars, srcChan, pktState,
     dstVars, netVars
<1>13. CASE handle_get
  BY <1>13 DEF handle_get, eventVars, opVars, msgVars, poolVars, srcChan, pktState, dstVars,
     netVars
<1>14. ASSUME NEW c \in Chunks, send_state(c)
      PROVE  PacketsFrame
  BY <1>14 DEF send_state, eventVars, opVars, msgVars, poolVars, srcChan, pktState, dstVars,
     netVars
<1>15. CASE send_get_ack
  BY <1>15 DEF send_get_ack, eventVars, opVars, msgVars, poolVars, srcChan, pktState, dstVars,
     netVars
<1>16. CASE handle_put
  BY <1>16 DEF handle_put, eventVars, opVars, msgVars, poolVars, srcChan, pktState, dstVars,
     netVars
<1>17. CASE handle_enable_buffer
  BY <1>17 DEF handle_enable_buffer, eventVars, opVars, msgVars, poolVars, srcChan, pktState,
     dstVars, netVars
<1>18. CASE get_fails
  BY <1>18 DEF get_fails, eventVars, opVars, msgVars, poolVars, srcChan, pktState, dstVars,
     netVars
<1>19. CASE put_fails
  BY <1>19 DEF put_fails, eventVars, opVars, msgVars, poolVars, srcChan, pktState, dstVars,
     netVars
<1> HIDE DEF PacketsFrame
<1>20. QED
  BY <1>2, <1>3, <1>4, <1>5, <1>6, <1>7, <1>8, <1>9, <1>10, <1>11, <1>12, <1>13, <1>14,
     <1>15, <1>16, <1>17, <1>18, <1>19 DEF Next, Controller, SrcNF, DstNF, Switch, Environment

-----------------------------------------------------------------------------
(* Reports without a guarantee.                                            *)

(* A step that concerns neither the drop filter nor the reports.           *)
QuietFrame == UNCHANGED <<toSrc, srcEvents, dropFilter>>

(* Every step leaves them alone or is one of these actions.                *)
LEMMA QuietFrameCases ==
  ASSUME Next
  PROVE  \/ QuietFrame
         \/ execute
         \/ receiveEventsAckSrc
         \/ receiveReprocess
         \/ handle_enable_events
         \/ handle_get
         \/ sdmbn_preprocess_packet
         \/ process_packet
<1> USE DEF QuietFrame
<1>1. CASE receiveStateMessage
  BY <1>1 DEF receiveStateMessage, srcChan, pktState
<1>2. CASE receiveGetAck
  BY <1>2 DEF receiveGetAck, Goto, srcChan, pktState
<1>3. CASE setGetCount
  BY <1>3 DEF setGetCount, Goto, AfterGetAck, srcChan, pktState
<1>4. CASE receivePutAck
  BY <1>4 DEF receivePutAck, Goto, srcChan, pktState
<1>5. CASE releaseChunkEvents
  BY <1>5 DEF releaseChunkEvents, Goto, srcChan, pktState
<1>6. ASSUME NEW t \in {"ss", "de"}, checkIfStateMoved(t)
      PROVE  QuietFrame
  BY <1>6 DEF checkIfStateMoved, Goto, srcChan, pktState
<1>7. ASSUME NEW t \in {"ss", "de"}, releaseEvents(t)
      PROVE  QuietFrame
  BY <1>7 DEF releaseEvents, Goto, srcChan, pktState
<1>8. ASSUME NEW t \in {"ss", "de"}, awaitEvents(t)
      PROVE  QuietFrame
  BY <1>8 DEF awaitEvents, Goto, srcChan, pktState
<1>9. ASSUME NEW t \in {"ss", "de"}, setImmediateRelease(t)
      PROVE  QuietFrame
  BY <1>9 DEF setImmediateRelease, Goto, srcChan, pktState
<1>10. CASE holdEvent
  BY <1>10 DEF holdEvent, Goto, srcChan, pktState
<1>11. ASSUME NEW c \in putTasks, callChunk(c)
      PROVE  QuietFrame
  BY <1>11 DEF callChunk, srcChan, pktState
<1>12. ASSUME NEW e \in eventTasks, callEvent(e)
      PROVE  QuietFrame
  BY <1>12 DEF callEvent, srcChan, pktState
<1>13. CASE receiveEventsAckDst
  BY <1>13 DEF receiveEventsAckDst, srcChan, pktState
<1>14. ASSUME NEW c \in Chunks, send_state(c)
      PROVE  QuietFrame
  BY <1>14 DEF send_state, srcChan, pktState
<1>15. CASE send_get_ack
  BY <1>15 DEF send_get_ack, srcChan, pktState
<1>16. CASE handle_put
  BY <1>16 DEF handle_put, srcChan, pktState
<1>17. CASE handle_enable_buffer
  BY <1>17 DEF handle_enable_buffer, srcChan, pktState
<1>18. CASE installRule
  BY <1>18 DEF installRule, srcChan, pktState
<1>19. CASE packetOut
  BY <1>19 DEF packetOut, DstReceive, srcChan, pktState
<1>20. CASE receivePacket
  BY <1>20 DEF receivePacket, srcChan, pktState
<1>21. CASE forward
  BY <1>21 DEF forward, DstReceive, srcChan, pktState
<1>22. CASE get_fails
  BY <1>22 DEF get_fails, srcChan, pktState
<1>23. CASE put_fails
  BY <1>23 DEF put_fails, srcChan, pktState
<1> HIDE DEF QuietFrame
<1>24. QED
  BY <1>1, <1>2, <1>3, <1>4, <1>5, <1>6, <1>7, <1>8, <1>9, <1>10, <1>11, <1>12, <1>13,
     <1>14, <1>15, <1>16, <1>17, <1>18, <1>19, <1>20, <1>21, <1>22, <1>23 DEF Next, Controller,
     SrcNF, DstNF, Switch, Environment

(* Nothing asks the source to report packets when no guarantee is wanted.  *)
LEMMA QuietStep ==
  ASSUME TypeOK, RequestsInv, QuietInv, Next
  PROVE  QuietInv'
<1> SUFFICES ASSUME args.guarantee = "NO_GUARANTEE"
             PROVE  srcEvents' = <<>> /\ ~dropFilter' /\ "EnableEvents" \notin Range(toSrc')
  BY ArgsKept DEF QuietInv
<1>1. /\ srcEvents = <<>> /\ ~dropFilter /\ "EnableEvents" \notin Range(toSrc)
      /\ toSrc \in Seq({"EnableEvents"} \cup Kinds) /\ fromSrc \in Seq(SrcMsgs)
  BY DEF QuietInv, TypeOK, SrcChanType
<1>2. /\ "EnableEvents" \notin Range(GetRequests)
      /\ << >> \o GetRequests = GetRequests
  <2>1. "EnableEvents" \notin Kinds
    BY DEF Kinds
  <2>2. QED
    BY <2>1, RequestsSent, RangeType, ConcatEmptySeq
<1>3. CASE QuietFrame
  BY <1>1, <1>3 DEF QuietFrame
<1>4. CASE execute
  <2>1. toSrc' = GetRequests /\ UNCHANGED <<srcEvents, dropFilter>>
    BY <1>2, <1>4 DEF execute, Goto, RequestsInv, LocksEarly, pktState
  <2>2. QED
    BY <1>1, <1>2, <2>1
<1>5. CASE receiveEventsAckSrc
  <2>1. Head(fromSrc) \in Range(fromSrc) /\ Head(fromSrc) \in SrcMsgs
    BY <1>1, <1>5, RangeTail DEF receiveEventsAckSrc
  <2>2. Head(fromSrc) = EventsAck
    BY <1>5, <2>1 DEF receiveEventsAckSrc, SrcMsgs, StateMsgs, GetAckMsgs, EventsAck
  <2>3. toSrc' = GetRequests /\ UNCHANGED <<srcEvents, dropFilter>>
    BY <1>2, <1>5, <2>1, <2>2 DEF receiveEventsAckSrc, RequestsInv, pktState
  <2>4. QED
    BY <1>1, <1>2, <2>3
<1>6. CASE receiveReprocess
  BY <1>1, <1>6 DEF receiveReprocess
<1>7. CASE handle_enable_events
  BY <1>1, <1>7, RangeTail DEF handle_enable_events
<1>8. CASE handle_get
  <2>1. UNCHANGED <<srcEvents, dropFilter>> /\ toSrc # <<>> /\ toSrc' = Tail(toSrc)
    BY <1>8 DEF handle_get, pktState
  <2>2. QED
    BY <1>1, <2>1, RangeTail
<1>9. CASE sdmbn_preprocess_packet
  BY <1>1, <1>9 DEF sdmbn_preprocess_packet
<1>10. CASE process_packet
  BY <1>1, <1>10 DEF process_packet, RaiseEvents
<1>11. QED
  BY <1>3, <1>4, <1>5, <1>6, <1>7, <1>8, <1>9, <1>10, QuietFrameCases

(* The assertion in receiveReprocess holds: without a guarantee the source *)
(* reports no packet to the controller.                                    *)
THEOREM QuietWithoutGuarantee == Spec => []NoEventsWithoutGuarantee
<1>1. Init => QuietInv
  BY EmptyQueue DEF Init, QuietInv
<1>2. TransferInv /\ QuietInv /\ [Next]_vars => QuietInv'
  <2> SUFFICES ASSUME TransferInv, QuietInv, [Next]_vars
               PROVE  QuietInv'
    OBVIOUS
  <2>1. CASE Next
    BY <2>1, QuietStep DEF TransferInv
  <2>2. CASE UNCHANGED vars
    BY <2>2 DEF vars, QuietInv, srcChan, pktState
  <2>3. QED
    BY <2>1, <2>2
<1>3. QuietInv => NoEventsWithoutGuarantee
  BY DEF QuietInv, NoEventsWithoutGuarantee
<1>4. QED
  BY <1>1, <1>2, <1>3, TransferInvariant, PTL DEF Spec

-----------------------------------------------------------------------------
(* The announcement.                                                       *)

(* A step that concerns neither the claim nor what it rests on.            *)
OnceFrame ==
  /\ UNCHANGED <<immediateRelease, finishes, getDone, exported, chunkAck>>
  /\ pc'["ss"] = pc["ss"] /\ pc'["de"] = pc["de"]

(* Every step leaves them alone or is one of these actions.                *)
LEMMA OnceFrameCases ==
  ASSUME TypeOK, Next
  PROVE  \/ OnceFrame
         \/ receiveGetAck
         \/ setGetCount
         \/ receivePutAck
         \/ releaseChunkEvents
         \/ \E t \in {"ss", "de"} : checkIfStateMoved(t)
         \/ \E t \in {"ss", "de"} : releaseEvents(t)
         \/ \E t \in {"ss", "de"} : awaitEvents(t)
         \/ \E t \in {"ss", "de"} : setImmediateRelease(t)
         \/ \E c \in Chunks : send_state(c)
         \/ send_get_ack
<1>1. pc \in [Threads -> Labels]
  BY DEF TypeOK, ThreadsType
<1> USE <1>1 DEF OnceFrame, Threads
<1>2. CASE execute
  BY <1>2 DEF execute, Goto, eventVars, opVars, getState
<1>3. CASE receiveEventsAckSrc
  BY <1>3 DEF receiveEventsAckSrc, eventVars, opVars, getState
<1>4. CASE receiveStateMessage
  BY <1>4 DEF receiveStateMessage, eventVars, opVars, getState
<1>5. CASE receiveReprocess
  BY <1>5 DEF receiveReprocess, Goto, eventVars, opVars, getState
<1>6. CASE holdEvent
  BY <1>6 DEF holdEvent, Goto, eventVars, opVars, getState
<1>7. ASSUME NEW c \in putTasks, callChunk(c)
      PROVE  OnceFrame
  BY <1>7 DEF callChunk, eventVars, opVars, getState
<1>8. ASSUME NEW e \in eventTasks, callEvent(e)
      PROVE  OnceFrame
  BY <1>8 DEF callEvent, eventVars, opVars, getState
<1>9. CASE receiveEventsAckDst
  BY <1>9 DEF receiveEventsAckDst, eventVars, opVars, getState
<1>10. CASE handle_enable_events
  BY <1>10 DEF handle_enable_events, eventVars, opVars, getState
<1>11. CASE handle_get
  BY <1>11 DEF handle_get, eventVars, opVars, getState
<1>12. CASE sdmbn_preprocess_packet
  BY <1>12 DEF sdmbn_preprocess_packet, eventVars, opVars, getState
<1>13. CASE process_packet
  BY <1>13 DEF process_packet, eventVars, opVars, getState
<1>14. CASE handle_put
  BY <1>14 DEF handle_put, eventVars, opVars, getState
<1>15. CASE handle_enable_buffer
  BY <1>15 DEF handle_enable_buffer, eventVars, opVars, getState
<1>16. CASE installRule
  BY <1>16 DEF installRule, eventVars, opVars, getState
<1>17. CASE packetOut
  BY <1>17 DEF packetOut, DstReceive, eventVars, opVars, getState
<1>18. CASE receivePacket
  BY <1>18 DEF receivePacket, eventVars, opVars, getState
<1>19. CASE forward
  BY <1>19 DEF forward, DstReceive, eventVars, opVars, getState
<1>20. CASE get_fails
  BY <1>20 DEF get_fails, eventVars, opVars, getState
<1>21. CASE put_fails
  BY <1>21 DEF put_fails, eventVars, opVars, getState
<1> HIDE DEF OnceFrame
<1>22. QED
  BY <1>2, <1>3, <1>4, <1>5, <1>6, <1>7, <1>8, <1>9, <1>10, <1>11, <1>12, <1>13, <1>14,
     <1>15, <1>16, <1>17, <1>18, <1>19, <1>20, <1>21 DEF Next, Controller, SrcNF, DstNF,
     Switch, Environment

(* A move that holds chunks back claims completeness once.                 *)
LEMMA OnceStep ==
  ASSUME TransferInv, OnceInv, Next
  PROVE  OnceInv'
<1> SUFFICES ASSUME Batched
             PROVE  OnceInv'
  BY ArgsKept, ArgsStable DEF OnceInv
<1> USE DEF OnceInv
<1>1. /\ pc \in [Threads -> Labels] /\ finishes \in Nat
      /\ ScopeKinds' = ScopeKinds /\ (OrderPreserving' <=> OrderPreserving)
      /\ Batched' /\ CountsSettled
  BY ArgsKept, ArgsStable, SelectionStable
     DEF TransferInv, TypeOK, ThreadsType, OperationType, CountsSettled
<1> USE <1>1 DEF Threads, Claimed, StateMoved, Completing
<1>2. CASE OnceFrame
  BY <1>2 DEF OnceFrame
<1>3. CASE receiveGetAck
  BY <1>3 DEF receiveGetAck, Goto, eventVars, opVars, getState
<1>4. CASE setGetCount
  BY <1>4 DEF setGetCount, Goto, AfterGetAck, eventVars, opVars, getState
<1>5. CASE receivePutAck
  <2>1. /\ dstAcks # <<>> /\ dstAcks \in Seq(Chunks)
        /\ pc["de"] = "idle" /\ pc' = [pc EXCEPT !["de"] = "ack"]
        /\ UNCHANGED <<immediateRelease, finishes, getDone, exported, chunkAck>>
    BY <1>5
       DEF receivePutAck, Goto, TransferInv, TypeOK, DstChanType, eventVars, opVars, getState
  <2>2. Head(dstAcks) \in Range(dstAcks)
    BY <2>1, RangeTail
  <2>3. Head(dstAcks) \in exported /\ Head(dstAcks) \notin chunkAck
    BY <2>2 DEF TransferInv, PlacesInv, ChunksInv, Pipeline, Counted
  <2>4. ~Claimed
    BY <2>3
  <2>5. QED
    BY <2>1, <2>4
<1>6. CASE releaseChunkEvents
  BY <1>6 DEF releaseChunkEvents, Goto, opVars, getState
<1>7. ASSUME NEW t \in {"ss", "de"}, checkIfStateMoved(t)
      PROVE  OnceInv'
  <2>1. /\ t = "de" /\ pc["de"] = "check"
        /\ pc' = [pc EXCEPT !["de"] = IF Completed THEN "events" ELSE "idle"]
        /\ UNCHANGED <<immediateRelease, finishes, getDone, exported, chunkAck>>
    BY <1>7 DEF checkIfStateMoved, Goto, eventVars, opVars, getState
  <2>2. ~immediateRelease /\ finishes = 0
    BY <2>1
  <2>3. CASE Completed
    <3>1. ScopeKinds \subseteq getDone /\ exported \subseteq chunkAck
      BY <2>1, <2>3, AllCounted DEF Counted, InAck
    <3>2. QED
      BY <2>1, <2>2, <2>3, <3>1
  <2>4. CASE ~Completed
    BY <2>1, <2>2, <2>4
  <2>5. QED
    BY <2>3, <2>4
<1>8. ASSUME NEW t \in {"ss", "de"}, releaseEvents(t)
      PROVE  OnceInv'
  <2>1. /\ t = "de" /\ pc["de"] = "events"
        /\ \/ pc' = [pc EXCEPT !["de"] = "await"]
           \/ pc' = [pc EXCEPT !["de"] = "release"]
        /\ UNCHANGED <<immediateRelease, finishes, getDone, exported, chunkAck>>
    BY <1>8 DEF releaseEvents, Goto, opVars, getState
  <2>2. QED
    BY <2>1
<1>9. ASSUME NEW t \in {"ss", "de"}, awaitEvents(t)
      PROVE  OnceInv'
  <2>1. /\ t = "de" /\ pc["de"] = "await"
        /\ \/ pc' = [pc EXCEPT !["de"] = "events"] /\ finishes' = finishes
           \/ pc' = [pc EXCEPT !["de"] = "release"] /\ finishes' = finishes + 1
        /\ UNCHANGED <<immediateRelease, getDone, exported, chunkAck>>
    BY <1>9 DEF awaitEvents, Goto, eventVars, getState
  <2>2. QED
    BY <2>1
<1>10. ASSUME NEW t \in {"ss", "de"}, setImmediateRelease(t)
      PROVE  OnceInv'
  <2>1. /\ t = "de" /\ pc["de"] = "release" /\ pc' = [pc EXCEPT !["de"] = "idle"]
        /\ UNCHANGED <<finishes, getDone, exported, chunkAck>>
    BY <1>10 DEF setImmediateRelease, Goto, opVars, getState
  <2>2. QED
    BY <2>1
<1>11. ASSUME NEW c \in Chunks, send_state(c)
       PROVE  OnceInv'
  <2>1. /\ srcGet # "none"
        /\ UNCHANGED <<pc, immediateRelease, finishes, getDone, chunkAck>>
    BY <1>11 DEF send_state, eventVars, opVars
  <2>2. ~Claimed
    BY <2>1 DEF TransferInv, RequestsInv
  <2>3. QED
    BY <2>1, <2>2
<1>12. CASE send_get_ack
  BY <1>12 DEF send_get_ack, eventVars, opVars
<1>13. TypeOK
  BY DEF TransferInv
<1>14. QED
  BY <1>2, <1>3, <1>4, <1>5, <1>6, <1>7, <1>8, <1>9, <1>10, <1>11, <1>12, <1>13, OnceFrameCases

(* The invariant of the announcement.                                      *)
THEOREM ClaimedOnce == Spec => []OnceInv
<1>1. Init => OnceInv
  BY DEF Init, OnceInv, Claimed, StateMoved, Completing, Threads
<1>2. TransferInv /\ OnceInv /\ [Next]_vars => OnceInv'
  <2> SUFFICES ASSUME TransferInv, OnceInv, [Next]_vars
               PROVE  OnceInv'
    OBVIOUS
  <2>1. CASE Next
    BY <2>1, OnceStep
  <2>2. CASE UNCHANGED vars
    <3>1. UNCHANGED <<args, pc, immediateRelease, finishes, getDone, exported, chunkAck>>
      BY <2>2 DEF vars, eventVars, opVars, getState
    <3>2. ScopeKinds' = ScopeKinds /\ (Batched' <=> Batched)
      BY <3>1, ArgsStable
    <3>3. QED
      BY <3>1, <3>2 DEF OnceInv, Claimed, StateMoved, Completing
  <2>3. QED
    BY <2>1, <2>2
<1>3. QED
  BY <1>1, <1>2, TransferInvariant, PTL DEF Spec

(* A move that holds chunks back tells the application of its end once.    *)
THEOREM EndAnnouncedOnce == Spec => []AnnouncedOnce
<1>1. OnceInv => AnnouncedOnce
  BY DEF OnceInv, AnnouncedOnce
<1>2. QED
  BY <1>1, ClaimedOnce, PTL

-----------------------------------------------------------------------------
(* State before packets.                                                   *)

(* What thread de sends to the switch when a chunk is acknowledged: its    *)
(* events, in their order.                                                 *)
SentOut(q) == [i \in 1 .. Len(q) |-> PacketOut(q[i])]

(* A packet is sent if and only if it was held, and once if it was held once. *)
LEMMA PacketOutsSent ==
  ASSUME NEW q \in Seq(Packets), NEW o, o = SentOut(q)
  PROVE  /\ o \in Seq(SwitchMsgs)
         /\ \A p : PacketOut(p) \in Range(o) <=> p \in Range(q)
         /\ FlowMod \notin Range(o)
         /\ Distinct(q, Packets) => Distinct(o, PacketOuts)
<1>1. Len(q) \in Nat /\ \A i \in 1 .. Len(q) : q[i] \in Packets
  BY LenProperties, ElementOfSeq
<1>2. \A i \in 1 .. Len(q) : o[i] = PacketOut(q[i]) /\ PacketOut(q[i]) \in SwitchMsgs
  BY <1>1 DEF SentOut, PacketOut, SwitchMsgs
<1>3. o \in Seq(SwitchMsgs) /\ Len(o) = Len(q)
  BY <1>1, <1>2 DEF SentOut
<1>4. \A p, r : PacketOut(p) = PacketOut(r) => p = r
  BY DEF PacketOut
<1>5. \A p : PacketOut(p) \in Range(o) <=> p \in Range(q)
  <2>1. \A e : e \in Range(o) <=> \E i \in 1 .. Len(q) : e = o[i]
    BY <1>3, InRange, Zenon
  <2>2. \A e : e \in Range(q) <=> \E i \in 1 .. Len(q) : e = q[i]
    BY InRange, Zenon
  <2>3. ASSUME NEW p, PacketOut(p) \in Range(o)
        PROVE  p \in Range(q)
    <3>1. PICK i \in 1 .. Len(q) : PacketOut(p) = o[i]
      BY <2>1, <2>3
    <3>2. p = q[i]
      BY <1>2, <1>4, <3>1
    <3>3. QED
      BY <2>2, <3>2
  <2>4. ASSUME NEW p \in Range(q)
        PROVE  PacketOut(p) \in Range(o)
    <3>1. PICK i \in 1 .. Len(q) : p = q[i]
      BY <2>2
    <3>2. PacketOut(p) = o[i]
      BY <1>2, <3>1
    <3>3. QED
      BY <2>1, <3>2
  <2>5. QED
    BY <2>3, <2>4
<1>6. \A p : FlowMod # PacketOut(p)
  BY DEF FlowMod, PacketOut
<1>7. FlowMod \notin Range(o)
  <2> SUFFICES ASSUME FlowMod \in Range(o)
               PROVE  FALSE
    OBVIOUS
  <2>1. \A e : e \in Range(o) <=> \E i \in 1 .. Len(o) : e = o[i]
    BY <1>3, InRange, Zenon
  <2>2. PICK i \in 1 .. Len(o) : FlowMod = o[i]
    BY <2>1
  <2>3. o[i] = PacketOut(q[i])
    BY <1>2, <1>3
  <2>4. QED
    BY <1>6, <2>2, <2>3
<1>8. Distinct(q, Packets) => Distinct(o, PacketOuts)
  <2> SUFFICES ASSUME Distinct(q, Packets), NEW i \in 1 .. Len(o), NEW j \in 1 .. Len(o), o[i] = o[j]
               PROVE  i = j
    BY DEF Distinct
  <2>1. i \in 1 .. Len(q) /\ j \in 1 .. Len(q)
    BY <1>3
  <2>2. q[i] = q[j] /\ q[i] \in Packets
    BY <1>1, <1>2, <1>4, <2>1
  <2>3. QED
    BY <2>1, <2>2 DEF Distinct
<1>9. QED
  BY <1>3, <1>5, <1>7, <1>8

(* A claim is never taken back.                                            *)
LEMMA ClaimStable ==
  ASSUME TypeOK, Next, Claimed
  PROVE  Claimed'
<1>1. pc \in [Threads -> Labels] /\ finishes \in Nat
  BY DEF TypeOK, ThreadsType, OperationType
<1> USE <1>1 DEF Claimed, StateMoved, Completing, Threads
<1>2. CASE OnceFrame
  BY <1>2 DEF OnceFrame
<1>3. CASE receiveGetAck
  BY <1>3 DEF receiveGetAck, Goto, eventVars, opVars
<1>4. CASE setGetCount
  BY <1>4 DEF setGetCount, Goto, eventVars, opVars
<1>5. CASE receivePutAck
  BY <1>5 DEF receivePutAck, Goto, eventVars, opVars
<1>6. CASE releaseChunkEvents
  BY <1>6 DEF releaseChunkEvents, Goto, opVars
<1>7. ASSUME NEW t \in {"ss", "de"}, checkIfStateMoved(t)
      PROVE  Claimed'
  BY <1>7 DEF checkIfStateMoved, Goto, eventVars, opVars
<1>8. ASSUME NEW t \in {"ss", "de"}, releaseEvents(t)
      PROVE  Claimed'
  BY <1>8 DEF releaseEvents, Goto, opVars
<1>9. ASSUME NEW t \in {"ss", "de"}, awaitEvents(t)
      PROVE  Claimed'
  BY <1>9 DEF awaitEvents, Goto, eventVars
<1>10. ASSUME NEW t \in {"ss", "de"}, setImmediateRelease(t)
      PROVE  Claimed'
  BY <1>10 DEF setImmediateRelease
<1>11. ASSUME NEW c \in Chunks, send_state(c)
      PROVE  Claimed'
  BY <1>11 DEF send_state, eventVars, opVars
<1>12. CASE send_get_ack
  BY <1>12 DEF send_get_ack, eventVars, opVars
<1>13. QED
  BY <1>2, <1>3, <1>4, <1>5, <1>6, <1>7, <1>8, <1>9, <1>10, <1>11, <1>12, OnceFrameCases

(* Installed state stays installed.                                        *)
LEMMA ImportedStable ==
  ASSUME TypeOK, Next
  PROVE  imported \subseteq imported'
<1>1. CASE SetsFrame
  BY <1>1 DEF SetsFrame
<1>2. CASE \E c \in Chunks : send_state(c)
  BY <1>2 DEF send_state, dstVars
<1>3. CASE send_get_ack
  BY <1>3 DEF send_get_ack, dstVars
<1>4. CASE handle_put
  BY <1>4 DEF handle_put
<1>5. QED
  BY <1>1, <1>2, <1>3, <1>4, SetsFrameCases

(* The events of a chunk are of its flow.                                  *)
LEMMA FlowsStep ==
  ASSUME TypeOK, FlowsInv, Next
  PROVE  FlowsInv'
<1>1. chunkEvents \in [Perflow -> Seq(Packets)] /\ FlowOf \in [Packets -> Perflow]
  BY PacketTypes
<1>2. CASE UNCHANGED chunkEvents
  BY <1>2 DEF FlowsInv
<1>3. CASE releaseChunkEvents
  <2>1. \/ chunkEvents' = chunkEvents
        \/ deMsg \in Perflow /\ chunkEvents' = [chunkEvents EXCEPT ![deMsg] = <<>>]
    BY <1>3 DEF releaseChunkEvents
  <2>2. Range(<< >>) = {}
    BY EmptyQueue
  <2>3. \A c \in Perflow : chunkEvents'[c] = chunkEvents[c] \/ chunkEvents'[c] = <<>>
    BY <1>1, <2>1
  <2>4. QED
    BY <2>2, <2>3 DEF FlowsInv
<1>4. CASE holdEvent
  <2>1. CASE pc["se"] = "chunk"
    <3>1. seMsg \in Packets /\ FlowOf[seMsg] \in Perflow
      BY <1>1, <2>1, PacketTypes
    <3>2. chunkEvents' = [chunkEvents EXCEPT ![FlowOf[seMsg]] = Append(@, seMsg)]
      BY <1>4, <2>1 DEF holdEvent, Goto
    <3>3. \A c \in Perflow : c # FlowOf[seMsg] => chunkEvents'[c] = chunkEvents[c]
      BY <1>1, <3>2
    <3>4. chunkEvents'[FlowOf[seMsg]] = Append(chunkEvents[FlowOf[seMsg]], seMsg)
      BY <1>1, <3>1, <3>2
    <3>5. Range(chunkEvents'[FlowOf[seMsg]]) = Range(chunkEvents[FlowOf[seMsg]]) \cup {seMsg}
      BY <1>1, <3>1, <3>4, RangeAppend
    <3>6. QED
      BY <3>3, <3>5 DEF FlowsInv
  <2>2. CASE pc["se"] # "chunk"
    BY <1>2, <1>4, <2>2 DEF holdEvent, Goto
  <2>3. QED
    BY <2>1, <2>2
<1>5. UNCHANGED chunkEvents \/ releaseChunkEvents \/ holdEvent
  <2>1. CASE PacketsFrame
    BY <2>1 DEF PacketsFrame
  <2>2. QED
    BY <2>1, PacketsFrameCases
       DEF checkIfStateMoved, releaseEvents, receiveReprocess, callEvent, receivePacket,
           sdmbn_preprocess_packet, process_packet, installRule, packetOut, forward, eventVars
<1>6. QED
  BY <1>2, <1>3, <1>4, <1>5

(* The events of a chunk are always of its flow.                           *)
LEMMA FlowsInvariant == Spec => []FlowsInv
<1>1. Init => FlowsInv
  BY EmptyQueue DEF Init, FlowsInv
<1>2. TypeOK /\ FlowsInv /\ [Next]_vars => FlowsInv'
  <2> SUFFICES ASSUME TypeOK, FlowsInv, [Next]_vars
               PROVE  FlowsInv'
    OBVIOUS
  <2>1. CASE UNCHANGED vars
    BY <2>1 DEF vars, eventVars, FlowsInv
  <2>2. QED
    BY <2>1, FlowsStep
<1>3. QED
  BY <1>1, <1>2, TypeCorrect, PTL DEF Spec

(* No packet is redirected, and the traffic is not re-routed, too early.   *)
LEMMA ReadyStep ==
  ASSUME TransferInv, FlowsInv, ReadyInv, Next
  PROVE  ReadyInv'
<1> DEFINE Ready == {p \in Packets : FlowOf[p] \in imported' \/ Claimed'}
           Rerouted == FlowMod \in Range(ofq) \/ rule = "dst"
<1>1. /\ eventTasks \subseteq EventTasks /\ ofq \in Seq(SwitchMsgs)
      /\ dstBuffer \in Seq(Packets) /\ dstLog \in Seq(Packets) /\ eventsList \in Seq(Packets)
      /\ srcEvents \in Seq(Packets) /\ injected \in 0 .. NumPackets
      /\ chunkEvents \in [Perflow -> Seq(Packets)] /\ FlowOf \in [Packets -> Perflow]
      /\ pc \in [Threads -> Labels] /\ packetCount \in Nat
  BY PacketTypes, BoundsAssumption DEF TransferInv, TypeOK, OperationType
<1>2. packetCount' = 0 => packetCount = 0
  <2>1. CASE PacketsFrame
    BY <2>1 DEF PacketsFrame
  <2>2. CASE receivePacket
    BY <1>1, <2>2 DEF receivePacket
  <2>3. QED
    BY <2>1, <2>2, PacketsFrameCases
       DEF checkIfStateMoved, releaseEvents, receiveReprocess, callEvent, holdEvent,
           sdmbn_preprocess_packet, process_packet, installRule, packetOut, forward, opVars,
           releaseChunkEvents, TransferInv
<1> SUFFICES ASSUME packetCount' = 0, packetCount = 0
             PROVE  /\ Rerouted' => Claimed'
                    /\ Redirected' \subseteq Ready
  BY <1>2 DEF ReadyInv
<1>3. /\ Claimed => Claimed'
      /\ imported \subseteq imported'
  BY ClaimStable, ImportedStable DEF TransferInv
<1>4. Redirected \subseteq Packets
  <2>1. Range(dstLog) \subseteq Packets /\ Range(dstBuffer) \subseteq Packets
    BY <1>1, RangeType
  <2>2. QED
    BY <1>1, <2>1 DEF Redirected, EventTasks
<1>5. Redirected \subseteq Ready /\ (Rerouted => Claimed')
  BY <1>3, <1>4 DEF ReadyInv
<1> DEFINE Out(q) == {p \in Packets : PacketOut(p) \in Range(q)}
<1>6. /\ Redirected = {e.pkt : e \in eventTasks} \cup Out(ofq) \cup Range(dstLog) \cup Range(dstBuffer)
      /\ Redirected' = {e.pkt : e \in eventTasks'} \cup Out(ofq') \cup Range(dstLog')
                         \cup Range(dstBuffer')
  BY DEF Redirected
<1>7. \A p : FlowMod # PacketOut(p) /\ PacketOut(p).pkt = p /\ PacketOut(p).type = "PacketOut"
  BY DEF FlowMod, PacketOut
<1>8. \A p \in Packets : PacketOut(p) \in SwitchMsgs
  BY DEF PacketOut, SwitchMsgs
<1>9. CASE PacketsFrame
  BY <1>5, <1>9 DEF PacketsFrame, Redirected
<1>10. CASE releaseChunkEvents
  <2>1. /\ pc["de"] = "ack"
        /\ UNCHANGED <<eventTasks, dstLog, dstBuffer, rule>>
    BY <1>10 DEF releaseChunkEvents, Goto, poolVars, dstVars
  <2>2. CASE deMsg \in Perflow
    <3>1. PICK q : q = chunkEvents[deMsg]
      OBVIOUS
    <3>2. PICK o : o = SentOut(q)
      OBVIOUS
    <3>3. ofq' = ofq \o o
      BY <1>10, <2>2, <3>1, <3>2 DEF releaseChunkEvents, SentOut
    <3>4. q \in Seq(Packets) /\ \A p \in Range(q) : FlowOf[p] = deMsg
      BY <1>1, <2>2, <3>1 DEF FlowsInv
    <3>5. o \in Seq(SwitchMsgs) /\ FlowMod \notin Range(o) /\ \A p : PacketOut(p) \in Range(o) <=> p \in Range(q)
      BY <3>2, <3>4, PacketOutsSent
    <3>6. Range(ofq') = Range(ofq) \cup Range(o)
      BY <1>1, <3>3, <3>5, RangeConcatenation
    <3>7. deMsg \in imported
      BY <2>1 DEF TransferInv, ChunksInv, Counted, InAck
    <3>8. Range(q) \subseteq Ready
      BY <1>3, <3>4, <3>7, RangeType
    <3>9. Out(ofq') \subseteq Out(ofq) \cup Range(q)
      BY <3>5, <3>6
    <3>10. QED
      BY <1>5, <1>6, <2>1, <3>5, <3>6, <3>8, <3>9
  <2>3. CASE deMsg \notin Perflow
    BY <1>5, <1>10, <2>1, <2>3 DEF releaseChunkEvents, Redirected
  <2>4. QED
    BY <2>2, <2>3
<1>11. ASSUME NEW t \in {"ss", "de"}, checkIfStateMoved(t)
       PROVE  (Rerouted' => Claimed') /\ Redirected' \subseteq Ready
  <2>1. UNCHANGED <<eventTasks, dstLog, dstBuffer, rule>>
    BY <1>11 DEF checkIfStateMoved, poolVars, dstVars
  <2>2. CASE ofq' = ofq
    BY <1>5, <1>6, <2>1, <2>2
  <2>3. CASE ofq' # ofq
    <3>1. ofq' = Append(ofq, FlowMod) /\ Completed
      BY <1>11, <2>3 DEF checkIfStateMoved
    <3>2. Claimed'
      BY <1>1, <1>11, <3>1 DEF checkIfStateMoved, Goto, Threads, Claimed, StateMoved, Completing
    <3>3. FlowMod \in SwitchMsgs
      BY DEF FlowMod, SwitchMsgs
    <3>4. Range(ofq') = Range(ofq) \cup {FlowMod}
      BY <1>1, <3>1, <3>3, RangeAppend
    <3>5. Out(ofq') = Out(ofq)
      BY <1>7, <3>4
    <3>6. QED
      BY <1>5, <1>6, <2>1, <3>2, <3>5
  <2>4. QED
    BY <2>2, <2>3
<1>12. ASSUME NEW t \in {"ss", "de"}, releaseEvents(t)
       PROVE  (Rerouted' => Claimed') /\ Redirected' \subseteq Ready
  <2>1. UNCHANGED <<ofq, dstLog, dstBuffer, rule>> /\ pc[t] = "events"
    BY <1>12 DEF releaseEvents, Goto, dstVars, netVars
  <2>2. Claimed'
    BY <1>3, <2>1 DEF Claimed, StateMoved, Completing
  <2>3. \A e \in eventTasks' : e \in eventTasks \/ e.pkt \in Packets
    <3>1. Range(eventsList) \subseteq Packets
      BY <1>1, RangeType
    <3>2. eventsList # <<>> => Head(eventsList) \in Packets
      BY <1>1, RangeTail
    <3>3. QED
      BY <1>12, <3>1, <3>2 DEF releaseEvents
  <2>4. QED
    BY <1>5, <1>6, <2>1, <2>2, <2>3
<1>13. CASE receiveReprocess
  <2>1. /\ UNCHANGED <<ofq, dstLog, dstBuffer, rule>> /\ srcEvents # <<>>
        /\ \/ eventTasks' = eventTasks
           \/ /\ ReleaseNow(Head(srcEvents))
              /\ eventTasks' = eventTasks \cup {[pkt |-> Head(srcEvents), by |-> "se"]}
    BY <1>13 DEF receiveReprocess, dstVars, netVars
  <2>2. PICK p : p = Head(srcEvents)
    OBVIOUS
  <2>3. p \in Packets
    BY <1>1, <2>1, <2>2, RangeTail
  <2>4. ReleaseNow(p) => FlowOf[p] \in imported \/ Claimed
    BY DEF ReleaseNow, TransferInv, ChunksInv, Counted, Claimed, StateMoved
  <2>5. ReleaseNow(p) => p \in Ready
    BY <1>3, <2>3, <2>4
  <2>6. \A e \in eventTasks' : e \in eventTasks \/ e.pkt \in Ready
    BY <2>1, <2>2, <2>5
  <2>7. QED
    BY <1>5, <1>6, <2>1, <2>6
<1>14. CASE holdEvent
  BY <1>5, <1>14 DEF holdEvent, Redirected, poolVars, dstVars, netVars
<1>15. ASSUME NEW e \in eventTasks, callEvent(e)
       PROVE  (Rerouted' => Claimed') /\ Redirected' \subseteq Ready
  <2>1. UNCHANGED <<dstLog, dstBuffer, rule>> /\ ofq' = Append(ofq, PacketOut(e.pkt))
        /\ eventTasks' \subseteq eventTasks
    BY <1>15 DEF callEvent, dstVars
  <2>2. e.pkt \in Packets /\ e.pkt \in Ready
    BY <1>1, <1>5, <1>6 DEF EventTasks
  <2>3. Range(ofq') = Range(ofq) \cup {PacketOut(e.pkt)}
    BY <1>1, <1>8, <2>1, <2>2, RangeAppend
  <2>4. Out(ofq') \subseteq Out(ofq) \cup {e.pkt} /\ (FlowMod \in Range(ofq') => FlowMod \in Range(ofq))
    BY <1>7, <2>3
  <2>5. QED
    BY <1>5, <1>6, <2>1, <2>2, <2>4
<1>16. CASE receivePacket
  BY <1>1, <1>16 DEF receivePacket
<1>17. CASE sdmbn_preprocess_packet
  BY <1>5, <1>17 DEF sdmbn_preprocess_packet, Redirected, poolVars, dstVars
<1>18. CASE process_packet
  BY <1>5, <1>18 DEF process_packet, Redirected, poolVars, dstVars, netVars
<1>19. CASE installRule
  <2>1. /\ UNCHANGED <<eventTasks, dstLog, dstBuffer>> /\ ofq # <<>> /\ ofq' = Tail(ofq)
        /\ Head(ofq).type = "FlowMod"
    BY <1>19 DEF installRule, poolVars, dstVars
  <2>2. Head(ofq) \in Range(ofq) /\ Head(ofq) \in SwitchMsgs /\ Range(ofq') \subseteq Range(ofq)
    BY <1>1, <2>1, RangeTail
  <2>3. Head(ofq) = FlowMod
    BY <2>1, <2>2 DEF SwitchMsgs, FlowMod
  <2>4. QED
    BY <1>5, <1>6, <2>1, <2>2, <2>3
<1>20. CASE packetOut
  <2>1. /\ UNCHANGED <<eventTasks, dstBuffer, rule>> /\ ofq # <<>> /\ ofq' = Tail(ofq)
        /\ Head(ofq).type = "PacketOut" /\ dstLog' = Append(dstLog, Head(ofq).pkt)
    BY <1>20 DEF packetOut, DstReceive, poolVars
  <2>2. Head(ofq) \in Range(ofq) /\ Head(ofq) \in SwitchMsgs /\ Range(ofq') \subseteq Range(ofq)
    BY <1>1, <2>1, RangeTail
  <2>3. Head(ofq) = PacketOut(Head(ofq).pkt) /\ Head(ofq).pkt \in Packets
    BY <2>1, <2>2 DEF SwitchMsgs, PacketOut
  <2>4. Head(ofq).pkt \in Out(ofq)
    BY <2>2, <2>3
  <2>5. Range(dstLog') = Range(dstLog) \cup {Head(ofq).pkt}
    BY <1>1, <2>1, <2>3, RangeAppend
  <2>6. QED
    BY <1>5, <1>6, <2>1, <2>2, <2>4, <2>5
<1>21. CASE forward
  <2>1. UNCHANGED <<eventTasks, ofq, rule>>
    BY <1>21 DEF forward, poolVars
  <2>2. CASE rule = "src"
    BY <1>5, <1>6, <1>21, <2>1, <2>2 DEF forward
  <2>3. CASE rule # "src"
    <3>1. injected + 1 \in Packets
      BY <1>1, <1>21, BoundsAssumption DEF forward, Packets
    <3>2. Claimed'
      BY <1>5, <2>3 DEF TransferInv, TypeOK, NetType
    <3>3. \/ dstBuffer' = Append(dstBuffer, injected + 1) /\ UNCHANGED dstLog
          \/ dstLog' = Append(dstLog, injected + 1) /\ UNCHANGED dstBuffer
      BY <1>21, <2>3 DEF forward, DstReceive
    <3>4. Range(dstBuffer') \cup Range(dstLog') \subseteq Packets
      BY <1>1, <3>1, <3>3, RangeAppend, RangeType
    <3>5. Ready = Packets
      BY <3>2
    <3>6. QED
      BY <1>5, <1>6, <2>1, <3>2, <3>4, <3>5
  <2>4. QED
    BY <2>2, <2>3
<1>22. TypeOK
  BY DEF TransferInv
<1>23. QED
  BY <1>9, <1>10, <1>11, <1>12, <1>13, <1>14, <1>15, <1>16, <1>17, <1>18, <1>19, <1>20,
     <1>21, <1>22, PacketsFrameCases

(* The destination processes no packet of an exported flow before the      *)
(* state of the flow is there, as long as no packet-in interferes.         *)
THEOREM StateBeforePackets == Spec => []NoPacketBeforeState
<1>1. Init => ReadyInv
  <2>1. Range(<< >>) = {}
    BY EmptyQueue
  <2>2. QED
    BY <2>1 DEF Init, ReadyInv, Redirected
<1>2. TransferInv /\ FlowsInv /\ ReadyInv /\ [Next]_vars => ReadyInv'
  <2> SUFFICES ASSUME TransferInv, FlowsInv, ReadyInv, [Next]_vars
               PROVE  ReadyInv'
    OBVIOUS
  <2>1. CASE Next
    BY <2>1, ReadyStep
  <2>2. CASE UNCHANGED vars
    <3>1. /\ UNCHANGED <<eventTasks, ofq, dstLog, dstBuffer, rule, packetCount>>
          /\ UNCHANGED <<imported, pc, immediateRelease, finishes>>
      BY <2>2 DEF vars, eventVars, opVars, poolVars, dstVars, netVars
    <3>2. Redirected' = Redirected /\ (Claimed' <=> Claimed)
      BY <3>1 DEF Redirected, Claimed, StateMoved, Completing
    <3>3. QED
      BY <3>1, <3>2 DEF ReadyInv
  <2>3. QED
    BY <2>1, <2>2
<1>3. ReadyInv /\ CompleteMeansTransferred => NoPacketBeforeState
  BY DEF ReadyInv, CompleteMeansTransferred, NoPacketBeforeState, Redirected, Transferred
<1>4. QED
  BY <1>1, <1>2, <1>3, TransferInvariant, CompletionCorrect, FlowsInvariant, PTL DEF Spec

-----------------------------------------------------------------------------
(* No packet vanishes.                                                     *)

(* The switch takes a message from the controller out of the queue.        *)
LEMMA SwitchMessage ==
  ASSUME ofq \in Seq(SwitchMsgs), ofq # <<>>
  PROVE  /\ Tail(ofq) \in Seq(SwitchMsgs) /\ Head(ofq) \in Range(ofq)
         /\ Range(ofq) = {Head(ofq)} \cup Range(Tail(ofq))
         /\ Head(ofq).type = "FlowMod" => Head(ofq) = FlowMod
         /\ Head(ofq).type = "PacketOut" =>
              Head(ofq) = PacketOut(Head(ofq).pkt) /\ Head(ofq).pkt \in Packets
<1>1. /\ Tail(ofq) \in Seq(SwitchMsgs) /\ Head(ofq) \in SwitchMsgs /\ Head(ofq) \in Range(ofq)
      /\ Range(ofq) = {Head(ofq)} \cup Range(Tail(ofq))
  BY RangeTail
<1>2. QED
  BY <1>1 DEF SwitchMsgs, FlowMod, PacketOut

(* The messages the controller sends to the switch are told apart.         *)
LEMMA MessagesDiffer ==
  /\ \A p : FlowMod # PacketOut(p) /\ PacketOut(p).pkt = p
  /\ \A p, r : PacketOut(p) = PacketOut(r) => p = r
  /\ \A p \in Packets : PacketOut(p) \in SwitchMsgs
  /\ FlowMod \in SwitchMsgs
  BY DEF FlowMod, PacketOut, SwitchMsgs

(* Where the source reports the packets of exported flows, every step      *)
(* hands a packet on or leaves it where it is.                             *)
LEMMA AccountedStep ==
  ASSUME TypeOK, RaiseEvents, Next, NEW p \in Packets, Accounted(p)
  PROVE  Accounted(p)'
<1> USE DEF Accounted, InFlight
<1>1. /\ eventsList \in Seq(Packets) /\ chunkEvents \in [Perflow -> Seq(Packets)]
      /\ srcEvents \in Seq(Packets) /\ srcIn \in Seq(Packets) /\ ofq \in Seq(SwitchMsgs)
      /\ dstBuffer \in Seq(Packets) /\ dstLog \in Seq(Packets) /\ eventTasks \subseteq EventTasks
      /\ srcHand \in Packets \cup {None} /\ injected \in 0 .. NumPackets
      /\ pc \in [Threads -> Labels] /\ FlowOf \in [Packets -> Perflow]
      /\ pc["se"] \in {"list", "chunk"} => seMsg \in Packets
  BY PacketTypes
<1>2. args.guarantee # "NO_GUARANTEE"
  BY DEF RaiseEvents
<1>3. Range(Append(ofq, FlowMod)) = Range(ofq) \cup {FlowMod}
  BY <1>1, RangeAppend, MessagesDiffer
<1>4. \A r \in Packets : Range(Append(srcEvents, r)) = Range(srcEvents) \cup {r}
  BY <1>1, RangeAppend
<1>5. CASE PacketsFrame
  BY <1>5 DEF PacketsFrame
<1>6. CASE releaseChunkEvents
  <2>1. /\ UNCHANGED <<eventsList, eventTasks, srcEvents, srcIn, dstBuffer, dstLog, applied, srcHand,
                       seMsg>>
        /\ pc'["se"] = pc["se"]
    BY <1>1, <1>6
       DEF releaseChunkEvents, Goto, Threads, msgVars, poolVars, srcChan, pktState, dstVars
  <2>2. CASE deMsg \in Perflow
    <3>1. PICK q : q = chunkEvents[deMsg]
      OBVIOUS
    <3>2. PICK o : o = SentOut(q)
      OBVIOUS
    <3>3. ofq' = ofq \o o /\ q \in Seq(Packets)
          /\ \A c \in Perflow : c # deMsg => chunkEvents'[c] = chunkEvents[c]
      BY <1>1, <1>6, <2>2, <3>1, <3>2 DEF releaseChunkEvents, SentOut
    <3>4. o \in Seq(SwitchMsgs) /\ \A r : PacketOut(r) \in Range(o) <=> r \in Range(q)
      <4> HIDE DEF Accounted, InFlight
      <4>1. QED
        BY <3>2, <3>3, PacketOutsSent
    <3>5. Range(ofq') = Range(ofq) \cup Range(o)
      BY <1>1, <3>3, <3>4, RangeConcatenation
    <3>6. QED
      BY <2>1, <3>1, <3>3, <3>4, <3>5
  <2>3. CASE deMsg \notin Perflow
    BY <1>6, <2>1, <2>3 DEF releaseChunkEvents
  <2>4. QED
    BY <2>2, <2>3
<1>7. ASSUME NEW t \in {"ss", "de"}, checkIfStateMoved(t)
      PROVE  Accounted(p)'
  <2>1. /\ UNCHANGED <<eventsList, chunkEvents, eventTasks, srcEvents, srcIn, dstBuffer, dstLog,
                       applied, srcHand, seMsg>>
        /\ pc'["se"] = pc["se"]
        /\ ofq' = ofq \/ ofq' = Append(ofq, FlowMod)
    BY <1>1, <1>7
       DEF checkIfStateMoved, Goto, Threads, eventVars, msgVars, poolVars, srcChan, pktState, dstVars
  <2>2. Range(ofq) \subseteq Range(ofq')
    BY <1>3, <2>1
  <2>3. QED
    BY <2>1, <2>2
<1>8. ASSUME NEW t \in {"ss", "de"}, releaseEvents(t)
      PROVE  Accounted(p)'
  <2>1. /\ UNCHANGED <<chunkEvents, srcEvents, srcIn, ofq, dstBuffer, dstLog, applied, srcHand, seMsg>>
        /\ pc'["se"] = pc["se"] /\ eventTasks \subseteq eventTasks'
        /\ \/ eventsList' = eventsList
           \/ /\ eventsList # <<>> /\ eventsList' = Tail(eventsList)
              /\ [pkt |-> Head(eventsList), by |-> t] \in eventTasks'
    BY <1>1, <1>8
       DEF releaseEvents, Goto, Threads, msgVars, srcChan, pktState, dstVars, netVars
  <2>2. \A r \in Range(eventsList) : r \in Range(eventsList') \/ \E e \in eventTasks' : e.pkt = r
    BY <1>1, <2>1, RangeTail
  <2>3. QED
    BY <2>1, <2>2
<1>9. CASE receiveReprocess
  <2>1. /\ UNCHANGED <<eventsList, chunkEvents, srcIn, ofq, dstBuffer, dstLog, applied, srcHand>>
        /\ pc["se"] = "idle" /\ eventTasks \subseteq eventTasks'
        /\ srcEvents # <<>> /\ srcEvents' = Tail(srcEvents)
        /\ \/ [pkt |-> Head(srcEvents), by |-> "se"] \in eventTasks'
           \/ pc'["se"] \in {"list", "chunk"} /\ seMsg' = Head(srcEvents)
    BY <1>1, <1>2, <1>9
       DEF receiveReprocess, Goto, Threads, eventVars, pktState, dstVars, netVars
  <2>2. Range(srcEvents) = {Head(srcEvents)} \cup Range(srcEvents')
    BY <1>1, <2>1, RangeTail
  <2>3. QED
    BY <2>1, <2>2
<1>10. CASE holdEvent
  <2>1. UNCHANGED <<eventTasks, srcEvents, srcIn, ofq, dstBuffer, dstLog, applied, srcHand>>
    BY <1>10 DEF holdEvent, poolVars, srcChan, pktState, dstVars, netVars
  <2>2. CASE pc["se"] = "list"
    <3>1. chunkEvents' = chunkEvents /\ eventsList' = Append(eventsList, seMsg)
      BY <1>10, <2>2 DEF holdEvent, Goto
    <3>2. Range(eventsList') = Range(eventsList) \cup {seMsg}
      BY <1>1, <2>2, <3>1, RangeAppend
    <3>3. QED
      BY <2>1, <3>1, <3>2
  <2>3. CASE pc["se"] # "list"
    <3>1. /\ eventsList' = eventsList /\ pc["se"] = "chunk"
          /\ chunkEvents' = [chunkEvents EXCEPT ![FlowOf[seMsg]] = Append(@, seMsg)]
      BY <1>10, <2>3 DEF holdEvent, Goto
    <3>2. seMsg \in Packets /\ FlowOf[seMsg] \in Perflow
      BY <1>1, <3>1
    <3>3. Range(chunkEvents'[FlowOf[seMsg]]) = Range(chunkEvents[FlowOf[seMsg]]) \cup {seMsg}
      <4>1. chunkEvents'[FlowOf[seMsg]] = Append(chunkEvents[FlowOf[seMsg]], seMsg)
        BY <1>1, <3>1, <3>2
      <4>2. QED
        BY <1>1, <3>2, <4>1, RangeAppend
    <3>4. \A c \in Perflow : c # FlowOf[seMsg] => chunkEvents'[c] = chunkEvents[c]
      BY <1>1, <3>1
    <3>5. QED
      BY <2>1, <3>1, <3>2, <3>3, <3>4
  <2>4. QED
    BY <2>2, <2>3
<1>11. ASSUME NEW e \in eventTasks, callEvent(e)
      PROVE  Accounted(p)'
  <2>1. /\ UNCHANGED <<eventsList, chunkEvents, srcEvents, srcIn, dstBuffer, dstLog, applied, srcHand,
                       seMsg, pc>>
        /\ eventTasks' = eventTasks \ {e} /\ ofq' = Append(ofq, PacketOut(e.pkt))
    BY <1>11 DEF callEvent, eventVars, msgVars, srcChan, pktState, dstVars
  <2>2. Range(ofq') = Range(ofq) \cup {PacketOut(e.pkt)}
    <3>1. e.pkt \in Packets
      BY <1>1 DEF EventTasks
    <3>2. QED
      BY <1>1, <2>1, <3>1, RangeAppend, MessagesDiffer
  <2>3. QED
    BY <2>1, <2>2
<1>12. CASE receivePacket
  <2>1. /\ UNCHANGED <<eventsList, chunkEvents, eventTasks, srcEvents, srcIn, dstBuffer, dstLog,
                       applied, srcHand, seMsg, pc>>
        /\ ofq' = ofq \/ ofq' = Append(ofq, FlowMod)
    BY <1>12 DEF receivePacket, eventVars, msgVars, poolVars, srcChan, pktState, dstVars
  <2>2. Range(ofq) \subseteq Range(ofq')
    BY <1>3, <2>1
  <2>3. QED
    BY <2>1, <2>2
<1>13. CASE sdmbn_preprocess_packet
  <2>1. /\ UNCHANGED <<eventsList, chunkEvents, eventTasks, ofq, dstBuffer, dstLog, applied, seMsg, pc>>
        /\ srcHand = None /\ srcIn # <<>> /\ srcIn' = Tail(srcIn)
        /\ \/ srcEvents' = Append(srcEvents, Head(srcIn))
           \/ srcHand' = Head(srcIn) /\ srcEvents' = srcEvents
    BY <1>13 DEF sdmbn_preprocess_packet, eventVars, msgVars, poolVars, dstVars
  <2>2. Range(srcIn) = {Head(srcIn)} \cup Range(srcIn') /\ Head(srcIn) \in Packets
    BY <1>1, <2>1, RangeTail
  <2>3. \/ Range(srcEvents') = Range(srcEvents) \cup {Head(srcIn)}
        \/ srcHand' = Head(srcIn) /\ srcEvents' = srcEvents
    BY <1>4, <2>1, <2>2
  <2>4. p # srcHand
    BY <2>1 DEF Packets, None
  <2>5. QED
    BY <2>1, <2>2, <2>3, <2>4
<1>14. CASE process_packet
  <2>1. /\ UNCHANGED <<eventsList, chunkEvents, eventTasks, srcIn, ofq, dstBuffer, dstLog, seMsg, pc>>
        /\ srcHand # None /\ applied \subseteq applied'
        /\ \/ srcHand \in applied' /\ srcEvents' = srcEvents
           \/ srcEvents' = Append(srcEvents, srcHand)
    BY <1>14 DEF process_packet, eventVars, msgVars, poolVars, dstVars, netVars
  <2>2. \/ srcHand \in applied' /\ srcEvents' = srcEvents
        \/ Range(srcEvents') = Range(srcEvents) \cup {srcHand}
    BY <1>1, <1>4, <2>1
  <2>3. QED
    BY <2>1, <2>2
<1>15. CASE installRule
  <2>1. /\ UNCHANGED <<eventsList, chunkEvents, eventTasks, srcEvents, srcIn, dstBuffer, dstLog,
                       applied, srcHand, seMsg, pc>>
        /\ ofq # <<>> /\ Head(ofq).type = "FlowMod" /\ ofq' = Tail(ofq)
    BY <1>15 DEF installRule, eventVars, msgVars, poolVars, srcChan, pktState, dstVars
  <2>2. Range(ofq) = {FlowMod} \cup Range(ofq')
    BY <1>1, <2>1, SwitchMessage
  <2>3. QED
    BY <2>1, <2>2, MessagesDiffer
<1>16. CASE packetOut
  <2>1. /\ UNCHANGED <<eventsList, chunkEvents, eventTasks, srcEvents, srcIn, dstBuffer,
                       applied, srcHand, seMsg, pc>>
        /\ ofq # <<>> /\ Head(ofq).type = "PacketOut" /\ ofq' = Tail(ofq)
        /\ dstLog' = Append(dstLog, Head(ofq).pkt)
    BY <1>16 DEF packetOut, DstReceive, eventVars, msgVars, poolVars, srcChan, pktState
  <2>2. PICK r : r = Head(ofq).pkt
    OBVIOUS
  <2>3. r \in Packets /\ Range(ofq) = {PacketOut(r)} \cup Range(ofq')
    BY <1>1, <2>1, <2>2, SwitchMessage
  <2>4. Range(dstLog') = Range(dstLog) \cup {r}
    BY <1>1, <2>1, <2>2, <2>3, RangeAppend
  <2>5. QED
    BY <2>1, <2>3, <2>4, MessagesDiffer
<1>17. CASE forward
  <2>1. /\ UNCHANGED <<eventsList, chunkEvents, eventTasks, srcEvents, ofq, applied, srcHand, seMsg, pc>>
        /\ \/ srcIn' = Append(srcIn, injected + 1) /\ UNCHANGED <<dstBuffer, dstLog>>
           \/ dstBuffer' = Append(dstBuffer, injected + 1) /\ UNCHANGED <<srcIn, dstLog>>
           \/ dstLog' = Append(dstLog, injected + 1) /\ UNCHANGED <<srcIn, dstBuffer>>
    BY <1>17 DEF forward, DstReceive, eventVars, msgVars, poolVars, srcChan, pktState
  <2>2. injected + 1 \in Packets
    BY <1>1, <1>17, BoundsAssumption DEF forward, Packets
  <2>3. /\ Range(srcIn) \subseteq Range(srcIn') /\ Range(dstBuffer) \subseteq Range(dstBuffer')
        /\ Range(dstLog) \subseteq Range(dstLog')
    <3>1. /\ Range(srcIn) \subseteq Range(Append(srcIn, injected + 1))
          /\ Range(dstBuffer) \subseteq Range(Append(dstBuffer, injected + 1))
          /\ Range(dstLog) \subseteq Range(Append(dstLog, injected + 1))
      BY <1>1, <2>2, RangeAppend
    <3>2. QED
      BY <2>1, <3>1
  <2>4. QED
    BY <2>1, <2>3
<1>18. QED
  BY <1>5, <1>6, <1>7, <1>8, <1>9, <1>10, <1>11, <1>12, <1>13, <1>14, <1>15, <1>16, <1>17,
     PacketsFrameCases

(* A packet that arrives at the switch is forwarded.                       *)
LEMMA ForwardAccounted ==
  ASSUME TypeOK, forward, NEW n, n = injected + 1
  PROVE  Accounted(n)'
<1>1. /\ srcIn \in Seq(Packets) /\ dstBuffer \in Seq(Packets) /\ dstLog \in Seq(Packets)
      /\ injected \in 0 .. NumPackets
  BY PacketTypes
<1>2. n \in Packets
  BY <1>1, BoundsAssumption DEF forward, Packets
<1>3. \/ srcIn' = Append(srcIn, n)
      \/ dstBuffer' = Append(dstBuffer, n)
      \/ dstLog' = Append(dstLog, n)
  BY DEF forward, DstReceive
<1>4. /\ n \in Range(Append(srcIn, n)) /\ n \in Range(Append(dstBuffer, n))
      /\ n \in Range(Append(dstLog, n))
  BY <1>1, <1>2, RangeAppend
<1>5. n \in Range(srcIn') \/ n \in Range(dstBuffer') \/ n \in Range(dstLog')
  BY <1>3, <1>4
<1>6. QED
  BY <1>5 DEF Accounted, InFlight

(* Packets are counted by forward alone.                                   *)
LEMMA InjectedKept ==
  ASSUME TypeOK, Next
  PROVE  UNCHANGED injected \/ forward
<1>1. CASE PacketsFrame
  BY <1>1 DEF PacketsFrame
<1>2. QED
  BY <1>1, PacketsFrameCases
     DEF releaseChunkEvents, checkIfStateMoved, releaseEvents, receiveReprocess, holdEvent,
         callEvent, receivePacket, sdmbn_preprocess_packet, process_packet, installRule,
         packetOut, netVars

(* With late locking no packet vanishes: it is in the exported or dropped  *)
(* state of the source, on its way, in a list of the controller, or at the *)
(* destination.                                                            *)
THEOREM PacketsAccounted == Spec => []NoPacketVanishes
<1>1. Init => NoPacketVanishes
  <2> SUFFICES ASSUME Init, NEW p \in 1 .. injected
               PROVE  FALSE
    BY DEF NoPacketVanishes
  <2>1. QED
    BY DEF Init
<1>2. TypeOK /\ NoPacketVanishes /\ [Next]_vars => NoPacketVanishes'
  <2> SUFFICES ASSUME TypeOK, NoPacketVanishes, [Next]_vars
               PROVE  NoPacketVanishes'
    OBVIOUS
  <2>1. CASE Next
    <3> SUFFICES ASSUME RaiseEvents', NEW p \in 1 .. injected'
                 PROVE  Accounted(p)'
      BY DEF NoPacketVanishes
    <3>1. RaiseEvents
      BY <2>1, ArgsKept, SelectionStable
    <3>2. injected \in 0 .. NumPackets
      BY PacketTypes
    <3>3. CASE p \in 1 .. injected
      <4>1. p \in Packets
        BY <3>2, <3>3, BoundsAssumption DEF Packets
      <4>2. QED
        BY <2>1, <3>1, <3>3, <4>1, AccountedStep DEF NoPacketVanishes
    <3>4. CASE p \notin 1 .. injected
      <4>1. forward
        BY <2>1, <3>4, InjectedKept
      <4>2. injected' = injected + 1
        BY <4>1 DEF forward
      <4>3. p = injected + 1
        BY <3>2, <3>4, <4>2
      <4>4. QED
        BY <4>1, <4>3, ForwardAccounted
    <3>5. QED
      BY <3>3, <3>4
  <2>2. CASE UNCHANGED vars
    BY <2>2
       DEF vars, NoPacketVanishes, RaiseEvents, Accounted, InFlight, eventVars, msgVars, poolVars,
           srcChan, pktState, dstVars, netVars
  <2>3. QED
    BY <2>1, <2>2
<1>3. QED
  BY <1>1, <1>2, TypeCorrect, PTL DEF Spec

-----------------------------------------------------------------------------
(* No packet takes effect twice.                                           *)

(* The list is given away once and for all.                                *)
LEMMA ReleasedStable ==
  ASSUME TypeOK, Next, Released
  PROVE  Released'
<1>1. pc \in [Threads -> Labels] /\ ~OrderPreserving /\ ~OrderPreserving'
  BY ArgsKept, SelectionStable DEF TypeOK, ThreadsType, Released
<1> USE <1>1 DEF Released, Threads
<1>2. CASE OnceFrame
  BY <1>2 DEF OnceFrame
<1>3. CASE receiveGetAck
  BY <1>3 DEF receiveGetAck, Goto, eventVars
<1>4. CASE setGetCount
  BY <1>4 DEF setGetCount, Goto, eventVars
<1>5. CASE receivePutAck
  BY <1>5 DEF receivePutAck, Goto, eventVars
<1>6. CASE releaseChunkEvents
  BY <1>6 DEF releaseChunkEvents, Goto
<1>7. ASSUME NEW t \in {"ss", "de"}, checkIfStateMoved(t)
      PROVE  Released'
  BY <1>7 DEF checkIfStateMoved, Goto, eventVars
<1>8. ASSUME NEW t \in {"ss", "de"}, releaseEvents(t)
      PROVE  Released'
  BY <1>8 DEF releaseEvents, Goto
<1>9. ASSUME NEW t \in {"ss", "de"}, awaitEvents(t)
      PROVE  Released'
  BY <1>9 DEF awaitEvents, Goto, eventVars
<1>10. ASSUME NEW t \in {"ss", "de"}, setImmediateRelease(t)
       PROVE  Released'
  BY <1>10 DEF setImmediateRelease
<1>11. ASSUME NEW c \in Chunks, send_state(c)
       PROVE  Released'
  BY <1>11 DEF send_state, eventVars
<1>12. CASE send_get_ack
  BY <1>12 DEF send_get_ack, eventVars
<1>13. QED
  BY <1>2, <1>3, <1>4, <1>5, <1>6, <1>7, <1>8, <1>9, <1>10, <1>11, <1>12, OnceFrameCases

(* The list is not used, or thread de gives it away and nobody did before. *)
LEMMA ReleaseOfList ==
  ASSUME TypeOK, OnceInv, OnePlaceInv, ReleasedOnce, NEW t \in {"ss", "de"}, releaseEvents(t)
  PROVE  \/ /\ UNCHANGED <<eventsList, eventTasks>>
            /\ eventsList = <<>>
         \/ /\ ~Released /\ Released'
            /\ UNCHANGED eventsList
            /\ eventTasks' = eventTasks \cup {[pkt |-> p, by |-> t] : p \in Range(eventsList)}
         \/ /\ ~Released /\ eventsList # <<>>
            /\ eventsList' = Tail(eventsList)
            /\ eventTasks' = eventTasks \cup {[pkt |-> Head(eventsList), by |-> t]}
<1>1. pc \in [Threads -> Labels] /\ pc[t] = "events" /\ UNCHANGED args
  BY DEF TypeOK, ThreadsType, releaseEvents, Goto
<1>2. Batched \/ EarlyRelease
  <2>1. args.optimization \in Optimizations
    BY ConfigsAssumption DEF TypeOK, ValidConfigs
  <2>2. QED
    BY <2>1 DEF ReleasedOnce, Optimizations, Batched, EarlyRelease
<1>3. CASE eventsList = <<>>
  <2>1. Range(eventsList) = {}
    BY <1>3, EmptyQueue
  <2>2. {[pkt |-> p, by |-> t] : p \in Range(eventsList)} = {}
    BY <2>1
  <2>3. QED
    BY <1>3, <2>2 DEF releaseEvents
<1>4. CASE eventsList # <<>>
  <2>1. Batched
    BY <1>2, <1>4 DEF OnePlaceInv
  <2>2. t = "de" /\ ~immediateRelease
    BY <1>1, <2>1 DEF OnceInv, Completing
  <2>3. ~Released
    BY <1>1, <2>2 DEF Released
  <2>4. CASE OrderPreserving
    BY <1>4, <2>3, <2>4 DEF releaseEvents
  <2>5. CASE ~OrderPreserving
    <3>1. pc'["de"] = "await"
      BY <1>1, <2>2, <2>5 DEF releaseEvents, Goto, Threads
    <3>2. Released'
      BY <1>1, <2>5, <3>1, SelectionStable DEF Released
    <3>3. QED
      BY <2>3, <2>5, <3>2 DEF releaseEvents
  <2>6. QED
    BY <2>4, <2>5
<1>5. QED
  BY <1>3, <1>4

(* A set of packets is given a new place.                                  *)
LEMMA Moving ==
  ASSUME NEW place \in [Packets -> PlaceNames], NEW M, NEW to \in PlaceNames
  PROVE  \E new \in [Packets -> PlaceNames] :
           /\ \A p \in Packets : p \in M => new[p] = to
           /\ \A p \in Packets : p \notin M => new[p] = place[p]
<1>1. [p \in Packets |-> IF p \in M THEN to ELSE place[p]] \in [Packets -> PlaceNames]
  OBVIOUS
<1>2. QED
  BY <1>1

(* Everything the place of a packet is about is of its type.               *)
LEMMA PlacesType ==
  ASSUME TypeOK
  PROVE  /\ Range(eventsList) \subseteq Packets /\ Range(srcEvents) \subseteq Packets
         /\ Range(srcIn) \subseteq Packets /\ Range(dstBuffer) \subseteq Packets
         /\ Range(dstLog) \subseteq Packets /\ applied \subseteq Packets
         /\ \A c \in Perflow : Range(chunkEvents[c]) \subseteq Packets
         /\ \A e \in eventTasks : e.pkt \in Packets
         /\ srcHand # None => srcHand \in Packets
         /\ pc["se"] \in {"list", "chunk"} => seMsg \in Packets
<1>1. /\ Range(eventsList) \subseteq Packets /\ Range(srcEvents) \subseteq Packets
      /\ Range(srcIn) \subseteq Packets /\ Range(dstBuffer) \subseteq Packets
      /\ Range(dstLog) \subseteq Packets
      /\ \A c \in Perflow : Range(chunkEvents[c]) \subseteq Packets
  BY PacketTypes, RangeType
<1>2. QED
  BY <1>1, PacketTypes DEF EventTasks

(* Every packet has a place after a step if every packet had one before:   *)
(* an action moves packets from one place to the next.                     *)
LEMMA PlacedStep ==
  ASSUME TypeOK, OnceInv, FlowsInv, OnePlaceInv, ReleasedOnce, Next
  PROVE  \E new \in [Packets -> PlaceNames] : PlacedBy(new)'
<1>1. PICK place \in [Packets -> PlaceNames] : PlacedBy(place)
  BY DEF OnePlaceInv
<1>2. /\ eventsList \in Seq(Packets) /\ chunkEvents \in [Perflow -> Seq(Packets)]
      /\ srcEvents \in Seq(Packets) /\ srcIn \in Seq(Packets) /\ ofq \in Seq(SwitchMsgs)
      /\ dstBuffer \in Seq(Packets) /\ dstLog \in Seq(Packets) /\ eventTasks \subseteq EventTasks
      /\ srcHand \in Packets \cup {None} /\ injected \in 0 .. NumPackets
      /\ pc \in [Threads -> Labels] /\ FlowOf \in [Packets -> Perflow]
  BY PacketTypes
<1>3. /\ Range(eventsList) \subseteq Packets /\ Range(srcEvents) \subseteq Packets
      /\ Range(srcIn) \subseteq Packets /\ Range(dstBuffer) \subseteq Packets
      /\ Range(dstLog) \subseteq Packets /\ applied \subseteq Packets
      /\ \A c \in Perflow : Range(chunkEvents[c]) \subseteq Packets
      /\ \A e \in eventTasks : e.pkt \in Packets
      /\ srcHand # None => srcHand \in Packets
      /\ pc["se"] \in {"list", "chunk"} => seMsg \in Packets
  BY PlacesType
<1>4. ~Released' => ~Released
  BY ReleasedStable
<1>5. \A M : \A to \in PlaceNames : \E new \in [Packets -> PlaceNames] :
         /\ \A p \in Packets : p \in M => new[p] = to
         /\ \A p \in Packets : p \notin M => new[p] = place[p]
  BY Moving
<1>6. {"arriving", "hand", "reported", "held", "list", "chunk", "task", "sent", "buffered",
        "processed", "applied"} \subseteq PlaceNames
  BY DEF PlaceNames
<1>7. CASE PacketsFrame
  BY <1>1, <1>4, <1>7 DEF PacketsFrame, PlacedBy
<1>8. CASE releaseChunkEvents
  <2>1. /\ UNCHANGED <<eventsList, eventTasks, srcEvents, srcIn, dstBuffer, dstLog, applied, srcHand,
                       seMsg, injected>>
        /\ pc'["se"] = pc["se"]
    BY <1>2, <1>8
       DEF releaseChunkEvents, Goto, Threads, msgVars, poolVars, srcChan, pktState, dstVars
  <2>2. CASE deMsg \in Perflow
    <3>1. PICK q : q = chunkEvents[deMsg]
      OBVIOUS
    <3>2. PICK o : o = SentOut(q)
      OBVIOUS
    <3>3. /\ ofq' = ofq \o o /\ q \in Seq(Packets) /\ chunkEvents'[deMsg] = <<>>
          /\ \A c \in Perflow : c # deMsg => chunkEvents'[c] = chunkEvents[c]
      BY <1>2, <1>8, <2>2, <3>1, <3>2 DEF releaseChunkEvents, SentOut
    <3>4. /\ o \in Seq(SwitchMsgs) /\ FlowMod \notin Range(o)
          /\ \A r : PacketOut(r) \in Range(o) <=> r \in Range(q)
      BY <3>2, <3>3, PacketOutsSent
    <3>5. Range(ofq') = Range(ofq) \cup Range(o) /\ Range(<< >>) = {}
      <4>1. Range(ofq \o o) = Range(ofq) \cup Range(o)
        BY <1>2, <3>4, RangeConcatenation
      <4>2. QED
        BY <3>3, <4>1, EmptyQueue
    <3>6. \A r \in Range(q) : place[r] = "chunk"
      BY <1>1, <2>2, <3>1 DEF PlacedBy
    <3>7. PICK new \in [Packets -> PlaceNames] :
            /\ \A p \in Packets : p \in Range(q) => new[p] = "sent"
            /\ \A p \in Packets : p \notin Range(q) => new[p] = place[p]
      BY <1>5, <1>6
    <3>8. \A c \in Perflow : \A p \in Range(chunkEvents'[c]) : new[p] = "chunk"
      <4> SUFFICES ASSUME NEW c \in Perflow, NEW p \in Range(chunkEvents'[c])
                   PROVE  new[p] = "chunk"
        OBVIOUS
      <4>1. c # deMsg /\ p \in Range(chunkEvents[c])
        BY <3>3, <3>5
      <4>2. FlowOf[p] = c /\ p \in Packets /\ place[p] = "chunk"
        BY <1>1, <1>3, <4>1 DEF PlacedBy, OnePlaceInv, FlowsInv
      <4>3. p \notin Range(q)
        BY <2>2, <3>1, <4>1, <4>2 DEF FlowsInv
      <4>4. QED
        BY <3>7, <4>2, <4>3
    <3>9. PlacedBy(new)'
      BY <1>1, <1>3, <1>4, <2>1, <3>4, <3>5, <3>6, <3>7, <3>8 DEF PlacedBy
    <3>10. QED
      BY <3>9
  <2>3. CASE deMsg \notin Perflow
    BY <1>1, <1>4, <1>8, <2>1, <2>3 DEF releaseChunkEvents, PlacedBy
  <2>4. QED
    BY <2>2, <2>3
<1>9. ASSUME NEW t \in {"ss", "de"}, checkIfStateMoved(t)
      PROVE  PlacedBy(place)'
  <2>1. /\ UNCHANGED <<eventsList, chunkEvents, eventTasks, srcEvents, srcIn, dstBuffer, dstLog,
                       applied, srcHand, seMsg, injected>>
        /\ pc'["se"] = pc["se"]
        /\ ofq' = ofq \/ ofq' = Append(ofq, FlowMod)
    BY <1>2, <1>9
       DEF checkIfStateMoved, Goto, Threads, eventVars, msgVars, poolVars, srcChan, pktState, dstVars
  <2>2. Range(Append(ofq, FlowMod)) = Range(ofq) \cup {FlowMod}
    BY <1>2, RangeAppend, MessagesDiffer
  <2>3. \A p : PacketOut(p) \in Range(ofq') => PacketOut(p) \in Range(ofq)
    BY <2>1, <2>2, MessagesDiffer
  <2>4. QED
    BY <1>1, <1>4, <2>1, <2>3 DEF PlacedBy
<1>10. ASSUME NEW t \in {"ss", "de"}, releaseEvents(t)
      PROVE  \E new \in [Packets -> PlaceNames] : PlacedBy(new)'
  <2>1. /\ UNCHANGED <<chunkEvents, srcEvents, srcIn, ofq, dstBuffer, dstLog, applied, srcHand, seMsg,
                       injected>>
        /\ pc'["se"] = pc["se"]
    BY <1>2, <1>10
       DEF releaseEvents, Goto, Threads, msgVars, srcChan, pktState, dstVars, netVars
  <2>2. CASE UNCHANGED <<eventsList, eventTasks>>
    BY <1>1, <1>4, <2>1, <2>2 DEF PlacedBy
  <2>3. CASE /\ ~Released /\ Released'
             /\ eventTasks' = eventTasks \cup {[pkt |-> p, by |-> t] : p \in Range(eventsList)}
    <3>1. PICK M : M = Range(eventsList)
      OBVIOUS
    <3>2. PICK new \in [Packets -> PlaceNames] :
            /\ \A p \in Packets : p \in M => new[p] = "task"
            /\ \A p \in Packets : p \notin M => new[p] = place[p]
      BY <1>5, <1>6
    <3>3. \A p \in M : p \in Packets /\ place[p] = "list"
      BY <1>1, <1>3, <2>3, <3>1 DEF PlacedBy
    <3>4. \A e \in eventTasks' : new[e.pkt] = "task"
      BY <1>1, <1>3, <2>3, <3>1, <3>2, <3>3 DEF PlacedBy
    <3>5. PlacedBy(new)'
      BY <1>1, <1>3, <2>1, <2>3, <3>2, <3>3, <3>4 DEF PlacedBy
    <3>6. QED
      BY <3>5
  <2>4. CASE /\ ~Released /\ eventsList # <<>>
             /\ eventsList' = Tail(eventsList)
             /\ eventTasks' = eventTasks \cup {[pkt |-> Head(eventsList), by |-> t]}
    <3>1. PICK r : r = Head(eventsList)
      OBVIOUS
    <3>2. PICK new \in [Packets -> PlaceNames] :
            /\ \A p \in Packets : p \in {r} => new[p] = "task"
            /\ \A p \in Packets : p \notin {r} => new[p] = place[p]
      BY <1>5, <1>6
    <3>3. r \in Range(eventsList) /\ Range(eventsList') \subseteq Range(eventsList)
      BY <1>2, <2>4, <3>1, RangeTail
    <3>4. r \notin Range(eventsList')
      BY <1>2, <1>3, <2>4, <3>1, <3>3, DistinctTail DEF OnePlaceInv, NoRepeats
    <3>5. r \in Packets /\ place[r] = "list"
      BY <1>1, <1>3, <2>4, <3>3 DEF PlacedBy
    <3>6. \A e \in eventTasks' : new[e.pkt] = "task"
      BY <1>1, <1>3, <2>4, <3>1, <3>2, <3>5 DEF PlacedBy
    <3>7. PlacedBy(new)'
      BY <1>1, <1>3, <2>1, <2>4, <3>2, <3>3, <3>4, <3>5, <3>6 DEF PlacedBy
    <3>8. QED
      BY <3>7
  <2>5. QED
    BY <1>10, <2>2, <2>3, <2>4, ReleaseOfList
<1>11. CASE receiveReprocess
  <2>1. /\ UNCHANGED <<eventsList, chunkEvents, srcIn, ofq, dstBuffer, dstLog, applied, srcHand,
                       injected>>
        /\ pc["se"] = "idle" /\ seMsg' = Head(srcEvents)
        /\ srcEvents # <<>> /\ srcEvents' = Tail(srcEvents)
        /\ \/ pc'["se"] = "idle" /\ eventTasks' = eventTasks
           \/ /\ pc'["se"] = "idle"
              /\ eventTasks' = eventTasks \cup {[pkt |-> Head(srcEvents), by |-> "se"]}
           \/ pc'["se"] \in {"list", "chunk"} /\ eventTasks' = eventTasks
    BY <1>2, <1>11
       DEF receiveReprocess, Goto, Threads, eventVars, pktState, dstVars, netVars
  <2>2. PICK r : r = Head(srcEvents)
    OBVIOUS
  <2>3. r \in Range(srcEvents) /\ Range(srcEvents') \subseteq Range(srcEvents)
    BY <1>2, <2>1, <2>2, RangeTail
  <2>4. r \notin Range(srcEvents')
    BY <1>2, <1>3, <2>1, <2>2, <2>3, DistinctTail DEF OnePlaceInv, NoRepeats
  <2>5. r \in Packets /\ place[r] = "reported"
    BY <1>1, <1>3, <2>3 DEF PlacedBy
  <2>6. CASE pc'["se"] \in {"list", "chunk"}
    <3>1. PICK new \in [Packets -> PlaceNames] :
            /\ \A p \in Packets : p \in {r} => new[p] = "held"
            /\ \A p \in Packets : p \notin {r} => new[p] = place[p]
      BY <1>5, <1>6
    <3>2. PlacedBy(new)'
      BY <1>1, <1>3, <1>4, <2>1, <2>2, <2>3, <2>4, <2>5, <2>6, <3>1 DEF PlacedBy
    <3>3. QED
      BY <3>2
  <2>7. CASE pc'["se"] \notin {"list", "chunk"}
    <3>1. PICK new \in [Packets -> PlaceNames] :
            /\ \A p \in Packets : p \in {r} => new[p] = "task"
            /\ \A p \in Packets : p \notin {r} => new[p] = place[p]
      BY <1>5, <1>6
    <3>2. \A e \in eventTasks' : new[e.pkt] = "task"
      BY <1>1, <1>3, <2>1, <2>2, <2>5, <3>1 DEF PlacedBy
    <3>3. PlacedBy(new)'
      BY <1>1, <1>3, <1>4, <2>1, <2>3, <2>4, <2>5, <2>7, <3>1, <3>2 DEF PlacedBy
    <3>4. QED
      BY <3>3
  <2>8. QED
    BY <2>6, <2>7
<1>12. CASE holdEvent
  <2>1. /\ UNCHANGED <<eventTasks, srcEvents, srcIn, ofq, dstBuffer, dstLog, applied, srcHand, injected>>
        /\ pc["se"] \in {"list", "chunk"} /\ pc'["se"] = "idle"
    BY <1>2, <1>12 DEF holdEvent, Goto, Threads, poolVars, srcChan, pktState, dstVars, netVars
  <2>2. PICK r : r = seMsg
    OBVIOUS
  <2>3. r \in Packets /\ place[r] = "held"
    BY <1>1, <1>3, <2>1, <2>2 DEF PlacedBy
  <2>4. CASE pc["se"] = "list"
    <3>1. chunkEvents' = chunkEvents /\ eventsList' = Append(eventsList, r)
      BY <1>12, <2>2, <2>4 DEF holdEvent, Goto
    <3>2. Range(eventsList') = Range(eventsList) \cup {r}
      BY <1>2, <2>3, <3>1, RangeAppend
    <3>3. PICK new \in [Packets -> PlaceNames] :
            /\ \A p \in Packets : p \in {r} => new[p] = "list"
            /\ \A p \in Packets : p \notin {r} => new[p] = place[p]
      BY <1>5, <1>6
    <3>4. PlacedBy(new)'
      BY <1>1, <1>3, <1>4, <2>1, <2>3, <3>1, <3>2, <3>3 DEF PlacedBy
    <3>5. QED
      BY <3>4
  <2>5. CASE pc["se"] # "list"
    <3>1. /\ eventsList' = eventsList
          /\ chunkEvents' = [chunkEvents EXCEPT ![FlowOf[r]] = Append(@, r)]
      BY <1>12, <2>2, <2>5 DEF holdEvent, Goto
    <3>2. FlowOf[r] \in Perflow
      BY <1>2, <2>3
    <3>3. Range(chunkEvents'[FlowOf[r]]) = Range(chunkEvents[FlowOf[r]]) \cup {r}
      <4>1. chunkEvents'[FlowOf[r]] = Append(chunkEvents[FlowOf[r]], r)
        BY <1>2, <3>1, <3>2
      <4>2. QED
        BY <1>2, <2>3, <3>2, <4>1, RangeAppend
    <3>4. \A c \in Perflow : Range(chunkEvents'[c]) \subseteq Range(chunkEvents[c]) \cup {r}
      BY <1>2, <3>1, <3>3
    <3>5. PICK new \in [Packets -> PlaceNames] :
            /\ \A p \in Packets : p \in {r} => new[p] = "chunk"
            /\ \A p \in Packets : p \notin {r} => new[p] = place[p]
      BY <1>5, <1>6
    <3>6. PlacedBy(new)'
      BY <1>1, <1>3, <1>4, <2>1, <2>3, <3>1, <3>4, <3>5, SMTT(30) DEF PlacedBy
    <3>7. QED
      BY <3>6
  <2>6. QED
    BY <2>4, <2>5
<1>13. ASSUME NEW e \in eventTasks, callEvent(e)
       PROVE  \E new \in [Packets -> PlaceNames] : PlacedBy(new)'
  <2>1. /\ UNCHANGED <<eventsList, chunkEvents, srcEvents, srcIn, dstBuffer, dstLog, applied, srcHand,
                       seMsg, pc, injected>>
        /\ eventTasks' = eventTasks \ {e} /\ ofq' = Append(ofq, PacketOut(e.pkt))
    BY <1>13 DEF callEvent, eventVars, msgVars, srcChan, pktState, dstVars
  <2>2. PICK r : r = e.pkt
    OBVIOUS
  <2>3. r \in Packets /\ place[r] = "task"
    BY <1>1, <1>3, <2>2 DEF PlacedBy
  <2>4. Range(ofq') = Range(ofq) \cup {PacketOut(r)}
    BY <1>2, <2>1, <2>2, <2>3, RangeAppend, MessagesDiffer
  <2>5. \A p : PacketOut(p) \in Range(ofq') => PacketOut(p) \in Range(ofq) \/ p = r
    BY <2>4, MessagesDiffer
  <2>6. \A d \in eventTasks' : d \in eventTasks /\ d.pkt # r
    BY <2>1, <2>2 DEF OnePlaceInv, NoRepeats
  <2>7. PICK new \in [Packets -> PlaceNames] :
          /\ \A p \in Packets : p \in {r} => new[p] = "sent"
          /\ \A p \in Packets : p \notin {r} => new[p] = place[p]
    BY <1>5, <1>6
  <2>8. PlacedBy(new)'
    BY <1>1, <1>3, <1>4, <2>1, <2>3, <2>5, <2>6, <2>7 DEF PlacedBy
  <2>9. QED
    BY <2>8
<1>14. CASE receivePacket
  <2>1. /\ UNCHANGED <<eventsList, chunkEvents, eventTasks, srcEvents, srcIn, dstBuffer, dstLog,
                       applied, srcHand, seMsg, pc, injected>>
        /\ ofq' = ofq \/ ofq' = Append(ofq, FlowMod)
    BY <1>14 DEF receivePacket, eventVars, msgVars, poolVars, srcChan, pktState, dstVars
  <2>2. Range(Append(ofq, FlowMod)) = Range(ofq) \cup {FlowMod}
    BY <1>2, RangeAppend, MessagesDiffer
  <2>3. \A p : PacketOut(p) \in Range(ofq') => PacketOut(p) \in Range(ofq)
    BY <2>1, <2>2, MessagesDiffer
  <2>4. QED
    BY <1>1, <1>4, <2>1, <2>3 DEF PlacedBy
<1>15. CASE sdmbn_preprocess_packet
  <2>1. /\ UNCHANGED <<eventsList, chunkEvents, eventTasks, ofq, dstBuffer, dstLog, applied, seMsg, pc,
                       injected>>
        /\ srcHand = None /\ srcIn # <<>> /\ srcIn' = Tail(srcIn)
        /\ \/ srcEvents' = Append(srcEvents, Head(srcIn)) /\ srcHand' = None
           \/ srcHand' = Head(srcIn) /\ srcEvents' = srcEvents
    BY <1>15 DEF sdmbn_preprocess_packet, eventVars, msgVars, poolVars, dstVars
  <2>2. PICK r : r = Head(srcIn)
    OBVIOUS
  <2>3. r \in Range(srcIn) /\ Range(srcIn') \subseteq Range(srcIn)
    BY <1>2, <2>1, <2>2, RangeTail
  <2>4. r \notin Range(srcIn')
    BY <1>2, <1>3, <2>1, <2>2, <2>3, DistinctTail DEF OnePlaceInv, NoRepeats
  <2>5. r \in Packets /\ place[r] = "arriving"
    BY <1>1, <1>3, <2>3 DEF PlacedBy
  <2>6. CASE srcEvents' = srcEvents /\ srcHand' = r
    <3>1. PICK new \in [Packets -> PlaceNames] :
            /\ \A p \in Packets : p \in {r} => new[p] = "hand"
            /\ \A p \in Packets : p \notin {r} => new[p] = place[p]
      BY <1>5, <1>6
    <3>2. PlacedBy(new)'
      BY <1>1, <1>3, <1>4, <2>1, <2>3, <2>4, <2>5, <2>6, <3>1 DEF PlacedBy
    <3>3. QED
      BY <3>2
  <2>7. CASE srcEvents' = Append(srcEvents, r) /\ srcHand' = None
    <3>1. Range(srcEvents') = Range(srcEvents) \cup {r}
      BY <1>2, <2>5, <2>7, RangeAppend
    <3>2. PICK new \in [Packets -> PlaceNames] :
            /\ \A p \in Packets : p \in {r} => new[p] = "reported"
            /\ \A p \in Packets : p \notin {r} => new[p] = place[p]
      BY <1>5, <1>6
    <3>3. PlacedBy(new)'
      BY <1>1, <1>3, <1>4, <2>1, <2>3, <2>4, <2>5, <2>7, <3>1, <3>2 DEF PlacedBy
    <3>4. QED
      BY <3>3
  <2>8. QED
    BY <2>1, <2>2, <2>6, <2>7
<1>16. CASE process_packet
  <2>1. /\ UNCHANGED <<eventsList, chunkEvents, eventTasks, srcIn, ofq, dstBuffer, dstLog, seMsg, pc,
                       injected>>
        /\ srcHand # None /\ srcHand' = None
        /\ \/ srcEvents' = srcEvents /\ applied' \subseteq applied \cup {srcHand}
           \/ srcEvents' = Append(srcEvents, srcHand) /\ applied' = applied
    BY <1>16 DEF process_packet, eventVars, msgVars, poolVars, dstVars, netVars
  <2>2. PICK r : r = srcHand
    OBVIOUS
  <2>3. r \in Packets /\ place[r] = "hand"
    BY <1>1, <1>3, <2>1, <2>2 DEF PlacedBy
  <2>4. CASE srcEvents' = srcEvents /\ applied' \subseteq applied \cup {r}
    <3>1. PICK new \in [Packets -> PlaceNames] :
            /\ \A p \in Packets : p \in {r} => new[p] = "applied"
            /\ \A p \in Packets : p \notin {r} => new[p] = place[p]
      BY <1>5, <1>6
    <3>2. PlacedBy(new)'
      BY <1>1, <1>3, <1>4, <2>1, <2>3, <2>4, <3>1 DEF PlacedBy
    <3>3. QED
      BY <3>2
  <2>5. CASE srcEvents' = Append(srcEvents, r) /\ applied' = applied
    <3>1. Range(srcEvents') = Range(srcEvents) \cup {r}
      BY <1>2, <2>3, <2>5, RangeAppend
    <3>2. PICK new \in [Packets -> PlaceNames] :
            /\ \A p \in Packets : p \in {r} => new[p] = "reported"
            /\ \A p \in Packets : p \notin {r} => new[p] = place[p]
      BY <1>5, <1>6
    <3>3. PlacedBy(new)'
      BY <1>1, <1>3, <1>4, <2>1, <2>3, <2>5, <3>1, <3>2 DEF PlacedBy
    <3>4. QED
      BY <3>3
  <2>6. QED
    BY <2>1, <2>2, <2>4, <2>5
<1>17. CASE installRule
  <2>1. /\ UNCHANGED <<eventsList, chunkEvents, eventTasks, srcEvents, srcIn, dstBuffer, dstLog,
                       applied, srcHand, seMsg, pc, injected>>
        /\ ofq # <<>> /\ ofq' = Tail(ofq)
    BY <1>17 DEF installRule, eventVars, msgVars, poolVars, srcChan, pktState, dstVars
  <2>2. Range(ofq') \subseteq Range(ofq)
    BY <1>2, <2>1, SwitchMessage
  <2>3. QED
    BY <1>1, <1>4, <2>1, <2>2 DEF PlacedBy
<1>18. CASE packetOut
  <2>1. /\ UNCHANGED <<eventsList, chunkEvents, eventTasks, srcEvents, srcIn, dstBuffer,
                       applied, srcHand, seMsg, pc, injected>>
        /\ ofq # <<>> /\ Head(ofq).type = "PacketOut" /\ ofq' = Tail(ofq)
        /\ dstLog' = Append(dstLog, Head(ofq).pkt)
    BY <1>18 DEF packetOut, DstReceive, eventVars, msgVars, poolVars, srcChan, pktState
  <2>2. PICK r : r = Head(ofq).pkt
    OBVIOUS
  <2>3. /\ r \in Packets /\ Head(ofq) = PacketOut(r) /\ PacketOut(r) \in Range(ofq)
        /\ Range(ofq') \subseteq Range(ofq)
    BY <1>2, <2>1, <2>2, SwitchMessage
  <2>4. PacketOut(r) \notin Range(ofq')
    <3>1. PacketOut(r) \in PacketOuts
      BY <2>3 DEF PacketOut, PacketOuts
    <3>2. QED
      BY <1>2, <2>1, <2>3, <3>1, DistinctTail DEF OnePlaceInv, NoRepeats
  <2>5. Range(dstLog') = Range(dstLog) \cup {r} /\ place[r] = "sent"
    BY <1>1, <1>2, <2>1, <2>2, <2>3, RangeAppend DEF PlacedBy
  <2>6. PICK new \in [Packets -> PlaceNames] :
          /\ \A p \in Packets : p \in {r} => new[p] = "processed"
          /\ \A p \in Packets : p \notin {r} => new[p] = place[p]
    BY <1>5, <1>6
  <2>7. PlacedBy(new)'
    BY <1>1, <1>3, <1>4, <2>1, <2>3, <2>4, <2>5, <2>6 DEF PlacedBy
  <2>8. QED
    BY <2>7
<1>19. CASE forward
  <2>1. PICK r : r = injected + 1
    OBVIOUS
  <2>2. /\ UNCHANGED <<eventsList, chunkEvents, eventTasks, srcEvents, ofq, applied, srcHand, seMsg, pc>>
        /\ injected' = r
        /\ \/ srcIn' = Append(srcIn, r) /\ UNCHANGED <<dstBuffer, dstLog>>
           \/ dstBuffer' = Append(dstBuffer, r) /\ UNCHANGED <<srcIn, dstLog>>
           \/ dstLog' = Append(dstLog, r) /\ UNCHANGED <<srcIn, dstBuffer>>
    BY <1>19, <2>1 DEF forward, DstReceive, eventVars, msgVars, poolVars, srcChan, pktState
  <2>3. /\ r \in Packets /\ r > injected /\ place[r] = "outside"
        /\ \A p \in Packets : p > r => p > injected /\ p # r
    BY <1>1, <1>2, <1>19, <2>1, BoundsAssumption DEF forward, Packets, PlacedBy
  <2>4. /\ Range(Append(srcIn, r)) = Range(srcIn) \cup {r}
        /\ Range(Append(dstBuffer, r)) = Range(dstBuffer) \cup {r}
        /\ Range(Append(dstLog, r)) = Range(dstLog) \cup {r}
    BY <1>2, <2>3, RangeAppend
  <2>5. CASE srcIn' = Append(srcIn, r) /\ UNCHANGED <<dstBuffer, dstLog>>
    <3>1. PICK new \in [Packets -> PlaceNames] :
            /\ \A p \in Packets : p \in {r} => new[p] = "arriving"
            /\ \A p \in Packets : p \notin {r} => new[p] = place[p]
      BY <1>5, <1>6
    <3>2. PlacedBy(new)'
      BY <1>1, <1>3, <1>4, <2>2, <2>3, <2>4, <2>5, <3>1 DEF PlacedBy
    <3>3. QED
      BY <3>2
  <2>6. CASE dstBuffer' = Append(dstBuffer, r) /\ UNCHANGED <<srcIn, dstLog>>
    <3>1. PICK new \in [Packets -> PlaceNames] :
            /\ \A p \in Packets : p \in {r} => new[p] = "buffered"
            /\ \A p \in Packets : p \notin {r} => new[p] = place[p]
      BY <1>5, <1>6
    <3>2. PlacedBy(new)'
      BY <1>1, <1>3, <1>4, <2>2, <2>3, <2>4, <2>6, <3>1 DEF PlacedBy
    <3>3. QED
      BY <3>2
  <2>7. CASE dstLog' = Append(dstLog, r) /\ UNCHANGED <<srcIn, dstBuffer>>
    <3>1. PICK new \in [Packets -> PlaceNames] :
            /\ \A p \in Packets : p \in {r} => new[p] = "processed"
            /\ \A p \in Packets : p \notin {r} => new[p] = place[p]
      BY <1>5, <1>6
    <3>2. PlacedBy(new)'
      BY <1>1, <1>3, <1>4, <2>2, <2>3, <2>4, <2>7, <3>1 DEF PlacedBy
    <3>3. QED
      BY <3>2
  <2>8. QED
    BY <2>2, <2>5, <2>6, <2>7
<1>20. QED
  BY <1>7, <1>8, <1>9, <1>10, <1>11, <1>12, <1>13, <1>14, <1>15, <1>16, <1>17, <1>18, <1>19,
     PacketsFrameCases

(* No queue gets a packet it already holds: the packet was elsewhere.      *)
LEMMA NoRepeatsStep ==
  ASSUME TypeOK, OnceInv, FlowsInv, OnePlaceInv, ReleasedOnce, Next
  PROVE  NoRepeats'
<1>1. PICK place \in [Packets -> PlaceNames] : PlacedBy(place)
  BY DEF OnePlaceInv
<1>2. /\ eventsList \in Seq(Packets) /\ chunkEvents \in [Perflow -> Seq(Packets)]
      /\ srcEvents \in Seq(Packets) /\ srcIn \in Seq(Packets) /\ ofq \in Seq(SwitchMsgs)
      /\ dstLog \in Seq(Packets) /\ eventTasks \subseteq EventTasks
      /\ injected \in 0 .. NumPackets
      /\ pc \in [Threads -> Labels] /\ FlowOf \in [Packets -> Perflow]
  BY PacketTypes
<1>3. /\ Range(eventsList) \subseteq Packets /\ Range(srcEvents) \subseteq Packets
      /\ Range(srcIn) \subseteq Packets
      /\ \A e \in eventTasks : e.pkt \in Packets
      /\ srcHand # None => srcHand \in Packets
      /\ pc["se"] \in {"list", "chunk"} => seMsg \in Packets
  BY PlacesType
<1>4. ~Released' => ~Released
  BY ReleasedStable
<1>5. /\ Distinct(srcIn, Packets) /\ Distinct(srcEvents, Packets)
      /\ ~Released => Distinct(eventsList, Packets)
      /\ \A c \in Perflow : Distinct(chunkEvents[c], Packets)
      /\ \A e1, e2 \in eventTasks : e1.pkt = e2.pkt => e1 = e2
      /\ Distinct(ofq, PacketOuts) /\ Distinct(dstLog, Packets)
  BY DEF OnePlaceInv, NoRepeats
<1>6. Distinct(Append(ofq, FlowMod), PacketOuts)
  <2>1. FlowMod \notin PacketOuts /\ FlowMod \in SwitchMsgs
    BY DEF FlowMod, PacketOuts, SwitchMsgs
  <2>2. QED
    BY <1>2, <1>5, <2>1, DistinctAppend
<1>7. CASE PacketsFrame
  BY <1>4, <1>5, <1>7 DEF PacketsFrame, NoRepeats
<1>8. CASE releaseChunkEvents
  <2>1. UNCHANGED <<eventsList, eventTasks, srcEvents, srcIn, dstLog>>
    BY <1>8 DEF releaseChunkEvents, poolVars, srcChan, dstVars
  <2>2. CASE deMsg \in Perflow
    <3>1. PICK q : q = chunkEvents[deMsg]
      OBVIOUS
    <3>2. PICK o : o = SentOut(q)
      OBVIOUS
    <3>3. /\ ofq' = ofq \o o /\ q \in Seq(Packets) /\ Distinct(q, Packets)
          /\ \A c \in Perflow : chunkEvents'[c] = chunkEvents[c] \/ chunkEvents'[c] = <<>>
      BY <1>2, <1>5, <1>8, <2>2, <3>1, <3>2 DEF releaseChunkEvents, SentOut
    <3>4. /\ o \in Seq(SwitchMsgs) /\ Distinct(o, PacketOuts)
          /\ \A r : PacketOut(r) \in Range(o) <=> r \in Range(q)
      <4>1. /\ o \in Seq(SwitchMsgs)
            /\ \A p : PacketOut(p) \in Range(o) <=> p \in Range(q)
            /\ FlowMod \notin Range(o)
            /\ Distinct(q, Packets) => Distinct(o, PacketOuts)
        <5>1. q \in Seq(Packets)
          BY <3>3
        <5>2. QED
          BY <3>2, <5>1, PacketOutsSent
      <4>2. QED
        BY <3>3, <4>1
    <3>5. \A r \in Range(q) : place[r] = "chunk"
      BY <1>1, <2>2, <3>1 DEF PlacedBy
    <3>6. \A m \in PacketOuts : m \in Range(ofq) => m \notin Range(o)
      <4> SUFFICES ASSUME NEW m \in PacketOuts, m \in Range(ofq), m \in Range(o)
                   PROVE  FALSE
        OBVIOUS
      <4>1. m = PacketOut(m.pkt) /\ m.pkt \in Packets
        BY DEF PacketOuts, PacketOut
      <4>2. place[m.pkt] = "sent" /\ place[m.pkt] = "chunk"
        BY <1>1, <3>4, <3>5, <4>1 DEF PlacedBy
      <4>3. QED
        BY <4>2
    <3>7. Distinct(ofq', PacketOuts)
      BY <1>2, <1>5, <3>3, <3>4, <3>6, DistinctConcat
    <3>8. \A c \in Perflow : Distinct(chunkEvents'[c], Packets)
      BY <1>5, <3>3, EmptyQueue
    <3>9. QED
      BY <1>4, <1>5, <2>1, <3>7, <3>8 DEF NoRepeats
  <2>3. CASE deMsg \notin Perflow
    BY <1>4, <1>5, <1>8, <2>1, <2>3 DEF releaseChunkEvents, NoRepeats
  <2>4. QED
    BY <2>2, <2>3
<1>9. ASSUME NEW t \in {"ss", "de"}, checkIfStateMoved(t)
      PROVE  NoRepeats'
  <2>1. /\ UNCHANGED <<eventsList, chunkEvents, eventTasks, srcEvents, srcIn, dstLog>>
        /\ ofq' = ofq \/ ofq' = Append(ofq, FlowMod)
    BY <1>9 DEF checkIfStateMoved, eventVars, poolVars, srcChan, dstVars
  <2>2. QED
    BY <1>4, <1>5, <1>6, <2>1 DEF NoRepeats
<1>10. ASSUME NEW t \in {"ss", "de"}, releaseEvents(t)
       PROVE  NoRepeats'
  <2>1. UNCHANGED <<chunkEvents, srcEvents, srcIn, ofq, dstLog>>
    BY <1>10 DEF releaseEvents, srcChan, dstVars, netVars
  <2>2. CASE UNCHANGED <<eventsList, eventTasks>>
    BY <1>4, <1>5, <2>1, <2>2 DEF NoRepeats
  <2>3. CASE /\ ~Released /\ Released'
             /\ eventTasks' = eventTasks \cup {[pkt |-> p, by |-> t] : p \in Range(eventsList)}
    <3>1. \A p \in Range(eventsList) : place[p] = "list"
      BY <1>1, <2>3 DEF PlacedBy
    <3>2. \A e \in eventTasks : place[e.pkt] = "task"
      BY <1>1 DEF PlacedBy
    <3>3. \A e1, e2 \in eventTasks' : e1.pkt = e2.pkt => e1 = e2
      <4> SUFFICES ASSUME NEW e1 \in eventTasks', NEW e2 \in eventTasks', e1.pkt = e2.pkt
                   PROVE  e1 = e2
        OBVIOUS
      <4>1. CASE e1 \in eventTasks /\ e2 \in eventTasks
        BY <1>5, <4>1
      <4>2. CASE e1 \notin eventTasks /\ e2 \notin eventTasks
        BY <2>3, <4>2
      <4>3. CASE e1 \in eventTasks /\ e2 \notin eventTasks
        BY <2>3, <3>1, <3>2, <4>3
      <4>4. CASE e1 \notin eventTasks /\ e2 \in eventTasks
        BY <2>3, <3>1, <3>2, <4>4
      <4>5. QED
        BY <4>1, <4>2, <4>3, <4>4
    <3>4. QED
      BY <1>5, <2>1, <2>3, <3>3 DEF NoRepeats
  <2>4. CASE /\ ~Released /\ eventsList # <<>>
             /\ eventsList' = Tail(eventsList)
             /\ eventTasks' = eventTasks \cup {[pkt |-> Head(eventsList), by |-> t]}
    <3>1. Head(eventsList) \in Range(eventsList)
      BY <1>2, <2>4, RangeTail
    <3>2. \A e \in eventTasks : e.pkt # Head(eventsList)
      BY <1>1, <2>4, <3>1 DEF PlacedBy
    <3>3. \A e1, e2 \in eventTasks' : e1.pkt = e2.pkt => e1 = e2
      BY <1>5, <2>4, <3>2
    <3>4. Distinct(eventsList', Packets)
      BY <1>2, <1>5, <2>4, DistinctTail
    <3>5. QED
      BY <1>5, <2>1, <3>3, <3>4 DEF NoRepeats
  <2>5. QED
    BY <1>10, <2>2, <2>3, <2>4, ReleaseOfList
<1>11. CASE receiveReprocess
  <2>1. /\ UNCHANGED <<eventsList, chunkEvents, srcIn, ofq, dstLog>>
        /\ srcEvents # <<>> /\ srcEvents' = Tail(srcEvents)
        /\ \/ eventTasks' = eventTasks
           \/ eventTasks' = eventTasks \cup {[pkt |-> Head(srcEvents), by |-> "se"]}
    BY <1>11 DEF receiveReprocess, eventVars, dstVars, netVars
  <2>2. Head(srcEvents) \in Range(srcEvents)
    BY <1>2, <2>1, RangeTail
  <2>3. \A e \in eventTasks : e.pkt # Head(srcEvents)
    BY <1>1, <2>2 DEF PlacedBy
  <2>4. \A e1, e2 \in eventTasks' : e1.pkt = e2.pkt => e1 = e2
    BY <1>5, <2>1, <2>3
  <2>5. Distinct(srcEvents', Packets)
    BY <1>2, <1>5, <2>1, DistinctTail
  <2>6. QED
    BY <1>4, <1>5, <2>1, <2>4, <2>5 DEF NoRepeats
<1>12. CASE holdEvent
  <2>1. /\ UNCHANGED <<eventTasks, srcEvents, srcIn, ofq, dstLog>>
        /\ pc["se"] \in {"list", "chunk"}
    BY <1>12 DEF holdEvent, Goto, poolVars, srcChan, dstVars, netVars
  <2>2. seMsg \in Packets /\ place[seMsg] = "held"
    BY <1>1, <1>3, <2>1 DEF PlacedBy
  <2>3. CASE pc["se"] = "list"
    <3>1. chunkEvents' = chunkEvents /\ eventsList' = Append(eventsList, seMsg)
      BY <1>12, <2>3 DEF holdEvent, Goto
    <3>2. ~Released => seMsg \notin Range(eventsList)
      BY <1>1, <2>2 DEF PlacedBy
    <3>3. ~Released => Distinct(eventsList', Packets)
      BY <1>2, <1>5, <2>2, <3>1, <3>2, DistinctAppend
    <3>4. QED
      BY <1>4, <1>5, <2>1, <3>1, <3>3 DEF NoRepeats
  <2>4. CASE pc["se"] # "list"
    <3>1. /\ eventsList' = eventsList
          /\ chunkEvents' = [chunkEvents EXCEPT ![FlowOf[seMsg]] = Append(@, seMsg)]
      BY <1>12, <2>4 DEF holdEvent, Goto
    <3>2. PICK f \in Perflow : f = FlowOf[seMsg]
      BY <1>2, <2>2
    <3>3. chunkEvents[f] \in Seq(Packets) /\ seMsg \notin Range(chunkEvents[f])
      BY <1>1, <1>2, <2>2 DEF PlacedBy
    <3>4. Distinct(Append(chunkEvents[f], seMsg), Packets)
      BY <1>5, <2>2, <3>3, DistinctAppend
    <3>5. \A c \in Perflow : chunkEvents'[c] = IF c = f THEN Append(chunkEvents[f], seMsg) ELSE chunkEvents[c]
      BY <1>2, <3>1, <3>2
    <3>6. \A c \in Perflow : Distinct(chunkEvents'[c], Packets)
      BY <1>5, <3>4, <3>5
    <3>7. QED
      BY <1>4, <1>5, <2>1, <3>1, <3>6 DEF NoRepeats
  <2>5. QED
    BY <2>3, <2>4
<1>13. ASSUME NEW e \in eventTasks, callEvent(e)
       PROVE  NoRepeats'
  <2>1. /\ UNCHANGED <<eventsList, chunkEvents, srcEvents, srcIn, dstLog>>
        /\ eventTasks' \subseteq eventTasks /\ ofq' = Append(ofq, PacketOut(e.pkt))
    BY <1>13 DEF callEvent, eventVars, srcChan, dstVars
  <2>2. e.pkt \in Packets /\ PacketOut(e.pkt) \notin Range(ofq)
    BY <1>1, <1>3 DEF PlacedBy
  <2>3. Distinct(ofq', PacketOuts)
    BY <1>2, <1>5, <2>1, <2>2, DistinctAppend, MessagesDiffer
  <2>4. QED
    BY <1>4, <1>5, <2>1, <2>3 DEF NoRepeats
<1>14. CASE receivePacket
  <2>1. /\ UNCHANGED <<eventsList, chunkEvents, eventTasks, srcEvents, srcIn, dstLog>>
        /\ ofq' = ofq \/ ofq' = Append(ofq, FlowMod)
    BY <1>14 DEF receivePacket, eventVars, poolVars, srcChan, dstVars
  <2>2. QED
    BY <1>4, <1>5, <1>6, <2>1 DEF NoRepeats
<1>15. CASE sdmbn_preprocess_packet
  <2>1. /\ UNCHANGED <<eventsList, chunkEvents, eventTasks, ofq, dstLog>>
        /\ srcIn # <<>> /\ srcIn' = Tail(srcIn)
        /\ srcEvents' = Append(srcEvents, Head(srcIn)) \/ srcEvents' = srcEvents
    BY <1>15 DEF sdmbn_preprocess_packet, eventVars, poolVars, dstVars
  <2>2. Head(srcIn) \in Range(srcIn) /\ Head(srcIn) \in Packets
    BY <1>2, <2>1, RangeTail
  <2>3. Head(srcIn) \notin Range(srcEvents)
    BY <1>1, <2>2 DEF PlacedBy
  <2>4. Distinct(Append(srcEvents, Head(srcIn)), Packets)
    BY <1>2, <1>5, <2>2, <2>3, DistinctAppend
  <2>5. Distinct(srcIn', Packets)
    BY <1>2, <1>5, <2>1, DistinctTail
  <2>6. QED
    BY <1>4, <1>5, <2>1, <2>4, <2>5 DEF NoRepeats
<1>16. CASE process_packet
  <2>1. /\ UNCHANGED <<eventsList, chunkEvents, eventTasks, srcIn, ofq, dstLog>>
        /\ srcHand # None
        /\ srcEvents' = srcEvents \/ srcEvents' = Append(srcEvents, srcHand)
    BY <1>16 DEF process_packet, eventVars, poolVars, dstVars, netVars
  <2>2. srcHand \in Packets /\ srcHand \notin Range(srcEvents)
    BY <1>1, <1>3, <2>1 DEF PlacedBy
  <2>3. Distinct(Append(srcEvents, srcHand), Packets)
    BY <1>2, <1>5, <2>2, DistinctAppend
  <2>4. QED
    BY <1>4, <1>5, <2>1, <2>3 DEF NoRepeats
<1>17. CASE installRule
  <2>1. /\ UNCHANGED <<eventsList, chunkEvents, eventTasks, srcEvents, srcIn, dstLog>>
        /\ ofq # <<>> /\ ofq' = Tail(ofq)
    BY <1>17 DEF installRule, eventVars, poolVars, srcChan, dstVars
  <2>2. Distinct(ofq', PacketOuts)
    BY <1>2, <1>5, <2>1, DistinctTail
  <2>3. QED
    BY <1>4, <1>5, <2>1, <2>2 DEF NoRepeats
<1>18. CASE packetOut
  <2>1. /\ UNCHANGED <<eventsList, chunkEvents, eventTasks, srcEvents, srcIn>>
        /\ ofq # <<>> /\ Head(ofq).type = "PacketOut" /\ ofq' = Tail(ofq)
        /\ dstLog' = Append(dstLog, Head(ofq).pkt)
    BY <1>18 DEF packetOut, DstReceive, eventVars, poolVars, srcChan
  <2>2. Distinct(ofq', PacketOuts)
    BY <1>2, <1>5, <2>1, DistinctTail
  <2>3. PICK r : r = Head(ofq).pkt
    OBVIOUS
  <2>4. r \in Packets /\ PacketOut(r) \in Range(ofq)
    BY <1>2, <2>1, <2>3, SwitchMessage
  <2>5. r \notin Range(dstLog)
    BY <1>1, <2>4 DEF PlacedBy
  <2>6. Distinct(dstLog', Packets)
    BY <1>2, <1>5, <2>1, <2>3, <2>4, <2>5, DistinctAppend
  <2>7. QED
    BY <1>4, <1>5, <2>1, <2>2, <2>6 DEF NoRepeats
<1>19. CASE forward
  <2>1. PICK r : r = injected + 1
    OBVIOUS
  <2>2. /\ UNCHANGED <<eventsList, chunkEvents, eventTasks, srcEvents, ofq>>
        /\ srcIn' = srcIn \/ srcIn' = Append(srcIn, r)
        /\ dstLog' = dstLog \/ dstLog' = Append(dstLog, r)
    BY <1>19, <2>1 DEF forward, DstReceive, eventVars, poolVars, srcChan
  <2>3. r \in Packets /\ place[r] = "outside"
    BY <1>1, <1>2, <1>19, <2>1, BoundsAssumption DEF forward, Packets, PlacedBy
  <2>4. r \notin Range(srcIn) /\ r \notin Range(dstLog)
    BY <1>1, <2>3 DEF PlacedBy
  <2>5. Distinct(Append(srcIn, r), Packets) /\ Distinct(Append(dstLog, r), Packets)
    BY <1>2, <1>5, <2>3, <2>4, DistinctAppend
  <2>6. QED
    BY <1>4, <1>5, <2>2, <2>5 DEF NoRepeats
<1>20. QED
  BY <1>7, <1>8, <1>9, <1>10, <1>11, <1>12, <1>13, <1>14, <1>15, <1>16, <1>17, <1>18, <1>19,
     PacketsFrameCases

(* With early release events are held with their chunks, not in the list.  *)
LEMMA NoListStep ==
  ASSUME TypeOK, EarlyRelease, eventsList = <<>>, pc["se"] # "list", Next
  PROVE  eventsList' = <<>> /\ pc'["se"] # "list"
<1>1. pc \in [Threads -> Labels]
  BY PacketTypes
<1> USE <1>1 DEF Threads
<1>2. CASE PacketsFrame
  BY <1>2 DEF PacketsFrame
<1>3. CASE releaseChunkEvents
  BY <1>3 DEF releaseChunkEvents, Goto
<1>4. ASSUME NEW t \in {"ss", "de"}, checkIfStateMoved(t)
      PROVE  eventsList' = <<>> /\ pc'["se"] # "list"
  BY <1>4 DEF checkIfStateMoved, Goto, eventVars
<1>5. ASSUME NEW t \in {"ss", "de"}, releaseEvents(t)
      PROVE  eventsList' = <<>> /\ pc'["se"] # "list"
  BY <1>5 DEF releaseEvents, Goto
<1>6. CASE receiveReprocess
  BY <1>6 DEF receiveReprocess, Goto, eventVars
<1>7. CASE holdEvent
  BY <1>7 DEF holdEvent, Goto
<1>8. CASE \E e \in eventTasks : callEvent(e)
  BY <1>8 DEF callEvent, eventVars
<1>9. CASE receivePacket \/ sdmbn_preprocess_packet \/ process_packet
  BY <1>9 DEF receivePacket, sdmbn_preprocess_packet, process_packet, eventVars
<1>10. CASE installRule \/ packetOut \/ forward
  BY <1>10 DEF installRule, packetOut, forward, eventVars
<1>11. QED
  BY <1>2, <1>3, <1>4, <1>5, <1>6, <1>7, <1>8, <1>9, <1>10, PacketsFrameCases

(* Every packet is in one place, and there once.                           *)
LEMMA OnePlaceStep ==
  TypeOK /\ OnceInv /\ FlowsInv /\ OnePlaceInv /\ [Next]_vars => OnePlaceInv'
<1> SUFFICES ASSUME TypeOK, OnceInv, FlowsInv, OnePlaceInv, [Next]_vars
             PROVE  OnePlaceInv'
  OBVIOUS
<1>1. CASE Next
  <2>1. /\ ReleasedOnce' <=> ReleasedOnce
        /\ EarlyRelease' <=> EarlyRelease
    BY <1>1, ArgsKept, SelectionStable
  <2>2. SUFFICES ASSUME ReleasedOnce
                 PROVE  OnePlaceInv'
    BY <2>1 DEF OnePlaceInv
  <2>3. \E new \in [Packets -> PlaceNames] : PlacedBy(new)'
    BY <1>1, <2>2, PlacedStep
  <2>4. NoRepeats'
    BY <1>1, <2>2, NoRepeatsStep
  <2>5. EarlyRelease => eventsList' = <<>> /\ pc'["se"] # "list"
    BY <1>1, <2>2, NoListStep DEF OnePlaceInv
  <2>6. QED
    BY <2>1, <2>3, <2>4, <2>5 DEF OnePlaceInv
<1>2. CASE UNCHANGED vars
  <2>1. /\ PacketsFrame /\ UNCHANGED <<args, pc, immediateRelease>>
    BY <1>2
       DEF vars, PacketsFrame, eventVars, opVars, msgVars, poolVars, srcChan, pktState, dstVars,
           netVars
  <2>2. /\ ReleasedOnce' <=> ReleasedOnce
        /\ EarlyRelease' <=> EarlyRelease
        /\ Released' <=> Released
    BY <2>1, SelectionStable DEF Released
  <2>3. \A place : PlacedBy(place) => PlacedBy(place)'
    BY <2>1, <2>2 DEF PacketsFrame, PlacedBy
  <2>4. NoRepeats => NoRepeats'
    BY <2>1, <2>2 DEF PacketsFrame, NoRepeats
  <2>5. QED
    BY <2>1, <2>2, <2>3, <2>4 DEF OnePlaceInv, PacketsFrame
<1>3. QED
  BY <1>1, <1>2

(* At the start every packet is outside.                                   *)
LEMMA OnePlaceInit ==
  ASSUME Init
  PROVE  OnePlaceInv
<1>1. Range(<< >>) = {} /\ Distinct(<< >>, Packets) /\ Distinct(<< >>, PacketOuts)
  BY EmptyQueue
<1>2. PICK place : place = [p \in Packets |-> "outside"]
  OBVIOUS
<1>3. place \in [Packets -> PlaceNames]
  BY <1>2 DEF PlaceNames
<1>4. pc["se"] = "idle"
  BY DEF Init, Threads
<1>5. PlacedBy(place)
  BY <1>1, <1>2, <1>4 DEF Init, PlacedBy
<1>6. NoRepeats
  BY <1>1 DEF Init, NoRepeats
<1>7. eventsList = <<>>
  BY DEF Init
<1>8. QED
  BY <1>3, <1>4, <1>5, <1>6, <1>7 DEF OnePlaceInv

(* A packet in one place takes effect at most once.                        *)
LEMMA OneEffect ==
  ASSUME TypeOK, OnePlaceInv
  PROVE  AtMostOnce
<1> SUFFICES ASSUME ReleasedOnce, NEW p \in Packets
             PROVE  Effects(p) <= 1
  BY DEF AtMostOnce, ReleasedOnce
<1>1. dstLog \in Seq(Packets)
  BY PacketTypes
<1>2. PICK place \in [Packets -> PlaceNames] : PlacedBy(place)
  BY DEF OnePlaceInv
<1> DEFINE At == {i \in DOMAIN dstLog : dstLog[i] = p}
<1>3. DOMAIN dstLog = 1 .. Len(dstLog)
  BY <1>1, LenProperties
<1>4. \A i, j \in At : i = j
  BY <1>3 DEF OnePlaceInv, NoRepeats, Distinct
<1>5. CASE At = {}
  <2>1. Occurrences(dstLog, p) = 0
    BY <1>5, FS_EmptySet DEF Occurrences
  <2>2. QED
    BY <2>1 DEF Effects
<1>6. CASE At # {}
  <2>1. PICK i \in At : TRUE
    BY <1>6
  <2>2. At = {i}
    BY <1>4, <2>1
  <2>3. Cardinality({i}) = 1
    BY FS_Singleton
  <2>4. Occurrences(dstLog, p) = 1
    BY <2>2, <2>3 DEF Occurrences
  <2>5. p \in Range(dstLog)
    BY <1>1, <1>3, <2>1, InRange
  <2>6. p \notin applied
    BY <1>2, <2>5 DEF PlacedBy
  <2>7. QED
    BY <2>4, <2>6 DEF Effects
<1>7. QED
  BY <1>5, <1>6

(* No packet takes effect twice, unless the optimization lets two threads  *)
(* release the list of events.                                             *)
THEOREM EffectsAtMostOnce == Spec => []AtMostOnce
<1>1. Init => OnePlaceInv
  BY OnePlaceInit
<1>2. TypeOK /\ OnePlaceInv => AtMostOnce
  BY OneEffect
<1>3. QED
  BY <1>1, <1>2, OnePlaceStep, TypeCorrect, ClaimedOnce, FlowsInvariant, PTL DEF Spec
=============================================================================
