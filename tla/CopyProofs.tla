----------------------------- MODULE CopyProofs -----------------------------
(***************************************************************************)
(* Module Copy for every state of the source, every scope, any hash keys   *)
(* and any number of local functions that fail.                            *)
(***************************************************************************)
EXTENDS Copy, QueueTheorems, FiniteSetTheorems

SrcMsgs == StateMsgs \cup GetAckMsgs

-----------------------------------------------------------------------------
(* Kinds and requests. *)

(* A chunk is of the kind it is exported for.                              *)
LEMMA KindOfChunk ==
  ASSUME NEW c \in Chunks
  PROVE  /\ KindOf(c) \in Kinds
         /\ \A k \in Kinds : c \in ChunksOf(k) <=> KindOf(c) = k
         /\ c \in Pooled <=> KindOf(c) \in {"pf", "mf"}
         /\ c \in Config <=> KindOf(c) = "cf"
         /\ c \in Allflows <=> KindOf(c) = "af"
BY CopyChunksAssumption DEF Chunks, ChunksOf, KindOf, Kinds, Pooled

(* The chunks of a kind are finitely many.                                 *)
LEMMA ChunksOfKind ==
  ASSUME NEW k \in Kinds
  PROVE  ChunksOf(k) \subseteq Chunks /\ IsFiniteSet(ChunksOf(k))
BY CopyChunksAssumption DEF Chunks, ChunksOf, Kinds

(* The place of a kind in every list of requests.                          *)
Rank(k) == IF k = "pf" THEN 1 ELSE IF k = "mf" THEN 2 ELSE IF k = "af" THEN 3 ELSE 4

(* Different kinds have different ranks.                                   *)
LEMMA RankOrder ==
  ASSUME NEW k \in Kinds, NEW l \in Kinds
  PROVE  /\ Rank(k) \in 1 .. 4
         /\ Rank(k) = Rank(l) <=> k = l
         /\ Rank(k) <= Rank(l) <=> Rank(k) < Rank(l) \/ k = l
BY DEF Rank, Kinds

(* What is requested is requested once, in the order of the ranks.         *)
LEMMA RequestsOrdered ==
  ASSUME scope \in CopyScopes
  PROVE  /\ Requests[scope] \in Seq(Kinds)
         /\ \A i, j \in 1 .. Len(Requests[scope]) : i < j => Rank(Requests[scope][i]) < Rank(Requests[scope][j])
         /\ \A k : k \in ScopeKinds <=> \E i \in 1 .. Len(Requests[scope]) : k = Requests[scope][i]
         /\ LastKind \in ScopeKinds /\ ScopeKinds \subseteq Kinds
         /\ \A k \in ScopeKinds : Rank(k) <= Rank(LastKind)
<1>1. PICK R \in {<<"pf">>, <<"mf">>, <<"af">>, <<"cf">>, <<"pf", "mf">>, <<"pf", "af">>,
                  <<"mf", "af">>, <<"pf", "mf", "af">>} : Requests[scope] = R
  <2>1. scope \in {"PERFLOW", "MULTIFLOW", "ALLFLOWS", "CONFIG", "PF_MF", "PF_AF", "MF_AF", "PF_MF_AF"}
    BY CopyBoundsAssumption DEF Requests
  <2>2. /\ Requests["PERFLOW"] = <<"pf">> /\ Requests["MULTIFLOW"] = <<"mf">>
        /\ Requests["ALLFLOWS"] = <<"af">> /\ Requests["CONFIG"] = <<"cf">>
        /\ Requests["PF_MF"] = <<"pf", "mf">> /\ Requests["PF_AF"] = <<"pf", "af">>
        /\ Requests["MF_AF"] = <<"mf", "af">> /\ Requests["PF_MF_AF"] = <<"pf", "mf", "af">>
    BY DEF Requests
  <2>3. Requests[scope] \in {<<"pf">>, <<"mf">>, <<"af">>, <<"cf">>, <<"pf", "mf">>, <<"pf", "af">>,
                             <<"mf", "af">>, <<"pf", "mf", "af">>}
    BY <2>1, <2>2
  <2>4. QED
    BY <2>3
<1>2. R \in Seq(Kinds) /\ Len(R) \in 1 .. 3
  <2>1. \A k, l, m \in Kinds : /\ <<k>> \in Seq(Kinds) /\ <<k, l>> \in Seq(Kinds)
                              /\ <<k, l, m>> \in Seq(Kinds)
    OBVIOUS
  <2>2. "pf" \in Kinds /\ "mf" \in Kinds /\ "af" \in Kinds /\ "cf" \in Kinds
    BY DEF Kinds
  <2>3. R \in Seq(Kinds)
    BY <2>1, <2>2, Zenon
  <2>4. Len(R) \in 1 .. 3
    OBVIOUS
  <2>5. QED
    BY <2>3, <2>4
<1>3. \A i, j \in 1 .. Len(R) : i < j => Rank(R[i]) < Rank(R[j])
  BY DEF Rank
<1>4. \A k : k \in Range(R) <=> \E i \in 1 .. Len(R) : k = R[i]
  BY <1>2, InRange, Zenon
<1>5. R[Len(R)] \in Range(R) /\ Range(R) \subseteq Kinds
  BY <1>2, <1>4, RangeType
<1>6. \A k \in Range(R) : Rank(k) <= Rank(R[Len(R)])
  <2> TAKE k \in Range(R)
  <2>1. PICK i \in 1 .. Len(R) : k = R[i]
    BY <1>4
  <2>2. CASE i = Len(R)
    BY <2>1, <2>2 DEF Rank
  <2>3. CASE i # Len(R)
    <3>1. i < Len(R) /\ Len(R) \in 1 .. Len(R)
      BY <1>2, <2>3
    <3>2. Rank(R[i]) < Rank(R[Len(R)])
      BY <1>3, <3>1
    <3>3. QED
      BY <2>1, <3>2 DEF Rank
  <2>4. QED
    BY <2>2, <2>3
<1>7. QED
  BY <1>1, <1>2, <1>3, <1>4, <1>5, <1>6 DEF ScopeKinds, LastKind

-----------------------------------------------------------------------------
(* Types. *)

(* The initial values have their types.                                    *)
LEMMA TypeInit == Init => TypeOK
<1> SUFFICES ASSUME Init
             PROVE  TypeOK
  OBVIOUS
<1>1. /\ <<>> \in Seq(Kinds) /\ <<>> \in Seq(SrcMsgs) /\ <<>> \in Seq(Chunks)
  BY EmptySeq
<1>2. [type |-> "GetAck", kind |-> "pf", count |-> 0] \in GetAckMsgs
  BY DEF GetAckMsgs, Kinds
<1>3. pc \in [Threads -> Labels]
  BY DEF Init, Threads, Labels
<1>4. QED
  BY <1>1, <1>2, <1>3, CopyBoundsAssumption DEF Init, TypeOK, SrcMsgs

(* A source counts what it has exported.                                   *)
LEMMA CountType ==
  ASSUME exported \subseteq Chunks, NEW k \in Kinds
  PROVE  /\ IsFiniteSet(exported \cap ChunksOf(k))
         /\ Cardinality(exported \cap ChunksOf(k)) \in Nat
<1>1. IsFiniteSet(exported \cap ChunksOf(k))
  BY ChunksOfKind, FS_Subset
<1>2. QED
  BY <1>1, FS_CardinalityType

(* Every step keeps the types.                                             *)
LEMMA TypeStep == TypeOK /\ [Next]_vars => TypeOK'
<1> SUFFICES ASSUME TypeOK, [Next]_vars
             PROVE  TypeOK'
  OBVIOUS
<1> USE CopyBoundsAssumption DEF TypeOK, conf, getVars, putVars, poolVars, srcVars
<1>1. CASE execute
  <2>1. toSrc' \in Seq(Kinds)
    BY <1>1, RequestsOrdered, ConcatProperties DEF execute
  <2>2. pc' \in [Threads -> Labels]
    BY <1>1 DEF execute, Goto, Threads, Labels
  <2>3. QED
    BY <1>1, <2>1, <2>2 DEF execute
<1>2. CASE receiveState
  <2> DEFINE c == Head(fromSrc).chunk
  <2>1. fromSrc' \in Seq(SrcMsgs) /\ Head(fromSrc) \in SrcMsgs
    BY <1>2, HeadTailProperties DEF receiveState, SrcMsgs
  <2>2. c \in Chunks
    BY <1>2, <2>1 DEF receiveState, SrcMsgs, StateMsgs, GetAckMsgs
  <2>3. toDst' \in Seq(Chunks)
    BY <1>2, <2>2, AppendProperties DEF receiveState
  <2>4. stored' \in [Pooled -> Pooled] /\ putTasks' \subseteq Pooled
    BY <1>2 DEF receiveState, SameObject
  <2>5. QED
    BY <1>2, <2>1, <2>3, <2>4 DEF receiveState, SrcMsgs
<1>3. CASE receiveGetAck
  <2>1. fromSrc' \in Seq(SrcMsgs) /\ Head(fromSrc) \in SrcMsgs
    BY <1>3, HeadTailProperties DEF receiveGetAck, SrcMsgs
  <2>2. ssMsg' \in GetAckMsgs
    BY <1>3, <2>1 DEF receiveGetAck, SrcMsgs, StateMsgs, GetAckMsgs
  <2>3. acked' \in [Kinds -> BOOLEAN]
    BY <1>3 DEF receiveGetAck
  <2>4. pc' \in [Threads -> Labels]
    BY <1>3 DEF receiveGetAck, Goto, Threads, Labels
  <2>5. QED
    BY <1>3, <2>1, <2>2, <2>3, <2>4 DEF receiveGetAck, SrcMsgs
<1>4. CASE setGetCount
  <2>1. count' \in [Kinds -> Nat]
    BY <1>4 DEF setGetCount, GetAckMsgs
  <2>2. pc' \in [Threads -> Labels]
    BY <1>4 DEF setGetCount, Goto, Threads, Labels
  <2>3. QED
    BY <1>4, <2>1, <2>2 DEF setGetCount
<1>5. CASE receivePutAck
  <2>1. dstAcks' \in Seq(Chunks) /\ Head(dstAcks) \in Chunks
    BY <1>5, HeadTailProperties DEF receivePutAck
  <2>2. KindOf(Head(dstAcks)) \in Kinds
    BY <2>1, KindOfChunk
  <2>5. putAcks' \in [Kinds -> Nat]
    BY <1>5, <2>2 DEF receivePutAck
  <2>6. chunkAck' \subseteq Chunks
    BY <1>5, <2>1 DEF receivePutAck
  <2>3. pc' \in [Threads -> Labels]
    BY <1>5 DEF receivePutAck, Goto, Threads, Labels
  <2>4. QED
    BY <1>5, <2>1, <2>3, <2>5, <2>6 DEF receivePutAck
<1>6. ASSUME NEW t \in {"ss", "de"}, checkIfFinished(t)
      PROVE  TypeOK'
  <2>1. pc' \in [Threads -> Labels] /\ finishes' \in Nat
    BY <1>6 DEF checkIfFinished, Goto, Threads, Labels
  <2>2. QED
    BY <1>6, <2>1 DEF checkIfFinished
<1>7. ASSUME NEW c \in Pooled, callChunk(c)
      PROVE  TypeOK'
  <2>1. stored[c] \in Chunks
    BY DEF Pooled, Chunks
  <2>2. toDst' \in Seq(Chunks) /\ putTasks' \subseteq Pooled
    BY <1>7, <2>1, AppendProperties DEF callChunk
  <2>3. QED
    BY <1>7, <2>2 DEF callChunk
<1>8. CASE handle_get
  <2>1. toSrc' \in Seq(Kinds) /\ srcGet' \in Kinds
    BY <1>8, HeadTailProperties DEF handle_get
  <2>2. QED
    BY <1>8, <2>1 DEF handle_get
<1>9. ASSUME NEW c \in Chunks, send_state(c)
      PROVE  TypeOK'
  <2>1. [type |-> "State", chunk |-> c] \in SrcMsgs
    BY DEF SrcMsgs, StateMsgs
  <2>2. fromSrc' \in Seq(SrcMsgs)
    BY <1>9, <2>1, AppendProperties DEF send_state, SrcMsgs
  <2>3. QED
    BY <1>9, <2>2 DEF send_state, SrcMsgs
<1>10. CASE send_get_ack
  <2>1. srcGet \in Kinds
    BY <1>10 DEF send_get_ack
  <2>2. [type |-> "GetAck", kind |-> srcGet,
         count |-> Cardinality(exported \cap ChunksOf(srcGet))] \in SrcMsgs
    BY <2>1, CountType DEF SrcMsgs, GetAckMsgs
  <2>3. fromSrc' \in Seq(SrcMsgs)
    BY <1>10, <2>2, AppendProperties DEF send_get_ack, SrcMsgs
  <2>4. QED
    BY <1>10, <2>1, <2>3 DEF send_get_ack, SrcMsgs
<1>11. CASE get_fails
  BY <1>11 DEF get_fails
<1>12. CASE handle_put
  <2>1. toDst' \in Seq(Chunks) /\ Head(toDst) \in Chunks
    BY <1>12, HeadTailProperties DEF handle_put
  <2>2. dstAcks' \in Seq(Chunks) /\ imported' \subseteq Chunks
    BY <1>12, <2>1, AppendProperties DEF handle_put
  <2>3. QED
    BY <1>12, <2>1, <2>2 DEF handle_put
<1>13. CASE put_fails
  <2>1. toDst' \in Seq(Chunks)
    BY <1>13, HeadTailProperties DEF put_fails
  <2>2. QED
    BY <1>13, <2>1 DEF put_fails
<1>14. CASE UNCHANGED vars
  BY <1>14 DEF vars
<1>15. QED
  BY <1>1, <1>2, <1>3, <1>4, <1>5, <1>6, <1>7, <1>8, <1>9, <1>10, <1>11, <1>12, <1>13, <1>14
     DEF Next, Controller, SrcNF, DstNF

(* Every variable of a copy keeps its type.                                *)
THEOREM TypeCorrect == Spec => []TypeOK
BY TypeInit, TypeStep, PTL DEF Spec

-----------------------------------------------------------------------------
(* Requests and replies come in the order of the ranks. *)

MsgKind(m) == IF m.type = "State" THEN KindOf(m.chunk) ELSE m.kind

KindOrder == {p \in Kinds \X Kinds : Rank(p[1]) < Rank(p[2])}

(* The chunks of a get come before its ack, and both before the next get.  *)
MsgOrder ==
  {p \in SrcMsgs \X SrcMsgs :
     \/ Rank(MsgKind(p[1])) < Rank(MsgKind(p[2]))
     \/ MsgKind(p[1]) = MsgKind(p[2]) /\ p[1].type = "State" /\ p[1] # p[2]}

StateMsg(c) == [type |-> "State", chunk |-> c]
Arriving    == {c \in Chunks : StateMsg(c) \in Range(fromSrc)}
Begun       == getDone \cup {KindOf(c) : c \in exported}
Exported(k) == Cardinality(exported \cap ChunksOf(k))

(* The source works through the requests one after the other.              *)
RequestsInv ==
  /\ pc["app"] = "start" => toSrc = <<>> /\ srcGet = "none" /\ exported = {} /\ getDone = {}
  /\ Ordered(toSrc, KindOrder) /\ Range(toSrc) \subseteq ScopeKinds
  /\ srcGet # "none" => /\ srcGet \in ScopeKinds \ getDone
                        /\ \A l \in Range(toSrc) : Rank(srcGet) < Rank(l)
  /\ \A k \in Begun : /\ k \in ScopeKinds
                      /\ \A l \in Range(toSrc) : Rank(k) < Rank(l)
                      /\ srcGet # "none" => Rank(k) <= Rank(srcGet)

(* What is on its way to the controller comes after what has arrived.      *)
RepliesInv ==
  /\ Ordered(fromSrc, MsgOrder)
  /\ \A m \in Range(fromSrc) :
       /\ m.type = "State" => m.chunk \in exported
       /\ m.type = "GetAck" => m.kind \in getDone /\ m.count = Exported(m.kind)
  /\ \A c \in exported \ Arriving : \A m \in Range(fromSrc) : Rank(KindOf(c)) <= Rank(MsgKind(m))
  /\ \A k \in Kinds : acked[k] => /\ k \in getDone
                                  /\ \A m \in Range(fromSrc) : Rank(k) < Rank(MsgKind(m))

(* A count is what was exported, but between the flag and the count.       *)
CountsInv ==
  /\ pc["ss"] \in {"idle", "count", "check"} /\ pc["de"] \in {"idle", "check"}
  /\ pc["ss"] # "idle" => /\ acked[ssMsg.kind]
                          /\ \A k \in Kinds : acked[k] => Rank(k) <= Rank(ssMsg.kind)
  /\ pc["ss"] = "count" => ssMsg.count = Exported(ssMsg.kind)
  /\ \A k \in Kinds : count[k] = IF acked[k] /\ ~(pc["ss"] = "count" /\ ssMsg.kind = k)
                                 THEN Exported(k) ELSE 0

OrderInv == TypeOK /\ RequestsInv /\ RepliesInv /\ CountsInv

(* The ranks are numbers.                                                  *)
LEMMA RankType == \A k : Rank(k) \in Nat
BY DEF Rank

(* A message of the source is of one of the kinds.                         *)
LEMMA MsgKindType ==
  ASSUME NEW m \in SrcMsgs
  PROVE  /\ MsgKind(m) \in Kinds
         /\ m.type = "State" => m.chunk \in Chunks /\ m = StateMsg(m.chunk)
         /\ m.type # "State" => m.type = "GetAck" /\ m \in GetAckMsgs
<1>1. CASE m \in StateMsgs
  BY <1>1, KindOfChunk DEF StateMsgs, MsgKind, StateMsg
<1>2. CASE m \in GetAckMsgs
  BY <1>2 DEF GetAckMsgs, MsgKind
<1>3. QED
  BY <1>1, <1>2 DEF SrcMsgs

(* The message that carries a chunk.                                       *)
LEMMA StateMsgType ==
  ASSUME NEW c \in Chunks
  PROVE  /\ StateMsg(c) \in SrcMsgs /\ StateMsg(c).type = "State" /\ StateMsg(c).chunk = c
         /\ MsgKind(StateMsg(c)) = KindOf(c)
BY DEF StateMsg, SrcMsgs, StateMsgs, MsgKind

(* Nothing has been requested at first.                                    *)
LEMMA OrderInit == Init => OrderInv
<1> SUFFICES ASSUME Init
             PROVE  OrderInv
  OBVIOUS
<1>1. Range(toSrc) = {} /\ Range(fromSrc) = {}
  BY EmptyQueue DEF Init
<1>2. Ordered(toSrc, KindOrder) /\ Ordered(fromSrc, MsgOrder)
  BY DEF Init, Ordered
<1>3. RequestsInv
  BY <1>1, <1>2 DEF Init, RequestsInv, Begun
<1>4. RepliesInv
  BY <1>1, <1>2 DEF Init, RepliesInv
<1>5. CountsInv
  BY DEF Init, CountsInv, Threads
<1>6. QED
  BY <1>3, <1>4, <1>5, TypeInit DEF OrderInv

(* Nothing but these steps changes what the source has been asked.         *)
LEMMA RequestsFrame ==
  ASSUME TypeOK, [Next]_vars
  PROVE  \/ execute \/ handle_get \/ (\E c \in Chunks : send_state(c)) \/ send_get_ack \/ get_fails
         \/ UNCHANGED <<scope, toSrc, srcGet, exported, getDone, pc["app"]>>
<1> USE DEF srcVars, conf
<1>1. CASE receiveState
  BY <1>1 DEF receiveState
<1>2. CASE receiveGetAck
  BY <1>2 DEF receiveGetAck, Goto, TypeOK, Threads
<1>3. CASE setGetCount
  BY <1>3 DEF setGetCount, Goto, TypeOK, Threads
<1>4. CASE receivePutAck
  BY <1>4 DEF receivePutAck, Goto, TypeOK, Threads
<1>5. ASSUME NEW t \in {"ss", "de"}, checkIfFinished(t)
      PROVE  UNCHANGED <<scope, toSrc, srcGet, exported, getDone, pc["app"]>>
  BY <1>5 DEF checkIfFinished, Goto, TypeOK, Threads
<1>6. ASSUME NEW c \in Pooled, callChunk(c)
      PROVE  UNCHANGED <<scope, toSrc, srcGet, exported, getDone, pc["app"]>>
  BY <1>6 DEF callChunk
<1>7. CASE handle_put
  BY <1>7 DEF handle_put
<1>8. CASE put_fails
  BY <1>8 DEF put_fails
<1>9. CASE UNCHANGED vars
  BY <1>9 DEF vars
<1>10. QED
  BY <1>1, <1>2, <1>3, <1>4, <1>5, <1>6, <1>7, <1>8, <1>9 DEF Next, Controller, SrcNF, DstNF

(* The requests stay in order.                                             *)
LEMMA RequestsStep == OrderInv /\ [Next]_vars => RequestsInv'
<1> SUFFICES ASSUME OrderInv, [Next]_vars
             PROVE  RequestsInv'
  OBVIOUS
<1>0. TypeOK /\ RequestsInv
  BY DEF OrderInv
<1>a. scope \in CopyScopes /\ toSrc \in Seq(Kinds) /\ pc \in [Threads -> Labels] /\ exported \subseteq Chunks
  BY <1>0 DEF TypeOK
<1>1. CASE execute
  <2>1. /\ toSrc = <<>> /\ srcGet = "none" /\ exported = {} /\ getDone = {}
        /\ toSrc' = <<>> \o Requests[scope] /\ pc'["app"] = "idle"
        /\ UNCHANGED <<scope, srcGet, exported, getDone>>
    BY <1>0, <1>1, <1>a DEF execute, Goto, RequestsInv, Threads, conf, srcVars
  <2>2. toSrc' = Requests[scope]
    BY <1>a, <2>1, RequestsOrdered, ConcatEmptySeq, Zenon
  <2>3. Ordered(Requests[scope], KindOrder)
    <3>1. Requests[scope] \in Seq(Kinds)
          /\ \A i, j \in 1 .. Len(Requests[scope]) : i < j => Rank(Requests[scope][i]) < Rank(Requests[scope][j])
      BY <1>a, RequestsOrdered
    <3>2. \A i \in 1 .. Len(Requests[scope]) : Requests[scope][i] \in Kinds
      BY <3>1, ElementOfSeq
    <3>3. QED
      BY <3>1, <3>2 DEF Ordered, KindOrder
  <2>4. Ordered(toSrc', KindOrder) /\ Range(toSrc') \subseteq ScopeKinds /\ ScopeKinds' = ScopeKinds
    BY <2>1, <2>2, <2>3 DEF ScopeKinds
  <2>5. Begun' = {}
    BY <2>1 DEF Begun
  <2>6. QED
    BY <2>1, <2>4, <2>5 DEF RequestsInv
<1>2. CASE handle_get
  <2>1. /\ srcGet = "none" /\ toSrc # <<>> /\ toSrc' = Tail(toSrc) /\ srcGet' = Head(toSrc)
        /\ UNCHANGED <<scope, exported, getDone, pc>>
    BY <1>2 DEF handle_get, conf
  <2>2. /\ Head(toSrc) \in Range(toSrc) /\ Head(toSrc) \in Kinds
        /\ Range(toSrc) = {Head(toSrc)} \cup Range(Tail(toSrc))
    BY <1>a, <2>1, RangeTail
  <2>3. /\ Ordered(Tail(toSrc), KindOrder)
        /\ \A e \in Range(Tail(toSrc)) : <<Head(toSrc), e>> \in KindOrder
    BY <1>0, <1>a, <2>1, OrderedTail DEF RequestsInv
  <2>4. Head(toSrc) # "none" /\ \A e \in Range(Tail(toSrc)) : Rank(Head(toSrc)) < Rank(e)
    BY <2>2, <2>3 DEF KindOrder, Kinds
  <2>5. Head(toSrc) \in ScopeKinds \ getDone
    <3>1. Head(toSrc) \in ScopeKinds /\ getDone \subseteq Begun
      BY <1>0, <2>2 DEF RequestsInv, Begun
    <3>2. Head(toSrc) \in Begun => Rank(Head(toSrc)) < Rank(Head(toSrc))
      BY <1>0, <2>2 DEF RequestsInv
    <3>3. ~(Rank(Head(toSrc)) < Rank(Head(toSrc)))
      BY RankType
    <3>4. QED
      BY <3>1, <3>2, <3>3
  <2>6. \A k \in Begun : /\ k \in ScopeKinds
                         /\ \A l \in Range(Tail(toSrc)) : Rank(k) < Rank(l)
                         /\ Rank(k) <= Rank(Head(toSrc))
    BY <1>0, <2>2, RankType DEF RequestsInv
  <2>7. Begun' = Begun /\ ScopeKinds' = ScopeKinds
    BY <2>1 DEF Begun, ScopeKinds
  <2>8. pc'["app"] # "start"
    BY <1>0, <2>1 DEF RequestsInv
  <2>9. QED
    BY <1>0, <2>1, <2>2, <2>3, <2>4, <2>5, <2>6, <2>7, <2>8 DEF RequestsInv
<1>3. ASSUME NEW c \in Chunks, send_state(c)
      PROVE  RequestsInv'
  <2>1. /\ srcGet # "none" /\ c \in ChunksOf(srcGet) /\ exported' = exported \cup {c}
        /\ UNCHANGED <<scope, toSrc, srcGet, getDone, pc>>
    BY <1>3 DEF send_state, conf
  <2>2. srcGet \in Kinds
    BY <1>0, <2>1 DEF TypeOK
  <2>3. KindOf(c) = srcGet
    BY <2>1, <2>2, KindOfChunk
  <2>4. Begun' = Begun \cup {srcGet} /\ ScopeKinds' = ScopeKinds
    BY <2>1, <2>3 DEF Begun, ScopeKinds
  <2>5. Rank(srcGet) <= Rank(srcGet)
    BY DEF Rank
  <2>6. QED
    BY <1>0, <2>1, <2>4, <2>5 DEF RequestsInv
<1>4. CASE send_get_ack
  <2>1. /\ srcGet # "none" /\ srcGet' = "none" /\ getDone' = getDone \cup {srcGet}
        /\ UNCHANGED <<scope, toSrc, exported, pc>>
    BY <1>4 DEF send_get_ack, conf
  <2>2. Begun' = Begun \cup {srcGet} /\ ScopeKinds' = ScopeKinds
    BY <2>1 DEF Begun, ScopeKinds
  <2>3. QED
    BY <1>0, <2>1, <2>2 DEF RequestsInv
<1>5. CASE get_fails
  <2>1. /\ srcGet' = "none" /\ UNCHANGED <<scope, toSrc, exported, getDone, pc>>
    BY <1>5 DEF get_fails, conf
  <2>2. Begun' = Begun /\ ScopeKinds' = ScopeKinds
    BY <2>1 DEF Begun, ScopeKinds
  <2>3. QED
    BY <1>0, <2>1, <2>2 DEF RequestsInv
<1>6. CASE UNCHANGED <<scope, toSrc, srcGet, exported, getDone, pc["app"]>>
  <2>1. Begun' = Begun /\ ScopeKinds' = ScopeKinds
    BY <1>6 DEF Begun, ScopeKinds
  <2>2. QED
    BY <1>0, <1>6, <2>1 DEF RequestsInv
<1>7. QED
  BY <1>0, <1>1, <1>2, <1>3, <1>4, <1>5, <1>6, RequestsFrame

(* Nothing but these steps changes the replies of the source or the get    *)
(* acks.                                                                   *)
LEMMA RepliesFrame ==
  ASSUME TypeOK, [Next]_vars
  PROVE  \/ receiveState \/ receiveGetAck \/ (\E c \in Chunks : send_state(c)) \/ send_get_ack
         \/ UNCHANGED <<fromSrc, exported, getDone, acked>>
<1> USE DEF srcVars, getVars
<1>1. CASE execute
  BY <1>1 DEF execute
<1>2. CASE setGetCount
  BY <1>2 DEF setGetCount
<1>3. CASE receivePutAck
  BY <1>3 DEF receivePutAck
<1>4. ASSUME NEW t \in {"ss", "de"}, checkIfFinished(t)
      PROVE  UNCHANGED <<fromSrc, exported, getDone, acked>>
  BY <1>4 DEF checkIfFinished
<1>5. ASSUME NEW c \in Pooled, callChunk(c)
      PROVE  UNCHANGED <<fromSrc, exported, getDone, acked>>
  BY <1>5 DEF callChunk
<1>6. CASE handle_get
  BY <1>6 DEF handle_get
<1>7. CASE get_fails
  BY <1>7 DEF get_fails
<1>8. CASE handle_put
  BY <1>8 DEF handle_put
<1>9. CASE put_fails
  BY <1>9 DEF put_fails
<1>10. CASE UNCHANGED vars
  BY <1>10 DEF vars
<1>11. QED
  BY <1>1, <1>2, <1>3, <1>4, <1>5, <1>6, <1>7, <1>8, <1>9, <1>10 DEF Next, Controller, SrcNF, DstNF

(* What a kind in progress, or one that has not begun, may still send is   *)
(* after all that has been sent.                                           *)
LEMMA KindInProgress ==
  ASSUME OrderInv, srcGet # "none"
  PROVE  /\ srcGet \in Kinds /\ ~acked[srcGet]
         /\ \A m \in Range(fromSrc) : /\ m \in SrcMsgs /\ Rank(MsgKind(m)) <= Rank(srcGet)
                                      /\ MsgKind(m) = srcGet => m.type = "State"
         /\ \A k \in Kinds : acked[k] => Rank(k) < Rank(srcGet)
         /\ \A k \in getDone : ChunksOf(k) \cap ChunksOf(srcGet) = {}
<1>0. TypeOK /\ RequestsInv /\ RepliesInv
  BY DEF OrderInv
<1>1. srcGet \in Kinds /\ fromSrc \in Seq(SrcMsgs) /\ getDone \subseteq Kinds /\ exported \subseteq Chunks
  BY <1>0 DEF TypeOK, SrcMsgs
<1>2. srcGet \notin getDone /\ \A k \in Begun : Rank(k) <= Rank(srcGet)
  BY <1>0 DEF RequestsInv
<1>3. \A k \in getDone : Rank(k) < Rank(srcGet)
  <2>1. \A k \in getDone : k \in Kinds /\ k # srcGet /\ Rank(k) <= Rank(srcGet)
    BY <1>1, <1>2 DEF Begun
  <2>2. QED
    BY <1>1, <2>1, RankOrder
<1>4. \A k \in Kinds : acked[k] => k \in getDone
  BY <1>0 DEF RepliesInv
<1>5. ASSUME NEW m \in Range(fromSrc)
      PROVE  /\ m \in SrcMsgs /\ Rank(MsgKind(m)) <= Rank(srcGet)
             /\ MsgKind(m) = srcGet => m.type = "State"
  <2>1. m \in SrcMsgs
    BY <1>1, RangeType
  <2>2. CASE m.type = "State"
    <3>1. m.chunk \in exported /\ MsgKind(m) = KindOf(m.chunk)
      BY <1>0, <2>2 DEF RepliesInv, MsgKind
    <3>2. KindOf(m.chunk) \in Begun
      BY <3>1 DEF Begun
    <3>3. QED
      BY <1>2, <2>1, <2>2, <3>1, <3>2
  <2>3. CASE m.type # "State"
    <3>1. m.type = "GetAck" /\ MsgKind(m) = m.kind
      BY <2>1, <2>3, MsgKindType DEF MsgKind
    <3>2. m.kind \in getDone
      BY <1>0, <3>1 DEF RepliesInv
    <3>3. Rank(m.kind) < Rank(srcGet) /\ m.kind # srcGet
      BY <1>2, <1>3, <3>2
    <3>4. QED
      BY <2>1, <3>1, <3>3, RankType
  <2>4. QED
    BY <2>2, <2>3
<1>6. ASSUME NEW k \in getDone
      PROVE  ChunksOf(k) \cap ChunksOf(srcGet) = {}
  <2>1. k \in Kinds /\ k # srcGet
    BY <1>1, <1>2
  <2>2. QED
    BY <1>1, <2>1, KindOfChunk, ChunksOfKind
<1>7. QED
  BY <1>1, <1>2, <1>3, <1>4, <1>5, <1>6

(* A chunk of a get in progress changes no count of one that has ended.    *)
LEMMA ExportedKept ==
  ASSUME OrderInv, NEW c \in Chunks, send_state(c), NEW k \in getDone
  PROVE  Exported(k)' = Exported(k)
<1>1. srcGet # "none" /\ c \in ChunksOf(srcGet) /\ exported' = exported \cup {c}
  BY DEF send_state
<1>2. c \notin ChunksOf(k)
  BY <1>1, KindInProgress
<1>3. exported' \cap ChunksOf(k) = exported \cap ChunksOf(k)
  BY <1>1, <1>2
<1>4. QED
  BY <1>3 DEF Exported

(* A received message is before the ones that are left.                    *)
LEMMA ReplyReceived ==
  ASSUME OrderInv, fromSrc # <<>>
  PROVE  /\ Head(fromSrc) \in Range(fromSrc) /\ Head(fromSrc) \in SrcMsgs
         /\ Tail(fromSrc) \in Seq(SrcMsgs)
         /\ Range(fromSrc) = {Head(fromSrc)} \cup Range(Tail(fromSrc))
         /\ Ordered(Tail(fromSrc), MsgOrder)
         /\ Head(fromSrc) \notin Range(Tail(fromSrc))
         /\ \A m \in Range(Tail(fromSrc)) :
              /\ Rank(MsgKind(Head(fromSrc))) <= Rank(MsgKind(m))
              /\ Head(fromSrc).type = "GetAck" => Rank(MsgKind(Head(fromSrc))) < Rank(MsgKind(m))
<1>1. fromSrc \in Seq(SrcMsgs) /\ Ordered(fromSrc, MsgOrder)
  BY DEF OrderInv, TypeOK, RepliesInv, SrcMsgs
<1>2. /\ Head(fromSrc) \in Range(fromSrc) /\ Head(fromSrc) \in SrcMsgs
      /\ Tail(fromSrc) \in Seq(SrcMsgs)
      /\ Range(fromSrc) = {Head(fromSrc)} \cup Range(Tail(fromSrc))
  BY <1>1, RangeTail
<1>3. /\ Ordered(Tail(fromSrc), MsgOrder)
      /\ \A m \in Range(Tail(fromSrc)) : <<Head(fromSrc), m>> \in MsgOrder
  BY <1>1, OrderedTail
<1>4. \A m \in Range(Tail(fromSrc)) :
         \/ Rank(MsgKind(Head(fromSrc))) < Rank(MsgKind(m))
         \/ /\ MsgKind(Head(fromSrc)) = MsgKind(m) /\ Head(fromSrc).type = "State"
            /\ Head(fromSrc) # m
  BY <1>3 DEF MsgOrder
<1>5. QED
  BY <1>2, <1>3, <1>4, RankType

(* The replies stay in order.                                              *)
LEMMA RepliesStep == OrderInv /\ [Next]_vars => RepliesInv'
<1> SUFFICES ASSUME OrderInv, [Next]_vars
             PROVE  RepliesInv'
  OBVIOUS
<1>0. TypeOK /\ RequestsInv /\ RepliesInv /\ CountsInv
  BY DEF OrderInv
<1>a. /\ fromSrc \in Seq(SrcMsgs) /\ exported \subseteq Chunks /\ acked \in [Kinds -> BOOLEAN]
      /\ getDone \subseteq Kinds
  BY <1>0 DEF TypeOK, SrcMsgs
<1>1. CASE receiveState
  <2>1. PICK h : h = Head(fromSrc)
    OBVIOUS
  <2>2. /\ fromSrc # <<>> /\ h.type = "State" /\ fromSrc' = Tail(fromSrc)
        /\ UNCHANGED <<exported, getDone, acked>>
    BY <1>1, <2>1 DEF receiveState, srcVars, getVars
  <2>3. /\ h \in SrcMsgs /\ Range(fromSrc) = {h} \cup Range(fromSrc')
        /\ Ordered(fromSrc', MsgOrder)
        /\ \A m \in Range(fromSrc') : Rank(MsgKind(h)) <= Rank(MsgKind(m))
    BY <2>1, <2>2, ReplyReceived
  <2>4. h.chunk \in Chunks /\ h = StateMsg(h.chunk) /\ MsgKind(h) = KindOf(h.chunk)
    BY <2>2, <2>3, MsgKindType DEF MsgKind
  <2>5. Arriving \subseteq Arriving' \cup {h.chunk}
    BY <2>3, StateMsgType DEF Arriving
  <2>6. \A c \in exported \ Arriving' : \A m \in Range(fromSrc') : Rank(KindOf(c)) <= Rank(MsgKind(m))
    BY <1>0, <2>3, <2>4, <2>5 DEF RepliesInv
  <2>7. \A k : Exported(k)' = Exported(k)
    BY <2>2 DEF Exported
  <2>8. QED
    BY <1>0, <2>2, <2>3, <2>6, <2>7 DEF RepliesInv
<1>2. CASE receiveGetAck
  <2>1. PICK h : h = Head(fromSrc)
    OBVIOUS
  <2>2. /\ fromSrc # <<>> /\ h.type = "GetAck" /\ fromSrc' = Tail(fromSrc)
        /\ acked' = [acked EXCEPT ![h.kind] = TRUE]
        /\ UNCHANGED <<exported, getDone>>
    BY <1>2, <2>1 DEF receiveGetAck, srcVars
  <2>3. /\ h \in SrcMsgs /\ Range(fromSrc) = {h} \cup Range(fromSrc') /\ h \in Range(fromSrc)
        /\ Ordered(fromSrc', MsgOrder)
        /\ \A m \in Range(fromSrc') : Rank(MsgKind(h)) < Rank(MsgKind(m))
    BY <2>1, <2>2, ReplyReceived
  <2>4. MsgKind(h) = h.kind /\ h.kind \in Kinds /\ h.kind \in getDone
    BY <1>0, <2>2, <2>3, MsgKindType DEF MsgKind, RepliesInv, GetAckMsgs
  <2>5. Arriving' = Arriving
    BY <2>2, <2>3, StateMsgType DEF Arriving
  <2>6. \A k \in Kinds : acked'[k] => /\ k \in getDone
                                      /\ \A m \in Range(fromSrc') : Rank(k) < Rank(MsgKind(m))
    BY <1>0, <1>a, <2>2, <2>3, <2>4 DEF RepliesInv
  <2>7. \A k : Exported(k)' = Exported(k)
    BY <2>2 DEF Exported
  <2>8. QED
    BY <1>0, <2>2, <2>3, <2>5, <2>6, <2>7 DEF RepliesInv
<1>3. ASSUME NEW c \in Chunks, send_state(c)
      PROVE  RepliesInv'
  <2>1. PICK h : h = StateMsg(c)
    OBVIOUS
  <2>2. /\ srcGet # "none" /\ c \in ChunksOf(srcGet) \ exported /\ exported' = exported \cup {c}
        /\ fromSrc' = Append(fromSrc, h) /\ UNCHANGED <<getDone, acked>>
    BY <1>3, <2>1 DEF send_state, StateMsg, getVars
  <2>3. h \in SrcMsgs /\ h.type = "State" /\ h.chunk = c /\ MsgKind(h) = KindOf(c)
    BY <2>1, StateMsgType
  <2>4. KindOf(c) = srcGet
    BY <2>2, KindInProgress, KindOfChunk
  <2>5. Range(fromSrc') = Range(fromSrc) \cup {h}
    BY <1>a, <2>2, <2>3, RangeAppend
  <2>6. h \notin Range(fromSrc)
    BY <1>0, <2>2, <2>3 DEF RepliesInv
  <2>7. \A m \in Range(fromSrc) : <<m, h>> \in MsgOrder
    <3> TAKE m \in Range(fromSrc)
    <3>1. m \in SrcMsgs /\ m # h /\ Rank(MsgKind(m)) <= Rank(srcGet) /\ (MsgKind(m) = srcGet => m.type = "State")
      BY <2>2, <2>6, KindInProgress
    <3>2. Rank(MsgKind(m)) < Rank(srcGet) \/ MsgKind(m) = srcGet
      BY <2>2, <3>1, KindInProgress, MsgKindType, RankOrder
    <3>3. QED
      BY <2>3, <2>4, <3>1, <3>2 DEF MsgOrder
  <2>8. Ordered(fromSrc', MsgOrder)
    BY <1>0, <1>a, <2>2, <2>3, <2>7, OrderedAppend DEF RepliesInv
  <2>9. \A m \in Range(fromSrc') : /\ m.type = "State" => m.chunk \in exported'
                                   /\ m.type = "GetAck" => m.kind \in getDone' /\ m.count = Exported(m.kind)'
    <3>1. \A k \in getDone : Exported(k)' = Exported(k)
      BY <1>3, ExportedKept
    <3>2. QED
      BY <1>0, <2>2, <2>3, <2>5, <3>1 DEF RepliesInv
  <2>10. \A d \in exported' \ Arriving' : d \in exported \ Arriving
    BY <2>1, <2>2, <2>5 DEF Arriving
  <2>11. \A d \in exported : Rank(KindOf(d)) <= Rank(srcGet)
    BY <1>0, <2>2 DEF RequestsInv, Begun
  <2>12. \A d \in exported' \ Arriving' : \A m \in Range(fromSrc') : Rank(KindOf(d)) <= Rank(MsgKind(m))
    BY <1>0, <2>3, <2>4, <2>5, <2>10, <2>11 DEF RepliesInv
  <2>13. \A k \in Kinds : acked'[k] => /\ k \in getDone'
                                       /\ \A m \in Range(fromSrc') : Rank(k) < Rank(MsgKind(m))
    BY <1>0, <2>2, <2>3, <2>4, <2>5, KindInProgress DEF RepliesInv
  <2>14. QED
    BY <2>8, <2>9, <2>12, <2>13 DEF RepliesInv
<1>4. CASE send_get_ack
  <2>1. PICK h : h = [type |-> "GetAck", kind |-> srcGet, count |-> Exported(srcGet)]
    OBVIOUS
  <2>2. /\ srcGet # "none" /\ getDone' = getDone \cup {srcGet}
        /\ fromSrc' = Append(fromSrc, h) /\ UNCHANGED <<exported, acked>>
    BY <1>4, <2>1 DEF send_get_ack, getVars, Exported
  <2>3. h \in SrcMsgs /\ h.type = "GetAck" /\ h.kind = srcGet /\ MsgKind(h) = srcGet /\ h.count = Exported(srcGet)
    BY <1>a, <2>1, <2>2, KindInProgress, CountType DEF SrcMsgs, GetAckMsgs, MsgKind, Exported
  <2>5. Range(fromSrc') = Range(fromSrc) \cup {h}
    BY <1>a, <2>2, <2>3, RangeAppend
  <2>7. \A m \in Range(fromSrc) : <<m, h>> \in MsgOrder
    <3> TAKE m \in Range(fromSrc)
    <3>1. m \in SrcMsgs /\ Rank(MsgKind(m)) <= Rank(srcGet) /\ (MsgKind(m) = srcGet => m.type = "State")
      BY <2>2, KindInProgress
    <3>2. Rank(MsgKind(m)) < Rank(srcGet) \/ MsgKind(m) = srcGet
      BY <2>2, <3>1, KindInProgress, MsgKindType, RankOrder
    <3>3. m.type = "State" => m # h
      BY <2>3
    <3>4. QED
      BY <2>3, <3>1, <3>2, <3>3 DEF MsgOrder
  <2>8. Ordered(fromSrc', MsgOrder)
    BY <1>0, <1>a, <2>2, <2>3, <2>7, OrderedAppend DEF RepliesInv
  <2>9. \A m \in Range(fromSrc') : /\ m.type = "State" => m.chunk \in exported'
                                   /\ m.type = "GetAck" => m.kind \in getDone' /\ m.count = Exported(m.kind)'
    <3>1. \A k : Exported(k)' = Exported(k)
      BY <2>2 DEF Exported
    <3>2. QED
      BY <1>0, <2>2, <2>3, <2>5, <3>1 DEF RepliesInv
  <2>10. Arriving' = Arriving
    BY <2>3, <2>5, StateMsgType DEF Arriving
  <2>11. \A d \in exported : Rank(KindOf(d)) <= Rank(srcGet)
    BY <1>0, <2>2 DEF RequestsInv, Begun
  <2>12. \A d \in exported' \ Arriving' : \A m \in Range(fromSrc') : Rank(KindOf(d)) <= Rank(MsgKind(m))
    BY <1>0, <2>2, <2>3, <2>5, <2>10, <2>11 DEF RepliesInv
  <2>13. \A k \in Kinds : acked'[k] => /\ k \in getDone'
                                       /\ \A m \in Range(fromSrc') : Rank(k) < Rank(MsgKind(m))
    BY <1>0, <2>2, <2>3, <2>5, KindInProgress DEF RepliesInv
  <2>14. QED
    BY <2>8, <2>9, <2>12, <2>13 DEF RepliesInv
<1>5. CASE UNCHANGED <<fromSrc, exported, getDone, acked>>
  <2>1. Arriving' = Arriving /\ \A k : Exported(k)' = Exported(k)
    BY <1>5 DEF Arriving, Exported
  <2>2. QED
    BY <1>0, <1>5, <2>1 DEF RepliesInv
<1>6. QED
  BY <1>0, <1>1, <1>2, <1>3, <1>4, <1>5, RepliesFrame

(* Nothing but these steps changes a count or what it is compared with.    *)
LEMMA CountsFrame ==
  ASSUME TypeOK, [Next]_vars
  PROVE  \/ receiveGetAck \/ setGetCount \/ receivePutAck \/ (\E t \in {"ss", "de"} : checkIfFinished(t))
         \/ (\E c \in Chunks : send_state(c))
         \/ UNCHANGED <<acked, count, ssMsg, exported, pc["ss"], pc["de"]>>
<1> USE DEF srcVars, getVars
<1>1. CASE execute
  BY <1>1 DEF execute, Goto, TypeOK, Threads
<1>2. CASE receiveState
  BY <1>2 DEF receiveState
<1>3. CASE send_get_ack
  BY <1>3 DEF send_get_ack
<1>4. ASSUME NEW c \in Pooled, callChunk(c)
      PROVE  UNCHANGED <<acked, count, ssMsg, exported, pc["ss"], pc["de"]>>
  BY <1>4 DEF callChunk
<1>5. CASE handle_get
  BY <1>5 DEF handle_get
<1>6. CASE get_fails
  BY <1>6 DEF get_fails
<1>7. CASE handle_put
  BY <1>7 DEF handle_put
<1>8. CASE put_fails
  BY <1>8 DEF put_fails
<1>9. CASE UNCHANGED vars
  BY <1>9 DEF vars
<1>10. QED
  BY <1>1, <1>2, <1>3, <1>4, <1>5, <1>6, <1>7, <1>8, <1>9 DEF Next, Controller, SrcNF, DstNF

(* The counts stay what the source has exported.                           *)
LEMMA CountsStep == OrderInv /\ [Next]_vars => CountsInv'
<1> SUFFICES ASSUME OrderInv, [Next]_vars
             PROVE  CountsInv'
  OBVIOUS
<1>0. TypeOK /\ RequestsInv /\ RepliesInv /\ CountsInv
  BY DEF OrderInv
<1>a. /\ acked \in [Kinds -> BOOLEAN] /\ count \in [Kinds -> Nat] /\ pc \in [Threads -> Labels]
      /\ ssMsg.kind \in Kinds
  BY <1>0 DEF TypeOK, GetAckMsgs
<1>1. CASE receiveGetAck
  <2>1. PICK h : h = Head(fromSrc)
    OBVIOUS
  <2>2. /\ fromSrc # <<>> /\ h.type = "GetAck" /\ ssMsg' = h /\ pc["ss"] = "idle"
        /\ acked' = [acked EXCEPT ![h.kind] = TRUE] /\ pc' = [pc EXCEPT !["ss"] = "count"]
        /\ UNCHANGED <<exported, count>>
    BY <1>1, <2>1 DEF receiveGetAck, srcVars, Goto
  <2>3. h \in SrcMsgs /\ h \in Range(fromSrc)
    BY <2>1, <2>2, ReplyReceived
  <2>4. MsgKind(h) = h.kind /\ h.kind \in Kinds /\ h.count = Exported(h.kind)
    BY <1>0, <2>2, <2>3, MsgKindType DEF MsgKind, RepliesInv, GetAckMsgs
  <2>5. \A k \in Kinds : acked[k] => Rank(k) < Rank(h.kind)
    BY <1>0, <2>3, <2>4 DEF RepliesInv
  <2>6. ~acked[h.kind]
    BY <2>4, <2>5, RankType
  <2>7. pc'["ss"] = "count" /\ pc'["de"] = pc["de"]
    BY <1>a, <2>2 DEF Threads
  <2>8. acked'[h.kind] /\ \A k \in Kinds : k # h.kind => acked'[k] = acked[k]
    BY <1>a, <2>2, <2>4
  <2>9. \A k \in Kinds : acked'[k] => Rank(k) <= Rank(h.kind)
    BY <2>4, <2>5, <2>8, RankType
  <2>10. \A k : Exported(k)' = Exported(k)
    BY <2>2 DEF Exported
  <2>11. \A k \in Kinds : count'[k] = IF acked'[k] /\ ~(pc'["ss"] = "count" /\ ssMsg'.kind = k)
                                      THEN Exported(k)' ELSE 0
    BY <1>0, <2>2, <2>4, <2>6, <2>7, <2>8, <2>10 DEF CountsInv
  <2>12. QED
    BY <1>0, <2>2, <2>4, <2>7, <2>8, <2>9, <2>10, <2>11 DEF CountsInv
<1>2. CASE setGetCount
  <2>1. /\ pc["ss"] = "count" /\ pc'["ss"] = "check" /\ pc'["de"] = pc["de"]
        /\ count' = [count EXCEPT ![ssMsg.kind] = ssMsg.count]
        /\ UNCHANGED <<exported, acked, ssMsg>>
    BY <1>2, <1>a DEF setGetCount, Goto, srcVars, Threads
  <2>2. \A k : Exported(k)' = Exported(k)
    BY <2>1 DEF Exported
  <2>3. QED
    BY <1>0, <1>a, <2>1, <2>2 DEF CountsInv
<1>3. CASE receivePutAck
  <2>1. /\ pc'["ss"] = pc["ss"] /\ pc'["de"] = "check"
        /\ UNCHANGED <<exported, acked, count, ssMsg>>
    BY <1>3, <1>a DEF receivePutAck, Goto, srcVars, getVars, Threads
  <2>2. \A k : Exported(k)' = Exported(k)
    BY <2>1 DEF Exported
  <2>3. QED
    BY <1>0, <2>1, <2>2 DEF CountsInv
<1>4. ASSUME NEW t \in {"ss", "de"}, checkIfFinished(t)
      PROVE  CountsInv'
  <2>1. /\ pc[t] = "check" /\ pc' = [pc EXCEPT ![t] = "idle"] /\ UNCHANGED <<exported, acked, count, ssMsg>>
    BY <1>4 DEF checkIfFinished, Goto, srcVars, getVars
  <2>2. \A k : Exported(k)' = Exported(k)
    BY <2>1 DEF Exported
  <2>3. CASE t = "ss"
    <3>1. pc["ss"] = "check" /\ pc'["ss"] = "idle" /\ pc'["de"] = pc["de"]
      BY <1>a, <2>1, <2>3 DEF Threads
    <3>2. QED
      BY <1>0, <2>1, <2>2, <3>1 DEF CountsInv
  <2>4. CASE t = "de"
    <3>1. pc'["de"] = "idle" /\ pc'["ss"] = pc["ss"]
      BY <1>a, <2>1, <2>4 DEF Threads
    <3>2. QED
      BY <1>0, <2>1, <2>2, <3>1 DEF CountsInv
  <2>5. QED
    BY <2>3, <2>4
<1>5. ASSUME NEW c \in Chunks, send_state(c)
      PROVE  CountsInv'
  <2>1. UNCHANGED <<acked, count, ssMsg, pc>>
    BY <1>5 DEF send_state, getVars
  <2>2. \A k \in Kinds : acked[k] => Exported(k)' = Exported(k)
    BY <1>0, <1>5, ExportedKept DEF RepliesInv
  <2>3. QED
    BY <1>0, <1>a, <2>1, <2>2 DEF CountsInv
<1>6. CASE UNCHANGED <<acked, count, ssMsg, exported, pc["ss"], pc["de"]>>
  <2>1. \A k : Exported(k)' = Exported(k)
    BY <1>6 DEF Exported
  <2>2. QED
    BY <1>0, <1>6, <2>1 DEF CountsInv
<1>7. QED
  BY <1>0, <1>1, <1>2, <1>3, <1>4, <1>5, <1>6, CountsFrame

(* Every step keeps the order.                                             *)
LEMMA OrderStep == OrderInv /\ [Next]_vars => OrderInv'
BY TypeStep, RequestsStep, RepliesStep, CountsStep DEF OrderInv

-----------------------------------------------------------------------------
(* Which chunk each put and each put ack is for. *)

(* The message a task sends is of a chunk of the same StateChunk that did  *)
(* not come before its own.                                                *)
StandsFor(d, c) == (d = c \/ SameObject(c, d)) /\ Rank(KindOf(c)) <= Rank(KindOf(d))

PoolInv ==
  /\ putTasks \subseteq exported \ Arriving
  /\ \A c \in putTasks : stored[c] \in exported /\ StandsFor(stored[c], c)

(* The puts on their way are for the chunks D, the acks on their way for   *)
(* the chunks A and the acks counted for the chunks N; a is what was sent  *)
(* for each.                                                               *)
Ledger(a, D, A, N) ==
  /\ a \in [Chunks -> Chunks] /\ D \in Seq(Chunks) /\ A \in Seq(Chunks)
  /\ Carries(toDst, D, a) /\ Carries(dstAcks, A, a)
  /\ Distinct(D, Chunks) /\ Distinct(A, Chunks)
  /\ Range(D) \cap Range(A) = {} /\ Range(D) \cap N = {} /\ Range(A) \cap N = {}
  /\ \A c \in Range(D) \cup Range(A) \cup N :
       c \in exported \ (Arriving \cup putTasks) /\ a[c] \in exported /\ StandsFor(a[c], c)
  /\ \A c \in Range(A) \cup N : a[c] \in imported
  /\ \A k \in Kinds : putAcks[k] = Cardinality({c \in N : KindOf(a[c]) = k})

LedgerInv ==
  /\ \E a, D, A, N : Ledger(a, D, A, N)
  /\ pc["de"] = "check" => \E k \in Kinds : putAcks[k] > 0

FlowInv == OrderInv /\ PoolInv /\ LedgerInv

(* The scope and the hash keys are given.                                  *)
LEMMA ConfKept ==
  ASSUME [Next]_vars
  PROVE  /\ UNCHANGED conf
         /\ UNCHANGED <<ScopeKinds, LastKind, SingleKind, OwnObject>>
         /\ \A c, d : /\ SameObject(c, d)' <=> SameObject(c, d)
                      /\ StandsFor(c, d)' <=> StandsFor(c, d)
<1>1. UNCHANGED conf
  BY DEF Next, Controller, SrcNF, DstNF, vars, execute, receiveState, receiveGetAck, setGetCount,
         receivePutAck, checkIfFinished, callChunk, handle_get, send_state, send_get_ack, get_fails,
         handle_put, put_fails
<1>2. UNCHANGED <<scope, hash>>
  BY <1>1 DEF conf
<1>3. UNCHANGED <<ScopeKinds, LastKind>>
  BY <1>2 DEF ScopeKinds, LastKind
<1>4. \A c, d : SameObject(c, d)' <=> SameObject(c, d)
  BY <1>2 DEF SameObject
<1>5. UNCHANGED <<SingleKind, OwnObject>>
  BY <1>3, <1>4 DEF SingleKind, OwnObject
<1>6. QED
  BY <1>1, <1>3, <1>4, <1>5 DEF StandsFor

(* A chunk stands for itself.                                              *)
LEMMA StandsForItself == \A c : StandsFor(c, c)
BY RankType DEF StandsFor

(* Received chunks are not on their way, and the others still are.         *)
LEMMA ArrivingReceived ==
  ASSUME OrderInv, fromSrc # <<>>, Head(fromSrc).type = "State", fromSrc' = Tail(fromSrc)
  PROVE  /\ Head(fromSrc).chunk \in exported
         /\ Head(fromSrc).chunk \in Arriving
         /\ Arriving' = Arriving \ {Head(fromSrc).chunk}
<1>1. PICK h : h = Head(fromSrc)
  OBVIOUS
<1>2. /\ h \in SrcMsgs /\ h \in Range(fromSrc) /\ Range(fromSrc) = {h} \cup Range(fromSrc')
      /\ h \notin Range(fromSrc')
  BY <1>1, ReplyReceived
<1>3. h.chunk \in Chunks /\ h = StateMsg(h.chunk) /\ h.chunk \in exported
  BY <1>1, <1>2, MsgKindType DEF OrderInv, RepliesInv
<1>4. \A c \in Chunks : StateMsg(c) = h <=> c = h.chunk
  BY <1>3, StateMsgType
<1>5. QED
  BY <1>1, <1>2, <1>3, <1>4 DEF Arriving

(* A chunk that is sent is on its way.                                     *)
LEMMA ArrivingSent ==
  ASSUME OrderInv, NEW c \in Chunks, send_state(c)
  PROVE  Arriving' = Arriving \cup {c} /\ c \notin exported /\ exported' = exported \cup {c}
<1>1. /\ c \notin exported /\ exported' = exported \cup {c}
      /\ fromSrc' = Append(fromSrc, StateMsg(c)) /\ fromSrc \in Seq(SrcMsgs)
  BY DEF send_state, StateMsg, OrderInv, TypeOK, SrcMsgs
<1>2. Range(fromSrc') = Range(fromSrc) \cup {StateMsg(c)}
  BY <1>1, StateMsgType, RangeAppend
<1>3. QED
  BY <1>1, <1>2, StateMsgType DEF Arriving

(* Only the messages of the source change what is on its way.              *)
LEMMA ArrivingKept ==
  ASSUME OrderInv, UNCHANGED fromSrc \/ receiveGetAck \/ send_get_ack
  PROVE  Arriving' = Arriving
<1>1. CASE UNCHANGED fromSrc
  BY <1>1 DEF Arriving
<1>2. CASE receiveGetAck
  <2>1. PICK h : h = Head(fromSrc)
    OBVIOUS
  <2>2. Range(fromSrc) = {h} \cup Range(fromSrc') /\ h.type = "GetAck"
    BY <1>2, <2>1, ReplyReceived DEF receiveGetAck
  <2>3. QED
    BY <2>2, StateMsgType DEF Arriving
<1>3. CASE send_get_ack
  <2>1. PICK h : h = [type |-> "GetAck", kind |-> srcGet, count |-> Exported(srcGet)]
    OBVIOUS
  <2>2. fromSrc' = Append(fromSrc, h) /\ fromSrc \in Seq(SrcMsgs) /\ h.type = "GetAck" /\ srcGet \in Kinds
    BY <1>3, <2>1 DEF send_get_ack, OrderInv, TypeOK, SrcMsgs, Exported
  <2>3. h \in SrcMsgs
    BY <2>1, <2>2, CountType DEF SrcMsgs, GetAckMsgs, Exported, OrderInv, TypeOK
  <2>4. Range(fromSrc') = Range(fromSrc) \cup {h}
    BY <2>2, <2>3, RangeAppend
  <2>5. QED
    BY <2>2, <2>4, StateMsgType DEF Arriving
<1>4. QED
  BY <1>1, <1>2, <1>3

(* At first nothing is on its way.                                         *)
LEMMA FlowInit == Init => FlowInv
<1> SUFFICES ASSUME Init
             PROVE  FlowInv
  OBVIOUS
<1>1. OrderInv /\ PoolInv
  BY OrderInit DEF Init, PoolInv
<1>2. PICK a : a = [c \in Chunks |-> c]
  OBVIOUS
<1>3. Range(<<>>) = {} /\ Distinct(<<>>, Chunks) /\ <<>> \in Seq(Chunks)
  BY EmptyQueue, EmptySeq
<1>4. Carries(toDst, <<>>, a) /\ Carries(dstAcks, <<>>, a)
  BY DEF Init, Carries
<1>5. \A k \in Kinds : putAcks[k] = Cardinality({c \in {} : KindOf(a[c]) = k})
  <2>1. \A k \in Kinds : putAcks[k] = 0
    BY DEF Init
  <2>2. \A k : {c \in {} : KindOf(a[c]) = k} = {}
    OBVIOUS
  <2>3. QED
    BY <2>1, <2>2, FS_EmptySet, Zenon
<1>6. Ledger(a, <<>>, <<>>, {})
  BY <1>2, <1>3, <1>4, <1>5 DEF Ledger
<1>7. pc["de"] # "check"
  BY DEF Init, Threads
<1>8. QED
  BY <1>1, <1>6, <1>7 DEF FlowInv, LedgerInv

(* The tasks of the pool stay right.                                       *)
LEMMA PoolStep == FlowInv /\ [Next]_vars => PoolInv'
<1> SUFFICES ASSUME FlowInv, [Next]_vars
             PROVE  PoolInv'
  OBVIOUS
<1>0. OrderInv /\ PoolInv /\ TypeOK /\ RepliesInv
  BY DEF FlowInv, OrderInv
<1>1. \A c, d : StandsFor(c, d)' <=> StandsFor(c, d)
  BY ConfKept
<1>2. CASE receiveState
  <2>1. PICK c : c = Head(fromSrc).chunk
    OBVIOUS
  <2>2. /\ fromSrc # <<>> /\ Head(fromSrc).type = "State" /\ fromSrc' = Tail(fromSrc)
        /\ stored' = [d \in Pooled |-> IF SameObject(c, d) THEN c ELSE stored[d]]
        /\ putTasks' = putTasks \cup ({c} \cap Pooled)
        /\ UNCHANGED exported
    BY <1>2, <2>1 DEF receiveState, srcVars
  <2>3. c \in exported /\ c \in Arriving /\ Arriving' = Arriving \ {c}
    BY <1>0, <2>1, <2>2, ArrivingReceived
  <2>4. putTasks' \subseteq exported' \ Arriving'
    BY <1>0, <2>2, <2>3 DEF PoolInv
  <2>5. ASSUME NEW d \in putTasks'
        PROVE  stored'[d] \in exported' /\ StandsFor(stored'[d], d)
    <3>1. d \in Pooled
      BY <1>0, <2>2 DEF TypeOK
    <3>2. CASE d = c
      <4>1. stored'[d] = c
        BY <2>2, <3>1, <3>2 DEF SameObject
      <4>2. QED
        BY <2>2, <2>3, <3>2, <4>1, StandsForItself
    <3>3. CASE d # c /\ SameObject(c, d)
      <4>1. stored'[d] = c /\ d \in putTasks
        BY <2>2, <3>1, <3>3
      <4>2. d \in exported \ Arriving
        BY <1>0, <4>1 DEF PoolInv
      <4>3. Head(fromSrc) \in Range(fromSrc) /\ MsgKind(Head(fromSrc)) = KindOf(c)
        BY <1>0, <2>1, <2>2, ReplyReceived DEF MsgKind
      <4>4. Rank(KindOf(d)) <= Rank(KindOf(c))
        BY <1>0, <4>2, <4>3 DEF RepliesInv
      <4>5. SameObject(d, c)
        BY <3>3 DEF SameObject
      <4>6. QED
        BY <2>2, <2>3, <4>1, <4>4, <4>5 DEF StandsFor
    <3>4. CASE d # c /\ ~SameObject(c, d)
      <4>1. stored'[d] = stored[d] /\ d \in putTasks
        BY <2>2, <3>1, <3>4
      <4>2. QED
        BY <1>0, <2>2, <4>1 DEF PoolInv
    <3>5. QED
      BY <3>2, <3>3, <3>4
  <2>6. QED
    BY <1>1, <2>4, <2>5 DEF PoolInv
<1>3. ASSUME NEW c \in Chunks, send_state(c)
      PROVE  PoolInv'
  <2>1. Arriving' = Arriving \cup {c} /\ c \notin exported /\ exported' = exported \cup {c}
        /\ UNCHANGED <<putTasks, stored>>
    BY <1>0, <1>3, ArrivingSent DEF send_state, poolVars
  <2>2. QED
    BY <1>0, <1>1, <2>1 DEF PoolInv
<1>4. ASSUME NEW c \in Pooled, callChunk(c)
      PROVE  PoolInv'
  <2>1. UNCHANGED <<fromSrc, exported, stored>> /\ putTasks' \subseteq putTasks
    BY <1>4 DEF callChunk, srcVars
  <2>2. QED
    BY <1>0, <1>1, <2>1, ArrivingKept DEF PoolInv
<1>5. ASSUME UNCHANGED fromSrc \/ receiveGetAck \/ send_get_ack, UNCHANGED <<exported, stored, putTasks>>
      PROVE  PoolInv'
  BY <1>0, <1>1, <1>5, ArrivingKept DEF PoolInv
<1>6. ASSUME NEW t \in {"ss", "de"}, checkIfFinished(t)
      PROVE  PoolInv'
  BY <1>5, <1>6 DEF checkIfFinished, srcVars, poolVars
<1>7. CASE receiveGetAck \/ send_get_ack
  BY <1>5, <1>7 DEF receiveGetAck, send_get_ack, srcVars, poolVars
<1>8. CASE execute \/ setGetCount \/ receivePutAck
  BY <1>5, <1>8 DEF execute, setGetCount, receivePutAck, srcVars, poolVars
<1>9. CASE handle_get \/ get_fails \/ handle_put \/ put_fails
  BY <1>5, <1>9 DEF handle_get, get_fails, handle_put, put_fails, srcVars, poolVars
<1>10. CASE UNCHANGED vars
  BY <1>5, <1>10 DEF vars, srcVars, poolVars
<1>11. QED
  BY <1>2, <1>3, <1>4, <1>6, <1>7, <1>8, <1>9, <1>10 DEF Next, Controller, SrcNF, DstNF

(* A step that sends, receives and counts nothing keeps the ledger.        *)
LEMMA LedgerSame ==
  ASSUME [Next]_vars, NEW a, NEW D, NEW A, NEW N, Ledger(a, D, A, N),
         UNCHANGED <<toDst, dstAcks, putAcks>>, exported \subseteq exported', UNCHANGED imported,
         exported \ (Arriving \cup putTasks) \subseteq exported' \ (Arriving' \cup putTasks')
  PROVE  Ledger(a, D, A, N)'
<1>1. \A c, d : StandsFor(c, d)' <=> StandsFor(c, d)
  BY ConfKept
<1>2. \A c \in Range(D) \cup Range(A) \cup N :
        c \in exported' \ (Arriving' \cup putTasks') /\ a[c] \in exported' /\ StandsFor(a[c], c)'
  BY <1>1 DEF Ledger
<1>3. QED
  BY <1>2 DEF Ledger

(* A put is sent for a chunk for which none was sent.                      *)
LEMMA LedgerPut ==
  ASSUME [Next]_vars, NEW a, NEW D, NEW A, NEW N, Ledger(a, D, A, N), TypeOK,
         NEW c \in exported' \ (Arriving' \cup putTasks'), NEW d \in exported',
         c \notin exported \ (Arriving \cup putTasks), StandsFor(d, c), c \in Chunks, d \in Chunks,
         toDst' = Append(toDst, d), UNCHANGED <<dstAcks, putAcks, imported, exported>>,
         exported \ (Arriving \cup putTasks) \subseteq exported' \ (Arriving' \cup putTasks')
  PROVE  Ledger([a EXCEPT ![c] = d], Append(D, c), A, N)'
<1>1. PICK b : b = [a EXCEPT ![c] = d]
  OBVIOUS
<1>2. PICK E : E = Append(D, c)
  OBVIOUS
<1>3. a \in [Chunks -> Chunks] /\ D \in Seq(Chunks) /\ A \in Seq(Chunks)
      /\ Carries(toDst, D, a) /\ Carries(dstAcks, A, a)
      /\ Distinct(D, Chunks) /\ Distinct(A, Chunks)
      /\ Range(D) \cap Range(A) = {} /\ Range(D) \cap N = {} /\ Range(A) \cap N = {}
  BY DEF Ledger
<1>4. c \notin Range(D) \cup Range(A) \cup N
  BY DEF Ledger
<1>5. b \in [Chunks -> Chunks] /\ b[c] = d /\ \A e \in Range(D) \cup Range(A) \cup N : b[e] = a[e]
  BY <1>1, <1>3, <1>4
<1>6. E \in Seq(Chunks) /\ Range(E) = Range(D) \cup {c}
  BY <1>2, <1>3, RangeAppend
<1>7. Distinct(E, Chunks)
  BY <1>2, <1>3, <1>4, DistinctAppend
<1>8. Carries(toDst', E, b)
  <2>1. toDst \in Seq(Chunks) /\ \A e \in Range(D) : b[e] = a[e]
    BY <1>5 DEF TypeOK
  <2>2. Carries(Append(toDst, d), Append(D, c), b)
    BY <1>3, <1>5, <2>1, CarriesAppend, SMTT(30)
  <2>3. QED
    BY <1>2, <2>2
<1>9. Carries(dstAcks', A, b)
  <2>1. \A e \in Range(A) : b[e] = a[e]
    BY <1>5
  <2>2. Carries(dstAcks, A, b)
    BY <1>3, <2>1, CarriesSame
  <2>3. QED
    BY <2>2
<1>10. \A e \in Range(E) \cup Range(A) \cup N :
         e \in exported' \ (Arriving' \cup putTasks') /\ b[e] \in exported' /\ StandsFor(b[e], e)'
  <2>1. \A e \in Range(D) \cup Range(A) \cup N :
         e \in exported' \ (Arriving' \cup putTasks') /\ b[e] \in exported' /\ StandsFor(b[e], e)'
    BY <1>5, ConfKept DEF Ledger
  <2>2. b[c] \in exported' /\ StandsFor(b[c], c)'
    BY <1>5, ConfKept
  <2>3. QED
    BY <1>6, <2>1, <2>2
<1>11. \A e \in Range(A) \cup N : b[e] \in imported'
  BY <1>5 DEF Ledger
<1>12. \A k \in Kinds : putAcks'[k] = Cardinality({e \in N : KindOf(b[e]) = k})
  <2>1. \A k : {e \in N : KindOf(b[e]) = k} = {e \in N : KindOf(a[e]) = k}
    BY <1>5
  <2>2. \A k \in Kinds : putAcks'[k] = Cardinality({e \in N : KindOf(a[e]) = k})
    BY DEF Ledger
  <2>3. QED
    BY <2>1, <2>2
<1>13. Ledger(b, E, A, N)'
  BY <1>3, <1>4, <1>5, <1>6, <1>7, <1>8, <1>9, <1>10, <1>11, <1>12 DEF Ledger
<1>14. QED
  BY <1>1, <1>2, <1>13

(* A put arrives, or is refused, for the chunk it was sent for.            *)
LEMMA LedgerArrives ==
  ASSUME FlowInv, NEW a, NEW D, NEW A, NEW N, Ledger(a, D, A, N), handle_put \/ put_fails
  PROVE  \/ handle_put /\ Ledger(a, Tail(D), Append(A, Head(D)), N)'
         \/ put_fails /\ Ledger(a, Tail(D), A, N)'
<1>0. [Next]_vars /\ TypeOK /\ OrderInv
  BY DEF Next, DstNF, FlowInv, OrderInv
<1>1. a \in [Chunks -> Chunks] /\ D \in Seq(Chunks) /\ A \in Seq(Chunks)
      /\ Carries(toDst, D, a) /\ Carries(dstAcks, A, a)
      /\ Distinct(D, Chunks) /\ Distinct(A, Chunks)
      /\ Range(D) \cap Range(A) = {} /\ Range(D) \cap N = {} /\ Range(A) \cap N = {}
  BY DEF Ledger
<1>2. /\ toDst # <<>> /\ toDst' = Tail(toDst) /\ toDst \in Seq(Chunks) /\ dstAcks \in Seq(Chunks)
      /\ UNCHANGED <<exported, putTasks, putAcks, fromSrc>>
  BY <1>0 DEF handle_put, put_fails, srcVars, putVars, poolVars, TypeOK
<1>3. D # <<>> /\ Head(toDst) = a[Head(D)] /\ Carries(toDst', Tail(D), a)
  BY <1>1, <1>2, CarriesTail
<1>4. PICK c : c = Head(D)
  OBVIOUS
<1>5. PICK E : E = Tail(D)
  OBVIOUS
<1>6. E \in Seq(Chunks) /\ c \in Chunks /\ Range(D) = {c} \cup Range(E)
  BY <1>1, <1>3, <1>4, <1>5, RangeTail
<1>7. Distinct(E, Chunks) /\ c \notin Range(E)
  BY <1>1, <1>3, <1>4, <1>5, <1>6, DistinctTail
<1>8. Arriving' = Arriving
  BY <1>0, <1>2, ArrivingKept
<1>9. \A e \in Range(D) \cup Range(A) \cup N :
        e \in exported' \ (Arriving' \cup putTasks') /\ a[e] \in exported' /\ StandsFor(a[e], e)'
  BY <1>0, <1>2, <1>8, ConfKept DEF Ledger
<1>10. CASE handle_put
  <2>1. imported' = imported \cup {a[c]} /\ dstAcks' = Append(dstAcks, a[c])
    BY <1>3, <1>4, <1>10 DEF handle_put
  <2>2. PICK B : B = Append(A, c)
    OBVIOUS
  <2>3. B \in Seq(Chunks) /\ Range(B) = Range(A) \cup {c}
    BY <1>1, <1>6, <2>2, RangeAppend
  <2>4. Distinct(B, Chunks)
    BY <1>1, <1>6, <2>2, DistinctAppend
  <2>5. Carries(dstAcks', B, a)
    <3>1. a[c] \in Chunks /\ \A e \in Range(A) : a[e] = a[e]
      BY <1>1, <1>6
    <3>2. Carries(Append(dstAcks, a[c]), Append(A, c), a)
      BY <1>1, <1>2, <1>6, <3>1, CarriesAppend
    <3>3. QED
      BY <2>1, <2>2, <3>2
  <2>6. \A e \in Range(B) \cup N : a[e] \in imported'
    BY <2>1, <2>3 DEF Ledger
  <2>7. \A k \in Kinds : putAcks'[k] = Cardinality({e \in N : KindOf(a[e]) = k})
    BY <1>2 DEF Ledger
  <2>8. Range(E) \cap Range(B) = {} /\ Range(B) \cap N = {} /\ Range(E) \cap N = {}
        /\ \A e \in Range(E) \cup Range(B) \cup N : e \in Range(D) \cup Range(A) \cup N
    BY <1>1, <1>6, <1>7, <2>3
  <2>9. Ledger(a, E, B, N)'
    BY <1>1, <1>3, <1>5, <1>6, <1>7, <1>9, <2>3, <2>4, <2>5, <2>6, <2>7, <2>8 DEF Ledger
  <2>10. QED
    BY <1>4, <1>5, <1>10, <2>2, <2>9
<1>11. CASE put_fails
  <2>1. UNCHANGED <<imported, dstAcks>>
    BY <1>11 DEF put_fails
  <2>2. \A k \in Kinds : putAcks'[k] = Cardinality({e \in N : KindOf(a[e]) = k})
    BY <1>2 DEF Ledger
  <2>3. \A e \in Range(A) \cup N : a[e] \in imported'
    BY <2>1 DEF Ledger
  <2>4. Ledger(a, E, A, N)'
    BY <1>1, <1>3, <1>5, <1>6, <1>7, <1>9, <2>1, <2>2, <2>3 DEF Ledger
  <2>5. QED
    BY <1>5, <1>11, <2>4
<1>12. QED
  BY <1>10, <1>11

(* A put ack is counted for the chunk it was sent for, and none twice.     *)
LEMMA LedgerCounted ==
  ASSUME FlowInv, NEW a, NEW D, NEW A, NEW N, Ledger(a, D, A, N), receivePutAck
  PROVE  Ledger(a, D, Tail(A), N \cup {Head(A)})'
<1>0. [Next]_vars /\ TypeOK /\ OrderInv
  BY DEF Next, Controller, FlowInv, OrderInv
<1>1. a \in [Chunks -> Chunks] /\ D \in Seq(Chunks) /\ A \in Seq(Chunks)
      /\ Carries(toDst, D, a) /\ Carries(dstAcks, A, a)
      /\ Distinct(D, Chunks) /\ Distinct(A, Chunks)
      /\ Range(D) \cap Range(A) = {} /\ Range(D) \cap N = {} /\ Range(A) \cap N = {}
  BY DEF Ledger
<1>2. /\ dstAcks # <<>> /\ dstAcks' = Tail(dstAcks) /\ dstAcks \in Seq(Chunks)
      /\ putAcks' = [putAcks EXCEPT ![KindOf(Head(dstAcks))] = @ + 1]
      /\ UNCHANGED <<exported, putTasks, fromSrc, imported, toDst>>
  BY <1>0 DEF receivePutAck, srcVars, poolVars, TypeOK
<1>3. A # <<>> /\ Head(dstAcks) = a[Head(A)] /\ Carries(dstAcks', Tail(A), a)
  BY <1>1, <1>2, CarriesTail
<1>4. PICK c : c = Head(A)
  OBVIOUS
<1>5. PICK B : B = Tail(A)
  OBVIOUS
<1>6. B \in Seq(Chunks) /\ c \in Chunks /\ Range(A) = {c} \cup Range(B)
  BY <1>1, <1>3, <1>4, <1>5, RangeTail
<1>7. Distinct(B, Chunks) /\ c \notin Range(B)
  BY <1>1, <1>3, <1>4, <1>5, <1>6, DistinctTail
<1>8. Arriving' = Arriving
  BY <1>0, <1>2, ArrivingKept
<1>9. \A e \in Range(D) \cup Range(A) \cup N :
        e \in exported' \ (Arriving' \cup putTasks') /\ a[e] \in exported' /\ StandsFor(a[e], e)'
  BY <1>0, <1>2, <1>8, ConfKept DEF Ledger
<1>10. PICK M : M = N \cup {c}
  OBVIOUS
<1>11. KindOf(a[c]) \in Kinds
  BY <1>1, <1>6, KindOfChunk
<1>12. ASSUME NEW k \in Kinds
       PROVE  putAcks'[k] = Cardinality({e \in M : KindOf(a[e]) = k})
  <2>1. putAcks[k] = Cardinality({e \in N : KindOf(a[e]) = k}) /\ putAcks \in [Kinds -> Nat]
    BY <1>0 DEF Ledger, TypeOK
  <2>2. CASE KindOf(a[c]) # k
    <3>1. {e \in M : KindOf(a[e]) = k} = {e \in N : KindOf(a[e]) = k}
      BY <1>10, <2>2
    <3>2. putAcks'[k] = putAcks[k]
      BY <1>2, <1>3, <1>4, <2>1, <2>2
    <3>3. QED
      BY <2>1, <3>1, <3>2
  <2>3. CASE KindOf(a[c]) = k
    <3>1. {e \in M : KindOf(a[e]) = k} = {e \in N : KindOf(a[e]) = k} \cup {c}
      BY <1>10, <2>3
    <3>2. putAcks'[k] = putAcks[k] + 1
      BY <1>2, <1>3, <1>4, <2>1, <2>3
    <3>3. c \notin {e \in N : KindOf(a[e]) = k}
      BY <1>1, <1>6
    <3>4. IsFiniteSet({e \in N : KindOf(a[e]) = k})
      <4>1. {e \in N : KindOf(a[e]) = k} \subseteq Chunks
        BY <1>0 DEF Ledger, TypeOK
      <4>2. IsFiniteSet(Chunks)
        BY CopyChunksAssumption, FS_Union DEF Chunks
      <4>3. QED
        BY <4>1, <4>2, FS_Subset
    <3>5. Cardinality({e \in N : KindOf(a[e]) = k} \cup {c}) = Cardinality({e \in N : KindOf(a[e]) = k}) + 1
      BY <3>3, <3>4, FS_AddElement
    <3>6. QED
      BY <2>1, <3>1, <3>2, <3>5
  <2>4. QED
    BY <2>2, <2>3
<1>13. \A e \in Range(B) \cup M : a[e] \in imported'
  BY <1>2, <1>6, <1>10 DEF Ledger
<1>14. Range(D) \cap Range(B) = {} /\ Range(D) \cap M = {} /\ Range(B) \cap M = {}
       /\ \A e \in Range(D) \cup Range(B) \cup M : e \in Range(D) \cup Range(A) \cup N
  BY <1>1, <1>6, <1>7, <1>10
<1>15. Ledger(a, D, B, M)'
  BY <1>1, <1>2, <1>3, <1>5, <1>6, <1>7, <1>9, <1>12, <1>13, <1>14 DEF Ledger
<1>16. QED
  BY <1>4, <1>5, <1>10, <1>15

(* Every step keeps a ledger.                                              *)
LEMMA LedgerStep == FlowInv /\ [Next]_vars => LedgerInv'
<1> SUFFICES ASSUME FlowInv, [Next]_vars
             PROVE  LedgerInv'
  OBVIOUS
<1>0. OrderInv /\ PoolInv /\ LedgerInv /\ TypeOK
  BY DEF FlowInv, OrderInv
<1>1. PICK a, D, A, N : Ledger(a, D, A, N)
  BY <1>0 DEF LedgerInv
<1>a. pc \in [Threads -> Labels] /\ putAcks \in [Kinds -> Nat] /\ exported \subseteq Chunks
  BY <1>0 DEF TypeOK
<1>2. ASSUME UNCHANGED <<toDst, dstAcks, putAcks, imported, exported, putTasks>>,
             UNCHANGED fromSrc \/ receiveGetAck \/ send_get_ack
      PROVE  Ledger(a, D, A, N)'
  <2>1. Arriving' = Arriving
    BY <1>0, <1>2, ArrivingKept
  <2>2. exported \ (Arriving \cup putTasks) \subseteq exported' \ (Arriving' \cup putTasks')
    BY <1>2, <2>1
  <2>3. QED
    BY <1>1, <1>2, <2>2, LedgerSame
<1>3. ASSUME UNCHANGED putAcks, pc'["de"] # "check" \/ pc'["de"] = pc["de"]
      PROVE  pc'["de"] = "check" => \E k \in Kinds : putAcks'[k] > 0
  BY <1>0, <1>3 DEF LedgerInv
<1>4. CASE receiveState
  <2>1. PICK c : c = Head(fromSrc).chunk
    OBVIOUS
  <2>2. /\ fromSrc # <<>> /\ Head(fromSrc).type = "State" /\ fromSrc' = Tail(fromSrc)
        /\ putTasks' = putTasks \cup ({c} \cap Pooled)
        /\ toDst' = IF c \in Config THEN Append(toDst, c) ELSE toDst
        /\ UNCHANGED <<exported, imported, putAcks, dstAcks, pc>>
    BY <1>4, <2>1 DEF receiveState, srcVars, putVars
  <2>3. c \in exported /\ c \in Arriving /\ Arriving' = Arriving \ {c} /\ c \in Chunks
    BY <1>0, <1>a, <2>1, <2>2, ArrivingReceived
  <2>4. exported \ (Arriving \cup putTasks) \subseteq exported' \ (Arriving' \cup putTasks')
    BY <2>2, <2>3
  <2>5. pc'["de"] = "check" => \E k \in Kinds : putAcks'[k] > 0
    BY <1>3, <2>2
  <2>6. CASE c \in Config
    <3>1. c \notin Pooled
      BY <2>6, CopyChunksAssumption DEF Pooled
    <3>2. c \notin putTasks
      BY <1>0, <2>3 DEF PoolInv
    <3>3. c \in exported' \ (Arriving' \cup putTasks') /\ c \notin exported \ (Arriving \cup putTasks)
      BY <2>2, <2>3, <3>1, <3>2
    <3>4. StandsFor(c, c) /\ c \in exported' /\ toDst' = Append(toDst, c)
      BY <2>2, <2>3, <2>6, StandsForItself
    <3>5. Ledger([a EXCEPT ![c] = c], Append(D, c), A, N)'
      BY <1>0, <1>1, <2>2, <2>3, <2>4, <3>3, <3>4, LedgerPut
    <3>6. QED
      BY <2>5, <3>5 DEF LedgerInv
  <2>7. CASE c \notin Config
    <3>1. Ledger(a, D, A, N)'
      BY <1>1, <2>2, <2>4, <2>7, LedgerSame
    <3>2. QED
      BY <2>5, <3>1 DEF LedgerInv
  <2>8. QED
    BY <2>6, <2>7
<1>5. ASSUME NEW c \in Pooled, callChunk(c)
      PROVE  LedgerInv'
  <2>1. PICK d : d = stored[c]
    OBVIOUS
  <2>2. /\ c \in putTasks /\ putTasks' = putTasks \ {c} /\ toDst' = Append(toDst, d)
        /\ UNCHANGED <<fromSrc, exported, imported, putAcks, dstAcks, pc>>
    BY <1>5, <2>1 DEF callChunk, srcVars, putVars
  <2>3. Arriving' = Arriving
    BY <1>0, <2>2, ArrivingKept
  <2>4. c \in exported \ Arriving /\ d \in exported /\ StandsFor(d, c)
    BY <1>0, <2>1, <2>2 DEF PoolInv
  <2>5. /\ exported \ (Arriving \cup putTasks) \subseteq exported' \ (Arriving' \cup putTasks')
        /\ c \in exported' \ (Arriving' \cup putTasks') /\ c \notin exported \ (Arriving \cup putTasks)
        /\ c \in Chunks /\ d \in Chunks /\ d \in exported'
    BY <1>a, <2>2, <2>3, <2>4
  <2>6. Ledger([a EXCEPT ![c] = d], Append(D, c), A, N)'
    BY <1>0, <1>1, <2>2, <2>4, <2>5, LedgerPut
  <2>7. pc'["de"] = "check" => \E k \in Kinds : putAcks'[k] > 0
    BY <1>3, <2>2
  <2>8. QED
    BY <2>6, <2>7 DEF LedgerInv
<1>6. CASE handle_put \/ put_fails
  <2>1. UNCHANGED <<putAcks, pc>>
    BY <1>6 DEF handle_put, put_fails, putVars
  <2>2. pc'["de"] = "check" => \E k \in Kinds : putAcks'[k] > 0
    BY <1>3, <2>1
  <2>3. QED
    BY <1>1, <1>6, <2>2, LedgerArrives DEF LedgerInv
<1>7. CASE receivePutAck
  <2>1. Ledger(a, D, Tail(A), N \cup {Head(A)})'
    BY <1>1, <1>7, LedgerCounted
  <2>2. KindOf(Head(dstAcks)) \in Kinds
    BY <1>0, <1>7, KindOfChunk, HeadTailProperties DEF receivePutAck, TypeOK
  <2>3. putAcks'[KindOf(Head(dstAcks))] > 0
    BY <1>7, <1>a, <2>2 DEF receivePutAck
  <2>4. QED
    BY <2>1, <2>2, <2>3 DEF LedgerInv
<1>8. ASSUME NEW c \in Chunks, send_state(c)
      PROVE  LedgerInv'
  <2>1. UNCHANGED <<toDst, dstAcks, putAcks, imported, putTasks, pc>>
    BY <1>8 DEF send_state, putVars, poolVars
  <2>2. Arriving' = Arriving \cup {c} /\ c \notin exported /\ exported' = exported \cup {c}
    BY <1>0, <1>8, ArrivingSent
  <2>3. exported \ (Arriving \cup putTasks) \subseteq exported' \ (Arriving' \cup putTasks')
    BY <2>1, <2>2
  <2>4. Ledger(a, D, A, N)'
    BY <1>1, <2>1, <2>2, <2>3, LedgerSame
  <2>5. QED
    BY <1>3, <2>1, <2>4 DEF LedgerInv
<1>9. ASSUME NEW t \in {"ss", "de"}, checkIfFinished(t)
      PROVE  LedgerInv'
  <2>1. UNCHANGED <<toDst, dstAcks, putAcks, imported, exported, putTasks, fromSrc>>
    BY <1>9 DEF checkIfFinished, srcVars, putVars, poolVars
  <2>2. pc'["de"] = "idle" \/ pc'["de"] = pc["de"]
    BY <1>9, <1>a DEF checkIfFinished, Goto, Threads
  <2>3. QED
    BY <1>2, <1>3, <2>1, <2>2 DEF LedgerInv
<1>10. CASE receiveGetAck \/ send_get_ack
  <2>1. UNCHANGED <<toDst, dstAcks, putAcks, imported, exported, putTasks>> /\ pc'["de"] = pc["de"]
    BY <1>10, <1>a DEF receiveGetAck, send_get_ack, Goto, Threads, srcVars, putVars, poolVars
  <2>2. QED
    BY <1>2, <1>3, <1>10, <2>1 DEF LedgerInv
<1>11. CASE execute \/ setGetCount
  <2>1. UNCHANGED <<toDst, dstAcks, putAcks, imported, exported, putTasks, fromSrc>> /\ pc'["de"] = pc["de"]
    BY <1>11, <1>a DEF execute, setGetCount, Goto, Threads, srcVars, putVars, poolVars
  <2>2. QED
    BY <1>2, <1>3, <2>1 DEF LedgerInv
<1>12. CASE handle_get \/ get_fails
  <2>1. UNCHANGED <<toDst, dstAcks, putAcks, imported, exported, putTasks, fromSrc, pc>>
    BY <1>12 DEF handle_get, get_fails, srcVars, putVars, poolVars
  <2>2. QED
    BY <1>2, <1>3, <2>1 DEF LedgerInv
<1>13. CASE UNCHANGED vars
  <2>1. UNCHANGED <<toDst, dstAcks, putAcks, imported, exported, putTasks, fromSrc, pc>>
    BY <1>13 DEF vars, srcVars, putVars, poolVars
  <2>2. QED
    BY <1>2, <1>3, <2>1 DEF LedgerInv
<1>14. QED
  BY <1>4, <1>5, <1>6, <1>7, <1>8, <1>9, <1>10, <1>11, <1>12, <1>13 DEF Next, Controller, SrcNF, DstNF

(* The order, the tasks and the ledger are kept together.                  *)
LEMMA FlowStep == FlowInv /\ [Next]_vars => FlowInv'
BY OrderStep, PoolStep, LedgerStep DEF FlowInv

-----------------------------------------------------------------------------
(* What the end of a copy tells the application. *)

(* Put acks are of the kinds that were asked for.                          *)
LEMMA PutKinds ==
  ASSUME FlowInv, NEW k \in Kinds, putAcks[k] > 0
  PROVE  k \in ScopeKinds
<1>1. PICK a, D, A, N : Ledger(a, D, A, N)
  BY DEF FlowInv, LedgerInv
<1>2. putAcks[k] = Cardinality({c \in N : KindOf(a[c]) = k})
  BY <1>1 DEF Ledger
<1>3. {c \in N : KindOf(a[c]) = k} # {}
  BY <1>2, FS_EmptySet
<1>4. PICK c \in N : KindOf(a[c]) = k
  BY <1>3
<1>5. a[c] \in exported
  BY <1>1 DEF Ledger
<1>6. k \in Begun
  BY <1>4, <1>5 DEF Begun
<1>7. QED
  BY <1>6 DEF FlowInv, OrderInv, RequestsInv

(* A complete copy is the same in every order: the flags and counts of all *)
(* kinds but the last are settled, and of a single kind that one too.      *)
LEMMA CompletedCounts ==
  ASSUME FlowInv, Completed, pc["ss"] = "check" \/ pc["de"] = "check"
  PROVE  /\ ScopeKinds \subseteq getDone /\ ScopeKinds \subseteq Kinds
         /\ pc["ss"] = "count" => ssMsg.kind = LastKind /\ ~SingleKind
         /\ \A k \in ScopeKinds : k # LastKind \/ SingleKind => putAcks[k] = Exported(k)
<1>0. OrderInv /\ LedgerInv /\ TypeOK /\ RequestsInv /\ RepliesInv /\ CountsInv
  BY DEF FlowInv, OrderInv
<1>1. /\ LastKind \in ScopeKinds /\ ScopeKinds \subseteq Kinds
      /\ \A k \in ScopeKinds : Rank(k) <= Rank(LastKind)
  BY <1>0, RequestsOrdered DEF TypeOK
<1>2. \A k \in ScopeKinds : acked[k] /\ putAcks[k] = count[k]
  BY DEF Completed
<1>3. ScopeKinds \subseteq getDone
  BY <1>0, <1>1, <1>2 DEF RepliesInv
<1>4. ASSUME pc["ss"] = "count"
      PROVE  ssMsg.kind = LastKind
  <2>1. ssMsg.kind \in Kinds /\ acked[ssMsg.kind] /\ Rank(LastKind) <= Rank(ssMsg.kind)
    BY <1>0, <1>1, <1>2, <1>4 DEF CountsInv, TypeOK, GetAckMsgs
  <2>2. ssMsg.kind \in Begun
    BY <1>0, <2>1 DEF RepliesInv, Begun
  <2>3. Rank(ssMsg.kind) <= Rank(LastKind)
    BY <1>0, <1>1, <2>2 DEF RequestsInv
  <2>4. QED
    BY <1>1, <2>1, <2>3, RankOrder
<1>5. ASSUME pc["ss"] = "count"
      PROVE  ~SingleKind
  <2>1. count[LastKind] = 0
    BY <1>0, <1>1, <1>4, <1>5 DEF CountsInv
  <2>2. PICK k \in Kinds : putAcks[k] > 0
    BY <1>0, <1>5 DEF LedgerInv
  <2>4. k \in ScopeKinds
    BY <2>2, PutKinds
  <2>5. k # LastKind
    BY <1>1, <1>2, <2>1, <2>2
  <2>6. QED
    BY <1>1, <2>4, <2>5 DEF SingleKind
<1>6. ASSUME NEW k \in ScopeKinds, k # LastKind \/ SingleKind
      PROVE  putAcks[k] = Exported(k)
  <2>1. ~(pc["ss"] = "count" /\ ssMsg.kind = k)
    BY <1>4, <1>5, <1>6
  <2>2. count[k] = Exported(k)
    BY <1>0, <1>1, <1>2, <2>1 DEF CountsInv
  <2>3. QED
    BY <1>2, <2>2
<1>7. QED
  BY <1>1, <1>3, <1>4, <1>5, <1>6

(* The chunks of a kind for which an ack of that kind was counted.         *)
CountedFor(a, N, k) == {c \in N : KindOf(a[c]) = k}

(* When acks of a kind are counted for chunks of that kind alone, and as   *)
(* many as were exported, then one for each that was exported.             *)
LEMMA CountedForAll ==
  ASSUME TypeOK, NEW a, NEW D, NEW A, NEW N, Ledger(a, D, A, N), NEW k \in Kinds,
         putAcks[k] = Exported(k), CountedFor(a, N, k) \subseteq ChunksOf(k)
  PROVE  CountedFor(a, N, k) = exported \cap ChunksOf(k)
<1>1. CountedFor(a, N, k) \subseteq exported \cap ChunksOf(k)
  BY DEF Ledger, CountedFor
<1>2. Cardinality(CountedFor(a, N, k)) = Cardinality(exported \cap ChunksOf(k))
  BY DEF Ledger, CountedFor, Exported
<1>3. IsFiniteSet(exported \cap ChunksOf(k))
  BY CountType DEF TypeOK
<1>4. QED
  BY <1>1, <1>2, <1>3, FS_Subset

(* A complete copy has installed what it says.                             *)
LEMMA CompletedInstalled ==
  ASSUME FlowInv, Completed, pc["ss"] = "check" \/ pc["de"] = "check",
         NEW c \in exported, KindOf(c) # LastKind \/ SingleKind
  PROVE  \E d \in imported : c = d \/ (SameObject(c, d) /\ KindOf(c) = KindOf(d))
<1>0. OrderInv /\ LedgerInv /\ TypeOK /\ RequestsInv
  BY DEF FlowInv, OrderInv
<1>1. PICK a, D, A, N : Ledger(a, D, A, N)
  BY <1>0 DEF LedgerInv
<1>2. /\ ScopeKinds \subseteq Kinds
      /\ \A k \in ScopeKinds : k # LastKind \/ SingleKind => putAcks[k] = Exported(k)
  BY CompletedCounts
<1>3. \A e \in exported : e \in Chunks /\ KindOf(e) \in ScopeKinds
  BY <1>0 DEF RequestsInv, Begun, TypeOK
<1>4. \A e \in N : e \in exported /\ a[e] \in exported /\ StandsFor(a[e], e) /\ a[e] \in imported
  BY <1>1 DEF Ledger
<1>5. ASSUME NEW k \in ScopeKinds, k # "mf", k # LastKind \/ SingleKind
      PROVE  CountedFor(a, N, k) = exported \cap ChunksOf(k)
  <2>1. ASSUME NEW e \in CountedFor(a, N, k)
        PROVE  e \in ChunksOf(k)
    <3>1. e \in N /\ KindOf(a[e]) = k /\ e \in Chunks /\ a[e] \in Chunks
      BY <1>3, <1>4 DEF CountedFor
    <3>2. CASE a[e] = e
      BY <1>2, <3>1, <3>2, KindOfChunk
    <3>3. CASE SameObject(e, a[e])
      <4>1. KindOf(e) \in {"pf", "mf"} /\ k = "pf"
        BY <1>5, <3>1, <3>3, KindOfChunk DEF SameObject
      <4>2. Rank(KindOf(e)) <= Rank("pf")
        BY <1>4, <3>1, <4>1 DEF StandsFor
      <4>3. KindOf(e) = "pf"
        BY <4>1, <4>2 DEF Rank
      <4>4. QED
        BY <1>2, <3>1, <4>1, <4>3, KindOfChunk
    <3>4. QED
      BY <1>4, <3>1, <3>2, <3>3 DEF StandsFor
  <2>2. QED
    BY <1>0, <1>1, <1>2, <1>5, <2>1, CountedForAll
<1>6. ASSUME "mf" \in ScopeKinds, "mf" # LastKind \/ SingleKind
      PROVE  CountedFor(a, N, "mf") = exported \cap ChunksOf("mf")
  <2>1. ASSUME NEW e \in CountedFor(a, N, "mf")
        PROVE  e \in ChunksOf("mf")
    <3>1. e \in N /\ KindOf(a[e]) = "mf" /\ e \in Chunks /\ a[e] \in Chunks /\ e \in exported
      BY <1>3, <1>4 DEF CountedFor
    <3>2. Rank(KindOf(e)) <= Rank("mf")
      BY <1>4, <3>1 DEF StandsFor
    <3>3. KindOf(e) \in {"pf", "mf"}
      BY <3>1, <3>2, KindOfChunk DEF Rank, Kinds
    <3>4. CASE KindOf(e) = "pf"
      <4>1. "pf" \in ScopeKinds
        BY <1>3, <3>1, <3>4
      <4>2. Rank("mf") <= Rank(LastKind)
        BY <1>0, <1>6, RequestsOrdered DEF TypeOK
      <4>3. "pf" # LastKind
        BY <4>2 DEF Rank
      <4>4. CountedFor(a, N, "pf") = exported \cap ChunksOf("pf")
        BY <1>5, <4>1, <4>3
      <4>5. e \in ChunksOf("pf")
        BY <1>2, <3>1, <3>4, <4>1, KindOfChunk
      <4>6. KindOf(a[e]) = "pf"
        BY <3>1, <4>4, <4>5 DEF CountedFor
      <4>7. QED
        BY <3>1, <4>6
    <3>5. CASE KindOf(e) = "mf"
      BY <1>2, <1>6, <3>1, <3>5, KindOfChunk
    <3>6. QED
      BY <3>3, <3>4, <3>5
  <2>2. QED
    BY <1>0, <1>1, <1>2, <1>6, <2>1, CountedForAll
<1>7. c \in CountedFor(a, N, KindOf(c))
  <2>1. KindOf(c) \in ScopeKinds /\ c \in ChunksOf(KindOf(c))
    BY <1>2, <1>3, KindOfChunk
  <2>2. QED
    BY <1>5, <1>6, <2>1
<1>8. c \in N /\ KindOf(a[c]) = KindOf(c) /\ a[c] \in imported /\ (a[c] = c \/ SameObject(c, a[c]))
  BY <1>4, <1>7 DEF CountedFor, StandsFor
<1>9. QED
  BY <1>8

(* The destination has what the source has exported, and after the end the *)
(* application knows so.                                                   *)
EndInv == FlowInv /\ imported \subseteq exported /\ EndMeansInstalled

(* The destination imports what was exported.                              *)
LEMMA ImportedStep == EndInv /\ [Next]_vars => imported' \subseteq exported'
<1> SUFFICES ASSUME EndInv, [Next]_vars
             PROVE  imported' \subseteq exported'
  OBVIOUS
<1>1. CASE handle_put
  <2>1. PICK a, D, A, N : Ledger(a, D, A, N)
    BY DEF EndInv, FlowInv, LedgerInv
  <2>2. Carries(toDst, D, a) /\ toDst # <<>> /\ D \in Seq(Chunks) /\ toDst \in Seq(Chunks)
    BY <1>1, <2>1 DEF Ledger, handle_put, EndInv, FlowInv, OrderInv, TypeOK
  <2>3. Head(toDst) = a[Head(D)] /\ D # <<>>
    BY <2>2, CarriesTail
  <2>4. Head(D) \in Range(D)
    BY <2>2, <2>3, RangeTail
  <2>5. a[Head(D)] \in exported
    BY <2>1, <2>4 DEF Ledger
  <2>6. QED
    BY <1>1, <2>3, <2>5 DEF handle_put, srcVars, EndInv
<1>2. CASE ~handle_put
  <2>1. UNCHANGED imported /\ exported \subseteq exported'
    BY <1>2 DEF Next, Controller, SrcNF, DstNF, vars, srcVars, execute, receiveState, receiveGetAck,
         setGetCount, receivePutAck, checkIfFinished, callChunk, handle_get, send_state, send_get_ack,
         get_fails, put_fails
  <2>2. QED
    BY <2>1 DEF EndInv
<1>3. QED
  BY <1>1, <1>2

(* Announcing the end, and what happens after it, keeps the claim.         *)
LEMMA EndStep == EndInv /\ [Next]_vars => EndInv'
<1> SUFFICES ASSUME EndInv, [Next]_vars
             PROVE  EndMeansInstalled'
  BY FlowStep, ImportedStep DEF EndInv
<1>0. FlowInv /\ EndMeansInstalled
  BY DEF EndInv
<1>1. /\ UNCHANGED <<ScopeKinds, LastKind, SingleKind>>
      /\ \A c, d : SameObject(c, d)' <=> SameObject(c, d)
  BY ConfKept
<1> DEFINE Inst(c, S) == \E d \in S : c = d \/ (SameObject(c, d) /\ KindOf(c) = KindOf(d))
<1>2. ASSUME NEW t \in {"ss", "de"}, checkIfFinished(t)
      PROVE  EndMeansInstalled'
  <2>1. /\ pc[t] = "check" /\ UNCHANGED <<getDone, exported, imported>>
        /\ finishes' = IF Completed THEN finishes + 1 ELSE finishes
    BY <1>2 DEF checkIfFinished, Goto, srcVars
  <2>2. CASE Completed
    <3>1. ScopeKinds \subseteq getDone
      BY <1>0, <2>1, <2>2, CompletedCounts
    <3>2. \A c \in exported : KindOf(c) # LastKind \/ SingleKind => Inst(c, imported)
      BY <1>0, <2>1, <2>2, CompletedInstalled
    <3>3. QED
      BY <1>1, <2>1, <3>1, <3>2 DEF EndMeansInstalled
  <2>3. CASE ~Completed
    BY <1>0, <1>1, <2>1, <2>3 DEF EndMeansInstalled
  <2>4. QED
    BY <2>2, <2>3
<1>3. ASSUME UNCHANGED <<finishes, exported>>, getDone \subseteq getDone', imported \subseteq imported'
      PROVE  EndMeansInstalled'
  BY <1>0, <1>1, <1>3 DEF EndMeansInstalled
<1>4. ASSUME NEW c \in Chunks, send_state(c)
      PROVE  EndMeansInstalled'
  <2>1. srcGet # "none" /\ UNCHANGED finishes
    BY <1>4 DEF send_state
  <2>2. ~(ScopeKinds \subseteq getDone)
    BY <1>0, <2>1 DEF FlowInv, OrderInv, RequestsInv
  <2>3. ~(finishes > 0)
    BY <1>0, <2>2 DEF EndMeansInstalled
  <2>4. QED
    BY <2>1, <2>3 DEF EndMeansInstalled
<1>5. \/ \E t \in {"ss", "de"} : checkIfFinished(t)
      \/ \E c \in Chunks : send_state(c)
      \/ UNCHANGED <<finishes, exported>> /\ getDone \subseteq getDone' /\ imported \subseteq imported'
  BY DEF Next, Controller, SrcNF, DstNF, vars, srcVars, execute, receiveState, receiveGetAck,
         setGetCount, receivePutAck, callChunk, handle_get, send_get_ack, get_fails, handle_put, put_fails
<1>6. QED
  BY <1>2, <1>3, <1>4, <1>5

(* Nothing has ended at first.                                             *)
LEMMA EndInit == Init => EndInv
BY FlowInit DEF Init, EndInv, EndMeansInstalled

(* Whatever the interleaving of the two threads, the tasks and the network *)
(* functions, and whatever the hash keys: when checkIfFinished announces   *)
(* the end of a copy, every get has ended and what was exported of each    *)
(* kind but the last requested is installed, and of a single kind too.     *)
THEOREM EndIsTrue == Spec => []EndMeansInstalled
<1>1. EndInv => EndMeansInstalled
  BY DEF EndInv
<1>2. QED
  BY <1>1, EndInit, EndStep, PTL DEF Spec

-----------------------------------------------------------------------------
(* How often the end is announced. *)

Total(f)  == f["pf"] + f["mf"] + f["af"] + f["cf"]
AllAcked  == \A k \in ScopeKinds : acked[k]
OneIf(b)  == IF b THEN 1 ELSE 0

(* Thread de has looked since the put acks have reached v. They only grow, *)
(* and it looks once after each.                                           *)
Passed(v) == Total(putAcks) > v \/ (Total(putAcks) = v /\ pc["de"] # "check")

(* Thread ss can find the end when it looks after the last get ack, and    *)
(* thread de when the acks are as many as the counts, without the one of   *)
(* the last kind or with it.                                               *)
FoundBySource == AllAcked /\ pc["ss"] = "idle"
FoundBefore   == AllAcked /\ ~SingleKind /\ Passed(Total(count) - count[LastKind])
FoundAfter    == AllAcked /\ pc["ss"] # "count" /\ Passed(Total(count))

AnnounceInv == FlowInv /\ finishes <= OneIf(FoundBySource) + OneIf(FoundBefore) + OneIf(FoundAfter)

(* A total is a number.                                                    *)
LEMMA TotalType ==
  ASSUME NEW f \in [Kinds -> Nat]
  PROVE  Total(f) \in Nat
<1>1. f["pf"] \in Nat /\ f["mf"] \in Nat /\ f["af"] \in Nat /\ f["cf"] \in Nat
  BY DEF Kinds
<1>2. QED
  BY <1>1 DEF Total

(* The counts of the kinds that were not asked for are zero.               *)
LEMMA OtherKinds ==
  ASSUME FlowInv, NEW k \in Kinds \ ScopeKinds
  PROVE  putAcks[k] = 0 /\ count[k] = 0
<1>0. TypeOK /\ RequestsInv /\ RepliesInv /\ CountsInv
  BY DEF FlowInv, OrderInv
<1>1. putAcks[k] \in Nat /\ ~(putAcks[k] > 0)
  BY <1>0, PutKinds DEF TypeOK
<1>2. k \notin getDone
  BY <1>0 DEF RequestsInv, Begun
<1>3. ~acked[k]
  BY <1>0, <1>2 DEF RepliesInv
<1>4. QED
  BY <1>0, <1>1, <1>3 DEF CountsInv

(* A complete copy has as many put acks as chunks, by the counts.          *)
LEMMA CompletedTotals ==
  ASSUME FlowInv, Completed
  PROVE  AllAcked /\ Total(putAcks) = Total(count)
<1>1. \A k \in Kinds : putAcks[k] = count[k]
  BY OtherKinds DEF Completed
<1>2. QED
  BY <1>1 DEF Completed, AllAcked, Total, Kinds

(* While a get ack is outstanding, not all are acked; the last one to come *)
(* is that of the last kind.                                               *)
LEMMA LastAck ==
  ASSUME FlowInv, AllAcked
  PROVE  /\ ~receiveGetAck
         /\ pc["ss"] = "count" => ssMsg.kind = LastKind
<1>0. TypeOK /\ OrderInv /\ RequestsInv /\ RepliesInv /\ CountsInv
  BY DEF FlowInv, OrderInv
<1>1. /\ LastKind \in ScopeKinds /\ LastKind \in Kinds /\ acked[LastKind]
      /\ \A k \in ScopeKinds : Rank(k) <= Rank(LastKind)
  BY <1>0, RequestsOrdered DEF TypeOK, AllAcked
<1>2. ASSUME receiveGetAck
      PROVE  FALSE
  <2>1. PICK h : h = Head(fromSrc)
    OBVIOUS
  <2>2. h \in Range(fromSrc) /\ h.type = "GetAck" /\ h.kind = MsgKind(h)
    BY <1>0, <1>2, <2>1, ReplyReceived DEF receiveGetAck, MsgKind
  <2>3. h.kind \in Begun
    BY <1>0, <2>2 DEF RepliesInv, Begun
  <2>4. Rank(h.kind) <= Rank(LastKind)
    BY <1>0, <1>1, <2>3 DEF RequestsInv
  <2>5. Rank(LastKind) < Rank(h.kind)
    BY <1>0, <1>1, <2>2 DEF RepliesInv
  <2>6. QED
    BY <2>4, <2>5, RankType
<1>3. ASSUME pc["ss"] = "count"
      PROVE  ssMsg.kind = LastKind
  <2>1. ssMsg.kind \in Kinds /\ acked[ssMsg.kind] /\ Rank(LastKind) <= Rank(ssMsg.kind)
    BY <1>0, <1>1, <1>3 DEF CountsInv, TypeOK, GetAckMsgs
  <2>2. ssMsg.kind \in Begun
    BY <1>0, <2>1 DEF RepliesInv, Begun
  <2>3. Rank(ssMsg.kind) <= Rank(LastKind)
    BY <1>0, <1>1, <2>2 DEF RequestsInv
  <2>4. QED
    BY <1>1, <2>1, <2>3, RankOrder
<1>4. QED
  BY <1>2, <1>3

(* What has been found stays found.                                        *)
LEMMA FoundKept ==
  ASSUME FlowInv, [Next]_vars
  PROVE  /\ FoundBySource => FoundBySource'
         /\ FoundBefore => FoundBefore'
         /\ FoundAfter => FoundAfter'
<1>0. TypeOK /\ CountsInv
  BY DEF FlowInv, OrderInv
<1>a. /\ putAcks \in [Kinds -> Nat] /\ count \in [Kinds -> Nat] /\ pc \in [Threads -> Labels]
      /\ Total(putAcks) \in Nat /\ Total(count) \in Nat /\ LastKind \in Kinds
  <2>1. LastKind \in Kinds
    BY <1>0, RequestsOrdered DEF TypeOK
  <2>2. QED
    BY <1>0, <2>1, TotalType DEF TypeOK
<1>b. UNCHANGED <<ScopeKinds, LastKind, SingleKind>>
  BY ConfKept
<1>1. ASSUME UNCHANGED <<acked, count, putAcks>>,
             pc'["ss"] = pc["ss"] \/ (pc["ss"] = "check" /\ pc'["ss"] = "idle"),
             pc'["de"] = pc["de"] \/ pc'["de"] = "idle"
      PROVE  /\ FoundBySource => FoundBySource'
             /\ FoundBefore => FoundBefore'
             /\ FoundAfter => FoundAfter'
  <2>1. \A v : Passed(v) => Total(putAcks') > v \/ (Total(putAcks') = v /\ pc'["de"] # "check")
    BY <1>1 DEF Passed
  <2>2. AllAcked' <=> AllAcked
    BY <1>1, <1>b DEF AllAcked
  <2>3. Total(count)' = Total(count) /\ count'[LastKind'] = count[LastKind] /\ Total(putAcks)' = Total(putAcks')
    BY <1>1, <1>b DEF Total
  <2>4. FoundBefore => FoundBefore'
    BY <1>b, <2>1, <2>2, <2>3 DEF FoundBefore, Passed
  <2>5. FoundAfter => FoundAfter'
    BY <1>1, <2>1, <2>2, <2>3 DEF FoundAfter, Passed
  <2>6. QED
    BY <1>1, <2>2, <2>4, <2>5 DEF FoundBySource
<1>2. CASE receiveGetAck
  BY <1>2, LastAck DEF FoundBySource, FoundBefore, FoundAfter
<1>3. CASE setGetCount
  <2>1. /\ pc["ss"] = "count" /\ count' = [count EXCEPT ![ssMsg.kind] = ssMsg.count]
        /\ UNCHANGED <<acked, putAcks>> /\ pc'["de"] = pc["de"] /\ ssMsg.count \in Nat
    BY <1>0, <1>3, <1>a DEF setGetCount, Goto, putVars, Threads, TypeOK, GetAckMsgs
  <2>2. ~FoundBySource /\ ~FoundAfter
    BY <2>1 DEF FoundBySource, FoundAfter
  <2>3. ASSUME FoundBefore
        PROVE  FoundBefore'
    <3>1. ssMsg.kind = LastKind /\ AllAcked /\ ~SingleKind
      BY <2>1, <2>3, LastAck DEF FoundBefore
    <3>2. AllAcked' /\ ~SingleKind'
      BY <1>b, <2>1, <3>1 DEF AllAcked
    <3>3. PICK l \in Kinds : l = LastKind
      BY <1>a
    <3>4. count' = [count EXCEPT ![l] = ssMsg.count] /\ LastKind' = l
      BY <1>b, <2>1, <3>1, <3>3
    <3>5. (Total(count) - count[LastKind])' = Total(count) - count[LastKind]
      BY <1>a, <2>1, <3>3, <3>4 DEF Total, Kinds
    <3>6. Total(putAcks)' = Total(putAcks)
      BY <2>1 DEF Total
    <3>7. QED
      BY <2>1, <2>3, <3>2, <3>5, <3>6 DEF FoundBefore, Passed
  <2>4. QED
    BY <2>2, <2>3
<1>4. CASE receivePutAck
  <2>1. /\ putAcks' = [putAcks EXCEPT ![KindOf(Head(dstAcks))] = @ + 1]
        /\ UNCHANGED <<acked, count>> /\ pc["de"] = "idle" /\ pc'["ss"] = pc["ss"]
    BY <1>4, <1>a DEF receivePutAck, Goto, getVars, Threads
  <2>2. KindOf(Head(dstAcks)) \in Kinds
    BY <1>0, <1>4, KindOfChunk, HeadTailProperties DEF receivePutAck, TypeOK
  <2>3. Total(putAcks') = Total(putAcks) + 1
    BY <1>a, <2>1, <2>2 DEF Total, Kinds
  <2>4. \A v \in Int : Passed(v) => Total(putAcks') > v
    BY <1>a, <2>3 DEF Passed
  <2>5. Total(count)' = Total(count) /\ count'[LastKind'] = count[LastKind] /\ Total(putAcks)' = Total(putAcks')
    BY <1>b, <2>1 DEF Total
  <2>6. AllAcked' <=> AllAcked
    BY <1>b, <2>1 DEF AllAcked
  <2>7. Total(count) - count[LastKind] \in Int /\ Total(count) \in Int
    BY <1>a
  <2>8. FoundBefore => FoundBefore'
    BY <1>b, <2>4, <2>5, <2>6, <2>7 DEF FoundBefore, Passed
  <2>9. FoundAfter => FoundAfter'
    BY <2>1, <2>4, <2>5, <2>6, <2>7 DEF FoundAfter, Passed
  <2>10. QED
    BY <2>1, <2>6, <2>8, <2>9 DEF FoundBySource
<1>5. ASSUME NEW t \in {"ss", "de"}, checkIfFinished(t)
      PROVE  /\ UNCHANGED <<acked, count, putAcks>>
             /\ pc'["ss"] = pc["ss"] \/ (pc["ss"] = "check" /\ pc'["ss"] = "idle")
             /\ pc'["de"] = pc["de"] \/ pc'["de"] = "idle"
  BY <1>5, <1>a DEF checkIfFinished, Goto, Threads, getVars, putVars
<1>6. ASSUME ~receiveGetAck, ~setGetCount, ~receivePutAck, ~\E t \in {"ss", "de"} : checkIfFinished(t)
      PROVE  UNCHANGED <<acked, count, putAcks>> /\ pc'["ss"] = pc["ss"] /\ pc'["de"] = pc["de"]
  <2>1. UNCHANGED <<acked, count, putAcks>>
    BY <1>6 DEF Next, Controller, SrcNF, DstNF, vars, getVars, putVars, execute, receiveState,
         callChunk, handle_get, send_state, send_get_ack, get_fails, handle_put, put_fails
  <2>2. UNCHANGED pc \/ execute
    BY <1>6 DEF Next, Controller, SrcNF, DstNF, vars, receiveState,
         callChunk, handle_get, send_state, send_get_ack, get_fails, handle_put, put_fails
  <2>3. execute => pc'["ss"] = pc["ss"] /\ pc'["de"] = pc["de"]
    BY <1>a DEF execute, Goto, Threads
  <2>4. QED
    BY <2>1, <2>2, <2>3
<1>7. QED
  BY <1>1, <1>2, <1>3, <1>4, <1>5, <1>6

(* Each look that finds the end is one that has not found it before.       *)
LEMMA AnnounceStep == AnnounceInv /\ [Next]_vars => AnnounceInv'
<1> SUFFICES ASSUME AnnounceInv, [Next]_vars
             PROVE  finishes' <= OneIf(FoundBySource') + OneIf(FoundBefore') + OneIf(FoundAfter')
  BY FlowStep DEF AnnounceInv, OneIf
<1>0. FlowInv /\ TypeOK /\ CountsInv
  BY DEF AnnounceInv, FlowInv, OrderInv
<1>1. /\ FoundBySource => FoundBySource'
      /\ FoundBefore => FoundBefore'
      /\ FoundAfter => FoundAfter'
  BY <1>0, FoundKept
<1>2. finishes \in Nat /\ finishes <= OneIf(FoundBySource) + OneIf(FoundBefore) + OneIf(FoundAfter)
  BY <1>0 DEF AnnounceInv, TypeOK
<1>3. CASE UNCHANGED finishes
  BY <1>1, <1>2, <1>3 DEF OneIf
<1>4. ASSUME NEW t \in {"ss", "de"}, checkIfFinished(t), Completed
      PROVE  /\ finishes' = finishes + 1
             /\ \/ ~FoundBySource /\ FoundBySource'
                \/ ~FoundBefore /\ FoundBefore'
                \/ ~FoundAfter /\ FoundAfter'
  <2>1. /\ finishes' = finishes + 1 /\ pc[t] = "check" /\ pc'[t] = "idle"
        /\ UNCHANGED <<acked, count, putAcks>>
        /\ t = "de" => pc'["ss"] = pc["ss"]
    BY <1>0, <1>4 DEF checkIfFinished, Goto, getVars, putVars, TypeOK, Threads
  <2>2. AllAcked /\ Total(putAcks) = Total(count)
    BY <1>0, <1>4, CompletedTotals
  <2>3. AllAcked' /\ UNCHANGED <<LastKind, SingleKind>>
    BY <2>1, <2>2, ConfKept DEF AllAcked
  <2>4. CASE t = "ss"
    BY <2>1, <2>3, <2>4 DEF FoundBySource
  <2>5. CASE t = "de" /\ pc["ss"] # "count"
    <3>1. Total(putAcks) \in Nat
      BY <1>0, TotalType DEF TypeOK
    <3>2. ~Passed(Total(count))
      BY <2>1, <2>2, <2>5, <3>1 DEF Passed
    <3>3. Passed(Total(count))'
      BY <2>1, <2>2, <2>5 DEF Passed, Total
    <3>4. QED
      BY <2>1, <2>3, <2>5, <3>2, <3>3 DEF FoundAfter
  <2>6. CASE t = "de" /\ pc["ss"] = "count"
    <3>1. ssMsg.kind = LastKind /\ ~SingleKind
      BY <1>0, <1>4, <2>1, <2>6, CompletedCounts
    <3>2. count[LastKind] = 0
      BY <1>0, <2>6, <3>1 DEF CountsInv, TypeOK, GetAckMsgs
    <3>3. Total(putAcks) \in Nat /\ Total(count) \in Nat
      BY <1>0, TotalType DEF TypeOK
    <3>4. ~Passed(Total(count) - count[LastKind])
      BY <2>1, <2>2, <2>6, <3>2, <3>3 DEF Passed
    <3>5. Passed(Total(count) - count[LastKind])'
      BY <2>1, <2>2, <2>3, <2>6, <3>2, <3>3 DEF Passed, Total
    <3>6. ~SingleKind'
      BY <2>3, <3>1
    <3>7. FoundBefore'
      BY <2>3, <3>5, <3>6, Zenon DEF FoundBefore
    <3>8. ~FoundBefore
      BY <3>4, Zenon DEF FoundBefore
    <3>9. QED
      BY <2>1, <3>7, <3>8
  <2>7. QED
    BY <2>1, <2>4, <2>5, <2>6
<1>5. CASE \E t \in {"ss", "de"} : checkIfFinished(t) /\ Completed
  BY <1>1, <1>2, <1>4, <1>5 DEF OneIf
<1>6. UNCHANGED finishes \/ \E t \in {"ss", "de"} : checkIfFinished(t) /\ Completed
  BY DEF Next, Controller, SrcNF, DstNF, vars, execute, receiveState, receiveGetAck,
         setGetCount, receivePutAck, checkIfFinished, callChunk, handle_get, send_state, send_get_ack,
         get_fails, handle_put, put_fails
<1>7. QED
  BY <1>3, <1>5, <1>6

(* No look has found the end at first.                                     *)
LEMMA AnnounceInit == Init => AnnounceInv
BY FlowInit DEF Init, AnnounceInv, OneIf

(* checkIfFinished keeps no record of what it announced, yet the end of a  *)
(* copy of one kind is announced at most twice, of several at most three   *)
(* times, however many chunks there are and however the threads interleave. *)
THEOREM AnnouncedFewTimes == Spec => []FewAnnouncements
<1>1. AnnounceInv => FewAnnouncements
  BY DEF AnnounceInv, FewAnnouncements, OneIf, FoundBefore, FlowInv, OrderInv, TypeOK
<1>2. QED
  BY <1>1, AnnounceInit, AnnounceStep, PTL DEF Spec

-----------------------------------------------------------------------------
(* A copy implements the abstract transfer. *)

GetsEnded == ScopeKinds \subseteq getDone
Announced == finishes > 0 /\ SingleKind /\ OwnObject

(* A step that neither moves a chunk, ends the gets nor announces the end  *)
(* is no step of the abstract transfer.                                    *)
LEMMA StutterStep ==
  ASSUME UNCHANGED <<exported, imported>>, GetsEnded' <=> GetsEnded, Announced' <=> Announced
  PROVE  UNCHANGED T!vars
<1>1. (ScopeKinds \subseteq getDone)' = (ScopeKinds \subseteq getDone)
  BY DEF GetsEnded
<1>2. (finishes > 0 /\ SingleKind /\ OwnObject)' = (finishes > 0 /\ SingleKind /\ OwnObject)
  BY DEF Announced
<1>3. QED
  BY <1>1, <1>2 DEF T!vars

(* Every step of a copy is a step of the abstract transfer, or none.       *)
LEMMA RefinementStep == EndInv /\ EndInv' /\ [Next]_vars => [T!Next]_(T!vars)
<1> SUFFICES ASSUME EndInv, EndInv', [Next]_vars
             PROVE  [T!Next]_(T!vars)
  OBVIOUS
<1>0. FlowInv /\ TypeOK /\ RequestsInv /\ imported \subseteq exported
  BY DEF EndInv, FlowInv, OrderInv
<1>1. /\ UNCHANGED <<ScopeKinds, LastKind, SingleKind, OwnObject>>
      /\ \A c, d : SameObject(c, d)' <=> SameObject(c, d)
  BY ConfKept
<1>2. ASSUME UNCHANGED finishes
      PROVE  Announced' <=> Announced
  BY <1>1, <1>2 DEF Announced
<1>3. ASSUME UNCHANGED getDone
      PROVE  GetsEnded' <=> GetsEnded
  BY <1>1, <1>3 DEF GetsEnded
<1>4. ASSUME NEW c \in Chunks, send_state(c)
      PROVE  [T!Next]_(T!vars)
  <2>1. /\ srcGet # "none" /\ exported' = exported \cup {c}
        /\ UNCHANGED <<getDone, imported, finishes>>
    BY <1>4 DEF send_state
  <2>2. ~GetsEnded /\ (GetsEnded' <=> GetsEnded)
    BY <1>0, <1>3, <2>1 DEF RequestsInv, GetsEnded
  <2>3. (ScopeKinds \subseteq getDone)' = (ScopeKinds \subseteq getDone)
    BY <2>2 DEF GetsEnded
  <2>4. (finishes > 0 /\ SingleKind /\ OwnObject)' = (finishes > 0 /\ SingleKind /\ OwnObject)
    BY <1>2, <2>1 DEF Announced
  <2>5. T!Leave(c)
    BY <2>1, <2>2, <2>3, <2>4 DEF T!Leave, GetsEnded
  <2>6. QED
    BY <2>5 DEF T!Next
<1>5. CASE send_get_ack
  <2>1. UNCHANGED <<exported, imported, finishes>> /\ getDone \subseteq getDone'
    BY <1>5 DEF send_get_ack
  <2>2. Announced' <=> Announced
    BY <1>2, <2>1
  <2>3. CASE GetsEnded' <=> GetsEnded
    BY <2>1, <2>2, <2>3, StutterStep
  <2>4. CASE ~(GetsEnded' <=> GetsEnded)
    <3>1. GetsEnded'
      BY <1>1, <2>1, <2>4 DEF GetsEnded
    <3>2. (ScopeKinds \subseteq getDone)' = TRUE
      BY <3>1 DEF GetsEnded
    <3>3. (finishes > 0 /\ SingleKind /\ OwnObject)' = (finishes > 0 /\ SingleKind /\ OwnObject)
      BY <2>2 DEF Announced
    <3>4. T!Close
      BY <2>1, <3>2, <3>3 DEF T!Close
    <3>5. QED
      BY <3>4 DEF T!Next
  <2>5. QED
    BY <2>3, <2>4
<1>6. CASE handle_put
  <2>1. PICK c : c = Head(toDst)
    OBVIOUS
  <2>2. imported' = imported \cup {c} /\ UNCHANGED <<exported, getDone, finishes>>
    BY <1>6, <2>1 DEF handle_put, srcVars
  <2>3. c \in exported /\ c \in Chunks
    BY <1>0, <2>2 DEF EndInv, TypeOK
  <2>4. (ScopeKinds \subseteq getDone)' = (ScopeKinds \subseteq getDone)
    BY <1>1, <2>2
  <2>5. (finishes > 0 /\ SingleKind /\ OwnObject)' = (finishes > 0 /\ SingleKind /\ OwnObject)
    BY <1>2, <2>2 DEF Announced
  <2>6. T!Arrive(c)
    BY <2>2, <2>3, <2>4, <2>5 DEF T!Arrive
  <2>7. QED
    BY <2>3, <2>6 DEF T!Next
<1>7. ASSUME NEW t \in {"ss", "de"}, checkIfFinished(t)
      PROVE  [T!Next]_(T!vars)
  <2>1. UNCHANGED <<exported, imported, getDone>> /\ (finishes' = finishes \/ finishes' = finishes + 1)
    BY <1>7 DEF checkIfFinished, srcVars
  <2>2. GetsEnded' <=> GetsEnded
    BY <1>3, <2>1
  <2>3. CASE Announced' <=> Announced
    BY <2>1, <2>2, <2>3, StutterStep
  <2>4. CASE ~(Announced' <=> Announced)
    <3>1. finishes' > 0 /\ SingleKind /\ OwnObject
      BY <1>0, <1>1, <2>1, <2>4 DEF Announced, TypeOK
    <3>2. /\ ScopeKinds \subseteq getDone
          /\ \A c \in exported : \E d \in imported : c = d \/ SameObject(c, d)
      BY <1>1, <2>1, <3>1 DEF EndInv, EndMeansInstalled
    <3>3. imported = exported
      <4>1. ASSUME NEW c \in exported
            PROVE  c \in imported
        <5>1. PICK d \in imported : c = d \/ SameObject(c, d)
          BY <3>2
        <5>2. c = d
          BY <3>1, <5>1 DEF OwnObject, SameObject
        <5>3. QED
          BY <5>1, <5>2
      <4>2. QED
        BY <1>0, <4>1
    <3>4. (ScopeKinds \subseteq getDone)' = (ScopeKinds \subseteq getDone)
      BY <2>2 DEF GetsEnded
    <3>5. (finishes > 0 /\ SingleKind /\ OwnObject)' = TRUE
      BY <1>1, <3>1
    <3>6. T!Report
      BY <2>1, <3>2, <3>3, <3>4, <3>5 DEF T!Report
    <3>7. QED
      BY <3>6 DEF T!Next
  <2>5. QED
    BY <2>3, <2>4
<1>8. ASSUME UNCHANGED <<exported, imported, getDone, finishes>>
      PROVE  [T!Next]_(T!vars)
  BY <1>2, <1>3, <1>8, StutterStep
<1>9. \/ \E c \in Chunks : send_state(c)
      \/ send_get_ack \/ handle_put
      \/ \E t \in {"ss", "de"} : checkIfFinished(t)
      \/ UNCHANGED <<exported, imported, getDone, finishes>>
  BY DEF Next, Controller, SrcNF, DstNF, vars, srcVars, execute, receiveState, receiveGetAck,
         setGetCount, receivePutAck, callChunk, handle_get, get_fails, put_fails
<1>10. QED
  BY <1>4, <1>5, <1>6, <1>7, <1>8, <1>9

(* At first nothing has left.                                              *)
LEMMA RefinementInit == Init => T!Init
<1> SUFFICES ASSUME Init
             PROVE  T!Init
  OBVIOUS
<1>1. LastKind \in ScopeKinds
  BY RequestsOrdered DEF Init
<1>2. (ScopeKinds \subseteq getDone) = FALSE
  BY <1>1 DEF Init
<1>3. (finishes > 0 /\ SingleKind /\ OwnObject) = FALSE
  BY DEF Init
<1>4. QED
  BY <1>2, <1>3 DEF Init, T!Init

(* A copy implements the abstract transfer: a chunk is imported only after *)
(* it was exported, none is exported once all gets have ended, and for a   *)
(* copy of one kind without shared hash keys the end is announced only     *)
(* when all that was exported is imported.                                 *)
THEOREM CopyRefinesTransfer == Spec => ImplementsTransfer
<1>1. Init /\ [][Next]_vars => T!Init /\ [][T!Next]_(T!vars)
  BY RefinementInit, RefinementStep, EndInit, EndStep, PTL
<1>2. QED
  BY <1>1 DEF Spec, ImplementsTransfer, T!Spec
=============================================================================
