-------------------------- MODULE ShareTurnProofs ---------------------------
(***************************************************************************)
(* A share returns one packet at a time: at most one of a round, a thread  *)
(* that starts the next round or returns the next packet, and a packet     *)
(* that is out, has the turn. And it keeps its instances consistent. What  *)
(* one of them knows travels as an answer, a chunk of the table, a put:    *)
(* wherever it is, it is what the instance holds, and once the round is    *)
(* complete every other instance holds it too. Hence, while no packet is   *)
(* on its way, the instances agree, and each of them has learned what all  *)
(* of them processed.                                                      *)
(***************************************************************************)
EXTENDS ShareProofs

-----------------------------------------------------------------------------
(* Steps that bring the turn to nobody.                                    *)

(* Reports, and a step that sends and receives none.                       *)
ReportMsgs  == [type : {"Reprocess"}, pkt : Packets \cup {NoPacket}]
SameReports == \A i \in Insts : Kept(eventOut[i], eventOut'[i], ReportMsgs)

(* The reports on a connection on which none is sent or received.          *)
LEMMA SameReported ==
  ASSUME VarsType, VarsType', args' = args, NEW i \in Insts, Kept(eventOut[i], eventOut'[i], ReportMsgs)
  PROVE  /\ \A x : /\ Reported(i, x)' <=> Reported(i, x)
                   /\ Once(eventOut[i], ReportsOf(x)) => Once(eventOut'[i], ReportsOf(x))
         /\ lastPacket' = lastPacket => (Echo(i)' <=> Echo(i))
<1>1. eventOut[i] \in Seq(Events) /\ eventOut'[i] \in Seq(Events)
  BY ArgsKept DEF VarsType, ChannelsType
<1>2. \A R \in SUBSET ReportMsgs : /\ Has(eventOut'[i], R) <=> Has(eventOut[i], R)
                                   /\ Once(eventOut[i], R) => Once(eventOut'[i], R)
  BY <1>1, KeptQueue
<1>3. \A x : ReportsOf(x) \in SUBSET ReportMsgs
  BY DEF ReportsOf, ReportMsgs
<1>4. {Reprocess(lastPacket)} \in SUBSET ReportMsgs
  BY DEF Reprocess, ReportMsgs, VarsType, FieldsType
<1>5. \A x : /\ Reported(i, x)' <=> Reported(i, x)
             /\ Once(eventOut[i], ReportsOf(x)) => Once(eventOut'[i], ReportsOf(x))
  BY <1>2, <1>3, Zenon DEF Reported
<1>6. ASSUME lastPacket' = lastPacket
      PROVE  Echo(i)' <=> Echo(i)
  <2>1. Reprocess(lastPacket)' = Reprocess(lastPacket)
    BY <1>6 DEF Reprocess
  <2>2. Has(eventOut'[i], {Reprocess(lastPacket)}) <=> Has(eventOut[i], {Reprocess(lastPacket)})
    BY <1>2, <1>4
  <2>3. QED
    BY <2>1, <2>2 DEF Echo
<1>7. QED
  BY <1>5, <1>6

(* A step that has nothing to do with reports.                             *)
LEMMA ReportsFrame ==
  ASSUME VarsType, VarsType', ReportsInv, args' = args, UNCHANGED <<lastPacket, originalEvents, arrived>>,
         SameReports
  PROVE  ReportsInv' /\ \A i \in Insts : Echo(i)' <=> Echo(i)
<1>1. Insts' = Insts /\ Texts' = Texts /\ EventTexts' = EventTexts
  BY ArgsKept DEF Texts, EventTexts
<1>2. \A i \in Insts : /\ \A x : /\ Reported(i, x)' <=> Reported(i, x)
                                 /\ Once(eventOut[i], ReportsOf(x)) => Once(eventOut'[i], ReportsOf(x))
                       /\ Echo(i)' <=> Echo(i)
  BY SameReported DEF SameReports
<1>3. QED
  BY <1>1, <1>2 DEF ReportsInv

(* A step that brings the turn to nobody.                                  *)
LEMMA QuietStep ==
  ASSUME VarsType, VarsType', OneTurn, args' = args, UNCHANGED <<opVars, ofq, hand, arrived, starts>>,
         RoundInv', MarksInv', Round' => Round, SameReports,
         \A t \in Threads : Turn(t)' => pc'[t] = pc[t]
  PROVE  OneTurn'
<1>1. /\ UNCHANGED <<isSyncFinished, callFromReprocess, lastPacket, originalEvents, ofq, hand, arrived, starts>>
      /\ Insts' = Insts /\ Threads' = Threads
  BY ArgsKept DEF opVars
<1>2. ReportsInv' /\ \A i \in Insts : Echo(i)' <=> Echo(i)
  BY <1>1, ReportsFrame DEF OneTurn
<1>3. OutInv' /\ (Out' <=> Out)
  BY <1>1, <1>2 DEF OneTurn, OutInv, Out
<1>4. \A t \in Threads : Turn(t)' => Turn(t)
  BY DEF Turn
<1>5. TurnInv'
  <2>1. \A t \in Threads : pc'[t] = "dequeue" => pc[t] = "dequeue"
    BY DEF Turn
  <2>2. TurnInv
    BY DEF OneTurn
  <2>3. \A t, u \in Threads : Turn(t)' /\ Turn(u)' => t = u
    BY <1>4, <2>2 DEF TurnInv
  <2>4. \A t \in Threads : Turn(t)' => ~Round' /\ ~Out' /\ ~callFromReprocess'
    BY <1>1, <1>3, <1>4, <2>2 DEF TurnInv
  <2>5. /\ Round' => ~Out' /\ ~callFromReprocess'
        /\ Out' => ~callFromReprocess'
        /\ Out' \/ callFromReprocess' => isSyncFinished'
        /\ ~isSyncFinished' => lastPacket' = NoPacket
    BY <1>1, <1>3, <2>2 DEF TurnInv
  <2>6. \A t \in Threads : pc'[t] = "dequeue" => isSyncFinished'
    BY <1>1, <2>1, <2>2 DEF TurnInv
  <2>7. starts' = 0 => ~Round' /\ ~isSyncFinished' /\ \A t \in Threads : ~Turn(t)'
    BY <1>1, <1>4, <2>2 DEF TurnInv
  <2>8. QED
    BY <1>1, <2>3, <2>4, <2>5, <2>6, <2>7 DEF TurnInv
<1>6. QED
  BY <1>2, <1>3, <1>5 DEF OneTurn

(* A thread moves, and does not get the turn.                              *)
LEMMA Moved ==
  ASSUME VarsType, NEW t \in Threads, NEW a, NEW b \in Labels, Goto(t, a, b), b \notin {"sync", "dequeue"}
  PROVE  \A u \in Threads : Turn(u)' => pc'[u] = pc[u]
  BY GotoType DEF Turn

(* A thread moves that neither fetches a count nor has a put in hand.      *)
LEMMA OtherThread ==
  ASSUME VarsType, NEW t \in Threads, NEW a, NEW b \in Labels, Goto(t, a, b),
         a \notin {"getAck", "putAck"}, b \notin {"getAck", "putAck"},
         \A u \in Threads : u # t => read'[u] = read[u] /\ chunk'[u] = chunk[u]
  PROVE  SameThreads
<1>1. pc[t] = a /\ pc'[t] = b /\ \A u \in Threads : u # t => pc'[u] = pc[u]
  BY GotoType
<1>2. ASSUME NEW u \in Threads
      PROVE  /\ \A l \in {"getAck", "putAck"} : (pc[u] = l <=> pc'[u] = l)
             /\ pc[u] \in {"getAck", "putAck"} => read'[u] = read[u] /\ chunk'[u] = chunk[u]
  BY <1>1
<1>3. QED
  BY <1>2, ThreadsOf DEF SameThreads

(* Threads that stay where they are.                                       *)
LEMMA NoThread ==
  ASSUME UNCHANGED <<pc, read, chunk>>
  PROVE  SameThreads /\ \A u \in Threads : Turn(u)' => pc'[u] = pc[u]
  BY DEF SameThreads

(* Records that nobody touches.                                            *)
LEMMA MarksFrame ==
  ASSUME MarksInv, args' = args, state' = state
  PROVE  MarksInv'
  BY ArgsKept DEF MarksInv

(* A round that goes on, or ends, is no new one.                           *)
LEMMA NoNewRound ==
  ASSUME \A k \in Kinds : Active(k)' => Active(k)
  PROVE  Round' => Round
  BY DEF Round

(* No message and no put ack is a report.                                  *)
LEMMA NoReports ==
  /\ UNCHANGED eventOut => SameReports
  /\ [type |-> "EnableEvents"] \notin RoundRequests /\ [type |-> "EventsAck"] \notin RoundAnswers
  /\ \A m \in Events : m.type = "PutAck" => m \notin ReportMsgs
  /\ \A m \in Events : m.type = "Reprocess" => m \notin RoundEvents
<1>1. UNCHANGED eventOut => SameReports
  BY DEF SameReports, Kept
<1>2. [type |-> "EnableEvents"] \notin RoundRequests /\ [type |-> "EventsAck"] \notin RoundAnswers
  BY DEF RoundRequests, RoundAnswers
<1>3. \A m \in Events : m.type = "PutAck" => m \notin ReportMsgs
  BY DEF ReportMsgs
<1>4. \A m \in Events : m.type = "Reprocess" => m \notin RoundEvents
  BY DEF RoundEvents
<1>5. QED
  BY <1>1, <1>2, <1>3, <1>4

(* The steps before the synchronization move no message of a round.        *)
LEMMA StartSame ==
  ASSUME VarsType, args' = args,
         execute \/ \E i \in Insts : \/ receiveEventsAck(i) \/ incrementEventAckCount(i)
                                     \/ checkEventAckCount(i) /\ eventAckCount # args.n
                                     \/ handle_enable_events(i)
  PROVE  /\ UNCHANGED <<opVars, ofq, hand, arrived, starts, eventOut, state, chunk, now, processed>>
         /\ UNCHANGED <<acked, count, putAcks, currentSource, key, chunks, tasks>>
         /\ SameQueues /\ SameThreads /\ \A u \in Threads : Turn(u)' => pc'[u] = pc[u]
<1>1. /\ UNCHANGED <<opVars, ofq, hand, arrived, starts, eventOut, state, chunk, now, processed>>
      /\ UNCHANGED <<acked, count, putAcks, currentSource, key, chunks, tasks>>
  BY DEF execute, receiveEventsAck, incrementEventAckCount, checkEventAckCount, handle_enable_events,
         syncVars, chunkVars, threads, chanVars, nfVars
<1>3. SUFFICES SameQueues /\ SameThreads /\ \A u \in Threads : Turn(u)' => pc'[u] = pc[u]
  BY <1>1
<1>4. CASE execute
  <2>1. UNCHANGED <<pc, read, chunk, stateOut>>
    BY <1>4 DEF execute, threads
  <2>2. \A j \in Insts : stateIn'[j] = Append(stateIn[j], [type |-> "EnableEvents"])
    BY <1>4 DEF execute
  <2>3. SameQueues
    BY <1>1, <2>1, <2>2, NoReports DEF SameQueues, Kept
  <2>4. QED
    BY <2>1, <2>3, NoThread
<1>5. ASSUME NEW i \in Insts, receiveEventsAck(i)
      PROVE  SameQueues /\ SameThreads /\ \A u \in Threads : Turn(u)' => pc'[u] = pc[u]
  <2>1. PICK t \in Threads : t = <<"ss", i>>
    BY ThreadsOf
  <2>2. Goto(t, "idle", "eventAck") /\ \A u \in Threads : u # t => read'[u] = read[u]
    BY <1>5, <2>1 DEF receiveEventsAck, VarsType, ThreadsType
  <2>3. "eventAck" \in Labels
    BY DEF Labels
  <2>4. SameThreads /\ \A u \in Threads : Turn(u)' => pc'[u] = pc[u]
    BY <1>1, <2>2, <2>3, OtherThread, Moved
  <2>5. PICK m : m = Head(stateOut[i])
    OBVIOUS
  <2>6. /\ UNCHANGED stateIn /\ stateOut[i] # <<>> /\ m.type = "EventsAck"
        /\ stateOut' = [stateOut EXCEPT ![i] = Tail(@)]
    BY <1>5, <2>5 DEF receiveEventsAck, FromState
  <2>7. m \notin RoundAnswers
    BY <2>6 DEF RoundAnswers
  <2>8. stateOut'[i] = Tail(stateOut[i]) /\ \A j \in Insts : j # i => stateOut'[j] = stateOut[j]
    BY <2>6 DEF VarsType, ChannelsType
  <2>9. SameQueues
    BY <1>1, <2>5, <2>6, <2>7, <2>8 DEF SameQueues, Kept
  <2>10. QED
    BY <2>4, <2>9
<1>6. ASSUME NEW i \in Insts, incrementEventAckCount(i)
      PROVE  SameQueues /\ SameThreads /\ \A u \in Threads : Turn(u)' => pc'[u] = pc[u]
  <2>1. PICK t \in Threads : t = <<"ss", i>>
    BY ThreadsOf
  <2>2. Goto(t, "eventAck", "eventCheck") /\ \A u \in Threads : u # t => read'[u] = read[u]
    BY <1>6, <2>1 DEF incrementEventAckCount, VarsType, ThreadsType
  <2>3. "eventCheck" \in Labels
    BY DEF Labels
  <2>4. SameQueues
    BY <1>6, Silent DEF incrementEventAckCount, chanVars
  <2>5. QED
    BY <1>1, <2>2, <2>3, <2>4, OtherThread, Moved
<1>7. ASSUME NEW i \in Insts, checkEventAckCount(i), eventAckCount # args.n
      PROVE  SameQueues /\ SameThreads /\ \A u \in Threads : Turn(u)' => pc'[u] = pc[u]
  <2>1. PICK t \in Threads : t = <<"ss", i>>
    BY ThreadsOf
  <2>2. Goto(t, "eventCheck", "idle") /\ read' = read
    BY <1>7, <2>1 DEF checkEventAckCount
  <2>3. "idle" \in Labels
    BY DEF Labels
  <2>4. SameQueues
    BY <1>7, Silent DEF checkEventAckCount, chanVars
  <2>5. QED
    BY <1>1, <2>2, <2>3, <2>4, OtherThread, Moved
<1>8. ASSUME NEW i \in Insts, handle_enable_events(i)
      PROVE  SameQueues /\ SameThreads /\ \A u \in Threads : Turn(u)' => pc'[u] = pc[u]
  <2>1. UNCHANGED <<pc, read, chunk>>
    BY <1>8 DEF handle_enable_events, threads
  <2>2. PICK m : m = Head(stateIn[i])
    OBVIOUS
  <2>3. /\ stateIn[i] # <<>> /\ m.type = "EnableEvents" /\ stateIn' = [stateIn EXCEPT ![i] = Tail(@)]
        /\ stateOut' = [stateOut EXCEPT ![i] = Append(@, [type |-> "EventsAck"])]
    BY <1>8, <2>2 DEF handle_enable_events, Request
  <2>4. m \notin RoundRequests
    BY <2>3 DEF RoundRequests
  <2>5. /\ stateIn'[i] = Tail(stateIn[i]) /\ \A j \in Insts : j # i => stateIn'[j] = stateIn[j]
        /\ stateOut'[i] = Append(stateOut[i], [type |-> "EventsAck"])
        /\ \A j \in Insts : j # i => stateOut'[j] = stateOut[j]
    BY <2>3 DEF VarsType, ChannelsType
  <2>6. SameQueues
    BY <1>1, <2>2, <2>3, <2>4, <2>5, NoReports DEF SameQueues, Kept
  <2>7. QED
    BY <2>1, <2>6, NoThread
<1>9. QED
  BY <1>4, <1>5, <1>6, <1>7, <1>8

(* The start: requests for events and their acks.                          *)
LEMMA StartQuiet ==
  ASSUME VarsType, VarsType', OneTurn, args' = args,
         execute \/ \E i \in Insts : \/ receiveEventsAck(i) \/ incrementEventAckCount(i)
                                     \/ checkEventAckCount(i) /\ eventAckCount # args.n
                                     \/ handle_enable_events(i)
  PROVE  OneTurn'
<1>0. RoundInv /\ MarksInv
  BY DEF OneTurn
<1>1. /\ UNCHANGED <<opVars, ofq, hand, arrived, starts, eventOut, state, chunk>>
      /\ UNCHANGED <<acked, count, putAcks, currentSource, chunks, tasks>>
      /\ SameQueues /\ SameThreads /\ \A u \in Threads : Turn(u)' => pc'[u] = pc[u]
  BY StartSame
<1>2. MarksInv' /\ SameReports /\ SameChunks
  BY <1>0, <1>1, MarksFrame, NoReports DEF SameChunks
<1>3. RoundInv' /\ \A k \in Kinds : Active(k)' <=> Active(k)
  BY <1>0, <1>1, <1>2, RoundFrame
<1>4. Round' => Round
  BY <1>3, NoNewRound
<1>5. QED
  BY <1>1, <1>2, <1>3, <1>4, QuietStep

(* The steps of a round on the controller move no reports.                 *)
LEMMA RoundSame ==
  ASSUME VarsType, args' = args,
         Pool \/ \E i \in Insts : \/ receiveState(i) \/ receiveGetAck(i) \/ setGetCount(i)
                                  \/ receivePutAck(i) \/ incrementPutAcks(i)
  PROVE  SameReports /\ \A u \in Threads : Turn(u)' => pc'[u] = pc[u]
<1>6. CASE Pool
  <2>1. UNCHANGED <<pc, read, chunk, eventOut>>
    BY <1>6 DEF Pool, callChunk, threads
  <2>2. QED
    BY <2>1, NoThread, NoReports
<1>7. ASSUME NEW i \in Insts, receiveState(i)
      PROVE  SameReports /\ \A u \in Threads : Turn(u)' => pc'[u] = pc[u]
  <2>1. UNCHANGED <<pc, read, chunk, eventOut>>
    BY <1>7 DEF receiveState, threads
  <2>2. QED
    BY <2>1, NoThread, NoReports
<1>8. ASSUME NEW i \in Insts, receiveGetAck(i) \/ setGetCount(i)
      PROVE  SameReports /\ \A u \in Threads : Turn(u)' => pc'[u] = pc[u]
  <2>1. UNCHANGED eventOut
    BY <1>8 DEF receiveGetAck, setGetCount, chanVars
  <2>2. PICK t \in Threads : t = <<"ss", i>>
    BY ThreadsOf
  <2>3. PICK a, b \in {"idle", "getAck", "check"} : Goto(t, a, b)
    BY <1>8, <2>2 DEF receiveGetAck, setGetCount
  <2>4. b \in Labels /\ b \notin {"sync", "dequeue"}
    BY DEF Labels
  <2>5. QED
    BY <2>1, <2>3, <2>4, Moved, NoReports
<1>9. ASSUME NEW i \in Insts, incrementPutAcks(i)
      PROVE  SameReports /\ \A u \in Threads : Turn(u)' => pc'[u] = pc[u]
  <2>1. UNCHANGED eventOut
    BY <1>9 DEF incrementPutAcks, chanVars
  <2>2. PICK t \in Threads : t = <<"se", i>>
    BY ThreadsOf
  <2>3. Goto(t, "putAck", "chunkAck")
    BY <1>9, <2>2 DEF incrementPutAcks
  <2>4. "chunkAck" \in Labels
    BY DEF Labels
  <2>5. QED
    BY <2>1, <2>3, <2>4, Moved, NoReports
<1>10. ASSUME NEW i \in Insts, receivePutAck(i)
       PROVE  SameReports /\ \A u \in Threads : Turn(u)' => pc'[u] = pc[u]
  <2>1. PICK m : m = Head(eventOut[i])
    OBVIOUS
  <2>2. /\ eventOut[i] # <<>> /\ m.type = "PutAck" /\ eventOut' = [eventOut EXCEPT ![i] = Tail(@)]
    BY <1>10, <2>1 DEF receivePutAck, FromEvent
  <2>3. m \notin ReportMsgs
    BY <2>2 DEF ReportMsgs
  <2>4. eventOut'[i] = Tail(eventOut[i]) /\ \A j \in Insts : j # i => eventOut'[j] = eventOut[j]
    BY <2>2 DEF VarsType, ChannelsType
  <2>5. SameReports
    BY <2>1, <2>2, <2>3, <2>4 DEF SameReports, Kept
  <2>6. PICK t \in Threads : t = <<"se", i>>
    BY ThreadsOf
  <2>7. Goto(t, "idle", "putAck")
    BY <1>10, <2>6 DEF receivePutAck
  <2>8. "putAck" \in Labels
    BY DEF Labels
  <2>9. QED
    BY <2>5, <2>7, <2>8, Moved
<1>11. QED
  BY <1>6, <1>7, <1>8, <1>9, <1>10

(* State, acks and puts: the controller's part of a round.                 *)
LEMMA RoundQuiet ==
  ASSUME VarsType, VarsType', OneTurn, args' = args,
         Pool \/ \E i \in Insts : \/ receiveState(i) \/ receiveGetAck(i) \/ setGetCount(i)
                                  \/ receivePutAck(i) \/ incrementPutAcks(i)
  PROVE  OneTurn'
<1>0. RoundInv /\ MarksInv
  BY DEF OneTurn
<1>1. UNCHANGED <<opVars, ofq, hand, arrived, starts, state>>
  BY DEF Pool, callChunk, receiveState, receiveGetAck, setGetCount, receivePutAck, incrementPutAcks,
         chanVars, nfVars
<1>2. MarksInv'
  BY <1>0, <1>1, MarksFrame
<1>3. RoundInv' /\ \A k \in Kinds : Active(k)' <=> Active(k)
  BY <1>0, PoolRound, StateRound, GetAckRound, SetCountRound, PutAckRound, CountRound
<1>4. Round' => Round
  BY <1>3, NoNewRound
<1>5. SameReports /\ \A u \in Threads : Turn(u)' => pc'[u] = pc[u]
  BY RoundSame
<1>6. QED
  BY <1>1, <1>2, <1>3, <1>4, <1>5, QuietStep

(* The acks of a chunk.                                                    *)
LEMMA ChunkQuiet ==
  ASSUME VarsType, VarsType', OneTurn, args' = args, NEW i \in Insts, incrementAcked(i) \/ compareAcked(i)
  PROVE  OneTurn'
<1>0. RoundInv /\ MarksInv
  BY DEF OneTurn
<1>1. /\ UNCHANGED <<opVars, ofq, hand, arrived, starts, state, stateIn, stateOut, eventOut>>
      /\ UNCHANGED <<acked, count, putAcks, currentSource, tasks>>
  BY DEF incrementAcked, compareAcked, chunkVars, syncVars, chanVars, nfVars
<1>2. MarksInv' /\ SameQueues /\ SameReports
  BY <1>0, <1>1, MarksFrame, Silent, NoReports
<1>3. PICK t \in Threads : t = <<"se", i>>
  BY ThreadsOf
<1>4. PICK a, b \in {"chunkAck", "compare", "check", "idle"} : Goto(t, a, b)
  BY <1>3 DEF incrementAcked, compareAcked
<1>5. b \in Labels
  BY DEF Labels
<1>6. \A u \in Threads : u # t => read'[u] = read[u] /\ chunk'[u] = chunk[u]
  BY <1>3 DEF incrementAcked, compareAcked, VarsType, ThreadsType
<1>7. SameThreads /\ \A u \in Threads : Turn(u)' => pc'[u] = pc[u]
  BY <1>4, <1>5, <1>6, OtherThread, Moved
<1>8. SameChunks
  <2>1. CASE compareAcked(i)
    BY <2>1 DEF compareAcked, chunkVars, SameChunks
  <2>2. CASE incrementAcked(i)
    <3>1. PICK c : c = chunk[t]
      OBVIOUS
    <3>2. pc[t] = "chunkAck" /\ chunks \in Seq(Chunks) /\ c \in 1 .. Len(chunks)
      BY <1>3, <2>2, <3>1 DEF incrementAcked, Goto, VarsType, ThreadsType, ChunksType
    <3>3. PICK d : d = [chunks[c] EXCEPT !.acks = read[t].count + 1]
      OBVIOUS
    <3>4. chunks' = [chunks EXCEPT ![c] = d]
      BY <1>3, <2>2, <3>1, <3>3 DEF incrementAcked
    <3>5. chunks[c] \in Chunks
      BY <3>2, ElementOfSeq
    <3>6. d.hashkey = chunks[c].hashkey /\ d.live = chunks[c].live /\ d.dsts = chunks[c].dsts
      BY <3>3, <3>5 DEF Chunks
    <3>7. Len(chunks') = Len(chunks) /\ \A e \in 1 .. Len(chunks) : chunks'[e] = IF e = c THEN d ELSE chunks[e]
      BY <3>2, <3>4
    <3>8. QED
      BY <3>6, <3>7 DEF SameChunks
  <2>3. QED
    BY <2>1, <2>2
<1>9. RoundInv' /\ \A k \in Kinds : Active(k)' <=> Active(k)
  BY <1>0, <1>1, <1>2, <1>7, <1>8, RoundFrame
<1>10. Round' => Round
  BY <1>9, NoNewRound
<1>11. QED
  BY <1>1, <1>2, <1>7, <1>9, <1>10, QuietStep

(* No record of a list is marked.                                          *)
Clean(l) == \A n \in 1 .. Len(l) : ~l[n].gotten

(* A record that is not marked, at the head of a list.                     *)
LEMMA CleanLists ==
  ASSUME NEW l \in Seq(Records), NEW x \in Records, Clean(l), ~x.gotten
  PROVE  /\ Clean(<<x>>) /\ Clean(<<x>> \o l)
         /\ l # <<>> => Clean(<<x>> \o Tail(l)) /\ l[1] \in Records /\ ~l[1].gotten
<1>1. Clean(<<x>>)
  BY DEF Clean
<1>2. ASSUME NEW s \in Seq(Records), Clean(s)
      PROVE  Clean(<<x>> \o s)
  <2>1. /\ Len(<<x>> \o s) = 1 + Len(s) /\ Len(s) \in Nat
        /\ \A n \in 1 .. 1 + Len(s) : (<<x>> \o s)[n] = IF n <= 1 THEN x ELSE s[n - 1]
    <3>0. <<x>> \in Seq(Records)
      OBVIOUS
    <3>1. PICK y \in Seq(Records) : y = <<x>> /\ Len(y) = 1 /\ y[1] = x
      BY <3>0
    <3>2. /\ Len(y \o s) = Len(y) + Len(s) /\ Len(s) \in Nat
          /\ \A n \in 1 .. Len(y) + Len(s) : (y \o s)[n] = IF n <= Len(y) THEN y[n] ELSE s[n - Len(y)]
      BY ConcatProperties, LenProperties
    <3>3. QED
      BY <3>1, <3>2
  <2>2. PICK y : y = <<x>> \o s
    OBVIOUS
  <2>3. /\ Len(y) = 1 + Len(s) /\ \A n \in 1 .. Len(y) : y[n] = x \/ (n - 1 \in 1 .. Len(s) /\ y[n] = s[n - 1])
    BY <2>1, <2>2
  <2>4. Clean(y)
    BY <1>2, <2>3 DEF Clean
  <2>5. QED
    BY <2>2, <2>4
<1>3. ASSUME l # <<>>
      PROVE  Tail(l) \in Seq(Records) /\ Clean(Tail(l)) /\ l[1] \in Records /\ ~l[1].gotten
  <2>1. /\ Tail(l) \in Seq(Records) /\ Len(l) \in Nat \ {0} /\ Len(Tail(l)) = Len(l) - 1
        /\ \A n \in 1 .. Len(Tail(l)) : Tail(l)[n] = l[n + 1]
    BY <1>3, QueueType
  <2>2. \A n \in 1 .. Len(Tail(l)) : n + 1 \in 1 .. Len(l)
    BY <2>1
  <2>3. 1 \in 1 .. Len(l)
    BY <2>1
  <2>4. l[1] \in Records
    BY <2>3, ElementOfSeq
  <2>5. QED
    BY <2>1, <2>2, <2>3, <2>4 DEF Clean
<1>4. QED
  BY <1>1, <1>2, <1>3

(* A put leaves no record marked.                                          *)
LEMMA CleanAsset ==
  ASSUME NEW l \in Seq(Records), NEW r \in Records \cup Cargo, Clean(l)
  PROVE  Clean(put_asset_per_sip(l, r)) /\ Clean(local_put_perflow(l, r))
<1>1. PICK x : x = Stored(r)
  OBVIOUS
<1>2. x \in Records /\ ~x.gotten
  BY <1>1, PutTypes DEF Stored
<1>3. Clean(<<x>>) /\ Clean(<<x>> \o l) /\ (l # <<>> => l[1] \in Records /\ ~l[1].gotten)
  BY <1>2, CleanLists
<1>4. Clean(put_asset_per_sip(l, r))
  <2>1. CASE l = <<>>
    BY <1>1, <1>3, <2>1 DEF put_asset_per_sip
  <2>2. CASE l # <<>>
    <3>1. PICK y : y = [l[1] EXCEPT !.facts = @ \cup r.facts, !.seen = r.seen]
      OBVIOUS
    <3>2. r.facts \in SUBSET Packets /\ r.seen \in 0 .. MaxTime
      BY DEF Records, Cargo
    <3>3. y \in Records /\ ~y.gotten
      BY <1>3, <2>2, <3>1, <3>2 DEF Records
    <3>4. Clean(<<y>>)
      BY <3>3, CleanLists
    <3>5. QED
      BY <2>2, <3>1, <3>4 DEF put_asset_per_sip
  <2>3. QED
    BY <2>1, <2>2
<1>5. QED
  BY <1>1, <1>3, <1>4 DEF local_put_perflow

LEMMA CleanPut ==
  ASSUME NEW k, NEW l \in Seq(Records), NEW m, m.rec \in Cargo, Clean(l)
  PROVE  Clean(Installed(k, l, m))
<1>1. m.rec.asset \in Seq(Records)
  BY DEF Cargo
<1>2. m.rec.asset # <<>> => m.rec.asset[1] \in Records
  BY <1>1
<1>3. Clean(put_asset_per_sip(l, m.rec)) /\ Clean(local_put_perflow(l, m.rec))
  BY CleanAsset
<1>4. m.rec.asset # <<>> => Clean(put_asset_per_sip(l, m.rec.asset[1]))
  BY <1>2, CleanAsset
<1>5. QED
  BY <1>3, <1>4 DEF Installed

(* The lists an instance holds after a put: those of the unit may change.  *)
LEMMA PutLists ==
  ASSUME VarsType, NEW i \in Insts, handle_put(i), NEW m, m = Head(stateIn[i])
  PROVE  /\ m.type = "Put" /\ m \in Requests /\ m.hashkey \in StateKeys /\ m.rec \in Cargo
         /\ m.hashkey.kind \in StateKinds /\ m.hashkey.unit \in Units
         /\ \A d \in Insts, k \in StateKinds, u \in Units :
              state'[d][k][u] = IF d = i /\ u = m.hashkey.unit THEN Installed(k, state[i][k][u], m)
                                                               ELSE state[d][k][u]
<1>1. stateIn[i] # <<>> /\ m.type = "Put"
  BY DEF handle_put, Request
<1>2. m \in Requests
  BY <1>1, ReceivedType
<1>3. m.hashkey \in StateKeys /\ m.rec \in Cargo
  BY <1>1, <1>2, MessageTypes
<1>4. m.hashkey.kind \in StateKinds /\ m.hashkey.unit \in Units
  BY <1>3, MessageTypes
<1>5. state' = [state EXCEPT ![i] = [k \in StateKinds |->
                  [state[i][k] EXCEPT ![m.hashkey.unit] = Installed(k, state[i][k][m.hashkey.unit], m)]]]
  BY DEF handle_put
<1>6. state \in [Insts -> [StateKinds -> [Units -> Seq(Records)]]]
  BY DEF VarsType, InstancesType
<1>7. \A d \in Insts, k \in StateKinds, u \in Units :
        state'[d][k][u] = IF d = i /\ u = m.hashkey.unit THEN Installed(k, state[i][k][u], m)
                                                         ELSE state[d][k][u]
  BY <1>4, <1>5, <1>6
<1>8. QED
  BY <1>1, <1>2, <1>3, <1>4, <1>7

(* No list of any instance has a marked record.                            *)
LEMMA MarksPut ==
  ASSUME args' = args, \A j \in Insts, k \in StateKinds, u \in Units : Clean(state'[j][k][u])
  PROVE  MarksInv'
  BY ArgsKept DEF MarksInv, Clean

(* The instance's part of a round.                                         *)
LEMMA RequestQuiet ==
  ASSUME VarsType, VarsType', OneTurn, args' = args, Unmarked, FewRecords, NEW i \in Insts,
         handle_get(i) \/ get_unsupported(i) \/ handle_put(i)
  PROVE  OneTurn'
<1>0. RoundInv /\ MarksInv
  BY DEF OneTurn
<1>1. UNCHANGED <<opVars, ofq, hand, arrived, starts, pc, read, chunk>>
  BY DEF handle_get, get_unsupported, handle_put, threads, nfVars
<1>2. RoundInv' /\ \A k \in Kinds : Active(k)' => Active(k)
  BY <1>0, GetRound, UnsupportedRound, PutRound
<1>3. Round' => Round
  BY <1>2, NoNewRound
<1>4. \A u \in Threads : Turn(u)' => pc'[u] = pc[u]
  BY <1>1, NoThread
<1>5. SUFFICES SameReports /\ MarksInv'
  BY <1>1, <1>2, <1>3, <1>4, <1>5, QuietStep
<1>6. PICK m : m = Head(stateIn[i])
  OBVIOUS
<1>7. CASE get_unsupported(i)
  <2>1. UNCHANGED <<eventOut, state>>
    BY <1>7 DEF get_unsupported, nfVars
  <2>2. QED
    BY <1>0, <2>1, MarksFrame, NoReports
<1>8. CASE handle_get(i)
  <2>1. UNCHANGED eventOut /\ m.kind \in StateKinds
    BY <1>6, <1>8 DEF handle_get
  <2>2. ~(m.kind = "pf" /\ args.strict)
    BY <2>1 DEF Unmarked, StateKinds
  <2>3. PICK l : l = state[i][m.kind]
    OBVIOUS
  <2>4. state' = [state EXCEPT ![i][m.kind] = [u \in Units |-> l[u]]]
    BY <1>6, <1>8, <2>2, <2>3 DEF handle_get
  <2>5. state \in [Insts -> [StateKinds -> [Units -> Seq(Records)]]] /\ l \in [Units -> Seq(Records)]
    BY <2>1, <2>3 DEF VarsType, InstancesType
  <2>6. state' = state
    BY <2>1, <2>3, <2>4, <2>5
  <2>7. QED
    BY <1>0, <2>1, <2>6, MarksFrame, NoReports
<1>9. CASE handle_put(i)
  <2>1. \A j \in Insts, k \in StateKinds, u \in Units :
          state[j][k][u] \in Seq(Records) /\ Clean(state[j][k][u])
    BY <1>0 DEF VarsType, InstancesType, MarksInv, Clean
  <2>2. /\ m.rec \in Cargo
        /\ \A j \in Insts, k \in StateKinds, u \in Units :
             state'[j][k][u] = IF j = i /\ u = m.hashkey.unit THEN Installed(k, state[i][k][u], m)
                                                              ELSE state[j][k][u]
    BY <1>6, <1>9, PutLists
  <2>3. \A k \in StateKinds, u \in Units : Clean(Installed(k, state[i][k][u], m))
    BY <2>1, <2>2, CleanPut
  <2>4. \A j \in Insts, k \in StateKinds, u \in Units : Clean(state'[j][k][u])
    BY <2>1, <2>2, <2>3
  <2>13. MarksInv'
    BY <2>4, MarksPut
  <2>14. PICK a : a = [type |-> "PutAck", hashkey |-> m.hashkey]
    OBVIOUS
  <2>15. a \notin ReportMsgs /\ eventOut' = [eventOut EXCEPT ![i] = Append(@, a)]
    BY <1>6, <1>9, <2>14 DEF handle_put, ReportMsgs
  <2>16. SameReports
    BY <2>15 DEF SameReports, Kept, VarsType, ChannelsType
  <2>17. QED
    BY <2>13, <2>16
<1>10. QED
  BY <1>7, <1>8, <1>9

-----------------------------------------------------------------------------
(* Steps of the one who has the turn.                                      *)

(* The turn passes between a round and the threads.                        *)
LEMMA TurnPassed ==
  ASSUME VarsType, VarsType', OneTurn, args' = args,
         UNCHANGED <<callFromReprocess, lastPacket, originalEvents, ofq, hand, arrived, eventOut, state>>,
         ~Out, ~callFromReprocess, RoundInv', starts' # 0, isSyncFinished => isSyncFinished',
         \A t, u \in Threads : Turn(t)' /\ Turn(u)' => t = u,
         \A t \in Threads : Turn(t)' => ~Round',
         \A t \in Threads : pc'[t] = "dequeue" => isSyncFinished'
  PROVE  OneTurn'
<1>1. Insts' = Insts /\ Threads' = Threads
  BY ArgsKept
<1>2. MarksInv' /\ SameReports
  BY MarksFrame, NoReports DEF OneTurn
<1>3. ReportsInv' /\ \A i \in Insts : Echo(i)' <=> Echo(i)
  BY <1>2, ReportsFrame DEF OneTurn
<1>4. OutInv' /\ ~Out'
  BY <1>1, <1>3 DEF OneTurn, OutInv, Out
<1>5. TurnInv'
  BY <1>1, <1>4 DEF OneTurn, TurnInv
<1>6. QED
  BY <1>2, <1>3, <1>4, <1>5 DEF OneTurn

(* The last ack of an instance starts the synchronization.                 *)
LEMMA StartTurn ==
  ASSUME VarsType, VarsType', OneTurn, args' = args, Single', NEW i \in Insts, checkEventAckCount(i),
         eventAckCount = args.n
  PROVE  OneTurn'
<1>1. PICK t \in Threads : t = <<"ss", i>>
  BY ThreadsOf
<1>2. /\ Goto(t, "eventCheck", "sync") /\ starts' = starts + 1
      /\ UNCHANGED <<opVars, acked, count, putAcks, currentSource, chunks, tasks, read, chunk, stateIn, stateOut,
                     eventOut, ofq, hand, state, arrived>>
  BY <1>1 DEF checkEventAckCount, syncVars, chunkVars, chanVars, nfVars
<1>3. starts = 0
  BY <1>2 DEF Single, VarsType, CountersType
<1>4. ~Round /\ ~isSyncFinished /\ (\A u \in Threads : ~Turn(u)) /\ ~Out /\ ~callFromReprocess
  BY <1>3 DEF OneTurn, TurnInv
<1>5. SameQueues /\ SameThreads /\ SameChunks
  <2>1. "sync" \in Labels
    BY DEF Labels
  <2>2. QED
    BY <1>2, <2>1, Silent, OtherThread DEF SameChunks
<1>6. RoundInv' /\ \A k \in Kinds : Active(k)' <=> Active(k)
  BY <1>2, <1>5, RoundFrame DEF OneTurn
<1>7. ~Round'
  BY <1>4, <1>6, NoNewRound
<1>8. pc'[t] = "sync" /\ \A u \in Threads : u # t => pc'[u] = pc[u]
  BY <1>2 DEF Goto, VarsType, ThreadsType
<1>9. \A u \in Threads : (Turn(u)' => u = t) /\ pc'[u] # "dequeue"
  BY <1>4, <1>8 DEF Turn
<1>10. starts' # 0
  BY <1>2, <1>3
<1>11. QED
  BY <1>2, <1>4, <1>6, <1>7, <1>9, <1>10, TurnPassed DEF opVars

(* A thread finds the round complete, or not.                              *)
LEMMA CheckTurn ==
  ASSUME VarsType, VarsType', OneTurn, args' = args, NEW t \in Threads, checkIfInstFinished(t)
  PROVE  OneTurn'
<1>1. UNCHANGED <<opVars, ofq, hand, state, arrived, eventOut, starts>>
  BY DEF checkIfInstFinished, chanVars, nfVars
<1>2. RoundInv
  BY DEF OneTurn
<1>3. /\ RoundInv' /\ pc[t] = "check" /\ \A u \in Threads : u # t => pc'[u] = pc[u]
      /\ \/ Round /\ ~Round' /\ pc'[t] = "sync"
         \/ (Round' <=> Round) /\ pc'[t] = "idle"
  BY <1>2, CheckRound
<1>4. CASE Round /\ ~Round' /\ pc'[t] = "sync"
  <2>1. (\A u \in Threads : ~Turn(u)) /\ ~Out /\ ~callFromReprocess /\ starts # 0
    BY <1>4 DEF OneTurn, TurnInv
  <2>2. \A u \in Threads : (Turn(u)' => u = t) /\ pc'[u] # "dequeue"
    BY <1>3, <1>4, <2>1 DEF Turn
  <2>3. QED
    BY <1>1, <1>3, <1>4, <2>1, <2>2, TurnPassed DEF opVars
<1>5. CASE (Round' <=> Round) /\ pc'[t] = "idle"
  <2>1. \A u \in Threads : Turn(u)' => pc'[u] = pc[u]
    BY <1>3, <1>5 DEF Turn
  <2>2. MarksInv' /\ SameReports
    BY <1>1, MarksFrame, NoReports DEF OneTurn
  <2>3. QED
    BY <1>1, <1>3, <1>5, <2>1, <2>2, QuietStep
<1>6. QED
  BY <1>3, <1>4, <1>5

(* The thread that has the turn goes on to the next instance, or has been  *)
(* to all.                                                                 *)
LEMMA SyncTurn ==
  ASSUME VarsType, VarsType', OneTurn, args' = args, NEW t \in Threads, syncAllInstances(t)
  PROVE  OneTurn'
<1>1. /\ UNCHANGED <<callFromReprocess, lastPacket, originalEvents, ofq, hand, arrived, eventOut, state>>
      /\ UNCHANGED <<chunks, tasks, read, chunk, stateOut, starts>>
  BY DEF syncAllInstances, chunkVars, nfVars
<1>2. pc[t] = "sync"
  BY DEF syncAllInstances, Goto
<1>3. /\ ~Round /\ ~Out /\ ~callFromReprocess /\ starts # 0
      /\ \A u \in Threads : Turn(u) => u = t
  BY <1>2 DEF OneTurn, TurnInv, Turn
<1>4. RoundInv
  BY DEF OneTurn
<1>5. CASE AllSynced
  <2>1. /\ Goto(t, "sync", "dequeue") /\ isSyncFinished' = TRUE
        /\ UNCHANGED <<acked, count, putAcks, currentSource, stateIn>>
    BY <1>5 DEF syncAllInstances, syncVars
  <2>2. SameQueues /\ SameThreads /\ SameChunks
    <3>1. "dequeue" \in Labels
      BY DEF Labels
    <3>2. QED
      BY <1>1, <2>1, <3>1, Silent, OtherThread DEF SameChunks
  <2>3. RoundInv' /\ \A k \in Kinds : Active(k)' <=> Active(k)
    BY <1>1, <1>4, <2>1, <2>2, RoundFrame
  <2>4. ~Round'
    BY <1>3, <2>3, NoNewRound
  <2>5. pc'[t] = "dequeue" /\ \A u \in Threads : u # t => pc'[u] = pc[u]
    BY <2>1 DEF Goto, VarsType, ThreadsType
  <2>6. \A u \in Threads : Turn(u)' => u = t
    BY <1>3, <2>5 DEF Turn
  <2>7. QED
    BY <1>1, <1>3, <2>1, <2>3, <2>4, <2>6, TurnPassed
<1>6. CASE ~AllSynced
  <2>1. /\ Goto(t, "sync", "idle") /\ isSyncFinished' = isSyncFinished
        /\ syncFromInstance(nextInstIndex + 1, key)
    BY <1>6 DEF syncAllInstances
  <2>2. nextInstIndex + 1 \in Insts /\ key \subseteq Units
    BY <1>6, ShareAssumption DEF AllSynced, VarsType, FieldsType, SyncType, Insts
  <2>3. Still
    BY <1>3, <1>4, NoRoundStill
  <2>4. SameThreads
    <3>1. "idle" \in Labels
      BY DEF Labels
    <3>2. QED
      BY <1>1, <2>1, <3>1, OtherThread
  <2>5. \A j \in Insts : Kept(eventOut[j], eventOut'[j], RoundEvents)
    BY <1>1 DEF Kept
  <2>6. RoundInv'
    BY <1>1, <2>1, <2>2, <2>3, <2>4, <2>5, StartRound
  <2>7. pc'[t] = "idle" /\ \A u \in Threads : u # t => pc'[u] = pc[u]
    BY <2>1 DEF Goto, VarsType, ThreadsType
  <2>8. \A u \in Threads : ~Turn(u)' /\ pc'[u] # "dequeue"
    BY <1>3, <2>7 DEF Turn
  <2>9. QED
    BY <1>1, <1>3, <2>1, <2>6, <2>8, TurnPassed
<1>7. QED
  BY <1>5, <1>6

(* The texts of packets are their own texts.                               *)
LEMMA TextsType == VarsType => \A x \in Texts : x \in Packets /\ Text[x] = x
<1> SUFFICES ASSUME VarsType
             PROVE  \A x \in Texts : x \in Packets /\ Text[x] = x
  OBVIOUS
<1>1. args.traffic \in Seq(Packets) /\ arrived \in 0 .. Len(args.traffic) /\ Len(args.traffic) \in Nat
  BY ShareAssumption DEF VarsType, InstancesType
<1>2. \A a \in 1 .. arrived : args.traffic[a] \in Packets
  BY <1>1, ElementOfSeq
<1>3. QED
  BY <1>2, ShareAssumption DEF Texts

(* An echo is a report of the packet returned last.                        *)
LEMMA EchoReported ==
  VarsType /\ lastPacket \in Texts \cup {NoPacket} =>
    \A j \in Insts : Echo(j) => Reported(j, lastPacket) /\ lastPacket \in Texts
<1> SUFFICES ASSUME VarsType, lastPacket \in Texts \cup {NoPacket}, NEW i \in Insts, Echo(i)
             PROVE  Reported(i, lastPacket) /\ lastPacket \in Texts
  OBVIOUS
<1>1. PICK n \in 1 .. Len(eventOut[i]) : eventOut[i][n] = Reprocess(lastPacket)
  BY DEF Echo, Has
<1>2. eventOut[i] \in Seq(Events)
  BY DEF VarsType, ChannelsType
<1>3. PICK m \in Events : m = eventOut[i][n]
  BY <1>2, ElementOfSeq
<1>4. m.type = "Reprocess" /\ m.pkt = lastPacket
  BY <1>1, <1>3 DEF Reprocess
<1>5. m \in [type : {"Reprocess"}, pkt : Packets]
  BY <1>4 DEF Events
<1>6. lastPacket \in Texts
  BY <1>4, <1>5, ShareAssumption
<1>7. Text[m.pkt] = lastPacket
  BY <1>4, <1>6, TextsType
<1>8. m \in ReportsOf(lastPacket)
  BY <1>5, <1>7 DEF ReportsOf
<1>9. QED
  BY <1>3, <1>6, <1>8 DEF Reported, Has

(* The same of the next state.                                             *)
LEMMA EchoReportedNext ==
  ASSUME VarsType', lastPacket' \in Texts' \cup {NoPacket}
  PROVE  \A j \in Insts' : Echo(j)' => Reported(j, lastPacket)'
<1>1. (VarsType /\ lastPacket \in Texts \cup {NoPacket} =>
         \A j \in Insts : Echo(j) => Reported(j, lastPacket) /\ lastPacket \in Texts)'
  BY EchoReported, PTL
<1>2. QED
  BY <1>1

(* A packet that goes out, when no report of one that is held is on its    *)
(* way.                                                                    *)
LEMMA SendNext ==
  ASSUME VarsType, VarsType', args' = args, Still', MarksInv', \A t \in Threads : ~Turn(t)',
         isSyncFinished', ~callFromReprocess', starts' # 0, Len(ofq') = 1, ofq'[1].pkt = lastPacket',
         \A i \in Insts : ~hand'[i].event, lastPacket' \in EventTexts', EventTexts' \subseteq Texts',
         \A i \in Insts, x \in Packets :
           /\ Once(eventOut'[i], ReportsOf(x))
           /\ Reported(i, x)' => x \in Texts' \ EventTexts' /\ \A j \in Insts : Reported(j, x)' => i = j
  PROVE  OneTurn'
<1>1. Insts' = Insts /\ Threads' = Threads
  BY ArgsKept
<1>2. RoundInv' /\ ~Round'
  BY StillRoundNext
<1>4. (VarsType => \A x \in Texts : x \in Packets /\ Text[x] = x)'
  BY TextsType, PTL
<1>5. lastPacket' \in Texts' /\ lastPacket' \in Packets
  BY <1>4
<1>6. \A i \in Insts : ~Echo(i)'
  BY <1>1, <1>5, EchoReportedNext
<1>7. OutInv'
  BY <1>1, <1>6 DEF OutInv
<1>8. TurnInv'
  BY <1>1, <1>2 DEF TurnInv
<1>9. ReportsInv'
  BY <1>1, <1>5 DEF ReportsInv
<1>10. QED
  BY <1>2, <1>7, <1>8, <1>9 DEF OneTurn

(* A thread that has been to all instances returns the oldest packet, or   *)
(* leaves it to the next report.                                           *)
LEMMA DequeueTurn ==
  ASSUME VarsType, VarsType', OneTurn, args' = args, NEW t \in Threads, dequeueAfterSync(t)
  PROVE  OneTurn'
<1>1. /\ UNCHANGED <<isSyncFinished, originalEvents, acked, count, putAcks, chunks, tasks, read, chunk, stateIn,
                     stateOut, eventOut, hand, state, arrived, starts>>
      /\ Goto(t, "dequeue", "idle") /\ dequeueEvent(originalEvents, callFromReprocess)
  BY DEF dequeueAfterSync, chunkVars, nfVars
<1>2. pc[t] = "dequeue"
  BY <1>1 DEF Goto
<1>3. /\ ~Round /\ ~Out /\ ~callFromReprocess /\ isSyncFinished /\ starts # 0
      /\ \A u \in Threads : Turn(u) => u = t
  BY <1>2 DEF OneTurn, TurnInv, Turn
<1>4. pc'[t] = "idle" /\ \A u \in Threads : u # t => pc'[u] = pc[u]
  BY <1>1 DEF Goto, VarsType, ThreadsType
<1>5. \A u \in Threads : ~Turn(u)' /\ pc'[u] # "dequeue"
  BY <1>3, <1>4 DEF Turn
<1>6. SameQueues /\ SameThreads /\ SameChunks /\ MarksInv' /\ SameReports
  <2>1. "idle" \in Labels
    BY DEF Labels
  <2>2. QED
    BY <1>1, <2>1, Silent, OtherThread, MarksFrame, NoReports DEF SameChunks, OneTurn
<1>7. RoundInv /\ Still
  BY <1>3, NoRoundStill DEF OneTurn
<1>8. Insts' = Insts /\ Threads' = Threads
  BY ArgsKept
<1>9. CASE originalEvents = <<>>
  <2>1. UNCHANGED <<lastPacket, currentSource, ofq>> /\ callFromReprocess' = TRUE
    BY <1>1, <1>9 DEF dequeueEvent
  <2>2. RoundInv' /\ \A k \in Kinds : Active(k)' <=> Active(k)
    BY <1>1, <1>6, <1>7, <2>1, RoundFrame
  <2>3. ~Round'
    BY <1>3, <2>2, NoNewRound
  <2>4. ReportsInv' /\ \A i \in Insts : Echo(i)' <=> Echo(i)
    BY <1>1, <1>6, <2>1, ReportsFrame DEF OneTurn
  <2>5. OutInv' /\ ~Out'
    BY <1>1, <1>3, <1>8, <2>1, <2>4 DEF OneTurn, OutInv, Out
  <2>6. TurnInv'
    BY <1>1, <1>3, <1>5, <1>8, <2>3, <2>5 DEF TurnInv
  <2>7. QED
    BY <1>6, <2>2, <2>4, <2>5, <2>6 DEF OneTurn
<1>10. CASE originalEvents # <<>>
  <2>1. PICK e : e = Head(originalEvents)
    OBVIOUS
  <2>2. /\ lastPacket' = e.text /\ ofq' = Append(ofq, [to |-> e.from, pkt |-> e.text])
        /\ callFromReprocess' = FALSE
    BY <1>1, <1>3, <1>10, <2>1 DEF dequeueEvent
  <2>3. e \in Held /\ lastPacket' \in EventTexts
    <3>1. originalEvents \in Seq(Held) /\ Len(originalEvents) \in Nat \ {0}
      BY <1>10, QueueType DEF VarsType, FieldsType
    <3>2. 1 \in 1 .. Len(originalEvents) /\ e = originalEvents[1]
      BY <2>1, <3>1
    <3>3. QED
      BY <2>2, <3>1, <3>2, ElementOfSeq DEF EventTexts
  <2>4. ofq = <<>> /\ \A i \in Insts : ~hand[i].event /\ ~Echo(i)
    BY <1>3 DEF Out
  <2>5. Len(ofq') = 1 /\ ofq'[1].pkt = lastPacket'
    BY <2>2, <2>4
  <2>6. Still'
    BY <1>1, <1>6, <1>7, StillFrame
  <2>7. Texts' = Texts /\ EventTexts' = EventTexts
    BY <1>1 DEF Texts, EventTexts
  <2>8. ReportsInv
    BY DEF OneTurn
  <2>9. \A i \in Insts, x \in Packets :
          /\ Once(eventOut'[i], ReportsOf(x)) /\ (Reported(i, x)' <=> Reported(i, x))
    BY <1>1, <2>8 DEF ReportsInv, Reported
  <2>10. \A i \in Insts, x \in Packets :
           Reported(i, x) => x \in Texts \ EventTexts /\ \A j \in Insts : Reported(j, x) => i = j
    BY <2>4, <2>8 DEF ReportsInv
  <2>11. EventTexts \subseteq Texts
    BY <2>8 DEF ReportsInv
  <2>12. QED
    BY <1>1, <1>3, <1>5, <1>6, <2>2, <2>3, <2>4, <2>5, <2>6, <2>7, <2>9, <2>10, <2>11, SendNext
<1>11. QED
  BY <1>9, <1>10

(* A report is received.                                                   *)
LEMMA ReportTaken ==
  ASSUME VarsType, VarsType', ReportsInv, args' = args, NEW i \in Insts, eventOut[i] # <<>>,
         eventOut' = [eventOut EXCEPT ![i] = Tail(@)], NEW m, m = Head(eventOut[i]), m.type = "Reprocess",
         NEW x, x = Text[m.pkt]
  PROVE  /\ m \in Events /\ m.pkt \in Packets /\ m = Reprocess(m.pkt)
         /\ x \in Packets /\ x \in Texts /\ Reported(i, x)
         /\ \A j \in Insts, y \in Packets : /\ Once(eventOut'[j], ReportsOf(y))
                                            /\ Reported(j, y)' => Reported(j, y) /\ y # x
         /\ m # Reprocess(lastPacket) => \A j \in Insts : Echo(j) => Has(eventOut'[j], {Reprocess(lastPacket)})
         /\ \A j \in Insts : Kept(eventOut[j], eventOut'[j], RoundEvents)
<1>1. eventOut[i] \in Seq(Events) /\ Tail(eventOut[i]) \in Seq(Events) /\ m \in Events
  BY QueueType DEF VarsType, ChannelsType
<1>2. eventOut'[i] = Tail(eventOut[i]) /\ \A j \in Insts : j # i => eventOut'[j] = eventOut[j]
  BY DEF VarsType, ChannelsType
<1>3. m \in [type : {"Reprocess"}, pkt : Packets]
  BY <1>1 DEF Events
<1>4. m.pkt \in Packets /\ m = Reprocess(m.pkt) /\ x \in Packets
  BY <1>3, ShareAssumption DEF Reprocess
<1>5. m \in ReportsOf(x)
  BY <1>3 DEF ReportsOf
<1>6. \A Q : /\ Has(eventOut[i], Q) <=> m \in Q \/ Has(Tail(eventOut[i]), Q)
             /\ Once(eventOut[i], Q) => Once(Tail(eventOut[i]), Q) /\ ~(m \in Q /\ Has(Tail(eventOut[i]), Q))
  BY <1>1, HasTail
<1>7. Reported(i, x)
  BY <1>5, <1>6 DEF Reported
<1>8. x \in Texts /\ \A j \in Insts : Reported(j, x) => i = j
  BY <1>4, <1>7 DEF ReportsInv
<1>9. ASSUME NEW j \in Insts, NEW y \in Packets
      PROVE  Once(eventOut'[j], ReportsOf(y)) /\ (Reported(j, y)' => Reported(j, y) /\ y # x)
  <2>1. Once(eventOut[j], ReportsOf(y))
    BY DEF ReportsInv
  <2>2. CASE j = i
    BY <1>2, <1>5, <1>6, <2>1, <2>2 DEF Reported
  <2>3. CASE j # i
    BY <1>2, <1>8, <2>1, <2>3 DEF Reported
  <2>4. QED
    BY <2>2, <2>3
<1>10. ASSUME m # Reprocess(lastPacket), NEW j \in Insts, Echo(j)
       PROVE  Has(eventOut'[j], {Reprocess(lastPacket)})
  BY <1>2, <1>6, <1>10 DEF Echo
<1>11. m \notin RoundEvents
  BY <1>1, NoReports
<1>12. \A j \in Insts : Kept(eventOut[j], eventOut'[j], RoundEvents)
  BY <1>2, <1>11 DEF Kept
<1>13. QED
  BY <1>1, <1>4, <1>7, <1>8, <1>9, <1>10, <1>12

(* The texts the operation holds, with one more ...                        *)
LEMMA PutEventTexts ==
  ASSUME VarsType, VarsType', args' = args, NEW i \in Insts, NEW x \in Packets, originalEvents' = PutEvent(x, i)
  PROVE  originalEvents' # <<>> /\ EventTexts' \subseteq EventTexts \cup {x} /\ Len(originalEvents') \in Nat \ {0}
<1>1. originalEvents \in Seq(Held) /\ originalEvents' \in Seq(Held) /\ Len(originalEvents) \in Nat
  BY ArgsKept DEF VarsType, FieldsType
<1>2. DOMAIN originalEvents = 1 .. Len(originalEvents)
  BY <1>1
<1>3. PICK e : e = [text |-> x, from |-> i]
  OBVIOUS
<1>3a. e.text = x
  BY <1>3
<1>4. CASE \E n \in DOMAIN originalEvents : originalEvents[n].text = x
  <2>1. originalEvents' = [n \in 1 .. Len(originalEvents) |->
                             IF originalEvents[n].text = x THEN e ELSE originalEvents[n]]
    BY <1>2, <1>3, <1>4 DEF PutEvent
  <2>2. Len(originalEvents') = Len(originalEvents)
    BY <1>1, <2>1
  <2>3. \A n \in 1 .. Len(originalEvents) :
          originalEvents'[n] = e \/ originalEvents'[n] = originalEvents[n]
    BY <2>1
  <2>4. Len(originalEvents) # 0
    BY <1>1, <1>2, <1>4
  <2>5. originalEvents' # <<>>
    BY <1>1, <2>2, <2>4
  <2>6. QED
    BY <1>1, <1>3a, <2>2, <2>3, <2>4, <2>5 DEF EventTexts
<1>5. CASE ~\E n \in DOMAIN originalEvents : originalEvents[n].text = x
  <2>1. originalEvents' = Append(originalEvents, e)
    BY <1>3, <1>5 DEF PutEvent
  <2>2. Len(originalEvents') = Len(originalEvents) + 1
    BY <1>1, <2>1
  <2>3. \A n \in 1 .. Len(originalEvents') :
          originalEvents'[n] = e \/ (n \in 1 .. Len(originalEvents) /\ originalEvents'[n] = originalEvents[n])
    BY <1>1, <2>1, <2>2
  <2>4. originalEvents' # <<>>
    BY <1>1, <2>2
  <2>5. QED
    BY <1>1, <1>3a, <2>2, <2>3, <2>4 DEF EventTexts
<1>6. QED
  BY <1>4, <1>5

(* What is left when one is removed was there.                             *)
LEMMA RemovedOf ==
  ASSUME NEW S, NEW s \in Seq(S), NEW n \in 1 .. Len(s), NEW r, r = RemoveAt(s, n),
         NEW a \in 1 .. Len(r)
  PROVE  \E b \in 1 .. Len(s) : r[a] = s[b]
  BY RemovedFrom

(* ... and one less.                                                       *)
LEMMA RemoveEventTexts ==
  ASSUME VarsType, NEW x, originalEvents' = RemoveEvent(x)
  PROVE  EventTexts' \subseteq EventTexts
<1>1. originalEvents \in Seq(Held) /\ DOMAIN originalEvents = 1 .. Len(originalEvents)
  BY DEF VarsType, FieldsType
<1>2. PICK held : held = {n \in DOMAIN originalEvents : originalEvents[n].text = x}
  OBVIOUS
<1>3. CASE held = {}
  <2>1. originalEvents' = originalEvents
    BY <1>2, <1>3 DEF RemoveEvent
  <2>2. QED
    BY <2>1 DEF EventTexts
<1>4. CASE held # {}
  <2>1. PICK n : n = CHOOSE c \in held : TRUE
    OBVIOUS
  <2>2. n \in held
    BY <1>4, <2>1
  <2>3. n \in 1 .. Len(originalEvents) /\ originalEvents' = RemoveAt(originalEvents, n)
    BY <1>1, <1>2, <1>4, <2>1, <2>2 DEF RemoveEvent
  <2>4. \A a \in 1 .. Len(originalEvents') : \E b \in 1 .. Len(originalEvents) :
          originalEvents'[a] = originalEvents[b]
    <3>1. PICK S : S = Held
      OBVIOUS
    <3>2. PICK s \in Seq(S) : s = originalEvents
      BY <1>1, <3>1
    <3>3. PICK r : r = originalEvents'
      OBVIOUS
    <3>4. PICK l \in 1 .. Len(s) : l = n /\ r = RemoveAt(s, l)
      BY <2>3, <3>2, <3>3
    <3>5. \A a \in 1 .. Len(r) : \E b \in 1 .. Len(s) : r[a] = s[b]
      BY <3>4, RemovedOf
    <3>6. QED
      BY <3>2, <3>3, <3>4, <3>5
  <2>5. QED
    BY <2>4 DEF EventTexts
<1>5. QED
  BY <1>3, <1>4

(* What every report that is received leaves alone.                        *)
LEMMA ReportFrame ==
  ASSUME VarsType, OneTurn, NEW i \in Insts, receiveReprocess(i), args' = args
  PROVE  /\ UNCHANGED <<isSyncFinished, chunks, tasks, pc, read, chunk, stateOut, hand, state, arrived, starts>>
         /\ eventOut[i] # <<>> /\ Head(eventOut[i]).type = "Reprocess"
         /\ eventOut' = [eventOut EXCEPT ![i] = Tail(@)]
         /\ SameThreads /\ SameChunks /\ MarksInv' /\ Texts' = Texts
         /\ \A t \in Threads : (Turn(t)' <=> Turn(t)) /\ pc'[t] = pc[t]
<1>1. /\ UNCHANGED <<isSyncFinished, chunks, tasks, pc, read, chunk, stateOut, hand, state, arrived, starts>>
      /\ eventOut[i] # <<>> /\ Head(eventOut[i]).type = "Reprocess"
      /\ eventOut' = [eventOut EXCEPT ![i] = Tail(@)]
  BY DEF receiveReprocess, FromEvent, chunkVars, threads, nfVars
<1>2. SameThreads /\ SameChunks /\ MarksInv'
  BY <1>1, NoThread, MarksFrame DEF SameChunks, OneTurn
<1>3. Texts' = Texts /\ \A t \in Threads : (Turn(t)' <=> Turn(t)) /\ pc'[t] = pc[t]
  BY <1>1 DEF Texts, Turn
<1>4. QED
  BY <1>1, <1>2, <1>3

(* Another report than the echo is taken.                                  *)
LEMMA EchoKept ==
  ASSUME VarsType, VarsType', ReportsInv, args' = args, lastPacket' = lastPacket, NEW i \in Insts, eventOut[i] # <<>>,
         eventOut' = [eventOut EXCEPT ![i] = Tail(@)], NEW m, m = Head(eventOut[i]), m.type = "Reprocess",
         m # Reprocess(lastPacket)
  PROVE  \A j \in Insts : Echo(j)' <=> Echo(j)
<1>1. PICK x : x = Text[m.pkt]
  OBVIOUS
<1>2. m # Reprocess(lastPacket) => \A j \in Insts : Echo(j) => Has(eventOut'[j], {Reprocess(lastPacket)})
  BY <1>1, ReportTaken
<1>3. ASSUME NEW j \in Insts, Echo(j)
      PROVE  Echo(j)'
  <2>1. Has(eventOut'[j], {Reprocess(lastPacket)})
    BY <1>2, <1>3
  <2>2. Reprocess(lastPacket)' = Reprocess(lastPacket)
    BY DEF Reprocess
  <2>3. QED
    BY <2>1, <2>2 DEF Echo
<1>4. ASSUME NEW j \in Insts, Echo(j)'
      PROVE  Echo(j)
  <2>1. Reprocess(lastPacket)' = Reprocess(lastPacket)
    BY DEF Reprocess
  <2>2. Has(eventOut'[j], {Reprocess(lastPacket)})
    BY <1>4, <2>1 DEF Echo
  <2>3. CASE j = i
    <3>1. eventOut[i] \in Seq(Events) /\ eventOut'[i] = Tail(eventOut[i])
      BY <1>2 DEF VarsType, ChannelsType
    <3>2. Has(eventOut[i], {Reprocess(lastPacket)})
      BY <1>2, <2>2, <2>3, <3>1, HasTail
    <3>3. QED
      BY <2>3, <3>2 DEF Echo
  <2>4. CASE j # i
    <3>1. eventOut'[j] = eventOut[j]
      BY <1>2, <2>4 DEF VarsType, ChannelsType
    <3>2. QED
      BY <2>2, <3>1 DEF Echo
  <2>5. QED
    BY <2>3, <2>4
<1>5. QED
  BY <1>3, <1>4
(* A report that is only held.                                             *)
LEMMA HoldReport ==
  ASSUME VarsType, VarsType', OneTurn, args' = args, NEW i \in Insts, receiveReprocess(i),
         NEW m, m = Head(eventOut[i]), m.pkt # lastPacket, originalEvents' = PutEvent(Text[m.pkt], i),
         UNCHANGED <<callFromReprocess, lastPacket, acked, count, putAcks, currentSource, stateIn, ofq>>
  PROVE  OneTurn'
<1>1. PICK x : x = Text[m.pkt]
  OBVIOUS
<1>2. /\ UNCHANGED <<isSyncFinished, chunks, tasks, pc, read, chunk, stateOut, hand, state, arrived, starts>>
      /\ eventOut[i] # <<>> /\ m.type = "Reprocess" /\ eventOut' = [eventOut EXCEPT ![i] = Tail(@)]
      /\ SameThreads /\ SameChunks /\ MarksInv' /\ Texts' = Texts
      /\ \A t \in Threads : (Turn(t)' <=> Turn(t)) /\ pc'[t] = pc[t]
  BY ReportFrame
<1>3. RoundInv /\ ReportsInv
  BY DEF OneTurn
<1>4. /\ m = Reprocess(m.pkt) /\ x \in Packets /\ x \in Texts
      /\ \A j \in Insts, y \in Packets : /\ Once(eventOut'[j], ReportsOf(y))
                                         /\ Reported(j, y)' => Reported(j, y) /\ y # x
      /\ m # Reprocess(lastPacket) => \A j \in Insts : Echo(j) => Has(eventOut'[j], {Reprocess(lastPacket)})
      /\ \A j \in Insts : Kept(eventOut[j], eventOut'[j], RoundEvents)
  BY <1>1, <1>2, <1>3, ReportTaken
<1>5. m # Reprocess(lastPacket)
  BY DEF Reprocess
<1>6. Insts' = Insts /\ Threads' = Threads
  BY ArgsKept
<1>7. EventTexts' \subseteq EventTexts \cup {x}
  BY <1>1, <1>4, PutEventTexts
<1>8. SameQueues
  BY <1>2, <1>4 DEF SameQueues, Kept
<1>9. RoundInv' /\ \A k \in Kinds : Active(k)' <=> Active(k)
  BY <1>2, <1>3, <1>8, RoundFrame
<1>10. Round' => Round
  BY <1>9, NoNewRound
<1>11. \A j \in Insts : Echo(j)' <=> Echo(j)
  BY <1>2, <1>3, <1>5, EchoKept
<1>12. ReportsInv'
  <2>1. lastPacket' \in Texts' \cup {NoPacket} /\ EventTexts' \subseteq Texts'
    BY <1>2, <1>3, <1>4, <1>7 DEF ReportsInv
  <2>2. ASSUME NEW j \in Insts, NEW y \in Packets
        PROVE  /\ Once(eventOut'[j], ReportsOf(y))
               /\ Reported(j, y)' => /\ y \in Texts'
                                     /\ y \in EventTexts' \cup {lastPacket'} => y = lastPacket' /\ Echo(j)'
                                     /\ \A l \in Insts : Reported(l, y)' => j = l
    <3>1. Once(eventOut'[j], ReportsOf(y)) /\ \A l \in Insts : (Reported(l, y)' => Reported(l, y) /\ y # x)
      BY <1>4
    <3>2. Reported(j, y) => /\ y \in Texts
                            /\ y \in EventTexts \cup {lastPacket} => y = lastPacket /\ Echo(j)
                            /\ \A l \in Insts : Reported(l, y) => j = l
      BY <1>3 DEF ReportsInv
    <3>3. QED
      BY <1>2, <1>7, <1>11, <3>1, <3>2
  <2>3. QED
    BY <1>6, <2>1, <2>2 DEF ReportsInv
<1>13. OutInv' /\ (Out' <=> Out)
  BY <1>2, <1>6, <1>11 DEF OneTurn, OutInv, Out
<1>14. TurnInv'
  <2>1. TurnInv
    BY DEF OneTurn
  <2>2. \A t, u \in Threads : Turn(t)' /\ Turn(u)' => t = u
    BY <1>2, <2>1 DEF TurnInv
  <2>3. \A t \in Threads : Turn(t)' => ~Round' /\ ~Out' /\ ~callFromReprocess'
    BY <1>2, <1>10, <1>13, <2>1 DEF TurnInv
  <2>4. /\ Round' => ~Out' /\ ~callFromReprocess'
        /\ Out' => ~callFromReprocess'
        /\ Out' \/ callFromReprocess' => isSyncFinished'
        /\ ~isSyncFinished' => lastPacket' = NoPacket
    BY <1>2, <1>10, <1>13, <2>1 DEF TurnInv
  <2>5. \A t \in Threads : pc'[t] = "dequeue" => isSyncFinished'
    BY <1>2, <2>1 DEF TurnInv
  <2>6. starts' = 0 => ~Round' /\ ~isSyncFinished' /\ \A t \in Threads : ~Turn(t)'
    BY <1>2, <1>10, <2>1 DEF TurnInv
  <2>7. QED
    BY <1>6, <2>2, <2>3, <2>4, <2>5, <2>6 DEF TurnInv
<1>15. QED
  BY <1>2, <1>9, <1>12, <1>13, <1>14 DEF OneTurn

(* The echo of the packet returned last starts a round.                    *)
LEMMA EchoTurn ==
  ASSUME VarsType, VarsType', OneTurn, args' = args, NEW i \in Insts, receiveReprocess(i),
         isSyncFinished, NEW m, m = Head(eventOut[i]), m.pkt = lastPacket,
         originalEvents' = RemoveEvent(Text[m.pkt]), syncFromInstance(i, {UnitOf[m.pkt]}),
         UNCHANGED <<callFromReprocess, lastPacket, ofq>>
  PROVE  OneTurn'
<1>1. PICK x : x = Text[m.pkt]
  OBVIOUS
<1>2. /\ UNCHANGED <<isSyncFinished, chunks, tasks, pc, read, chunk, stateOut, hand, state, arrived, starts>>
      /\ eventOut[i] # <<>> /\ m.type = "Reprocess" /\ eventOut' = [eventOut EXCEPT ![i] = Tail(@)]
      /\ SameThreads /\ SameChunks /\ MarksInv' /\ Texts' = Texts
      /\ \A t \in Threads : (Turn(t)' <=> Turn(t)) /\ pc'[t] = pc[t]
  BY ReportFrame
<1>3. RoundInv /\ ReportsInv
  BY DEF OneTurn
<1>4. /\ m = Reprocess(m.pkt) /\ m.pkt \in Packets /\ x \in Packets /\ x \in Texts
      /\ \A j \in Insts, y \in Packets : /\ Once(eventOut'[j], ReportsOf(y))
                                         /\ Reported(j, y)' => Reported(j, y) /\ y # x
      /\ \A j \in Insts : Kept(eventOut[j], eventOut'[j], RoundEvents)
  BY <1>1, <1>2, <1>3, ReportTaken
<1>5. lastPacket \in Texts /\ lastPacket = x
  <2>1. lastPacket # NoPacket
    BY <1>4, ShareAssumption
  <2>2. lastPacket \in Texts
    BY <1>3, <2>1 DEF ReportsInv
  <2>3. QED
    BY <1>1, <2>2, TextsType
<1>6. Echo(i)
  <2>1. eventOut[i] \in Seq(Events)
    BY DEF VarsType, ChannelsType
  <2>2. Has(eventOut[i], {Reprocess(lastPacket)})
    BY <1>2, <1>4, <2>1, HasTail
  <2>3. QED
    BY <2>2 DEF Echo
<1>7. /\ Out /\ ~Round /\ ~callFromReprocess /\ (\A t \in Threads : ~Turn(t)) /\ starts # 0
      /\ ofq = <<>> /\ \A j \in Insts : ~hand[j].event
  <2>1. Out
    BY <1>6 DEF Out
  <2>2. QED
    BY <1>6, <2>1 DEF OneTurn, TurnInv, OutInv
<1>8. RoundInv'
  <2>1. Still
    BY <1>3, <1>7, NoRoundStill
  <2>2. PICK u \in Units : u = UnitOf[m.pkt]
    BY <1>4, ShareAssumption
  <2>3. {u} \subseteq Units /\ syncFromInstance(i, {u})
    BY <2>2
  <2>4. QED
    BY <1>2, <1>4, <2>1, <2>3, StartRound
<1>9. Insts' = Insts /\ Threads' = Threads
  BY ArgsKept
<1>10. \A j \in Insts : ~Echo(j)'
  <2>1. lastPacket' \in Texts'
    BY <1>2, <1>5
  <2>2. \A j \in Insts : Echo(j)' => Reported(j, lastPacket)'
    BY <1>9, <2>1, EchoReportedNext
  <2>3. \A j \in Insts : ~Reported(j, x)'
    BY <1>4
  <2>4. \A j \in Insts : Reported(j, lastPacket)' => Reported(j, x)'
    BY <1>5 DEF Reported, ReportsOf
  <2>5. QED
    BY <2>2, <2>3, <2>4
<1>11. OutInv' /\ ~Out'
  BY <1>2, <1>7, <1>9, <1>10 DEF OutInv, Out
<1>12. TurnInv'
  BY <1>2, <1>7, <1>9, <1>11 DEF TurnInv, Turn
<1>13. ReportsInv'
  <2>1. EventTexts' \subseteq EventTexts
    BY <1>1, RemoveEventTexts
  <2>2. lastPacket' \in Texts' \cup {NoPacket} /\ EventTexts' \subseteq Texts'
    BY <1>2, <1>3, <2>1 DEF ReportsInv
  <2>3. ASSUME NEW j \in Insts, NEW y \in Packets
        PROVE  /\ Once(eventOut'[j], ReportsOf(y))
               /\ Reported(j, y)' => /\ y \in Texts' /\ y \notin EventTexts' \cup {lastPacket'}
                                     /\ \A l \in Insts : Reported(l, y)' => j = l
    <3>1. Once(eventOut'[j], ReportsOf(y)) /\ \A l \in Insts : (Reported(l, y)' => Reported(l, y) /\ y # x)
      BY <1>4
    <3>2. Reported(j, y) => /\ y \in Texts
                            /\ y \in EventTexts \cup {lastPacket} => y = lastPacket
                            /\ \A l \in Insts : Reported(l, y) => j = l
      BY <1>3 DEF ReportsInv
    <3>3. QED
      BY <1>2, <1>5, <2>1, <3>1, <3>2
  <2>4. QED
    BY <1>9, <2>2, <2>3 DEF ReportsInv
<1>14. QED
  BY <1>2, <1>8, <1>11, <1>12, <1>13 DEF OneTurn

(* A report that comes while nothing is out makes the operation return the *)
(* oldest packet.                                                          *)
LEMMA ReportSends ==
  ASSUME VarsType, VarsType', OneTurn, args' = args, NEW i \in Insts, receiveReprocess(i),
         NEW m, m = Head(eventOut[i]), m.pkt # lastPacket, originalEvents' = PutEvent(Text[m.pkt], i),
         callFromReprocess, dequeueEvent(PutEvent(Text[m.pkt], i), FALSE), UNCHANGED <<acked, stateIn>>
  PROVE  OneTurn'
<1>1. PICK x : x = Text[m.pkt]
  OBVIOUS
<1>2. /\ UNCHANGED <<isSyncFinished, chunks, tasks, pc, read, chunk, stateOut, hand, state, arrived, starts>>
      /\ eventOut[i] # <<>> /\ m.type = "Reprocess" /\ eventOut' = [eventOut EXCEPT ![i] = Tail(@)]
      /\ SameThreads /\ SameChunks /\ MarksInv' /\ Texts' = Texts
      /\ \A t \in Threads : (Turn(t)' <=> Turn(t)) /\ pc'[t] = pc[t]
  BY ReportFrame
<1>3. RoundInv /\ ReportsInv
  BY DEF OneTurn
<1>4. /\ x \in Packets /\ x \in Texts
      /\ \A j \in Insts, y \in Packets : /\ Once(eventOut'[j], ReportsOf(y))
                                         /\ Reported(j, y)' => Reported(j, y) /\ y # x
      /\ \A j \in Insts : Kept(eventOut[j], eventOut'[j], RoundEvents)
  BY <1>1, <1>2, <1>3, ReportTaken
<1>5. originalEvents' # <<>> /\ EventTexts' \subseteq EventTexts \cup {x} /\ Len(originalEvents') \in Nat \ {0}
  BY <1>1, <1>4, PutEventTexts
<1>6. /\ ~Out /\ ~Round /\ (\A t \in Threads : ~Turn(t)) /\ isSyncFinished /\ starts # 0
  BY DEF OneTurn, TurnInv
<1>7. ofq = <<>> /\ \A j \in Insts : ~hand[j].event /\ ~Echo(j)
  BY <1>6 DEF Out
<1>8. PICK es : es = originalEvents'
  OBVIOUS
<1>9. PICK e : e = Head(es)
  OBVIOUS
<1>10. /\ lastPacket' = e.text /\ ofq' = Append(ofq, [to |-> e.from, pkt |-> e.text])
       /\ callFromReprocess' = FALSE
  BY <1>5, <1>8, <1>9 DEF dequeueEvent
<1>11. lastPacket' \in EventTexts'
  <2>1. 1 \in 1 .. Len(originalEvents') /\ e = originalEvents'[1]
    BY <1>5, <1>8, <1>9
  <2>2. QED
    BY <1>10, <2>1 DEF EventTexts
<1>12. Len(ofq') = 1 /\ ofq'[1].pkt = lastPacket'
  BY <1>7, <1>10
<1>13. Still'
  <2>1. Still
    BY <1>3, <1>6, NoRoundStill
  <2>2. SameQueues
    BY <1>2, <1>4 DEF SameQueues, Kept
  <2>3. QED
    BY <1>2, <2>1, <2>2, StillFrame
<1>14. EventTexts' \subseteq Texts'
  BY <1>2, <1>3, <1>4, <1>5 DEF ReportsInv
<1>15. ASSUME NEW j \in Insts, NEW y \in Packets
       PROVE  /\ Once(eventOut'[j], ReportsOf(y))
              /\ Reported(j, y)' => y \in Texts' \ EventTexts' /\ \A l \in Insts : Reported(l, y)' => j = l
  <2>1. Once(eventOut'[j], ReportsOf(y)) /\ \A l \in Insts : (Reported(l, y)' => Reported(l, y) /\ y # x)
    BY <1>4
  <2>2. Reported(j, y) => y \in Texts /\ y \notin EventTexts /\ \A l \in Insts : Reported(l, y) => j = l
    BY <1>3, <1>7 DEF ReportsInv
  <2>3. QED
    BY <1>2, <1>5, <2>1, <2>2
<1>16. QED
  BY <1>2, <1>6, <1>7, <1>10, <1>11, <1>12, <1>13, <1>14, <1>15, SendNext

(* A report, of any kind.                                                  *)
LEMMA ReportTurn ==
  ASSUME VarsType, VarsType', OneTurn, args' = args, NEW i \in Insts, receiveReprocess(i)
  PROVE  OneTurn'
<1>1. PICK m : m = Head(eventOut[i])
  OBVIOUS
<1>2. CASE ~isSyncFinished
  <2>1. /\ originalEvents' = PutEvent(Text[m.pkt], i)
        /\ UNCHANGED <<callFromReprocess, lastPacket, acked, count, putAcks, currentSource, stateIn, ofq>>
    BY <1>1, <1>2 DEF receiveReprocess, syncVars
  <2>2. lastPacket = NoPacket
    BY <1>2 DEF OneTurn, TurnInv
  <2>3. m.pkt \in Packets
    <3>1. ReportsInv
      BY DEF OneTurn
    <3>2. PICK x : x = Text[m.pkt]
      OBVIOUS
    <3>3. eventOut[i] # <<>> /\ m.type = "Reprocess" /\ eventOut' = [eventOut EXCEPT ![i] = Tail(@)]
      BY <1>1, ReportFrame
    <3>4. QED
      BY <1>1, <3>1, <3>2, <3>3, ReportTaken
  <2>4. m.pkt # lastPacket
    BY <2>2, <2>3, ShareAssumption
  <2>5. QED
    BY <1>1, <2>1, <2>4, HoldReport
<1>3. CASE isSyncFinished /\ lastPacket = m.pkt
  <2>1. /\ originalEvents' = RemoveEvent(Text[m.pkt]) /\ syncFromInstance(i, {UnitOf[m.pkt]})
        /\ UNCHANGED <<callFromReprocess, lastPacket, ofq>>
    BY <1>1, <1>3 DEF receiveReprocess
  <2>2. QED
    BY <1>1, <1>3, <2>1, EchoTurn
<1>4. CASE isSyncFinished /\ lastPacket # m.pkt
  <2>1. /\ originalEvents' = PutEvent(Text[m.pkt], i) /\ UNCHANGED <<acked, count, putAcks, stateIn>>
        /\ IF callFromReprocess
             THEN dequeueEvent(PutEvent(Text[m.pkt], i), FALSE)
             ELSE UNCHANGED <<callFromReprocess, lastPacket, currentSource, ofq>>
    BY <1>1, <1>4 DEF receiveReprocess
  <2>2. CASE callFromReprocess
    <3>1. dequeueEvent(PutEvent(Text[m.pkt], i), FALSE)
      BY <2>1, <2>2
    <3>2. QED
      BY <1>1, <1>4, <2>1, <2>2, <3>1, ReportSends
  <2>3. CASE ~callFromReprocess
    BY <1>1, <1>4, <2>1, <2>3, HoldReport
  <2>4. QED
    BY <2>2, <2>3
<1>5. QED
  BY <1>2, <1>3, <1>4

(* A report is sent, of a text of which none is on its way.                *)
LEMMA ReportSent ==
  ASSUME VarsType, VarsType', ReportsInv, args' = args, NEW i \in Insts, NEW p \in Packets,
         eventOut'[i] = Append(eventOut[i], Reprocess(p)), \A j \in Insts : j # i => eventOut'[j] = eventOut[j],
         NEW x, x = Text[p], \A j \in Insts : ~Reported(j, x)
  PROVE  /\ \A j \in Insts, y \in Packets : /\ Reported(j, y)' <=> Reported(j, y) \/ (j = i /\ y = x)
                                            /\ Once(eventOut'[j], ReportsOf(y))
         /\ lastPacket' = lastPacket => \A j \in Insts : Echo(j)' <=> Echo(j) \/ (j = i /\ p = lastPacket)
         /\ \A j \in Insts : Kept(eventOut[j], eventOut'[j], RoundEvents)
<1>1. PICK m : m = Reprocess(p)
  OBVIOUS
<1>2. m \in Events /\ m.type = "Reprocess" /\ m.pkt = p
  BY <1>1 DEF Reprocess, Events
<1>3. eventOut[i] \in Seq(Events)
  BY DEF VarsType, ChannelsType
<1>4. \A Q : /\ Has(eventOut'[i], Q) <=> Has(eventOut[i], Q) \/ m \in Q
             /\ Once(eventOut'[i], Q) <=> Once(eventOut[i], Q) /\ ~(Has(eventOut[i], Q) /\ m \in Q)
  <2>1. eventOut'[i] = Append(eventOut[i], m)
    BY <1>1
  <2>2. \A Q : /\ Has(Append(eventOut[i], m), Q) <=> Has(eventOut[i], Q) \/ m \in Q
               /\ Once(Append(eventOut[i], m), Q) <=> Once(eventOut[i], Q) /\ ~(Has(eventOut[i], Q) /\ m \in Q)
    BY <1>2, <1>3, HasAppend
  <2>3. QED
    BY <2>1, <2>2
<1>5. \A y : m \in ReportsOf(y) <=> y = x
  BY <1>2, Sorted
<1>6. ASSUME NEW j \in Insts, NEW y \in Packets
      PROVE  /\ Reported(j, y)' <=> Reported(j, y) \/ (j = i /\ y = x)
             /\ Once(eventOut'[j], ReportsOf(y))
  <2>1. Once(eventOut[j], ReportsOf(y))
    BY DEF ReportsInv
  <2>2. CASE j = i
    BY <1>4, <1>5, <2>1, <2>2 DEF Reported
  <2>3. CASE j # i
    BY <2>1, <2>3 DEF Reported
  <2>4. QED
    BY <2>2, <2>3
<1>7. ASSUME lastPacket' = lastPacket, NEW j \in Insts
      PROVE  Echo(j)' <=> Echo(j) \/ (j = i /\ p = lastPacket)
  <2>1. Reprocess(lastPacket)' = Reprocess(lastPacket)
    BY <1>7 DEF Reprocess
  <2>2. m \in {Reprocess(lastPacket)} <=> p = lastPacket
    BY <1>1, <1>2 DEF Reprocess
  <2>3. CASE j = i
    BY <1>4, <2>1, <2>2, <2>3 DEF Echo
  <2>4. CASE j # i
    BY <2>1, <2>4 DEF Echo
  <2>5. QED
    BY <2>3, <2>4
<1>8. m \notin RoundEvents
  BY <1>2, NoReports
<1>9. \A j \in Insts : Kept(eventOut[j], eventOut'[j], RoundEvents)
  BY <1>1, <1>8 DEF Kept
<1>10. QED
  BY <1>6, <1>7, <1>9

(* Packets come, go and are processed: the turn stays where it is.         *)
LEMMA SameTurn ==
  ASSUME VarsType, VarsType', OneTurn, args' = args,
         UNCHANGED <<isSyncFinished, callFromReprocess, lastPacket, pc, read, chunk, starts, acked, count, putAcks,
                     currentSource, chunks, tasks, stateIn, stateOut>>,
         \A j \in Insts : Kept(eventOut[j], eventOut'[j], RoundEvents), Out' => Out
  PROVE  RoundInv' /\ TurnInv'
<1>1. Insts' = Insts /\ Threads' = Threads
  BY ArgsKept
<1>2. SameThreads /\ SameChunks
  BY NoThread DEF SameChunks
<1>3. SameQueues
  BY DEF SameQueues, Kept
<1>4. RoundInv' /\ \A k \in Kinds : Active(k)' <=> Active(k)
  BY <1>2, <1>3, RoundFrame DEF OneTurn
<1>5. Round' => Round
  BY <1>4, NoNewRound
<1>6. \A t \in Threads : Turn(t)' <=> Turn(t)
  BY DEF Turn
<1>7. TurnInv
  BY DEF OneTurn
<1>8. TurnInv'
  <2>1. \A t, u \in Threads : Turn(t)' /\ Turn(u)' => t = u
    BY <1>6, <1>7 DEF TurnInv
  <2>2. \A t \in Threads : Turn(t)' => ~Round' /\ ~Out' /\ ~callFromReprocess'
    BY <1>5, <1>6, <1>7 DEF TurnInv
  <2>3. /\ Round' => ~Out' /\ ~callFromReprocess'
        /\ Out' => ~callFromReprocess'
        /\ Out' \/ callFromReprocess' => isSyncFinished'
        /\ ~isSyncFinished' => lastPacket' = NoPacket
    BY <1>5, <1>7 DEF TurnInv
  <2>4. \A t \in Threads : pc'[t] = "dequeue" => isSyncFinished'
    BY <1>7 DEF TurnInv
  <2>5. starts' = 0 => ~Round' /\ ~isSyncFinished' /\ \A t \in Threads : ~Turn(t)'
    BY <1>5, <1>6, <1>7 DEF TurnInv
  <2>6. QED
    BY <1>1, <2>1, <2>2, <2>3, <2>4, <2>5 DEF TurnInv
<1>9. QED
  BY <1>4, <1>8

(* A packet arrives and may be reported: the first of its text.            *)
LEMMA ArriveSame ==
  ASSUME VarsType, VarsType', OneTurn, args' = args, DistinctTraffic, NEW i \in Insts,
         sdmbn_preprocess_packet(i), NEW x, x = Text[args.traffic[arrived + 1]]
  PROVE  /\ \A j \in Insts : hand'[j].event = hand[j].event /\ (hand[j].event => hand'[j] = hand[j])
         /\ \A j \in Insts : Kept(eventOut[j], eventOut'[j], RoundEvents)
         /\ \A j \in Insts : Echo(j)' <=> Echo(j)
         /\ \A j \in Insts, y \in Packets : /\ Once(eventOut'[j], ReportsOf(y))
                                            /\ Reported(j, y)' => Reported(j, y) \/ (j = i /\ y = x)
         /\ x \in Packets /\ x \notin Texts /\ Texts' = Texts \cup {x} /\ x # lastPacket /\ \A j \in Insts : ~Reported(j, x)
<1>1. PICK p : p = args.traffic[arrived + 1]
  OBVIOUS
<1>2. x = Text[p]
  BY <1>1
<1>3. /\ UNCHANGED <<isSyncFinished, callFromReprocess, lastPacket, originalEvents, pc, read, chunk, starts, acked,
                     count, putAcks, currentSource, chunks, tasks, stateIn, stateOut, ofq, state>>
      /\ arrived < Len(args.traffic) /\ arrived' = arrived + 1 /\ hand[i] = EmptyHand
  BY DEF sdmbn_preprocess_packet, opVars, syncVars, chunkVars, threads
<1>4. /\ args.traffic \in Seq(Packets) /\ Len(args.traffic) \in Nat /\ arrived \in 0 .. Len(args.traffic)
  BY ShareAssumption DEF VarsType, InstancesType
<1>5. p \in Packets /\ x \in Packets /\ arrived + 1 \in 1 .. Len(args.traffic)
  BY <1>1, <1>2, <1>3, <1>4, ElementOfSeq, ShareAssumption
<1>6. x \notin Texts /\ Texts' = Texts \cup {x}
  <2>1. \A a \in 1 .. arrived : Text[args.traffic[a]] # x
    <3>1. ASSUME NEW a \in 1 .. arrived, Text[args.traffic[a]] = x
          PROVE  FALSE
      <4>1. a \in 1 .. Len(args.traffic) /\ a # arrived + 1
        BY <1>4, <3>1
      <4>2. PICK b \in 1 .. Len(args.traffic) : b = arrived + 1
        BY <1>5
      <4>3. Text[args.traffic[a]] = Text[args.traffic[b]]
        BY <1>1, <1>2, <3>1, <4>2
      <4>4. a = b
        BY <4>1, <4>2, <4>3 DEF DistinctTraffic
      <4>5. QED
        BY <4>1, <4>2, <4>4
    <3>2. QED
      BY <3>1
  <2>2. 1 .. arrived' = 1 .. arrived \cup {arrived + 1}
    BY <1>3, <1>4
  <2>3. QED
    BY <1>1, <1>2, <2>1, <2>2 DEF Texts
<1>7. ReportsInv /\ MarksInv /\ MarksInv'
  BY <1>3, MarksFrame DEF OneTurn
<1>8. p # lastPacket /\ x # lastPacket
  <2>1. lastPacket \in Texts \cup {NoPacket}
    BY <1>7 DEF ReportsInv
  <2>2. QED
    BY <1>2, <1>5, <1>6, <2>1, TextsType, ShareAssumption
<1>9. EventTexts' = EventTexts /\ Insts' = Insts
  BY <1>3, ArgsKept DEF EventTexts
<1>10. \A j \in Insts : ~Reported(j, x)
  BY <1>5, <1>6, <1>7 DEF ReportsInv
<1>11. SUFFICES /\ \A j \in Insts : hand'[j].event = hand[j].event /\ (hand[j].event => hand'[j] = hand[j])
                /\ \A j \in Insts : Kept(eventOut[j], eventOut'[j], RoundEvents)
                /\ \A j \in Insts : Echo(j)' <=> Echo(j)
                /\ \A j \in Insts, y \in Packets : /\ Once(eventOut'[j], ReportsOf(y))
                                                   /\ Reported(j, y)' => Reported(j, y) \/ (j = i /\ y = x)
  BY <1>5, <1>6, <1>8, <1>10
<1>12. CASE filter[i]
  <2>1. eventOut' = [eventOut EXCEPT ![i] = Append(@, Reprocess(p))] /\ hand' = hand
    BY <1>1, <1>12 DEF sdmbn_preprocess_packet
  <2>2. eventOut'[i] = Append(eventOut[i], Reprocess(p)) /\ \A j \in Insts : j # i => eventOut'[j] = eventOut[j]
    BY <2>1 DEF VarsType, ChannelsType
  <2>3. /\ \A j \in Insts, y \in Packets : /\ Reported(j, y)' <=> Reported(j, y) \/ (j = i /\ y = x)
                                           /\ Once(eventOut'[j], ReportsOf(y))
        /\ lastPacket' = lastPacket => \A j \in Insts : Echo(j)' <=> Echo(j) \/ (j = i /\ p = lastPacket)
        /\ \A j \in Insts : Kept(eventOut[j], eventOut'[j], RoundEvents)
    BY <1>2, <1>5, <1>7, <1>10, <2>2, ReportSent
  <2>4. QED
    BY <1>3, <1>8, <2>1, <2>3
<1>13. CASE ~filter[i]
  <2>1. eventOut' = eventOut /\ hand' = [hand EXCEPT ![i] = [pkt |-> p, event |-> FALSE]]
    BY <1>1, <1>13 DEF sdmbn_preprocess_packet
  <2>2. \A j \in Insts : hand'[j].event = hand[j].event /\ (hand[j].event => hand'[j] = hand[j])
    <3>1. hand[i].event = FALSE
      BY <1>3 DEF EmptyHand
    <3>2. PICK h : h = [pkt |-> p, event |-> FALSE]
      OBVIOUS
    <3>3. h.event = FALSE
      BY <3>2
    <3>4. hand'[i] = h /\ \A j \in Insts : j # i => hand'[j] = hand[j]
      BY <2>1, <3>2 DEF VarsType, InstancesType
    <3>5. QED
      BY <3>1, <3>3, <3>4
  <2>3. /\ \A j \in Insts : Kept(eventOut[j], eventOut'[j], RoundEvents) /\ (Echo(j)' <=> Echo(j))
        /\ \A j \in Insts, y \in Packets : Reported(j, y)' <=> Reported(j, y)
    BY <1>3, <2>1 DEF Kept, Echo, Reported, Reprocess
  <2>4. \A j \in Insts, y \in Packets : Once(eventOut'[j], ReportsOf(y))
    BY <1>7, <2>1 DEF ReportsInv
  <2>5. QED
    BY <2>2, <2>3, <2>4
<1>14. QED
  BY <1>12, <1>13

(* A packet comes from the network.                                        *)
LEMMA ArriveTurn ==
  ASSUME VarsType, VarsType', OneTurn, args' = args, DistinctTraffic, NEW i \in Insts,
         sdmbn_preprocess_packet(i)
  PROVE  OneTurn'
<1>1. PICK x : x = Text[args.traffic[arrived + 1]]
  OBVIOUS
<1>2. UNCHANGED <<isSyncFinished, callFromReprocess, lastPacket, originalEvents, pc, read, chunk, starts, acked,
                  count, putAcks, currentSource, chunks, tasks, stateIn, stateOut, ofq, state>>
  BY DEF sdmbn_preprocess_packet, opVars, syncVars, chunkVars, threads
<1>3. /\ \A j \in Insts : hand'[j].event = hand[j].event /\ (hand[j].event => hand'[j] = hand[j])
      /\ \A j \in Insts : Kept(eventOut[j], eventOut'[j], RoundEvents)
      /\ \A j \in Insts : Echo(j)' <=> Echo(j)
      /\ \A j \in Insts, y \in Packets : /\ Once(eventOut'[j], ReportsOf(y))
                                         /\ Reported(j, y)' => Reported(j, y) \/ (j = i /\ y = x)
      /\ x \in Packets /\ x \notin Texts /\ Texts' = Texts \cup {x} /\ x # lastPacket /\ \A j \in Insts : ~Reported(j, x)
  BY <1>1, ArriveSame
<1>4. ReportsInv /\ MarksInv /\ MarksInv'
  BY <1>2, MarksFrame DEF OneTurn
<1>5. EventTexts' = EventTexts /\ Insts' = Insts
  BY <1>2, ArgsKept DEF EventTexts
<1>6. OutInv' /\ (Out' <=> Out)
  BY <1>2, <1>3, <1>5 DEF OneTurn, OutInv, Out
<1>7. RoundInv' /\ TurnInv'
  BY <1>2, <1>3, <1>6, SameTurn
<1>8. lastPacket' \in Texts' \cup {NoPacket} /\ EventTexts' \subseteq Texts'
  BY <1>2, <1>3, <1>4, <1>5 DEF ReportsInv
<1>9. ASSUME NEW j \in Insts, NEW y \in Packets
      PROVE  /\ Once(eventOut'[j], ReportsOf(y))
             /\ Reported(j, y)' => /\ y \in Texts'
                                   /\ y \in EventTexts' \cup {lastPacket'} => y = lastPacket' /\ Echo(j)'
                                   /\ \A l \in Insts : Reported(l, y)' => j = l
  <2>1. /\ Once(eventOut'[j], ReportsOf(y))
        /\ \A l \in Insts : Reported(l, y)' => Reported(l, y) \/ (l = i /\ y = x)
    BY <1>3
  <2>2. Reported(j, y) => /\ y \in Texts
                          /\ y \in EventTexts \cup {lastPacket} => y = lastPacket /\ Echo(j)
                          /\ \A l \in Insts : Reported(l, y) => j = l
    BY <1>4 DEF ReportsInv
  <2>3. EventTexts \subseteq Texts
    BY <1>4 DEF ReportsInv
  <2>4. CASE y = x
    BY <1>2, <1>3, <1>5, <2>1, <2>3, <2>4
  <2>5. CASE y # x
    BY <1>2, <1>3, <1>5, <2>1, <2>2, <2>5
  <2>6. QED
    BY <2>4, <2>5
<1>10. ReportsInv'
  BY <1>5, <1>8, <1>9 DEF ReportsInv
<1>11. QED
  BY <1>4, <1>6, <1>7, <1>10 DEF OneTurn

(* A returned packet reaches its instance.                                 *)
LEMMA ReturnTurn ==
  ASSUME VarsType, VarsType', OneTurn, args' = args, packetOut
  PROVE  OneTurn'
<1>1. PICK e : e = Head(ofq)
  OBVIOUS
<1>2. /\ UNCHANGED <<isSyncFinished, callFromReprocess, lastPacket, originalEvents, pc, read, chunk, starts, acked,
                     count, putAcks, currentSource, chunks, tasks, stateIn, stateOut, eventOut, state, arrived>>
      /\ ofq # <<>> /\ hand[e.to] = EmptyHand /\ ofq' = Tail(ofq)
      /\ hand' = [hand EXCEPT ![e.to] = [pkt |-> e.pkt, event |-> filter[e.to]]]
  BY <1>1 DEF packetOut, opVars, syncVars, chunkVars, threads
<1>3. Insts' = Insts /\ MarksInv' /\ SameReports
  BY <1>2, ArgsKept, MarksFrame, NoReports DEF OneTurn
<1>4. ReportsInv' /\ \A j \in Insts : Echo(j)' <=> Echo(j)
  BY <1>2, <1>3, ReportsFrame DEF OneTurn
<1>5. ofq \in Seq(PacketOuts) /\ Len(ofq) \in Nat \ {0} /\ e = ofq[1] /\ e \in PacketOuts
  BY <1>1, <1>2, QueueType DEF VarsType, ChannelsType
<1>6. e.to \in Insts /\ e.pkt = lastPacket /\ ofq' = <<>>
  <2>1. Len(ofq) = 1 /\ e.pkt = lastPacket
    <3>1. Len(ofq) <= 1 /\ \A n \in 1 .. Len(ofq) : ofq[n].pkt = lastPacket
      BY DEF OneTurn, OutInv
    <3>2. PICK n \in Nat \ {0} : n = Len(ofq)
      BY <1>5
    <3>3. n = 1
      BY <3>1, <3>2
    <3>4. QED
      BY <1>5, <3>1, <3>2, <3>3
  <2>2. ofq' = <<>>
    BY <1>2, <1>5, <2>1
  <2>3. QED
    BY <1>5, <2>1, <2>2 DEF PacketOuts
<1>7. \A j \in Insts : ~hand[j].event /\ ~Echo(j)
  BY <1>2 DEF OneTurn, OutInv
<1>8. hand'[e.to].pkt = lastPacket /\ \A j \in Insts : j # e.to => hand'[j] = hand[j]
  BY <1>2, <1>6 DEF VarsType, InstancesType
<1>9. OutInv'
  <2>1. Len(ofq') = 0
    BY <1>6
  <2>2. \A j \in Insts : hand'[j].event => j = e.to
    BY <1>7, <1>8
  <2>3. \A j \in Insts : ~Echo(j)'
    BY <1>4, <1>7
  <2>4. \A j \in Insts : hand'[j].event => /\ hand'[j].pkt = lastPacket' /\ ofq' = <<>>
                                          /\ \A l \in Insts : hand'[l].event => j = l
    BY <1>2, <1>6, <1>8, <2>2
  <2>5. QED
    BY <1>3, <2>1, <2>3, <2>4 DEF OutInv
<1>10. Out
  BY <1>2 DEF Out
<1>11. \A j \in Insts : Kept(eventOut[j], eventOut'[j], RoundEvents)
  BY <1>2 DEF Kept
<1>12. RoundInv' /\ TurnInv'
  BY <1>2, <1>10, <1>11, SameTurn
<1>13. QED
  BY <1>3, <1>4, <1>9, <1>12 DEF OneTurn

(* An instance updates records, none of which is marked.                   *)
LEMMA MarksUpdated ==
  ASSUME VarsType, MarksInv, args' = args, NEW i \in Insts, NEW u \in Units, NEW p \in Packets, NEW s \in 0 .. MaxTime,
         state' = [state EXCEPT ![i] = [k \in StateKinds |->
                     [state[i][k] EXCEPT ![u] = Updated(state[i][k][u], k, p, s)]]]
  PROVE  MarksInv'
<1>1. \A j \in Insts, m \in StateKinds, v \in Units : Clean(state[j][m][v]) /\ state[j][m][v] \in Seq(Records)
  BY DEF MarksInv, Clean, VarsType, InstancesType
<1>2. \A j \in Insts, m \in StateKinds, v \in Units :
        state'[j][m][v] = IF j = i /\ v = u THEN Updated(state[i][m][u], m, p, s) ELSE state[j][m][v]
  BY DEF VarsType, InstancesType
<1>3. ASSUME NEW m \in StateKinds
      PROVE  Clean(Updated(state[i][m][u], m, p, s))
  <2>1. PICK l \in Seq(Records) : l = state[i][m][u] /\ Clean(l)
    BY <1>1
  <2>2. CASE l = <<>>
    <3>1. PICK x : x = [facts |-> {p}, seen |-> s, gotten |-> FALSE]
      OBVIOUS
    <3>2. x \in Records /\ ~x.gotten
      BY <3>1 DEF Records
    <3>3. Clean(<<x>>)
      BY <2>1, <3>2, CleanLists
    <3>4. Updated(l, m, p, s) = <<x>>
      BY <2>2, <3>1 DEF Updated
    <3>5. QED
      BY <2>1, <3>3, <3>4
  <2>3. CASE l # <<>>
    <3>1. l[1] \in Records /\ ~l[1].gotten
      <4>1. PICK y \in Records : ~y.gotten
        <5>1. [facts |-> {p}, seen |-> s, gotten |-> FALSE] \in Records
          BY DEF Records
        <5>2. QED
          BY <5>1
      <4>2. QED
        BY <2>1, <2>3, <4>1, CleanLists
    <3>2. PICK r : r = l[1]
      OBVIOUS
    <3>3. PICK x : x = [r EXCEPT !.facts = @ \cup {p}, !.seen = s]
      OBVIOUS
    <3>4. x \in Records /\ ~x.gotten
      BY <3>1, <3>2, <3>3 DEF Records
    <3>5. Clean(<<x>> \o Tail(l))
      BY <2>1, <2>3, <3>4, CleanLists
    <3>6. Updated(l, m, p, s) = <<x>> \o Tail(l)
      BY <2>3, <3>1, <3>2, <3>3 DEF Updated
    <3>7. QED
      BY <2>1, <3>5, <3>6
  <2>4. QED
    BY <2>2, <2>3
<1>4. \A j \in Insts, m \in StateKinds, v \in Units : Clean(state'[j][m][v])
  BY <1>1, <1>2, <1>3
<1>5. QED
  BY <1>4, ArgsKept DEF MarksInv, Clean

(* An instance has processed a packet.                                     *)
LEMMA ProcessTurn ==
  ASSUME VarsType, VarsType', OneTurn, args' = args, NEW i \in Insts, process_packet(i)
  PROVE  OneTurn'
<1>1. PICK p : p = hand[i].pkt
  OBVIOUS
<1>2. /\ UNCHANGED <<isSyncFinished, callFromReprocess, lastPacket, originalEvents, pc, read, chunk, starts, acked,
                     count, putAcks, currentSource, chunks, tasks, stateIn, stateOut, ofq, arrived>>
      /\ p # NoPacket /\ hand' = [hand EXCEPT ![i] = EmptyHand]
  BY <1>1 DEF process_packet, opVars, syncVars, chunkVars, threads
<1>3. p \in Packets /\ UnitOf[p] \in Units
  BY <1>1, <1>2, ShareAssumption DEF VarsType, InstancesType
<1>4. ReportsInv /\ MarksInv
  BY DEF OneTurn
<1>5. MarksInv'
  <2>1. PICK s \in 0 .. MaxTime : s = now'
    BY DEF VarsType, InstancesType
  <2>2. PICK u \in Units : u = UnitOf[p]
    BY <1>3
  <2>3. state' = [state EXCEPT ![i] = [k \in StateKinds |->
                    [state[i][k] EXCEPT ![u] = Updated(state[i][k][u], k, p, s)]]]
    BY <1>1, <2>1, <2>2 DEF process_packet
  <2>4. QED
    BY <1>3, <1>4, <2>3, MarksUpdated
<1>6. ~(/\ "pf" \in StateKinds
        /\ state[i]["pf"][UnitOf[p]] # <<>> /\ state[i]["pf"][UnitOf[p]][1].gotten)
  <2>1. ASSUME "pf" \in StateKinds, state[i]["pf"][UnitOf[p]] # <<>>
        PROVE  ~state[i]["pf"][UnitOf[p]][1].gotten
    <3>1. PICK l \in Seq(Records) : l = state[i]["pf"][UnitOf[p]]
      BY <1>3, <2>1 DEF VarsType, InstancesType
    <3>2. Len(l) \in Nat \ {0} /\ \A n \in 1 .. Len(l) : ~l[n].gotten
      BY <1>3, <1>4, <2>1, <3>1, QueueType DEF MarksInv
    <3>3. QED
      BY <3>1, <3>2
  <2>2. QED
    BY <2>1
<1>7. /\ eventOut' = [eventOut EXCEPT ![i] = @ \o <<>> \o (IF hand[i].event THEN <<Reprocess(p)>> ELSE <<>>)]
  BY <1>1, <1>6 DEF process_packet
<1>8. /\ eventOut'[i] = IF hand[i].event THEN Append(eventOut[i], Reprocess(p)) ELSE eventOut[i]
      /\ \A j \in Insts : j # i => eventOut'[j] = eventOut[j]
  <2>1. PICK m \in Events : m = Reprocess(p)
    BY <1>3 DEF Events, Reprocess
  <2>2. PICK q \in Seq(Events) : q = eventOut[i]
    BY DEF VarsType, ChannelsType
  <2>3. q \o <<>> \o <<m>> = Append(q, m) /\ q \o <<>> \o <<>> = q
    OBVIOUS
  <2>4. QED
    BY <1>7, <2>1, <2>2, <2>3 DEF VarsType, ChannelsType
<1>9. ~hand'[i].event /\ \A j \in Insts : j # i => hand'[j] = hand[j]
  BY <1>2 DEF VarsType, InstancesType, EmptyHand
<1>10. Insts' = Insts /\ Texts' = Texts /\ EventTexts' = EventTexts
  BY <1>2, ArgsKept DEF Texts, EventTexts
<1>11. CASE ~hand[i].event
  <2>1. \A j \in Insts : eventOut'[j] = eventOut[j] /\ Kept(eventOut[j], eventOut'[j], RoundEvents)
    BY <1>8, <1>11 DEF Kept
  <2>2. SameReports
    BY <2>1 DEF SameReports, Kept
  <2>3. ReportsInv' /\ \A j \in Insts : Echo(j)' <=> Echo(j)
    BY <1>2, <1>4, <2>2, ReportsFrame
  <2>4. \A j \in Insts : (hand'[j].event <=> hand[j].event) /\ (hand[j].event => hand'[j] = hand[j])
    BY <1>9, <1>11
  <2>5. OutInv' /\ (Out' => Out)
    BY <1>2, <1>10, <2>3, <2>4 DEF OneTurn, OutInv, Out
  <2>6. RoundInv' /\ TurnInv'
    BY <1>2, <2>1, <2>5, SameTurn
  <2>7. QED
    BY <1>5, <2>3, <2>5, <2>6 DEF OneTurn
<1>12. CASE hand[i].event
  <2>1. p = lastPacket /\ ofq = <<>> /\ \A j \in Insts : (hand[j].event => j = i) /\ ~Echo(j)
    BY <1>1, <1>12 DEF OneTurn, OutInv
  <2>2. lastPacket \in Texts /\ Text[p] = lastPacket
    BY <1>2, <1>4, <2>1, TextsType DEF ReportsInv
  <2>3. PICK x \in Packets : x = lastPacket /\ x = Text[p]
    BY <1>3, <2>1, <2>2
  <2>4. \A j \in Insts : ~Reported(j, x)
    BY <1>4, <2>1, <2>3 DEF ReportsInv
  <2>5. eventOut'[i] = Append(eventOut[i], Reprocess(p))
    BY <1>8, <1>12
  <2>6. /\ \A j \in Insts, y \in Packets : /\ Reported(j, y)' <=> Reported(j, y) \/ (j = i /\ y = x)
                                           /\ Once(eventOut'[j], ReportsOf(y))
        /\ lastPacket' = lastPacket => \A j \in Insts : Echo(j)' <=> Echo(j) \/ (j = i /\ p = lastPacket)
        /\ \A j \in Insts : Kept(eventOut[j], eventOut'[j], RoundEvents)
    BY <1>3, <1>4, <1>8, <2>3, <2>4, <2>5, ReportSent
  <2>7. \A j \in Insts : (Echo(j)' <=> j = i) /\ ~hand'[j].event
    BY <1>2, <1>9, <2>1, <2>6
  <2>8. OutInv'
    <3>1. Len(ofq') = 0 /\ ofq' = <<>>
      BY <1>2, <2>1
    <3>2. QED
      BY <1>10, <2>7, <3>1 DEF OutInv
  <2>9. Out
    BY <1>12 DEF Out
  <2>10. RoundInv' /\ TurnInv'
    BY <1>2, <2>6, <2>9, SameTurn
  <2>11. lastPacket' \in Texts' \cup {NoPacket} /\ EventTexts' \subseteq Texts'
    BY <1>2, <1>4, <1>10 DEF ReportsInv
  <2>12. ASSUME NEW j \in Insts, NEW y \in Packets
         PROVE  /\ Once(eventOut'[j], ReportsOf(y))
                /\ Reported(j, y)' => /\ y \in Texts'
                                      /\ y \in EventTexts' \cup {lastPacket'} => y = lastPacket' /\ Echo(j)'
                                      /\ \A l \in Insts : Reported(l, y)' => j = l
    <3>1. /\ Once(eventOut'[j], ReportsOf(y))
          /\ \A l \in Insts : Reported(l, y)' <=> Reported(l, y) \/ (l = i /\ y = x)
      BY <2>6
    <3>2. Reported(j, y) => /\ y \in Texts
                            /\ y \in EventTexts \cup {lastPacket} => y = lastPacket /\ Echo(j)
                            /\ \A l \in Insts : Reported(l, y) => j = l
      BY <1>4 DEF ReportsInv
    <3>3. CASE y = x
      BY <1>2, <1>10, <2>2, <2>3, <2>4, <2>7, <3>1, <3>3
    <3>4. CASE y # x
      BY <1>2, <1>10, <2>1, <2>3, <3>1, <3>2, <3>4
    <3>5. QED
      BY <3>3, <3>4
  <2>13. ReportsInv'
    BY <1>10, <2>11, <2>12 DEF ReportsInv
  <2>14. QED
    BY <1>5, <2>8, <2>10, <2>13 DEF OneTurn
<1>13. QED
  BY <1>11, <1>12

-----------------------------------------------------------------------------
(* The turns: the theorems.                                                *)

(* The count of starts never goes back.                                    *)
LEMMA StartsGrow ==
  ASSUME VarsType, [Next]_vars, Single'
  PROVE  Single
<1>1. starts' = starts \/ starts' = starts + 1
  <2>1. CASE UNCHANGED vars
    BY <2>1 DEF vars
  <2>2. CASE execute \/ Pool \/ packetOut
    BY <2>2 DEF execute, Pool, callChunk, packetOut
  <2>3. ASSUME NEW i \in Insts, StateThread(i)
        PROVE  starts' = starts \/ starts' = starts + 1
    BY <2>3 DEF StateThread, receiveEventsAck, incrementEventAckCount, checkEventAckCount, receiveState,
                receiveGetAck, setGetCount, Thread, syncAllInstances, dequeueAfterSync, checkIfInstFinished
  <2>4. ASSUME NEW i \in Insts, EventThread(i)
        PROVE  starts' = starts
    BY <2>4 DEF EventThread, receivePutAck, incrementPutAcks, incrementAcked, compareAcked, receiveReprocess,
                Thread, syncAllInstances, dequeueAfterSync, checkIfInstFinished
  <2>5. ASSUME NEW i \in Insts, InstanceState(i) \/ process_packet(i) \/ sdmbn_preprocess_packet(i)
        PROVE  starts' = starts
    BY <2>5 DEF InstanceState, handle_enable_events, handle_get, get_unsupported, handle_put, process_packet,
                sdmbn_preprocess_packet
  <2>6. QED
    BY <2>1, <2>2, <2>3, <2>4, <2>5 DEF Next
<1>2. QED
  BY <1>1 DEF Single, VarsType, CountersType

(* At the start nobody has the turn, and nothing is on its way.            *)
LEMMA InitTurn ==
  ASSUME Init, VarsType
  PROVE  OneTurn
<1>1. /\ acked = [k \in Kinds |-> FALSE] /\ chunks = <<>> /\ tasks = <<>> /\ ofq = <<>> /\ lastPacket = NoPacket
      /\ ~isSyncFinished /\ ~callFromReprocess /\ originalEvents = <<>> /\ arrived = 0
      /\ \A i \in Insts : stateIn[i] = <<>> /\ stateOut[i] = <<>> /\ eventOut[i] = <<>> /\ hand[i] = EmptyHand
      /\ \A t \in Threads : pc[t] = "idle"
  BY DEF Init
<1>2. \A i \in Insts : \A Q : /\ ~Has(stateIn[i], Q) /\ ~Has(stateOut[i], Q) /\ ~Has(eventOut[i], Q)
                              /\ Once(eventOut[i], Q)
  BY <1>1, HasNone
<1>3. Still
  <2>1. \A k \in Kinds : ~Active(k)
    BY <1>1, <1>2 DEF Active, Asking, Answering
  <2>2. \A i \in Insts : /\ pc[<<"ss", i>>] = "idle" /\ pc[<<"se", i>>] = "idle"
    BY <1>1, ThreadsOf
  <2>3. \A i \in Insts, k \in Kinds : ~Fetched(i, k)
    BY <2>2 DEF Fetched
  <2>4. \A i \in Insts, h \in StateKeys : ~Sending(i, h) /\ ~Putting(i, h) /\ ~Acking(i, h) /\ ~InHand(i, h)
    BY <1>2, <2>2 DEF Sending, Putting, Acking, InHand
  <2>5. \A h \in StateKeys : ~InTable(h)
    BY <1>1 DEF InTable
  <2>6. QED
    BY <1>1, <2>1, <2>3, <2>4, <2>5 DEF Still
<1>4. RoundInv /\ ~Round
  BY <1>3, StillRound
<1>5. \A i \in Insts : ~Echo(i) /\ ~hand[i].event
  BY <1>1, <1>2 DEF Echo, EmptyHand
<1>6. OutInv /\ ~Out
  BY <1>1, <1>5 DEF OutInv, Out
<1>7. TurnInv
  BY <1>1, <1>4, <1>6 DEF TurnInv, Turn
<1>8. ReportsInv
  <2>1. EventTexts = {}
    BY <1>1 DEF EventTexts
  <2>2. \A i \in Insts, x \in Packets : Once(eventOut[i], ReportsOf(x)) /\ ~Reported(i, x)
    BY <1>2 DEF Reported
  <2>3. QED
    BY <1>1, <2>1, <2>2 DEF ReportsInv
<1>9. MarksInv
  <2>1. \A i \in Insts, k \in StateKinds, u \in Units : state[i][k][u] = InitialState(i, u)
    BY DEF Init
  <2>2. ASSUME NEW i \in Insts, NEW u \in Units
        PROVE  \A n \in 1 .. Len(InitialState(i, u)) : ~InitialState(i, u)[n].gotten
    <3>1. CASE args.knows[i][u] = {}
      BY <3>1 DEF InitialState
    <3>2. CASE args.knows[i][u] # {}
      <4>1. PICK r : r = [facts |-> args.knows[i][u], seen |-> args.seen[i][u], gotten |-> FALSE]
        OBVIOUS
      <4>2. InitialState(i, u) = <<r>> /\ ~r.gotten
        BY <3>2, <4>1 DEF InitialState
      <4>3. QED
        BY <4>2
    <3>3. QED
      BY <3>1, <3>2
  <2>3. QED
    BY <2>1, <2>2 DEF MarksInv
<1>10. QED
  BY <1>4, <1>6, <1>7, <1>8, <1>9 DEF OneTurn

(* Every step leaves the turn with one at most.                            *)
LEMMA TurnStep ==
  ASSUME VarsType, VarsType', args' = args, Ordinary, OneTurn, Single', [Next]_vars
  PROVE  OneTurn'
<1>0. DistinctTraffic /\ Unmarked /\ FewRecords
  BY DEF Ordinary
<1>1. CASE UNCHANGED vars
  <2>1. UNCHANGED <<opVars, ofq, hand, arrived, starts, state, eventOut, pc, read, chunk, acked, count, putAcks,
                    currentSource, chunks, tasks, stateIn, stateOut>>
    BY <1>1 DEF vars, syncVars, chunkVars, threads, chanVars, nfVars
  <2>2. MarksInv' /\ SameReports /\ SameThreads /\ SameChunks /\ SameQueues
    BY <2>1, MarksFrame, NoReports, NoThread, Silent DEF OneTurn, SameChunks
  <2>3. \A t \in Threads : Turn(t)' => pc'[t] = pc[t]
    BY <2>1
  <2>4. RoundInv' /\ \A k \in Kinds : Active(k)' <=> Active(k)
    BY <2>1, <2>2, RoundFrame DEF OneTurn
  <2>5. Round' => Round
    BY <2>4, NoNewRound
  <2>6. QED
    BY <2>1, <2>2, <2>3, <2>4, <2>5, QuietStep
<1>2. CASE execute
  BY <1>2, StartQuiet
<1>3. CASE Pool
  BY <1>3, RoundQuiet
<1>4. CASE packetOut
  BY <1>4, ReturnTurn
<1>5. ASSUME NEW t \in Threads, Thread(t)
      PROVE  OneTurn'
  BY <1>5, SyncTurn, DequeueTurn, CheckTurn DEF Thread
<1>6. ASSUME NEW i \in Insts, StateThread(i)
      PROVE  OneTurn'
  <2>1. CASE receiveEventsAck(i) \/ incrementEventAckCount(i) \/ (checkEventAckCount(i) /\ eventAckCount # args.n)
    BY <2>1, StartQuiet
  <2>2. CASE checkEventAckCount(i) /\ eventAckCount = args.n
    BY <2>2, StartTurn
  <2>3. CASE receiveState(i) \/ receiveGetAck(i) \/ setGetCount(i)
    BY <2>3, RoundQuiet
  <2>4. CASE Thread(<<"ss", i>>)
    BY <1>5, <2>4, ThreadsOf
  <2>5. QED
    BY <1>6, <2>1, <2>2, <2>3, <2>4 DEF StateThread
<1>7. ASSUME NEW i \in Insts, EventThread(i)
      PROVE  OneTurn'
  <2>1. CASE receivePutAck(i) \/ incrementPutAcks(i)
    BY <2>1, RoundQuiet
  <2>2. CASE incrementAcked(i) \/ compareAcked(i)
    BY <2>2, ChunkQuiet
  <2>3. CASE receiveReprocess(i)
    BY <2>3, ReportTurn
  <2>4. CASE Thread(<<"se", i>>)
    BY <1>5, <2>4, ThreadsOf
  <2>5. QED
    BY <1>7, <2>1, <2>2, <2>3, <2>4 DEF EventThread
<1>8. ASSUME NEW i \in Insts, InstanceState(i)
      PROVE  OneTurn'
  <2>1. CASE handle_enable_events(i)
    BY <2>1, StartQuiet
  <2>2. CASE handle_get(i) \/ get_unsupported(i) \/ handle_put(i)
    BY <1>0, <2>2, RequestQuiet
  <2>3. QED
    BY <1>8, <2>1, <2>2 DEF InstanceState
<1>9. ASSUME NEW i \in Insts, process_packet(i) \/ sdmbn_preprocess_packet(i)
      PROVE  OneTurn'
  BY <1>0, <1>9, ProcessTurn, ArriveTurn
<1>10. QED
  BY <1>1, <1>2, <1>3, <1>4, <1>6, <1>7, <1>8, <1>9 DEF Next

(* One packet is out, in one place.                                        *)
LEMMA OneReturned ==
  ASSUME VarsType, OneTurn
  PROVE  \A a, b \in Returned : a = b
<1>1. OutInv /\ ReportsInv
  BY DEF OneTurn
<1>2. ofq \in Seq(PacketOuts) /\ DOMAIN ofq = 1 .. Len(ofq) /\ Len(ofq) \in Nat /\ Len(ofq) <= 1
  BY <1>1 DEF VarsType, ChannelsType, OutInv
<1>3. \A i \in Insts : eventOut[i] \in Seq(Events) /\ DOMAIN eventOut[i] = 1 .. Len(eventOut[i])
  BY DEF VarsType, ChannelsType
<1>4. \A n \in DOMAIN ofq : n = 1 /\ ofq # <<>>
  BY <1>2
<1>5. \A i \in Insts : \A n \in DOMAIN eventOut[i] : eventOut[i][n] = Reprocess(lastPacket) => Echo(i)
  BY <1>3 DEF Echo, Has
<1>6. ASSUME NEW i \in Insts, NEW j \in Insts, Echo(i), Echo(j)
      PROVE  i = j /\ \A n, m \in DOMAIN eventOut[i] :
                        eventOut[i][n] = Reprocess(lastPacket) /\ eventOut[i][m] = Reprocess(lastPacket) => n = m
  <2>1. lastPacket \in Texts \cup {NoPacket}
    BY <1>1 DEF ReportsInv
  <2>2. Reported(i, lastPacket) /\ Reported(j, lastPacket) /\ lastPacket \in Texts
    BY <1>6, <2>1, EchoReported
  <2>3. lastPacket \in Packets /\ Text[lastPacket] = lastPacket
    BY <2>2, TextsType
  <2>4. i = j /\ Once(eventOut[i], ReportsOf(lastPacket))
    BY <1>1, <2>2, <2>3 DEF ReportsInv
  <2>5. Reprocess(lastPacket) \in ReportsOf(lastPacket)
    BY <2>3 DEF Reprocess, ReportsOf
  <2>6. QED
    BY <1>3, <2>4, <2>5 DEF Once
<1>7. \A a \in Returned : \/ \E n \in DOMAIN ofq : a = <<"sent", n>>
                          \/ \E i \in Insts : hand[i].event /\ a = <<"in hand", i>>
                          \/ \E i \in Insts : \E n \in DOMAIN eventOut[i] :
                               eventOut[i][n] = Reprocess(lastPacket) /\ a = <<"reported", i, n>>
  BY Zenon DEF Returned
<1>8. \A i, j \in Insts : hand[i].event => ofq = <<>> /\ (hand[j].event => i = j) /\ ~Echo(j)
  BY <1>1 DEF OutInv
<1>9. \A i \in Insts : Echo(i) => ofq = <<>>
  BY <1>1 DEF OutInv
<1>10. ASSUME NEW a \in Returned, NEW b \in Returned
       PROVE  a = b
  <2>1. CASE \E n \in DOMAIN ofq : a = <<"sent", n>>
    BY <1>4, <1>5, <1>7, <1>8, <1>9, <2>1
  <2>2. CASE \E i \in Insts : hand[i].event /\ a = <<"in hand", i>>
    BY <1>4, <1>5, <1>7, <1>8, <2>2
  <2>3. CASE \E i \in Insts : \E n \in DOMAIN eventOut[i] :
               eventOut[i][n] = Reprocess(lastPacket) /\ a = <<"reported", i, n>>
    <3>0. PICK i \in Insts : \E n \in DOMAIN eventOut[i] :
            eventOut[i][n] = Reprocess(lastPacket) /\ a = <<"reported", i, n>>
      BY <2>3
    <3>1. PICK n \in DOMAIN eventOut[i] : eventOut[i][n] = Reprocess(lastPacket) /\ a = <<"reported", i, n>>
      BY <3>0
    <3>2. Echo(i)
      BY <1>5, <3>1
    <3>3. PICK j \in Insts : \E m \in DOMAIN eventOut[j] :
            eventOut[j][m] = Reprocess(lastPacket) /\ b = <<"reported", j, m>>
      BY <1>4, <1>7, <1>8, <1>9, <3>2
    <3>4. PICK m \in DOMAIN eventOut[j] : eventOut[j][m] = Reprocess(lastPacket) /\ b = <<"reported", j, m>>
      BY <3>3
    <3>5. Echo(j)
      BY <1>5, <3>4
    <3>6. i = j
      BY <1>6, <3>2, <3>5
    <3>7. n = m
      BY <1>6, <3>1, <3>2, <3>4, <3>6
    <3>8. QED
      BY <3>1, <3>4, <3>6, <3>7
  <2>4. QED
    BY <1>7, <2>1, <2>2, <2>3
<1>11. QED
  BY <1>10

(* While one is out, no state is copied.                                   *)
LEMMA NoneWhileSyncing ==
  ASSUME VarsType, OneTurn, RolesInv, Returned # {}
  PROVE  ~Syncing
<1>1. RoundInv /\ TurnInv
  BY DEF OneTurn
<1>2. Out
  <2>1. ofq \in Seq(PacketOuts) /\ \A i \in Insts : eventOut[i] \in Seq(Events)
    BY DEF VarsType, ChannelsType
  <2>2. \/ ofq # <<>>
        \/ \E i \in Insts : \/ hand[i].event
                             \/ \E n \in DOMAIN eventOut[i] : eventOut[i][n] = Reprocess(lastPacket)
    <3>1. ofq = <<>> => DOMAIN ofq = {}
      BY <2>1
    <3>2. QED
      BY <3>1, Zenon DEF Returned
  <2>3. \A i \in Insts : \A n \in DOMAIN eventOut[i] : eventOut[i][n] = Reprocess(lastPacket) => Echo(i)
    BY <2>1 DEF Echo, Has
  <2>4. QED
    BY <2>2, <2>3 DEF Out
<1>3. ~Round /\ \A t \in Threads : ~Turn(t)
  BY <1>1, <1>2 DEF TurnInv
<1>4. Still
  BY <1>1, <1>3, NoRoundStill
<1>5. \A k \in Kinds : \A i \in Insts : ~Asking(i, k) /\ ~Answering(i, k) /\ ~Fetched(i, k)
  BY <1>4 DEF Still, Active
<1>6. /\ \A i \in Insts, h \in StateKeys : ~Sending(i, h) /\ ~Putting(i, h) /\ ~Acking(i, h) /\ ~InHand(i, h)
      /\ tasks = <<>>
  BY <1>4 DEF Still
<1>7. ASSUME NEW i \in Insts
      PROVE  /\ ~HasType(stateIn[i], {"Get", "Put"}) /\ ~HasType(stateOut[i], {"State", "GetAck"})
             /\ ~HasType(eventOut[i], {"PutAck"})
  <2>1. /\ stateIn[i] \in Seq(Requests) /\ stateOut[i] \in Seq(Answers) /\ eventOut[i] \in Seq(Events)
    BY DEF VarsType, ChannelsType
  <2>2. ASSUME NEW n \in DOMAIN stateIn[i]
        PROVE  stateIn[i][n].type \notin {"Get", "Put"}
    <3>1. PICK m \in Requests : m = stateIn[i][n] /\ n \in 1 .. Len(stateIn[i])
      BY <2>1, <2>2, ElementOfSeq
    <3>2. /\ m.type = "Get" => m.kind \in Kinds
          /\ m.type = "Put" => m.hashkey \in StateKeys
      BY DEF Requests
    <3>3. ASSUME m.type = "Get"
          PROVE  FALSE
      <4>1. m \in GetsOf(m.kind)
        BY <3>2, <3>3, Sorted
      <4>2. Asking(i, m.kind)
        BY <3>1, <4>1 DEF Asking, Has
      <4>3. QED
        BY <1>5, <3>2, <3>3, <4>2
    <3>4. ASSUME m.type = "Put"
          PROVE  FALSE
      <4>1. m \in PutsOf(m.hashkey)
        BY <3>2, <3>4, Sorted
      <4>2. Putting(i, m.hashkey)
        BY <3>1, <4>1 DEF Putting, Has
      <4>3. QED
        BY <1>6, <3>2, <3>4, <4>2
    <3>5. QED
      BY <3>1, <3>3, <3>4
  <2>3. ASSUME NEW n \in DOMAIN stateOut[i]
        PROVE  stateOut[i][n].type \notin {"State", "GetAck"}
    <3>1. PICK m \in Answers : m = stateOut[i][n] /\ n \in 1 .. Len(stateOut[i])
      BY <2>1, <2>3, ElementOfSeq
    <3>2. /\ m.type = "GetAck" => m.kind \in Kinds
          /\ m.type = "State" => m.hashkey \in StateKeys
      BY DEF Answers, StateMsgs
    <3>3. ASSUME m.type = "GetAck"
          PROVE  FALSE
      <4>1. m \in GetAcksOf(m.kind)
        BY <3>2, <3>3, Sorted
      <4>2. Answering(i, m.kind)
        BY <3>1, <4>1 DEF Answering, Has
      <4>3. QED
        BY <1>5, <3>2, <3>3, <4>2
    <3>4. ASSUME m.type = "State"
          PROVE  FALSE
      <4>1. m \in StatesOf(m.hashkey)
        BY <3>2, <3>4, Sorted
      <4>2. Sending(i, m.hashkey)
        BY <3>1, <4>1 DEF Sending, Has
      <4>3. QED
        BY <1>6, <3>2, <3>4, <4>2
    <3>5. QED
      BY <3>1, <3>3, <3>4
  <2>4. ASSUME NEW n \in DOMAIN eventOut[i]
        PROVE  eventOut[i][n].type # "PutAck"
    <3>1. PICK m \in Events : m = eventOut[i][n] /\ n \in 1 .. Len(eventOut[i])
      BY <2>1, <2>4, ElementOfSeq
    <3>2. m.type = "PutAck" => m.hashkey \in StateKeys
      BY DEF Events
    <3>3. ASSUME m.type = "PutAck"
          PROVE  FALSE
      <4>1. m \in PutAcksOf(m.hashkey)
        BY <3>2, <3>3, Sorted
      <4>2. Acking(i, m.hashkey)
        BY <3>1, <4>1 DEF Acking, Has
      <4>3. QED
        BY <1>6, <3>2, <3>3, <4>2
    <3>4. QED
      BY <3>1, <3>3
  <2>5. QED
    BY <2>2, <2>3, <2>4 DEF HasType
<1>8. ASSUME NEW t \in Threads
      PROVE  pc[t] \notin {"getAck", "putAck", "sync", "dequeue"}
  <2>1. PICK i \in Insts : t = <<"ss", i>> \/ t = <<"se", i>>
    BY DEF Threads
  <2>2. CASE t = <<"ss", i>>
    <3>1. pc[t] # "getAck"
      <4>1. read[<<"ss", i>>].kind \in Kinds
        BY ThreadsOf DEF VarsType, ThreadsType
      <4>2. QED
        BY <1>5, <2>2, <4>1 DEF Fetched
    <3>2. QED
      BY <1>3, <2>2, <3>1 DEF Turn, RolesInv
  <2>3. CASE t = <<"se", i>>
    <3>1. pc[t] # "putAck"
      <4>1. ASSUME pc[t] = "putAck"
            PROVE  FALSE
        <5>1. chunk[t] \in 1 .. Len(chunks) /\ chunks \in Seq(Chunks)
          BY <4>1 DEF VarsType, ThreadsType, ChunksType
        <5>2. chunks[chunk[t]] \in Chunks
          BY <5>1, ElementOfSeq
        <5>3. PICK h \in StateKeys : h = chunks[chunk[t]].hashkey
          BY <5>2 DEF Chunks
        <5>4. InHand(i, h)
          BY <2>3, <4>1, <5>3 DEF InHand
        <5>5. QED
          BY <1>6, <5>4
      <4>2. QED
        BY <4>1
    <3>2. QED
      BY <1>3, <2>3, <3>1 DEF Turn, RolesInv
  <2>4. QED
    BY <2>1, <2>2, <2>3
<1>9. QED
  BY <1>6, <1>7, <1>8 DEF Syncing

(* No thread takes an ack of the other connection.                         *)
LEMMA RoleKept ==
  ASSUME VarsType, args' = args, RolesInv, NEW t \in Threads, NEW a, NEW b, Goto(t, a, b),
         b = "getAck" => t[1] = "ss", b = "putAck" => t[1] = "se"
  PROVE  RolesInv'
<1>1. \A u \in Threads : pc'[u] = IF u = t THEN b ELSE pc[u]
  BY DEF Goto, VarsType, ThreadsType
<1>2. ASSUME NEW i \in Insts
      PROVE  pc'[<<"ss", i>>] # "putAck" /\ pc'[<<"se", i>>] # "getAck"
  <2>1. PICK s \in Threads, e \in Threads : s = <<"ss", i>> /\ e = <<"se", i>>
    BY ThreadsOf
  <2>2. pc[s] # "putAck" /\ pc[e] # "getAck" /\ s[1] = "ss" /\ e[1] = "se"
    BY <2>1 DEF RolesInv
  <2>3. pc'[s] # "putAck" /\ pc'[e] # "getAck"
    BY <1>1, <2>2
  <2>4. QED
    BY <2>1, <2>3
<1>3. QED
  BY <1>2, ArgsKept DEF RolesInv

(* ... in any step.                                                        *)
LEMMA RolesStep ==
  ASSUME VarsType, args' = args, RolesInv, [Next]_vars
  PROVE  RolesInv'
<1>1. ASSUME UNCHANGED pc
      PROVE  RolesInv'
  BY <1>1, ArgsKept DEF RolesInv
<1>2. CASE UNCHANGED vars
  BY <1>1, <1>2 DEF vars, threads
<1>3. CASE execute \/ Pool \/ packetOut
  BY <1>1, <1>3 DEF execute, Pool, callChunk, packetOut, threads
<1>4. ASSUME NEW t \in Threads, Thread(t)
      PROVE  RolesInv'
  <2>1. PICK a, b \in Labels \ {"getAck", "putAck"} : Goto(t, a, b)
    BY <1>4 DEF Thread, syncAllInstances, dequeueAfterSync, checkIfInstFinished, Labels
  <2>2. QED
    BY <2>1, RoleKept
<1>5. ASSUME NEW i \in Insts, StateThread(i)
      PROVE  RolesInv'
  <2>1. PICK t \in Threads : t = <<"ss", i>> /\ t[1] = "ss"
    BY ThreadsOf
  <2>2. CASE receiveEventsAck(i) \/ incrementEventAckCount(i) \/ checkEventAckCount(i)
             \/ receiveGetAck(i) \/ setGetCount(i)
    <3>1. PICK a, b \in Labels \ {"putAck"} : Goto(t, a, b)
      BY <2>1, <2>2 DEF receiveEventsAck, incrementEventAckCount, checkEventAckCount, receiveGetAck, setGetCount,
                        Labels
    <3>2. QED
      BY <2>1, <3>1, RoleKept
  <2>3. CASE receiveState(i)
    BY <1>1, <2>3 DEF receiveState, threads
  <2>4. CASE Thread(t)
    BY <1>4, <2>4
  <2>5. QED
    BY <1>5, <2>1, <2>2, <2>3, <2>4 DEF StateThread
<1>6. ASSUME NEW i \in Insts, EventThread(i)
      PROVE  RolesInv'
  <2>1. PICK t \in Threads : t = <<"se", i>> /\ t[1] = "se"
    BY ThreadsOf
  <2>2. CASE receivePutAck(i) \/ incrementPutAcks(i) \/ incrementAcked(i) \/ compareAcked(i)
    <3>1. PICK a, b \in Labels \ {"getAck"} : Goto(t, a, b)
      BY <2>1, <2>2 DEF receivePutAck, incrementPutAcks, incrementAcked, compareAcked, Labels
    <3>2. QED
      BY <2>1, <3>1, RoleKept
  <2>3. CASE receiveReprocess(i)
    BY <1>1, <2>3 DEF receiveReprocess, threads
  <2>4. CASE Thread(t)
    BY <1>4, <2>4
  <2>5. QED
    BY <1>6, <2>1, <2>2, <2>3, <2>4 DEF EventThread
<1>7. ASSUME NEW i \in Insts, InstanceState(i) \/ process_packet(i) \/ sdmbn_preprocess_packet(i)
      PROVE  RolesInv'
  BY <1>1, <1>7 DEF InstanceState, handle_enable_events, handle_get, get_unsupported, handle_put, process_packet,
                    sdmbn_preprocess_packet, threads
<1>8. QED
  BY <1>2, <1>3, <1>5, <1>6, <1>7 DEF Next

(* The invariant, of every share in the scope of the properties whose      *)
(* synchronization was started once: a round is complete only when every   *)
(* put has been acked, and one of the round, a thread, a packet returned   *)
(* and the flag of dequeueEvent has the turn to start what comes next.     *)
THEOREM TurnInvariant == Spec /\ []Ordinary => [](TurnsInv /\ RolesInv)
<1>1. Init => TurnsInv /\ RolesInv
  <2>1. SUFFICES ASSUME Init PROVE TurnsInv /\ RolesInv
    OBVIOUS
  <2>2. VarsType
    BY <2>1, InitInv DEF ShareInv
  <2>3. OneTurn
    BY <2>1, <2>2, InitTurn
  <2>4. \A t \in Threads : pc[t] = "idle"
    BY <2>1 DEF Init
  <2>5. QED
    BY <2>3, <2>4, ThreadsOf DEF TurnsInv, RolesInv
<1>2. ShareInv /\ TurnsInv /\ RolesInv /\ Ordinary /\ [Next]_vars => (TurnsInv /\ RolesInv)'
  <2>1. SUFFICES ASSUME ShareInv, TurnsInv, RolesInv, Ordinary, [Next]_vars PROVE TurnsInv' /\ RolesInv'
    OBVIOUS
  <2>2. VarsType /\ VarsType' /\ args' = args
    BY <2>1, TypeStep DEF ShareInv
  <2>3. RolesInv'
    BY <2>1, <2>2, RolesStep
  <2>4. ASSUME Single'
        PROVE  OneTurn'
    <3>1. OneTurn
      BY <2>1, <2>2, <2>4, StartsGrow DEF TurnsInv
    <3>2. QED
      BY <2>1, <2>2, <2>4, <3>1, TurnStep
  <2>5. TurnsInv'
    BY <2>4 DEF TurnsInv
  <2>6. QED
    BY <2>3, <2>5
<1>3. QED
  BY <1>1, <1>2, ShareInvariant, PTL DEF Spec

(* One packet at a time: of a share whose packets are different texts,     *)
(* that marks no per-flow state and copies fewer records than the number   *)
(* that stands for "not known yet", for any number of instances, any scope *)
(* and traffic, whatever increments of the counters are lost: when the     *)
(* synchronization was started once, at most one packet is on its way to   *)
(* its instance and back, and none while state is fetched, put or acked.   *)
THEOREM ReturnsOneAtATime == Spec /\ []Ordinary => []OneAtATime
<1>1. ShareInv /\ TurnsInv /\ RolesInv => OneAtATime
  <2>1. SUFFICES ASSUME ShareInv, TurnsInv, RolesInv, Single
                 PROVE  Cardinality(Returned) <= 1 /\ (Returned # {} => ~Syncing)
    BY DEF OneAtATime
  <2>2. VarsType /\ OneTurn
    BY <2>1 DEF ShareInv, TurnsInv
  <2>3. Returned # {} => ~Syncing
    BY <2>1, <2>2, NoneWhileSyncing
  <2>4. Cardinality(Returned) <= 1
    <3>1. CASE Returned = {}
      BY <3>1, FS_EmptySet
    <3>2. CASE Returned # {}
      <4>1. PICK a : a \in Returned
        BY <3>2
      <4>2. Returned = {a}
        BY <2>2, <4>1, OneReturned
      <4>3. Cardinality({a}) = 1
        BY FS_Singleton
      <4>4. QED
        BY <4>2, <4>3
    <3>3. QED
      BY <3>1, <3>2
  <2>5. QED
    BY <2>3, <2>4
<1>2. QED
  BY <1>1, ShareInvariant, TurnInvariant, PTL

-----------------------------------------------------------------------------
(***************************************************************************)
(* The contents.                                                           *)
(***************************************************************************)

-----------------------------------------------------------------------------
(* Lists of records.                                                       *)

(* What a list of records tells.                                           *)
Told(l) == UNION {r.facts : r \in Range(l)}

(* The facts of a list of records are those of its records, by position.   *)
LEMMA ToldAt ==
  ASSUME NEW l \in Seq(Records)
  PROVE  /\ \A n \in 1 .. Len(l) : l[n] \in Records /\ l[n].facts \subseteq Told(l)
         /\ \A x \in Told(l) : \E n \in 1 .. Len(l) : x \in l[n].facts
<1>1. \A n \in 1 .. Len(l) : l[n] \in Records /\ l[n] \in Range(l)
  BY ElementOfSeq, InRange
<1>2. \A r \in Range(l) : \E n \in 1 .. Len(l) : r = l[n]
  BY InRange
<1>3. \A n \in 1 .. Len(l) : l[n].facts \subseteq Told(l)
  BY <1>1 DEF Told
<1>4. \A x \in Told(l) : \E n \in 1 .. Len(l) : x \in l[n].facts
  BY <1>2 DEF Told
<1>5. QED
  BY <1>1, <1>3, <1>4

(* The head of a list.                                                     *)
LEMMA HeadOf ==
  ASSUME NEW l \in Seq(Records)
  PROVE  /\ Facts(l) \subseteq Told(l) /\ Seen(l) \in Nat
         /\ Len(l) <= 1 => Told(l) = Facts(l)
         /\ l = <<>> <=> Len(l) = 0
         /\ l # <<>> /\ Len(l) <= 1 => Len(l) = 1
         /\ l # <<>> => l[1] \in Records /\ Facts(l) = l[1].facts /\ Seen(l) = l[1].seen
<1>1. Len(l) \in Nat /\ (l = <<>> <=> Len(l) = 0)
  BY EmptySeq, LenProperties
<1>2. CASE l = <<>>
  <2>1. \A x \in Told(l) : \E n \in 1 .. Len(l) : x \in l[n].facts
    BY ToldAt
  <2>2. 1 .. Len(l) = {}
    BY <1>1, <1>2
  <2>3. Told(l) = {}
    BY <2>1, <2>2
  <2>4. QED
    BY <1>1, <1>2, <2>3 DEF Facts, Seen
<1>3. CASE l # <<>>
  <2>1. 1 \in 1 .. Len(l)
    BY <1>1, <1>3
  <2>2. l[1] \in Records /\ l[1].facts \subseteq Told(l)
    BY <2>1, ToldAt
  <2>3. l[1].seen \in Nat
    BY <2>2, ShareAssumption DEF Records
  <2>4. ASSUME Len(l) <= 1
        PROVE  Told(l) = l[1].facts
    <3>1. \A n \in 1 .. Len(l) : n = 1
      BY <1>1, <2>4
    <3>2. Told(l) \subseteq l[1].facts
      BY <3>1, ToldAt
    <3>3. QED
      BY <2>2, <3>2
  <2>5. Facts(l) = l[1].facts /\ Seen(l) = l[1].seen
    BY <1>3 DEF Facts, Seen
  <2>6. Len(l) # 0 /\ (Len(l) <= 1 => Len(l) = 1)
    <3>1. Len(l) # 0
      BY <1>1, <1>3, Zenon
    <3>2. PICK n \in Nat : n = Len(l) /\ n # 0
      BY <1>1, <3>1
    <3>3. n <= 1 => n = 1
      BY <3>2
    <3>4. QED
      BY <3>2, <3>3
  <2>7. QED
    BY <1>3, <2>2, <2>3, <2>4, <2>5, <2>6
<1>4. QED
  BY <1>2, <1>3

(* The order of lists.                                                     *)
LEMMA BelowOrder ==
  ASSUME NEW l \in Seq(Records), NEW m \in Seq(Records), NEW n \in Seq(Records)
  PROVE  /\ Below(l, l)
         /\ Below(l, m) /\ Below(m, n) => Below(l, n)
         /\ l = <<>> => Below(l, m)
         /\ InOrder /\ Below(l, m) /\ Below(m, l) => Facts(l) = Facts(m) /\ Seen(l) = Seen(m)
<1>1. Seen(l) \in Nat /\ Seen(m) \in Nat /\ Seen(n) \in Nat
  BY HeadOf
<1>2. l = <<>> => Facts(l) = {} /\ Seen(l) = 0
  BY DEF Facts, Seen
<1>3. Below(l, l)
  BY <1>1 DEF Below, Tell
<1>4. ASSUME Below(l, m), Below(m, n)
      PROVE  Below(l, n)
  <2>1. Tell(l, n)
    BY <1>4, Zenon DEF Below, Tell
  <2>2. Seen(l) <= Seen(n)
    BY <1>1, <1>4 DEF Below
  <2>3. QED
    BY <2>1, <2>2 DEF Below
<1>5. l = <<>> => Below(l, m)
  BY <1>1, <1>2 DEF Below, Tell
<1>6. ASSUME InOrder, Below(l, m), Below(m, l)
      PROVE  Facts(l) = Facts(m) /\ Seen(l) = Seen(m)
  <2>1. Facts(l) = Facts(m)
    BY <1>6, Zenon DEF Below, Tell
  <2>2. Seen(l) = Seen(m)
    BY <1>1, <1>6 DEF Below
  <2>3. QED
    BY <2>1, <2>2
<1>7. QED
  BY <1>3, <1>4, <1>5, <1>6

(* Lists of at most one unmarked record, each below the other, are equal.  *)
LEMMA BelowEqual ==
  ASSUME NEW l \in Seq(Records), NEW m \in Seq(Records), Len(l) <= 1, Len(m) <= 1, Clean(l), Clean(m),
         l # <<>> => Facts(l) # {}, m # <<>> => Facts(m) # {}, InOrder, Below(l, m), Below(m, l)
  PROVE  l = m
<1>1. Facts(l) = Facts(m) /\ Seen(l) = Seen(m)
  BY BelowOrder
<1>2. CASE l = <<>> \/ m = <<>>
  <2>1. Facts(l) = {} /\ Facts(m) = {}
    BY <1>1, <1>2 DEF Facts
  <2>2. QED
    BY <2>1
<1>3. CASE l # <<>> /\ m # <<>>
  <2>1. /\ l[1] \in Records /\ Facts(l) = l[1].facts /\ Seen(l) = l[1].seen
        /\ m[1] \in Records /\ Facts(m) = m[1].facts /\ Seen(m) = m[1].seen
    BY <1>3, HeadOf
  <2>2. Len(l) = 1 /\ Len(m) = 1
    BY <1>3, HeadOf
  <2>3. ~l[1].gotten /\ ~m[1].gotten
    BY <2>2 DEF Clean
  <2>4. PICK x \in Records, y \in Records : x = l[1] /\ y = m[1]
    BY <2>1
  <2>5. x.facts = y.facts /\ x.seen = y.seen /\ x.gotten = y.gotten
    BY <1>1, <2>1, <2>3, <2>4 DEF Records
  <2>6. x = y
    BY <2>5 DEF Records
  <2>7. ASSUME NEW n \in 1 .. Len(l)
        PROVE  l[n] = m[n]
    <3>1. n = 1
      BY <2>2
    <3>2. QED
      BY <2>4, <2>6, <3>1
  <2>8. QED
    BY <2>2, <2>7, SeqEqual
<1>4. QED
  BY <1>2, <1>3

(* A record is put in front of a list.                                     *)
LEMMA FrontOf ==
  ASSUME NEW x \in Records, NEW l \in Seq(Records), NEW m, m = <<x>> \o l
  PROVE  /\ m \in Seq(Records) /\ m # <<>> /\ m[1] = x /\ Len(m) = Len(l) + 1
         /\ \A n \in 1 .. Len(l) : n + 1 \in 1 .. Len(m) /\ m[n + 1] = l[n]
         /\ \A n \in 1 .. Len(m) : n = 1 \/ (n - 1 \in 1 .. Len(l) /\ m[n] = l[n - 1])
<1>1. PICK y \in Seq(Records) : y = <<x>> /\ Len(y) = 1 /\ y[1] = x
  <2>1. <<x>> \in Seq(Records)
    OBVIOUS
  <2>2. QED
    BY <2>1
<1>2. Len(l) \in Nat
  BY LenProperties
<1>3. /\ m \in Seq(Records) /\ Len(m) = 1 + Len(l)
      /\ \A n \in 1 .. 1 + Len(l) : m[n] = IF n <= 1 THEN y[n] ELSE l[n - 1]
  BY <1>1, ConcatProperties
<1>4. 1 \in 1 .. 1 + Len(l) /\ m[1] = x
  BY <1>1, <1>2, <1>3
<1>5. m # <<>>
  BY <1>2, <1>3, <1>4, EmptySeq
<1>6. ASSUME NEW n \in 1 .. Len(l)
      PROVE  n + 1 \in 1 .. Len(m) /\ m[n + 1] = l[n]
  <2>1. n + 1 \in 1 .. 1 + Len(l) /\ ~(n + 1 <= 1) /\ (n + 1) - 1 = n
    BY <1>2
  <2>2. QED
    BY <1>3, <2>1
<1>7. ASSUME NEW n \in 1 .. Len(m), n # 1
      PROVE  n - 1 \in 1 .. Len(l) /\ m[n] = l[n - 1]
  <2>1. n \in 1 .. 1 + Len(l) /\ ~(n <= 1) /\ n - 1 \in 1 .. Len(l)
    BY <1>2, <1>3, <1>7
  <2>2. QED
    BY <1>3, <2>1
<1>8. Len(m) = Len(l) + 1
  BY <1>2, <1>3
<1>9. QED
  BY <1>3, <1>4, <1>5, <1>6, <1>7, <1>8

(* What it tells then.                                                     *)
LEMMA FrontTells ==
  ASSUME NEW x \in Records, NEW l \in Seq(Records), NEW m, m = <<x>> \o l
  PROVE  x.facts \subseteq Told(m) /\ Told(l) \subseteq Told(m) /\ Facts(m) = x.facts /\ Seen(m) = x.seen
<1>1. m \in Seq(Records) /\ m # <<>> /\ m[1] = x /\ \A n \in 1 .. Len(l) : n + 1 \in 1 .. Len(m) /\ m[n + 1] = l[n]
  BY FrontOf
<1>2. Facts(m) = x.facts /\ Seen(m) = x.seen
  BY <1>1 DEF Facts, Seen
<1>3. x.facts \subseteq Told(m)
  BY <1>1, <1>2, HeadOf
<1>4. ASSUME NEW e \in Told(l)
      PROVE  e \in Told(m)
  <2>1. PICK n \in 1 .. Len(l) : e \in l[n].facts
    BY ToldAt
  <2>2. PICK p \in 1 .. Len(m) : m[p] = l[n]
    BY <1>1
  <2>3. m[p].facts \subseteq Told(m)
    BY <1>1, ToldAt
  <2>4. QED
    BY <2>1, <2>2, <2>3
<1>5. QED
  BY <1>2, <1>3, <1>4

(* A list of one.                                                          *)
LEMMA SingleTells ==
  ASSUME NEW x \in Records, NEW m, m = <<x>>
  PROVE  m \in Seq(Records) /\ Len(m) = 1 /\ m # <<>> /\ Facts(m) = x.facts /\ Seen(m) = x.seen /\ Told(m) = x.facts
<1>1. m \in Seq(Records) /\ Len(m) = 1 /\ m[1] = x /\ m # <<>>
  OBVIOUS
<1>2. Facts(m) = x.facts /\ Seen(m) = x.seen
  BY <1>1 DEF Facts, Seen
<1>3. Told(m) = Facts(m)
  <2>1. m \in Seq(Records) /\ Len(m) <= 1
    BY <1>1
  <2>2. QED
    BY <2>1, HeadOf
<1>4. QED
  BY <1>1, <1>2, <1>3

(* Fields of records, also of those that travel, and what is stored.       *)
LEMMA RecordFields ==
  ASSUME NEW r \in Records \cup Cargo
  PROVE  /\ r.facts \subseteq Packets /\ r.seen \in Nat /\ r.seen \in 0 .. MaxTime
         /\ Stored(r) \in Records /\ Stored(r).facts = r.facts /\ Stored(r).seen = r.seen
<1>1. r.facts \subseteq Packets /\ r.seen \in 0 .. MaxTime
  BY DEF Records, Cargo
<1>2. r.seen \in Nat
  BY <1>1, ShareAssumption
<1>3. <<>> \in Seq(Records)
  OBVIOUS
<1>4. Stored(r) \in Records
  BY <1>3, PutTypes
<1>5. QED
  BY <1>1, <1>2, <1>4 DEF Stored

(* A put of multi-flow state merges a record that is not older than the    *)
(* one at hand, and leaves that one as it is otherwise.                    *)
LEMMA PutAsset ==
  ASSUME NEW l \in Seq(Records), Len(l) <= 1, NEW r \in Records \cup Cargo, NEW m, m = put_asset_per_sip(l, r)
  PROVE  /\ m \in Seq(Records) /\ Len(m) <= 1 /\ m # <<>>
         /\ Seen(l) <= r.seen => Facts(m) = Facts(l) \cup r.facts /\ Seen(m) = r.seen
         /\ ~(Seen(l) <= r.seen) => m = l
<1>1. r.seen \in Nat /\ Seen(l) \in Nat
  BY HeadOf, RecordFields
<1>2. CASE l = <<>>
  <2>1. PICK x \in Records : x = Stored(r) /\ x.facts = r.facts /\ x.seen = r.seen
    BY RecordFields
  <2>2. m = <<x>>
    BY <1>2, <2>1 DEF put_asset_per_sip
  <2>3. m \in Seq(Records) /\ Len(m) = 1 /\ m # <<>> /\ Facts(m) = r.facts /\ Seen(m) = r.seen
    BY <2>1, <2>2, SingleTells
  <2>4. Facts(l) = {} /\ Seen(l) = 0
    BY <1>2 DEF Facts, Seen
  <2>5. Seen(l) <= r.seen
    BY <1>1, <2>4
  <2>6. Facts(m) = Facts(l) \cup r.facts
    BY <2>3, <2>4
  <2>7. Len(m) <= 1
    BY <2>3
  <2>8. QED
    BY <1>2, <2>3, <2>5, <2>6, <2>7
<1>3. CASE l # <<>> /\ Seen(l) > r.seen
  <2>1. m = l
    BY <1>3, HeadOf DEF put_asset_per_sip
  <2>2. ~(Seen(l) <= r.seen)
    BY <1>1, <1>3
  <2>3. QED
    BY <1>3, <2>1, <2>2
<1>4. CASE l # <<>> /\ ~(Seen(l) > r.seen)
  <2>1. l[1] \in Records /\ Facts(l) = l[1].facts /\ Seen(l) = l[1].seen
    BY <1>4, HeadOf
  <2>2. PICK x : x = [l[1] EXCEPT !.facts = @ \cup r.facts, !.seen = r.seen]
    OBVIOUS
  <2>3. x \in Records /\ x.facts = l[1].facts \cup r.facts /\ x.seen = r.seen
    <3>1. r.facts \in SUBSET Packets /\ r.seen \in 0 .. MaxTime
      BY RecordFields
    <3>2. PICK y \in Records : y = l[1]
      BY <2>1
    <3>3. x = [y EXCEPT !.facts = @ \cup r.facts, !.seen = r.seen]
      BY <2>2, <3>2
    <3>4. x \in Records /\ x.facts = y.facts \cup r.facts /\ x.seen = r.seen
      BY <3>1, <3>3 DEF Records
    <3>5. QED
      BY <3>2, <3>4
  <2>4. m = <<x>>
    BY <1>4, <2>1, <2>2 DEF put_asset_per_sip
  <2>5. m \in Seq(Records) /\ Len(m) = 1 /\ m # <<>> /\ Facts(m) = x.facts /\ Seen(m) = x.seen
    BY <2>3, <2>4, SingleTells
  <2>6. Seen(l) <= r.seen
    BY <1>1, <1>4
  <2>7. Len(m) <= 1
    BY <2>5
  <2>8. QED
    BY <1>4, <2>1, <2>3, <2>5, <2>6, <2>7
<1>5. QED
  BY <1>2, <1>3, <1>4

(* Lists that are merged: the later one decides the second, and what the   *)
(* one that is put tells is added unless it is the older one.              *)
LEMMA MergedList ==
  ASSUME NEW l \in Seq(Records), Len(l) <= 1, NEW s \in Seq(Records), Len(s) <= 1, NEW m, m = Merged(l, s)
  PROVE  /\ m \in Seq(Records) /\ Len(m) <= 1 /\ (s # <<>> => m # <<>>)
         /\ Seen(l) <= Seen(s) => Facts(m) = Facts(l) \cup Facts(s) /\ Seen(m) = Seen(s)
         /\ ~(Seen(l) <= Seen(s)) => Facts(m) = Facts(l) /\ Seen(m) = Seen(l)
<1>1. Seen(l) \in Nat /\ Seen(s) \in Nat
  BY HeadOf
<1>2. CASE s = <<>>
  <2>1. m = l /\ Facts(s) = {} /\ Seen(s) = 0
    BY <1>2 DEF Merged, Facts, Seen
  <2>2. Seen(l) <= Seen(s) => Seen(l) = Seen(s)
    BY <1>1, <2>1
  <2>3. Facts(m) = Facts(l) \cup Facts(s)
    BY <2>1
  <2>4. QED
    BY <1>2, <2>1, <2>2, <2>3
<1>3. CASE s # <<>>
  <2>1. s[1] \in Records /\ Facts(s) = s[1].facts /\ Seen(s) = s[1].seen
    BY <1>3, HeadOf
  <2>2. m = put_asset_per_sip(l, s[1])
    BY <1>3 DEF Merged
  <2>3. PICK r \in Records : r = s[1]
    BY <2>1
  <2>4. /\ m \in Seq(Records) /\ Len(m) <= 1 /\ m # <<>>
        /\ Seen(l) <= r.seen => Facts(m) = Facts(l) \cup r.facts /\ Seen(m) = r.seen
        /\ ~(Seen(l) <= r.seen) => m = l
    BY <2>2, <2>3, PutAsset
  <2>5. QED
    BY <2>1, <2>3, <2>4
<1>4. QED
  BY <1>2, <1>3

(* Merging once more changes nothing that counts.                          *)
LEMMA MergedTwice ==
  ASSUME NEW l \in Seq(Records), Len(l) <= 1, NEW s \in Seq(Records), Len(s) <= 1, NEW m, m = Merged(l, s)
  PROVE  /\ Facts(Merged(m, s)) = Facts(m) /\ Seen(Merged(m, s)) = Seen(m)
         /\ Facts(l) \subseteq Facts(m) /\ Seen(l) <= Seen(m) /\ Seen(s) <= Seen(m)
         /\ Seen(m) = Seen(l) \/ Seen(m) = Seen(s)
<1>1. Seen(l) \in Nat /\ Seen(s) \in Nat
  BY HeadOf
<1>2. /\ m \in Seq(Records) /\ Len(m) <= 1
      /\ Seen(l) <= Seen(s) => Facts(m) = Facts(l) \cup Facts(s) /\ Seen(m) = Seen(s)
      /\ ~(Seen(l) <= Seen(s)) => Facts(m) = Facts(l) /\ Seen(m) = Seen(l)
  BY MergedList
<1>3. /\ Seen(m) <= Seen(s) => Facts(Merged(m, s)) = Facts(m) \cup Facts(s) /\ Seen(Merged(m, s)) = Seen(s)
      /\ ~(Seen(m) <= Seen(s)) => Facts(Merged(m, s)) = Facts(m) /\ Seen(Merged(m, s)) = Seen(m)
  BY <1>2, MergedList
<1>4. CASE Seen(l) <= Seen(s)
  <2>1. Seen(m) <= Seen(s) /\ Seen(s) <= Seen(m) /\ Seen(l) <= Seen(m)
    BY <1>1, <1>2, <1>4
  <2>2. Facts(m) \cup Facts(s) = Facts(m) /\ Facts(l) \subseteq Facts(m)
    BY <1>2, <1>4
  <2>3. QED
    BY <1>2, <1>3, <1>4, <2>1, <2>2
<1>5. CASE ~(Seen(l) <= Seen(s))
  <2>1. ~(Seen(m) <= Seen(s)) /\ Seen(s) <= Seen(m) /\ Seen(l) <= Seen(m)
    BY <1>1, <1>2, <1>5
  <2>2. QED
    BY <1>2, <1>3, <1>5, <2>1
<1>6. QED
  BY <1>4, <1>5

(* Merging a list with one that is below it changes nothing that counts.   *)
LEMMA MergedDone ==
  ASSUME NEW l \in Seq(Records), Len(l) <= 1, NEW s \in Seq(Records), Len(s) <= 1, Below(s, l)
  PROVE  (InOrder => Facts(Merged(l, s)) = Facts(l)) /\ Seen(Merged(l, s)) = Seen(l)
<1>1. Seen(l) \in Nat /\ Seen(s) \in Nat
  BY HeadOf
<1>2. (InOrder => Facts(s) \subseteq Facts(l)) /\ Seen(s) <= Seen(l)
  BY DEF Below, Tell
<1>3. CASE Seen(l) <= Seen(s)
  <2>1. Facts(Merged(l, s)) = Facts(l) \cup Facts(s) /\ Seen(Merged(l, s)) = Seen(s)
    BY <1>3, MergedList
  <2>2. Seen(l) = Seen(s)
    BY <1>1, <1>2, <1>3
  <2>3. QED
    BY <1>2, <2>1, <2>2
<1>4. CASE ~(Seen(l) <= Seen(s))
  BY <1>4, MergedList
<1>5. QED
  BY <1>3, <1>4

(* A packet is processed by an instance without marks.                     *)
LEMMA UpdatedList ==
  ASSUME NEW l \in Seq(Records), Clean(l), NEW k, NEW p \in Packets, NEW t \in 0 .. MaxTime, NEW m, m = Updated(l, k, p, t)
  PROVE  /\ m \in Seq(Records) /\ m # <<>> /\ Told(l) \subseteq Told(m) /\ p \in Facts(m) /\ Facts(l) \subseteq Facts(m)
         /\ Seen(m) = t /\ (Len(l) <= 1 => Len(m) <= 1)
<1>1. CASE l = <<>>
  <2>1. PICK x \in Records : x = [facts |-> {p}, seen |-> t, gotten |-> FALSE] /\ x.facts = {p} /\ x.seen = t
    <3>1. PICK x : x = [facts |-> {p}, seen |-> t, gotten |-> FALSE]
      OBVIOUS
    <3>2. x \in Records /\ x.facts = {p} /\ x.seen = t
      BY <3>1 DEF Records
    <3>3. QED
      BY <3>1, <3>2
  <2>2. m = <<x>>
    BY <1>1, <2>1 DEF Updated
  <2>3. m \in Seq(Records) /\ Len(m) = 1 /\ m # <<>> /\ Facts(m) = {p} /\ Seen(m) = t
    BY <2>1, <2>2, SingleTells
  <2>4. Facts(l) = {} /\ Told(l) = {}
    <3>1. Len(l) <= 1 /\ Facts(l) = {}
      BY <1>1 DEF Facts
    <3>2. QED
      BY <3>1, HeadOf
  <2>5. QED
    BY <2>3, <2>4
<1>2. CASE l # <<>>
  <2>1. l[1] \in Records /\ Facts(l) = l[1].facts /\ 1 \in 1 .. Len(l)
    <3>1. Len(l) \in Nat /\ Len(l) # 0
      BY <1>2, HeadOf, LenProperties
    <3>2. QED
      BY <1>2, <3>1, HeadOf
  <2>2. ~l[1].gotten
    BY <2>1 DEF Clean
  <2>3. PICK x \in Records : /\ x = [l[1] EXCEPT !.facts = @ \cup {p}, !.seen = t]
                             /\ x.facts = l[1].facts \cup {p} /\ x.seen = t
    <3>1. PICK x : x = [l[1] EXCEPT !.facts = @ \cup {p}, !.seen = t]
      OBVIOUS
    <3>2. {p} \in SUBSET Packets
      OBVIOUS
    <3>3. PICK y \in Records : y = l[1]
      BY <2>1
    <3>4. x = [y EXCEPT !.facts = @ \cup {p}, !.seen = t]
      BY <3>1, <3>3
    <3>5. x \in Records /\ x.facts = y.facts \cup {p} /\ x.seen = t
      BY <3>2, <3>4 DEF Records
    <3>6. QED
      BY <3>1, <3>3, <3>5
  <2>4. PICK q \in Seq(Records) : q = Tail(l) /\ Len(q) = Len(l) - 1 /\ \A n \in 1 .. Len(q) : q[n] = l[n + 1]
    <3>1. /\ Tail(l) \in Seq(Records) /\ Len(Tail(l)) = Len(l) - 1
          /\ \A n \in 1 .. Len(Tail(l)) : Tail(l)[n] = l[n + 1]
      BY <1>2, QueueType
    <3>2. QED
      BY <3>1
  <2>5. m = <<x>> \o q
    BY <1>2, <2>2, <2>3, <2>4 DEF Updated
  <2>6. m \in Seq(Records) /\ m # <<>> /\ m[1] = x /\ Len(m) = Len(q) + 1
    BY <2>5, FrontOf
  <2>7. Facts(m) = x.facts /\ Seen(m) = t /\ Told(q) \subseteq Told(m) /\ x.facts \subseteq Told(m)
    BY <2>3, <2>5, FrontTells
  <2>8. ASSUME NEW e \in Told(l)
        PROVE  e \in Told(m)
    <3>1. PICK n \in 1 .. Len(l) : e \in l[n].facts
      BY ToldAt
    <3>2. CASE n = 1
      BY <2>3, <2>7, <3>1, <3>2
    <3>3. CASE n # 1
      <4>1. PICK b : b = n - 1
        OBVIOUS
      <4>2. b \in 1 .. Len(q) /\ b + 1 = n
        <5>1. Len(l) \in Nat
          BY LenProperties
        <5>2. QED
          BY <2>4, <3>3, <4>1, <5>1
      <4>3. q[b] = l[n]
        BY <2>4, <4>2
      <4>4. q[b].facts \subseteq Told(q)
        BY <4>2, ToldAt
      <4>5. QED
        BY <2>7, <3>1, <4>3, <4>4
    <3>4. QED
      BY <3>2, <3>3
  <2>9. Len(l) <= 1 => Len(m) <= 1
    <3>1. PICK a \in Nat, b \in Nat : a = Len(l) /\ b = Len(m)
      BY <2>6, LenProperties
    <3>2. b = (a - 1) + 1
      BY <2>4, <2>6, <3>1
    <3>3. a <= 1 => b <= 1
      BY <3>2
    <3>4. QED
      BY <3>1, <3>3
  <2>10. QED
    BY <2>1, <2>3, <2>6, <2>7, <2>8, <2>9
<1>3. QED
  BY <1>1, <1>2

(* The list tells what it told before.                                     *)
LEMMA UpdatedTold ==
  ASSUME NEW l \in Seq(Records), Clean(l), NEW k, NEW p \in Packets, NEW t \in 0 .. MaxTime
  PROVE  Told(l) \subseteq Told(Updated(l, k, p, t))
  BY UpdatedList

(* The newest record keeps what it tells ...                               *)
LEMMA UpdatedFacts ==
  ASSUME NEW l \in Seq(Records), Clean(l), NEW k, NEW p \in Packets, NEW t \in 0 .. MaxTime
  PROVE  Facts(l) \subseteq Facts(Updated(l, k, p, t))
  BY UpdatedList

(* ... and tells of the packet.                                            *)
LEMMA UpdatedTells ==
  ASSUME NEW l \in Seq(Records), Clean(l), NEW k, NEW p \in Packets, NEW t \in 0 .. MaxTime
  PROVE  p \in Facts(Updated(l, k, p, t))
  BY UpdatedList

(* It stays a single one.                                                  *)
LEMMA UpdatedLength ==
  ASSUME NEW l \in Seq(Records), Clean(l), NEW k, NEW p \in Packets, NEW t \in 0 .. MaxTime, Len(l) <= 1
  PROVE  Len(Updated(l, k, p, t)) <= 1
  BY UpdatedList

(* It is as new as that.                                                   *)
LEMMA UpdatedSeen ==
  ASSUME NEW l \in Seq(Records), Clean(l), NEW k, NEW p \in Packets, NEW t \in 0 .. MaxTime
  PROVE  Seen(Updated(l, k, p, t)) = t
  BY UpdatedList

-----------------------------------------------------------------------------
(* Steps that leave the state of the instances as it is.                   *)

(* What is copied stays what it is while the source keeps its state.       *)
LEMMA SourceSame ==
  ASSUME UNCHANGED <<args, currentSource, key>>, state'[currentSource] = state[currentSource]
  PROVE  /\ \A h : SourceList(h)' = SourceList(h) /\ (OfSource(h)' <=> OfSource(h)) /\ SourceRec(h)' = SourceRec(h)
         /\ \A m : Carry(m)' <=> Carry(m)
         /\ WrongRequests' = WrongRequests /\ WrongAnswers' = WrongAnswers
<1>1. \A h : SourceList(h)' = SourceList(h)
  BY DEF SourceList
<1>2. \A h : (OfSource(h)' <=> OfSource(h)) /\ SourceRec(h)' = SourceRec(h)
  BY <1>1 DEF OfSource, SourceRec
<1>3. \A m : Carry(m)' <=> Carry(m)
  <2>1. StateKinds' = StateKinds
    BY ArgsKept
  <2>2. \A h : OfHost(h)' = OfHost(h)
    BY <2>1 DEF OfHost
  <2>3. \A m : Stored(m.rec)' = Stored(m.rec) /\ Stored(SourceRec(m.hashkey))' = Stored(SourceRec(m.hashkey))
    BY <1>2 DEF Stored
  <2>4. QED
    BY <1>2, <2>2, <2>3 DEF Carry
<1>4. WrongRequests' = WrongRequests
  <2>1. Requests' = Requests
    BY ArgsKept
  <2>2. QED
    BY <1>3, <2>1, Zenon DEF WrongRequests
<1>5. WrongAnswers' = WrongAnswers
  <2>1. Answers' = Answers
    BY ArgsKept
  <2>2. QED
    BY <1>3, <2>1, Zenon DEF WrongAnswers
<1>6. QED
  BY <1>1, <1>2, <1>3, <1>4, <1>5

(* The order in which the instances know things is settled at the start.   *)
LEMMA TellKept ==
  ASSUME args' = args
  PROVE  (InOrder' <=> InOrder) /\ \A l, m : Tell(l, m)' <=> Tell(l, m)
<1>1. Insts' = Insts
  BY ArgsKept
<1>2. InOrder' <=> InOrder
  BY <1>1 DEF InOrder
<1>3. \A l, m : Facts(l)' = Facts(l) /\ Facts(m)' = Facts(m)
  BY DEF Facts
<1>4. QED
  BY <1>2, <1>3 DEF Tell

(* It stays, and so does what has been got, when all keep their state.     *)
LEMMA SourceKept ==
  ASSUME UNCHANGED <<args, state, currentSource, key, isSyncFinished>>
  PROVE  /\ \A h : SourceList(h)' = SourceList(h) /\ (OfSource(h)' <=> OfSource(h)) /\ SourceRec(h)' = SourceRec(h)
         /\ \A m : Carry(m)' <=> Carry(m)
         /\ WrongRequests' = WrongRequests /\ WrongAnswers' = WrongAnswers
         /\ \A d, h : Got(d, h)' <=> Got(d, h)
         /\ \A i, k, u : Known(i, k, u)' = Known(i, k, u)
<1>1. /\ \A h : SourceList(h)' = SourceList(h) /\ (OfSource(h)' <=> OfSource(h)) /\ SourceRec(h)' = SourceRec(h)
      /\ \A m : Carry(m)' <=> Carry(m)
      /\ WrongRequests' = WrongRequests /\ WrongAnswers' = WrongAnswers
  BY SourceSame
<1>2. \A i, k, u : Known(i, k, u)' = Known(i, k, u)
  BY DEF Known
<1>3. \A d, h : Got(d, h)' <=> Got(d, h)
  BY <1>1, <1>2, TellKept DEF Got, Below, Seen
<1>4. QED
  BY <1>1, <1>2, <1>3

(* Lists of the instances.                                                 *)
LEMMA ListTypes ==
  ASSUME VarsType
  PROVE  /\ StateKinds \subseteq Kinds /\ StateKinds \subseteq {"pf", "mf"}
         /\ \A i \in Insts, k \in StateKinds, u \in Units : state[i][k][u] \in Seq(Records)
         /\ now \in Nat /\ currentSource \in Insts \cup {0} /\ key \subseteq Units
<1>1. StateKinds \subseteq Kinds /\ StateKinds \subseteq {"pf", "mf"}
  BY ScopeType DEF StateKinds
<1>2. \A i \in Insts, k \in StateKinds, u \in Units : state[i][k][u] \in Seq(Records)
  BY DEF VarsType, InstancesType
<1>3. now \in Nat
  BY ShareAssumption DEF VarsType, InstancesType
<1>4. QED
  BY <1>1, <1>2, <1>3 DEF VarsType, SyncType

(* Whether state is being copied, when the same kinds take part.           *)
LEMMA SameBusy ==
  ASSUME VarsType, args' = args, \A k \in StateKinds : Active(k)' <=> Active(k)
  PROVE  Busy' <=> Busy
  BY ArgsKept DEF Busy

(* What the order of the lists and the packets learned depend on.          *)
LEMMA OrderFrame ==
  ASSUME VarsType, args' = args, OrderInv, LearnedInv, Busy' <=> Busy, \A i \in Insts : Echo(i)' <=> Echo(i),
         UNCHANGED <<state, currentSource, key, now, processed, lastPacket, isSyncFinished, nextInstIndex>>
  PROVE  OrderInv' /\ LearnedInv'
<1>1. Insts' = Insts /\ StateKinds' = StateKinds
  BY ArgsKept
<1>2. FormInv => FormInv'
  BY <1>1 DEF FormInv, Seen, Facts
<1>3. FirstSync => FirstSync'
  <2>1. \A i, u : Final(i, u)' = Final(i, u)
    BY DEF Final, Merged, put_asset_per_sip, Stored
  <2>2. \A i, j, u : /\ Tell(Final(i, u), Final(j, u))' <=> Tell(Final(i, u), Final(j, u))
                     /\ Seen(Final(i, u))' = Seen(Final(i, u))
    BY <2>1, TellKept DEF Tell, Facts, Seen
  <2>3. QED
    BY <1>1, <2>2 DEF FirstSync, Below
<1>4. LaterSync => LaterSync'
  <2>1. \A i, us : Ahead(i, us)' <=> Ahead(i, us)
    BY <1>1, TellKept DEF Ahead, Below, Tell, Seen, Facts
  <2>2. QED
    BY <1>1, <2>1 DEF LaterSync
<1>5. OrderInv'
  BY <1>1, <1>2, <1>3, <1>4 DEF OrderInv
<1>6. LearnedInv'
  <2>1. \A i, k, u : Known(i, k, u)' = Known(i, k, u)
    BY DEF Known
  <2>2. \A i : AtHead(i)' <=> AtHead(i)
    BY <1>1 DEF AtHead, Facts
  <2>3. QED
    BY <1>1, <2>1, <2>2 DEF LearnedInv, AtHead, Facts, Known
<1>7. QED
  BY <1>5, <1>6

(* Nothing that must not travel comes onto a queue that loses its head,    *)
(* gains another message, or keeps its messages.                           *)
LEMMA NoneNew ==
  ASSUME NEW S, NEW s \in Seq(S), NEW t, NEW Q, NEW R \in SUBSET Q, ~Has(s, R)
  PROVE  /\ t = s \/ (s # <<>> /\ t = Tail(s)) => ~Has(t, R)
         /\ \A x \in S : x \notin R /\ t = Append(s, x) => ~Has(t, R)
         /\ t \in Seq(S) /\ Kept(s, t, Q) => ~Has(t, R)
<1>1. s # <<>> => ~Has(Tail(s), R)
  BY HasTail
<1>2. \A x \in S : x \notin R => ~Has(Append(s, x), R)
  BY HasAppend
<1>3. t \in Seq(S) /\ Kept(s, t, Q) => (Has(t, R) <=> Has(s, R))
  BY KeptQueue
<1>4. QED
  BY <1>1, <1>2, <1>3

(* A message that must not travel is one of a round.                       *)
LEMMA WrongOnes ==
  /\ WrongRequests \in SUBSET RoundRequests /\ WrongAnswers \in SUBSET RoundAnswers
  /\ \A m \in Requests : m \in WrongRequests <=> (m.type = "Get" /\ m.units # key) \/ (m.type = "Put" /\ ~Carry(m))
  /\ \A m \in Answers : m \in WrongAnswers <=> m.type = "State" /\ ~Carry(m)
  BY DEF WrongRequests, WrongAnswers, RoundRequests, RoundAnswers

(* State is copied from an instance.                                       *)
LEMMA BusySource ==
  ASSUME VarsType, RoundInv, Busy
  PROVE  currentSource \in Insts /\ Round
<1>1. PICK k \in StateKinds : Active(k)
  BY DEF Busy
<1>2. k \in Kinds
  BY ListTypes
<1>3. QED
  BY <1>1, <1>2 DEF RoundInv, SourceInv, Round

(* The copies that are under way go on.                                    *)
LEMMA CopyFrame ==
  ASSUME VarsType, args' = args, RoundInv, Copies, Busy' <=> Busy, \A i \in Insts : Echo(i)' <=> Echo(i),
         UNCHANGED <<state, currentSource, key, now, processed, lastPacket, isSyncFinished, nextInstIndex>>,
         \A i \in Insts : ~Has(stateIn'[i], WrongRequests) /\ ~Has(stateOut'[i], WrongAnswers),
         \A c \in 1 .. Len(chunks') : chunks'[c].live => Carry(chunks'[c]),
         currentSource \in Insts =>
           \A d \in Insts, h \in StateKeys :
             d # currentSource /\ h.unit \in key /\ OfSource(h) /\ Waits(d, h) => Waits(d, h)'
  PROVE  Copies'
<1>1. Insts' = Insts /\ StateKeys' = StateKeys
  BY ArgsKept
<1>2. /\ \A h : OfSource(h)' <=> OfSource(h)
      /\ \A m : Carry(m)' <=> Carry(m)
      /\ WrongRequests' = WrongRequests /\ WrongAnswers' = WrongAnswers
      /\ \A d, h : Got(d, h)' <=> Got(d, h)
  BY SourceKept
<1>3. CarryInv'
  <2>1. \A c \in 1 .. Len(chunks') : chunks'[c].live => Carry(chunks'[c])
    OBVIOUS
  <2>2. \A c \in 1 .. Len(chunks') : chunks'[c].live => Carry(chunks[c])'
    <3>1. PICK cs : cs = chunks'
      OBVIOUS
    <3>2. \A c \in 1 .. Len(cs) : cs[c].live => Carry(cs[c])'
      BY <1>2, <2>1, <3>1
    <3>3. QED
      BY <3>1, <3>2 DEF Carry, OfSource, SourceRec, SourceList
  <2>3. QED
    BY <1>1, <1>2, <2>2 DEF CarryInv
<1>4. CopiedInv'
  <2>1. SUFFICES ASSUME Busy', NEW d \in Insts, d # currentSource, NEW h \in StateKeys, h.unit \in key, OfSource(h)
                 PROVE  Waits(d, h)' \/ Got(d, h)'
    BY <1>1, <1>2 DEF CopiedInv
  <2>2. Waits(d, h) \/ Got(d, h)
    BY <2>1 DEF Copies, CopiedInv
  <2>3. currentSource \in Insts
    BY <2>1, BusySource
  <2>4. QED
    BY <1>2, <2>1, <2>2, <2>3
<1>5. OrderInv' /\ LearnedInv'
  BY OrderFrame DEF Copies
<1>6. QED
  BY <1>3, <1>4, <1>5 DEF Copies

(* Steps that add nothing to a round and take nothing from it.             *)
LEMMA QuietCopies ==
  ASSUME VarsType, VarsType', args' = args, RoundInv, Copies, \A i \in Insts : Echo(i)' <=> Echo(i),
         UNCHANGED <<state, currentSource, key, now, processed, lastPacket, isSyncFinished, nextInstIndex, acked, tasks>>,
         SameChunks, \A c \in 1 .. Len(chunks) : chunks'[c].rec = chunks[c].rec,
         \A i \in Insts : Kept(stateIn[i], stateIn'[i], RoundRequests) /\ Kept(stateOut[i], stateOut'[i], RoundAnswers)
  PROVE  Copies'
<1>1. \A i \in Insts, k \in Kinds : (Asking(i, k)' <=> Asking(i, k)) /\ (Answering(i, k)' <=> Answering(i, k))
  BY SameIn, SameOut
<1>2. \A i \in Insts, h \in StateKeys : (Sending(i, h)' <=> Sending(i, h)) /\ (Putting(i, h)' <=> Putting(i, h))
  BY SameIn, SameOut
<1>3. \A h : Tasked(h)' <=> Tasked(h)
  BY SameTable
<1>4. Busy' <=> Busy
  <2>1. \A k \in Kinds : Active(k)' <=> Active(k)
    BY <1>1, SameActive
  <2>2. QED
    BY <2>1, ListTypes, SameBusy
<1>5. ASSUME currentSource \in Insts, NEW d \in Insts, NEW h \in StateKeys, d # currentSource, Waits(d, h)
      PROVE  Waits(d, h)'
  <2>1. h.kind \in Kinds
    BY MessageTypes
  <2>2. QED
    BY <1>1, <1>2, <1>3, <1>5, <2>1 DEF Waits
<1>6. ASSUME NEW i \in Insts
      PROVE  ~Has(stateIn'[i], WrongRequests) /\ ~Has(stateOut'[i], WrongAnswers)
  <2>1. ~Has(stateIn[i], WrongRequests) /\ ~Has(stateOut[i], WrongAnswers)
    BY DEF Copies, CarryInv
  <2>2. /\ stateIn[i] \in Seq(Requests) /\ stateIn'[i] \in Seq(Requests)
        /\ stateOut[i] \in Seq(Answers) /\ stateOut'[i] \in Seq(Answers)
    BY ArgsKept DEF VarsType, ChannelsType
  <2>3. Kept(stateIn[i], stateIn'[i], RoundRequests) /\ Kept(stateOut[i], stateOut'[i], RoundAnswers)
    OBVIOUS
  <2>4. WrongRequests \in SUBSET RoundRequests /\ WrongAnswers \in SUBSET RoundAnswers
    BY WrongOnes
  <2>5. ~Has(stateIn'[i], WrongRequests)
    BY <2>1, <2>2, <2>3, <2>4, NoneNew
  <2>6. ~Has(stateOut'[i], WrongAnswers)
    BY <2>1, <2>2, <2>3, <2>4, NoneNew
  <2>7. QED
    BY <2>5, <2>6
<1>7. \A c \in 1 .. Len(chunks') : chunks'[c].live => Carry(chunks'[c])
  BY DEF Copies, CarryInv, Carry, SameChunks
<1>8. QED
  BY <1>4, <1>5, <1>6, <1>7, CopyFrame

(* The reports of a step that moves none are the same, so is the echo.     *)
LEMMA SameEcho ==
  ASSUME VarsType, VarsType', args' = args, SameReports, lastPacket' = lastPacket
  PROVE  \A i \in Insts : Echo(i)' <=> Echo(i)
  BY SameReported DEF SameReports

(* The steps before the synchronization.                                   *)
LEMMA StartCopies ==
  ASSUME VarsType, VarsType', args' = args, RoundInv, Copies,
         execute \/ \E i \in Insts : \/ receiveEventsAck(i) \/ incrementEventAckCount(i)
                                     \/ checkEventAckCount(i) \/ handle_enable_events(i)
  PROVE  Copies'
<1>1. CASE \E i \in Insts : checkEventAckCount(i)
  <2>1. UNCHANGED <<state, currentSource, key, now, processed, lastPacket, isSyncFinished, nextInstIndex, acked, tasks,
                    chunks, stateIn, stateOut, eventOut>>
    BY <1>1 DEF checkEventAckCount, opVars, syncVars, chunkVars, chanVars, nfVars
  <2>2. SameReports
    BY <2>1, NoReports
  <2>3. \A i \in Insts : Echo(i)' <=> Echo(i)
    BY <2>1, <2>2, SameEcho
  <2>4. /\ SameChunks /\ \A c \in 1 .. Len(chunks) : chunks'[c].rec = chunks[c].rec
        /\ \A i \in Insts : Kept(stateIn[i], stateIn'[i], RoundRequests) /\ Kept(stateOut[i], stateOut'[i], RoundAnswers)
    BY <2>1 DEF SameChunks, Kept
  <2>5. QED
    BY <2>1, <2>3, <2>4, QuietCopies
<1>2. CASE ~\E i \in Insts : checkEventAckCount(i)
  <2>1. /\ UNCHANGED <<opVars, ofq, hand, arrived, starts, eventOut, state, chunk, now, processed>>
        /\ UNCHANGED <<acked, count, putAcks, currentSource, key, chunks, tasks>>
        /\ SameQueues
    BY <1>2, StartSame
  <2>2. SameReports /\ UNCHANGED <<lastPacket, isSyncFinished, nextInstIndex>>
    BY <2>1, NoReports DEF opVars
  <2>3. \A i \in Insts : Echo(i)' <=> Echo(i)
    BY <2>2, SameEcho
  <2>4. /\ SameChunks /\ \A c \in 1 .. Len(chunks) : chunks'[c].rec = chunks[c].rec
        /\ \A i \in Insts : Kept(stateIn[i], stateIn'[i], RoundRequests) /\ Kept(stateOut[i], stateOut'[i], RoundAnswers)
    BY <2>1 DEF SameChunks, SameQueues
  <2>5. QED
    BY <2>1, <2>2, <2>3, <2>4, QuietCopies
<1>3. QED
  BY <1>1, <1>2

(* Counting the records and the acks of puts.                              *)
LEMMA CountCopies ==
  ASSUME VarsType, VarsType', args' = args, RoundInv, Copies, NEW i \in Insts,
         setGetCount(i) \/ receivePutAck(i) \/ incrementPutAcks(i) \/ incrementAcked(i) \/ compareAcked(i)
  PROVE  Copies'
<1>1. UNCHANGED <<state, currentSource, key, now, processed, lastPacket, isSyncFinished, nextInstIndex, acked, tasks,
                  stateIn, stateOut>>
  BY DEF setGetCount, receivePutAck, incrementPutAcks, incrementAcked, compareAcked, opVars, syncVars, chunkVars,
         chanVars, nfVars
<1>2. \A j \in Insts : Kept(stateIn[j], stateIn'[j], RoundRequests) /\ Kept(stateOut[j], stateOut'[j], RoundAnswers)
  BY <1>1 DEF Kept
<1>3. SameReports
  <2>1. CASE setGetCount(i) \/ receivePutAck(i) \/ incrementPutAcks(i)
    BY <2>1, RoundSame
  <2>2. CASE incrementAcked(i) \/ compareAcked(i)
    BY <2>2, NoReports DEF incrementAcked, compareAcked, chanVars
  <2>3. QED
    BY <2>1, <2>2
<1>4. \A j \in Insts : Echo(j)' <=> Echo(j)
  BY <1>1, <1>3, SameEcho
<1>5. chunks \in Seq(Chunks) /\ DOMAIN chunks = 1 .. Len(chunks)
  BY DEF VarsType, ChunksType
<1>6. SameChunks /\ \A c \in 1 .. Len(chunks) : chunks'[c].rec = chunks[c].rec
  <2>1. CASE setGetCount(i) \/ incrementPutAcks(i) \/ compareAcked(i)
    BY <2>1 DEF setGetCount, incrementPutAcks, compareAcked, chunkVars, SameChunks
  <2>2. CASE receivePutAck(i)
    <3>1. PICK m : m = Head(eventOut[i])
      OBVIOUS
    <3>2. eventOut[i] # <<>> /\ m.type = "PutAck" /\ eventOut' = [eventOut EXCEPT ![i] = Tail(@)]
      BY <2>2, <3>1 DEF receivePutAck, FromEvent
    <3>3. m \in Events /\ Acking(i, m.hashkey)
      BY <3>1, <3>2, EventTaken
    <3>4. PICK h \in StateKeys : h = m.hashkey
      BY <3>2, <3>3, MessageTypes
    <3>5. InTable(h)
      BY <3>3, <3>4 DEF RoundInv, SourceInv
    <3>6. Live(h) # {}
      BY <1>5, <3>5 DEF InTable, Live
    <3>7. chunks' = chunks
      BY <2>2, <3>1, <3>4, <3>6 DEF receivePutAck
    <3>8. QED
      BY <3>7 DEF SameChunks
  <2>3. CASE incrementAcked(i)
    <3>1. PICK t \in Threads : t = <<"se", i>>
      BY ThreadsOf
    <3>2. PICK c : c = chunk[t]
      OBVIOUS
    <3>3. pc[t] = "chunkAck" /\ c \in 1 .. Len(chunks)
      BY <2>3, <3>1, <3>2 DEF incrementAcked, Goto, VarsType, ThreadsType
    <3>4. PICK d : d = [chunks[c] EXCEPT !.acks = read[t].count + 1]
      OBVIOUS
    <3>5. chunks' = [chunks EXCEPT ![c] = d]
      BY <2>3, <3>1, <3>2, <3>4 DEF incrementAcked
    <3>6. chunks[c] \in Chunks
      BY <1>5, <3>3, ElementOfSeq
    <3>7. /\ d.hashkey = chunks[c].hashkey /\ d.live = chunks[c].live /\ d.dsts = chunks[c].dsts
          /\ d.rec = chunks[c].rec
      BY <3>4, <3>6 DEF Chunks
    <3>8. Len(chunks') = Len(chunks) /\ \A e \in 1 .. Len(chunks) : chunks'[e] = IF e = c THEN d ELSE chunks[e]
      BY <1>5, <3>3, <3>5
    <3>9. QED
      BY <3>7, <3>8 DEF SameChunks
  <2>4. QED
    BY <2>1, <2>2, <2>3
<1>7. QED
  BY <1>1, <1>2, <1>4, <1>6, QuietCopies

(* Packets on their way to an instance.                                    *)
LEMMA PacketCopies ==
  ASSUME VarsType, VarsType', args' = args, OneTurn, Copies, DistinctTraffic,
         packetOut \/ \E i \in Insts : sdmbn_preprocess_packet(i)
  PROVE  Copies'
<1>0. RoundInv
  BY DEF OneTurn
<1>1. UNCHANGED <<state, currentSource, key, now, processed, lastPacket, isSyncFinished, nextInstIndex, acked, tasks,
                  stateIn, stateOut, chunks>>
  BY DEF packetOut, sdmbn_preprocess_packet, opVars, syncVars, chunkVars
<1>2. /\ \A j \in Insts : Kept(stateIn[j], stateIn'[j], RoundRequests) /\ Kept(stateOut[j], stateOut'[j], RoundAnswers)
      /\ SameChunks /\ \A c \in 1 .. Len(chunks) : chunks'[c].rec = chunks[c].rec
  BY <1>1 DEF Kept, SameChunks
<1>3. \A j \in Insts : Echo(j)' <=> Echo(j)
  <2>1. CASE packetOut
    BY <1>1, <2>1, NoReports, SameEcho DEF packetOut
  <2>2. ASSUME NEW i \in Insts, sdmbn_preprocess_packet(i)
        PROVE  \A j \in Insts : Echo(j)' <=> Echo(j)
    <3>1. PICK x : x = Text[args.traffic[arrived + 1]]
      OBVIOUS
    <3>2. QED
      BY <2>2, <3>1, ArriveSame
  <2>3. QED
    BY <2>1, <2>2
<1>4. QED
  BY <1>0, <1>1, <1>2, <1>3, QuietCopies

(* The head of a queue is taken: it is none that must not travel.          *)
LEMMA WrongTaken ==
  ASSUME VarsType, CarryInv, NEW i \in Insts
  PROVE  /\ stateIn[i] # <<>> /\ stateIn' = [stateIn EXCEPT ![i] = Tail(@)] =>
              /\ Head(stateIn[i]) \notin WrongRequests
              /\ \A j \in Insts : ~Has(stateIn'[j], WrongRequests)
         /\ stateOut[i] # <<>> /\ stateOut' = [stateOut EXCEPT ![i] = Tail(@)] =>
              /\ Head(stateOut[i]) \notin WrongAnswers
              /\ \A j \in Insts : ~Has(stateOut'[j], WrongAnswers)
<1>1. \A j \in Insts : ~Has(stateIn[j], WrongRequests) /\ ~Has(stateOut[j], WrongAnswers)
  BY DEF CarryInv
<1>2. stateIn[i] \in Seq(Requests) /\ stateOut[i] \in Seq(Answers)
  BY DEF VarsType, ChannelsType
<1>3. stateIn[i] # <<>> => Head(stateIn[i]) \notin WrongRequests /\ ~Has(Tail(stateIn[i]), WrongRequests)
  BY <1>1, <1>2, HasTail
<1>4. stateOut[i] # <<>> => Head(stateOut[i]) \notin WrongAnswers /\ ~Has(Tail(stateOut[i]), WrongAnswers)
  BY <1>1, <1>2, HasTail
<1>5. DOMAIN stateIn = Insts /\ DOMAIN stateOut = Insts
  BY DEF VarsType, ChannelsType
<1>6. stateIn' = [stateIn EXCEPT ![i] = Tail(@)] =>
        \A j \in Insts : stateIn'[j] = IF j = i THEN Tail(stateIn[i]) ELSE stateIn[j]
  BY <1>5
<1>7. stateOut' = [stateOut EXCEPT ![i] = Tail(@)] =>
        \A j \in Insts : stateOut'[j] = IF j = i THEN Tail(stateOut[i]) ELSE stateOut[j]
  BY <1>5
<1>8. ASSUME stateIn[i] # <<>>, stateIn' = [stateIn EXCEPT ![i] = Tail(@)], NEW j \in Insts
      PROVE  ~Has(stateIn'[j], WrongRequests)
  <2>1. stateIn'[j] = IF j = i THEN Tail(stateIn[i]) ELSE stateIn[j]
    BY <1>6, <1>8
  <2>2. QED
    BY <1>1, <1>3, <1>8, <2>1
<1>9. ASSUME stateOut[i] # <<>>, stateOut' = [stateOut EXCEPT ![i] = Tail(@)], NEW j \in Insts
      PROVE  ~Has(stateOut'[j], WrongAnswers)
  <2>1. stateOut'[j] = IF j = i THEN Tail(stateOut[i]) ELSE stateOut[j]
    BY <1>7, <1>9
  <2>2. QED
    BY <1>1, <1>4, <1>9, <2>1
<1>10. QED
  BY <1>3, <1>4, <1>8, <1>9

(* The ack of a get.                                                       *)
LEMMA GetAckCopies ==
  ASSUME VarsType, VarsType', args' = args, RoundInv, Copies, NEW i \in Insts, receiveGetAck(i)
  PROVE  Copies'
<1>1. UNCHANGED <<state, currentSource, key, now, processed, lastPacket, isSyncFinished, nextInstIndex, tasks,
                  stateIn, chunks>>
  BY DEF receiveGetAck, opVars, chunkVars, nfVars
<1>2. PICK m : m = Head(stateOut[i])
  OBVIOUS
<1>3. stateOut[i] # <<>> /\ m.type = "GetAck" /\ stateOut' = [stateOut EXCEPT ![i] = Tail(@)]
  BY <1>2 DEF receiveGetAck, FromState
<1>4. CarryInv
  BY DEF Copies
<1>5. \A j \in Insts : Echo(j)' <=> Echo(j)
  <2>1. SameReports
    BY RoundSame
  <2>2. QED
    BY <1>1, <2>1, SameEcho
<1>6. Busy' <=> Busy
  <2>1. \A k \in Kinds : Active(k)' <=> Active(k)
    BY GetAckRound
  <2>2. QED
    BY <2>1, ListTypes, SameBusy
<1>7. \A j \in Insts, h \in StateKeys : Sending(j, h)' <=> Sending(j, h)
  BY <1>2, <1>3, AnswerTaken
<1>8. ASSUME currentSource \in Insts, NEW d \in Insts, NEW h \in StateKeys, d # currentSource, Waits(d, h)
      PROVE  Waits(d, h)'
  <2>1. \A j \in Insts : Asking(j, h.kind)' <=> Asking(j, h.kind)
    BY <1>1 DEF Asking, GetsOf
  <2>2. Putting(d, h)' <=> Putting(d, h)
    BY <1>1 DEF Putting, PutsOf
  <2>3. Tasked(h)' <=> Tasked(h)
    BY <1>1 DEF Tasked
  <2>4. QED
    BY <1>1, <1>7, <1>8, <2>1, <2>2, <2>3 DEF Waits
<1>9. \A j \in Insts : ~Has(stateIn'[j], WrongRequests) /\ ~Has(stateOut'[j], WrongAnswers)
  <2>1. \A j \in Insts : ~Has(stateIn'[j], WrongRequests)
    BY <1>1, <1>4 DEF CarryInv
  <2>2. \A j \in Insts : ~Has(stateOut'[j], WrongAnswers)
    BY <1>3, <1>4, WrongTaken
  <2>3. QED
    BY <2>1, <2>2
<1>10. \A c \in 1 .. Len(chunks') : chunks'[c].live => Carry(chunks'[c])
  BY <1>1, <1>4 DEF CarryInv
<1>11. QED
  BY <1>1, <1>5, <1>6, <1>8, <1>9, <1>10, CopyFrame

(* A get that is not supported is none of those copies are made by.        *)
LEMMA UnsupportedCopies ==
  ASSUME VarsType, VarsType', args' = args, RoundInv, Copies, NEW i \in Insts, get_unsupported(i)
  PROVE  Copies'
<1>1. UNCHANGED <<state, currentSource, key, now, processed, lastPacket, isSyncFinished, nextInstIndex, tasks,
                  acked, stateOut, eventOut, chunks>>
  BY DEF get_unsupported, opVars, syncVars, chunkVars, nfVars
<1>2. PICK m : m = Head(stateIn[i])
  OBVIOUS
<1>3. /\ stateIn[i] # <<>> /\ m.type = "Get" /\ stateIn' = [stateIn EXCEPT ![i] = Tail(@)]
      /\ m.kind \notin StateKinds
  BY <1>2 DEF get_unsupported, Request
<1>4. CarryInv
  BY DEF Copies
<1>5. \A j \in Insts : Echo(j)' <=> Echo(j)
  BY <1>1, NoReports, SameEcho
<1>6. /\ \A j \in Insts, k \in Kinds : Asking(j, k)' <=> Asking(j, k) /\ ~(j = i /\ m.type = "Get" /\ m.kind = k)
      /\ \A j \in Insts, h \in StateKeys :
           Putting(j, h)' <=> Putting(j, h) /\ ~(j = i /\ m.type = "Put" /\ m.hashkey = h)
  BY <1>2, <1>3, RequestTaken
<1>7. \A j \in Insts, k \in StateKinds : Asking(j, k)' <=> Asking(j, k)
  BY <1>3, <1>6, ListTypes
<1>8. Busy' <=> Busy
  <2>1. \A j \in Insts, k \in Kinds : Answering(j, k)' <=> Answering(j, k)
    BY <1>1 DEF Answering, GetAcksOf
  <2>2. \A k \in StateKinds : Active(k)' <=> Active(k)
    BY <1>1, <1>7, <2>1, ArgsKept, ListTypes DEF Active
  <2>3. QED
    BY <2>2, SameBusy
<1>9. ASSUME currentSource \in Insts, NEW d \in Insts, NEW h \in StateKeys, d # currentSource, Waits(d, h)
      PROVE  Waits(d, h)'
  <2>1. Sending(currentSource, h)' <=> Sending(currentSource, h)
    BY <1>1, ArgsKept DEF Sending, StatesOf
  <2>2. Putting(d, h)' <=> Putting(d, h)
    BY <1>3, <1>6
  <2>3. Tasked(h)' <=> Tasked(h)
    BY <1>1 DEF Tasked
  <2>4. h.kind \in StateKinds
    BY MessageTypes
  <2>5. QED
    BY <1>1, <1>7, <1>9, <2>1, <2>2, <2>3, <2>4 DEF Waits
<1>10. \A j \in Insts : ~Has(stateIn'[j], WrongRequests) /\ ~Has(stateOut'[j], WrongAnswers)
  <2>1. \A j \in Insts : ~Has(stateOut'[j], WrongAnswers)
    BY <1>1, <1>4 DEF CarryInv
  <2>2. \A j \in Insts : ~Has(stateIn'[j], WrongRequests)
    BY <1>3, <1>4, WrongTaken
  <2>3. QED
    BY <2>1, <2>2
<1>11. \A c \in 1 .. Len(chunks') : chunks'[c].live => Carry(chunks'[c])
  BY <1>1, <1>4 DEF CarryInv
<1>12. QED
  BY <1>1, <1>5, <1>8, <1>9, <1>10, <1>11, CopyFrame

(* The puts of a chunk are sent.                                           *)
LEMMA PoolCopies ==
  ASSUME VarsType, VarsType', args' = args, RoundInv, Copies, Pool
  PROVE  Copies'
<1>1. PICK n \in DOMAIN tasks : callChunk(n)
  BY DEF Pool
<1>2. UNCHANGED <<state, currentSource, key, now, processed, lastPacket, isSyncFinished, nextInstIndex, stateOut, chunks>>
  BY <1>1 DEF callChunk, opVars, syncVars, nfVars
<1>3. PICK c, h, r : c = chunks[tasks[n]] /\ h = c.hashkey /\ r = c.rec
  OBVIOUS
<1>4. /\ h \in StateKeys /\ r \in Cargo /\ tasks[n] \in 1 .. Len(chunks) /\ c.live
      /\ \A j \in Insts : stateIn'[j] \in {stateIn[j], Append(stateIn[j], Puts(h, r))}
  BY <1>1, <1>3, PoolSends
<1>5. \A j \in Insts, k \in Kinds : Asking(j, k)' <=> Asking(j, k)
  BY <1>1, <1>3, PoolSends
<1>6. \A j \in Insts, g \in StateKeys : Putting(j, g)' <=> Putting(j, g) \/ (j # currentSource /\ g = h)
  BY <1>1, <1>3, PoolSends
<1>7. \A g : Tasked(g)' <=> Tasked(g) /\ g # h
  BY <1>1, <1>3, PoolSends
<1>8. CarryInv
  BY DEF Copies
<1>9. \A j \in Insts : Echo(j)' <=> Echo(j)
  <2>1. SameReports
    BY RoundSame
  <2>2. QED
    BY <1>2, <2>1, SameEcho
<1>10. Busy' <=> Busy
  <2>1. \A k \in Kinds : Active(k)' <=> Active(k)
    BY PoolRound
  <2>2. QED
    BY <2>1, ListTypes, SameBusy
<1>11. ASSUME currentSource \in Insts, NEW d \in Insts, NEW g \in StateKeys, d # currentSource, Waits(d, g)
       PROVE  Waits(d, g)'
  <2>1. Sending(currentSource, g)' <=> Sending(currentSource, g)
    BY <1>2, ArgsKept DEF Sending, StatesOf
  <2>2. Asking(currentSource, g.kind)' <=> Asking(currentSource, g.kind)
    BY <1>2, <1>5, <1>11, MessageTypes
  <2>3. Tasked(g) => Tasked(g)' \/ Putting(d, g)'
    BY <1>6, <1>7, <1>11
  <2>4. QED
    BY <1>2, <1>6, <1>11, <2>1, <2>2, <2>3 DEF Waits
<1>12. \A j \in Insts : ~Has(stateIn'[j], WrongRequests) /\ ~Has(stateOut'[j], WrongAnswers)
  <2>1. \A j \in Insts : ~Has(stateOut'[j], WrongAnswers)
    BY <1>2, <1>8 DEF CarryInv
  <2>2. PICK p : p = Puts(h, r)
    OBVIOUS
  <2>3. p \in Requests /\ p.type = "Put" /\ p.hashkey = h /\ p.rec = r
    BY <1>4, <2>2 DEF Puts, Requests
  <2>4. Carry(p)
    <3>1. Carry(c)
      BY <1>3, <1>4, <1>8 DEF CarryInv
    <3>2. QED
      BY <1>3, <2>3, <3>1 DEF Carry
  <2>5. p \notin WrongRequests
    BY <2>3, <2>4, WrongOnes
  <2>6. ASSUME NEW j \in Insts
        PROVE  ~Has(stateIn'[j], WrongRequests)
    <3>1. stateIn[j] \in Seq(Requests) /\ ~Has(stateIn[j], WrongRequests)
      BY <1>8 DEF CarryInv, VarsType, ChannelsType
    <3>2. ~Has(Append(stateIn[j], p), WrongRequests)
      BY <2>3, <2>5, <3>1, HasAppend
    <3>3. QED
      BY <1>4, <2>2, <3>1, <3>2
  <2>7. QED
    BY <2>1, <2>6
<1>13. \A b \in 1 .. Len(chunks') : chunks'[b].live => Carry(chunks'[b])
  BY <1>2, <1>8 DEF CarryInv
<1>14. QED
  BY <1>2, <1>9, <1>10, <1>11, <1>12, <1>13, CopyFrame

(* A record of the source arrives.                                         *)
LEMMA StateCopies ==
  ASSUME VarsType, VarsType', args' = args, RoundInv, Copies, NEW i \in Insts, receiveState(i)
  PROVE  Copies'
<1>1. UNCHANGED <<state, currentSource, key, now, processed, lastPacket, isSyncFinished, nextInstIndex>>
  BY DEF receiveState, opVars, syncVars, nfVars
<1>2. PICK m : m = Head(stateOut[i])
  OBVIOUS
<1>3. stateOut[i] # <<>> /\ m.type = "State" /\ stateOut' = [stateOut EXCEPT ![i] = Tail(@)]
  BY <1>2 DEF receiveState, FromState
<1>4. PICK h, r, k, e, f : h = m.hashkey /\ r = m.rec /\ k = h.kind /\ e = Len(chunks) + 1 /\ f = Len(tasks) + 1
  OBVIOUS
<1>5. h \in StateKeys /\ r \in Cargo /\ i = currentSource
  BY <1>2, <1>4, StateArrives
<1>6. \A j \in Insts : stateIn'[j] \in {stateIn[j], Append(stateIn[j], Puts(h, r))}
  BY <1>2, <1>4, StateArrives
<1>7. \A j \in Insts, l \in Kinds : Asking(j, l)' <=> Asking(j, l)
  BY <1>2, <1>4, StateArrives
<1>8. \A j \in Insts, g \in StateKeys : Putting(j, g)' <=> Putting(j, g) \/ (args.strict /\ j # currentSource /\ g = h)
  BY <1>2, <1>4, StateArrives
<1>9. \A g : Tasked(g)' <=> Tasked(g) \/ (~args.strict /\ g = h)
  BY <1>2, <1>4, StateArrives
<1>10. /\ \E d \in Chunks : /\ d.hashkey = h /\ d.rec = r /\ d.live /\ d.dsts = Insts \ {currentSource}
                            /\ chunks'[e] = d
       /\ 1 .. Len(chunks') = 1 .. Len(chunks) \cup {e}
       /\ \A c \in 1 .. Len(chunks) : chunks'[c] = chunks[c]
  BY <1>2, <1>4, StateArrives
<1>11. CarryInv
  BY DEF Copies
<1>12. m \in Answers /\ \A j \in Insts, g \in StateKeys : Sending(j, g)' <=> Sending(j, g) /\ ~(j = i /\ m.hashkey = g)
  BY <1>2, <1>3, AnswerTaken
<1>13. \A j \in Insts : Echo(j)' <=> Echo(j)
  <2>1. SameReports
    BY RoundSame
  <2>2. QED
    BY <1>1, <2>1, SameEcho
<1>14. Busy' <=> Busy
  <2>1. \A l \in Kinds : Active(l)' <=> Active(l)
    BY StateRound
  <2>2. QED
    BY <2>1, ListTypes, SameBusy
<1>15. ASSUME currentSource \in Insts, NEW d \in Insts, NEW g \in StateKeys, d # currentSource, Waits(d, g)
       PROVE  Waits(d, g)'
  <2>1. Sending(currentSource, g) => Sending(currentSource, g)' \/ Tasked(g)' \/ Putting(d, g)'
    BY <1>1, <1>4, <1>5, <1>8, <1>9, <1>12, <1>15
  <2>2. Asking(currentSource, g.kind)' <=> Asking(currentSource, g.kind)
    BY <1>1, <1>7, <1>15, MessageTypes
  <2>3. (Tasked(g) => Tasked(g)') /\ (Putting(d, g) => Putting(d, g)')
    BY <1>8, <1>9
  <2>4. QED
    BY <1>1, <1>15, <2>1, <2>2, <2>3 DEF Waits
<1>16. Carry(m) /\ \A j \in Insts : ~Has(stateOut'[j], WrongAnswers)
  <2>1. m \notin WrongAnswers /\ \A j \in Insts : ~Has(stateOut'[j], WrongAnswers)
    BY <1>2, <1>3, <1>11, WrongTaken
  <2>2. QED
    BY <1>3, <1>12, <2>1, WrongOnes
<1>17. \A j \in Insts : ~Has(stateIn'[j], WrongRequests)
  <2>1. PICK p : p = Puts(h, r)
    OBVIOUS
  <2>2. p \in Requests /\ p.type = "Put" /\ p.hashkey = h /\ p.rec = r
    BY <1>5, <2>1 DEF Puts, Requests
  <2>3. Carry(p)
    BY <1>4, <1>16, <2>2 DEF Carry
  <2>4. p \notin WrongRequests
    BY <2>2, <2>3, WrongOnes
  <2>5. ASSUME NEW j \in Insts
        PROVE  ~Has(stateIn'[j], WrongRequests)
    <3>1. stateIn[j] \in Seq(Requests) /\ ~Has(stateIn[j], WrongRequests)
      BY <1>11 DEF CarryInv, VarsType, ChannelsType
    <3>2. ~Has(Append(stateIn[j], p), WrongRequests)
      BY <2>2, <2>4, <3>1, HasAppend
    <3>3. QED
      BY <1>6, <2>1, <3>1, <3>2
  <2>6. QED
    BY <2>5
<1>18. \A b \in 1 .. Len(chunks') : chunks'[b].live => Carry(chunks'[b])
  <2>1. PICK d \in Chunks : d.hashkey = h /\ d.rec = r /\ chunks'[e] = d
    BY <1>10
  <2>2. Carry(d)
    BY <1>4, <1>16, <2>1 DEF Carry
  <2>3. ASSUME NEW b \in 1 .. Len(chunks'), chunks'[b].live
        PROVE  Carry(chunks'[b])
    <3>1. CASE b = e
      BY <2>1, <2>2, <3>1
    <3>2. CASE b # e
      <4>1. b \in 1 .. Len(chunks) /\ chunks'[b] = chunks[b]
        BY <1>10, <3>2
      <4>2. QED
        BY <1>11, <2>3, <4>1 DEF CarryInv
    <3>3. QED
      BY <3>1, <3>2
  <2>4. QED
    BY <2>3
<1>19. \A j \in Insts : ~Has(stateIn'[j], WrongRequests) /\ ~Has(stateOut'[j], WrongAnswers)
  BY <1>16, <1>17
<1>20. QED
  BY <1>1, <1>13, <1>14, <1>15, <1>18, <1>19, CopyFrame

(* All state that is exported is listed.                                   *)
LEMMA ListedAll ==
  ASSUME VarsType, NEW i \in Insts, NEW m, m.kind \in StateKinds, m.units \subseteq Units,
         NEW ex \in Listings(ExportedMsgs(i, m))
  PROVE  /\ \A n \in 1 .. Len(ex) : ex[n] \in ExportedMsgs(i, m)
         /\ \A x \in ExportedMsgs(i, m) : \E n \in 1 .. Len(ex) : ex[n] = x
<1>1. PICK M : M = ExportedMsgs(i, m)
  OBVIOUS
<1>2. IsFiniteSet(M)
  BY <1>1, ExportedType DEF ExportedMsgs
<1>3. Cardinality(M) \in Nat /\ IsFiniteSet(1 .. Cardinality(M)) /\ Cardinality(1 .. Cardinality(M)) = Cardinality(M)
  <2>1. PICK c \in Nat : c = Cardinality(M)
    BY <1>2, FS_CardinalityType
  <2>2. IsFiniteSet(1 .. c) /\ Cardinality(1 .. c) = c
    BY FS_Interval
  <2>3. QED
    BY <2>1, <2>2
<1>4. /\ ex \in [1 .. Cardinality(M) -> M]
      /\ \A n, p \in 1 .. Cardinality(M) : n # p => ex[n] # ex[p]
  BY <1>1 DEF Listings, SetToSeqs
<1>5. Len(ex) = Cardinality(M)
  BY <1>3, <1>4
<1>6. ex \in Injection(1 .. Cardinality(M), M)
  BY <1>4 DEF Injection, IsInjective
<1>7. ex \in Surjection(1 .. Cardinality(M), M)
  BY <1>2, <1>3, <1>6, FS_Injection
<1>8. \A x \in M : \E n \in 1 .. Cardinality(M) : ex[n] = x
  BY <1>7 DEF Surjection
<1>9. QED
  BY <1>1, <1>4, <1>5, <1>8

(* What the source exports is what a round copies.                         *)
LEMMA SourceExports ==
  ASSUME VarsType, currentSource \in Insts, NEW m, m.kind \in StateKinds, m.units \subseteq Units
  PROVE  /\ \A x \in ExportedMsgs(currentSource, m) : x.type = "State" /\ Carry(x)
         /\ \A h \in StateKeys : h.kind = m.kind /\ h.unit \in m.units /\ OfSource(h) =>
              \E x \in ExportedMsgs(currentSource, m) : x.hashkey = h
<1>1. ASSUME NEW x \in ExportedMsgs(currentSource, m)
      PROVE  x.type = "State" /\ Carry(x)
  <2>1. PICK u \in m.units : x \in Exported(currentSource, m.kind, u)
    BY DEF ExportedMsgs
  <2>2. PICK l \in Seq(Records) : l = state[currentSource][m.kind][u]
    BY ListTypes
  <2>3. Len(l) \in Nat /\ DOMAIN l = 1 .. Len(l)
    BY LenProperties
  <2> DEFINE G(n) == [kind |-> m.kind, unit |-> u, pos |-> Len(l) - n]
  <2>a. PICK n \in 1 .. Len(l) :
          x = [type |-> "State", rec |-> Copied(l[n], AssetOf(currentSource, G(n))), hashkey |-> G(n)]
    BY <2>1, <2>2, <2>3, Zenon DEF Exported
  <2>4. PICK g : /\ g = [kind |-> m.kind, unit |-> u, pos |-> Len(l) - n]
                 /\ x = [type |-> "State", rec |-> Copied(l[n], AssetOf(currentSource, g)), hashkey |-> g]
    BY <2>a
  <2> HIDE DEF G
  <2>5. /\ x.type = "State" /\ x.rec = Copied(l[n], AssetOf(currentSource, g)) /\ x.hashkey = g
        /\ g.kind = m.kind /\ g.unit = u /\ g.pos = Len(l) - n
    BY <2>4
  <2>6. SourceList(g) = l
    BY <2>2, <2>5 DEF SourceList
  <2>7. Len(l) - n < Len(l) /\ Len(l) - (Len(l) - n) = n
    BY <2>3
  <2>8. OfSource(g) /\ SourceRec(g) = l[n]
    BY <2>5, <2>6, <2>7 DEF OfSource, SourceRec
  <2>9. Stored(x.rec) = Stored(l[n]) /\ x.rec.asset = AssetOf(currentSource, g)
    BY <2>5 DEF Copied, Stored
  <2>10. AssetOf(currentSource, g) \in OfHost(g)
    BY <2>5 DEF AssetOf, OfHost
  <2>11. QED
    BY <2>5, <2>8, <2>9, <2>10 DEF Carry
<1>2. ASSUME NEW h \in StateKeys, h.kind = m.kind, h.unit \in m.units, OfSource(h)
      PROVE  \E x \in ExportedMsgs(currentSource, m) : x.hashkey = h
  <2>1. h.unit \in Units /\ h.pos \in Nat /\ h = [kind |-> h.kind, unit |-> h.unit, pos |-> h.pos]
    BY DEF StateKeys
  <2>2. PICK l \in Seq(Records) : l = state[currentSource][m.kind][h.unit]
    BY <2>1, ListTypes
  <2>3. Len(l) \in Nat /\ DOMAIN l = 1 .. Len(l)
    BY LenProperties
  <2>4. h.pos < Len(l)
    BY <1>2, <2>2 DEF OfSource, SourceList
  <2>5. PICK n : n = Len(l) - h.pos
    OBVIOUS
  <2>6. n \in 1 .. Len(l) /\ Len(l) - n = h.pos
    BY <2>1, <2>3, <2>4, <2>5
  <2>7. PICK g, x : /\ g = [kind |-> m.kind, unit |-> h.unit, pos |-> Len(l) - n]
                    /\ x = [type |-> "State", rec |-> Copied(l[n], AssetOf(currentSource, g)), hashkey |-> g]
    OBVIOUS
  <2>8. x.hashkey = h
    BY <1>2, <2>1, <2>6, <2>7
  <2>9. x \in Exported(currentSource, m.kind, h.unit)
    BY <2>2, <2>3, <2>6, <2>7, Zenon DEF Exported
  <2>10. QED
    BY <1>2, <2>8, <2>9 DEF ExportedMsgs
<1>3. QED
  BY <1>1, <1>2

(* A listing and its ack are sent.                                         *)
LEMMA NoneAnswered ==
  ASSUME NEW S, NEW s \in Seq(S), NEW t \in Seq(S), NEW x \in S, NEW R, ~Has(s, R), ~Has(t, R), x \notin R
  PROVE  ~Has(s \o t \o <<x>>, R)
<1>1. PICK b \in Seq(S) : b = s \o t
  BY ConcatProperties
<1>2. ~Has(b, R)
  BY <1>1, HasConcat
<1>3. Append(b, x) = b \o <<x>>
  BY AppendIsConcat
<1>4. ~Has(Append(b, x), R)
  BY <1>2, HasAppend
<1>5. QED
  BY <1>1, <1>3, <1>4

(* The state of the source is sent.                                        *)
LEMMA GetCopies ==
  ASSUME VarsType, VarsType', args' = args, RoundInv, Copies, Unmarked, FewRecords, NEW i \in Insts, handle_get(i)
  PROVE  Copies'
<1>1. UNCHANGED <<currentSource, key, now, processed, lastPacket, isSyncFinished, nextInstIndex, tasks, acked, eventOut,
                  chunks>>
  BY DEF handle_get, opVars, syncVars, chunkVars
<1>2. PICK m : m = Head(stateIn[i])
  OBVIOUS
<1>3. stateIn[i] # <<>> /\ m.type = "Get" /\ stateIn' = [stateIn EXCEPT ![i] = Tail(@)] /\ m.kind \in StateKinds
  BY <1>2 DEF handle_get, Request
<1>4. m \in Requests
  BY <1>2, <1>3, ReceivedType
<1>5. m.units \subseteq Units /\ m.kind \in Kinds
  BY <1>3, <1>4, MessageTypes
<1>6. PICK k \in StateKinds : k = m.kind
  BY <1>3
<1>7. CarryInv
  BY DEF Copies
<1>8. state' = state
  <2>1. ~(m.kind = "pf" /\ args.strict)
    BY <1>3 DEF Unmarked, StateKinds
  <2>2. PICK l : l = state[i][m.kind]
    OBVIOUS
  <2>3. state' = [state EXCEPT ![i][m.kind] = [u \in Units |-> l[u]]]
    BY <1>2, <2>1, <2>2 DEF handle_get
  <2>4. state \in [Insts -> [StateKinds -> [Units -> Seq(Records)]]] /\ l \in [Units -> Seq(Records)]
    BY <1>3, <2>2 DEF VarsType, InstancesType
  <2>5. QED
    BY <1>3, <2>2, <2>3, <2>4
<1>9. m.units = key /\ \A j \in Insts : ~Has(stateIn'[j], WrongRequests)
  <2>1. m \notin WrongRequests /\ \A j \in Insts : ~Has(stateIn'[j], WrongRequests)
    BY <1>2, <1>3, <1>7, WrongTaken
  <2>2. QED
    BY <1>3, <1>4, <2>1, WrongOnes
<1>10. PICK ex \in Listings(ExportedMsgs(i, m)) : stateOut' = AnswerTo(i, m, ex)
  BY <1>2, GetAnswered
<1>11. /\ ex \in Seq(StateMsgs)
       /\ \A n \in 1 .. Len(ex) : ex[n] \in StateMsgs /\ ex[n].hashkey.kind = k
       /\ \A n, p \in 1 .. Len(ex) : ex[n].hashkey = ex[p].hashkey => n = p
  BY <1>3, <1>5, <1>6, ListedKeys
<1>12. /\ \A n \in 1 .. Len(ex) : ex[n] \in ExportedMsgs(i, m)
       /\ \A x \in ExportedMsgs(i, m) : \E n \in 1 .. Len(ex) : ex[n] = x
  BY <1>3, <1>5, ListedAll
<1>13. /\ i = currentSource /\ \A j \in Insts : ~Answering(j, k)
       /\ \A h \in StateKeys : h.kind = k => \A j \in Insts : ~Sending(j, h)
  BY <1>2, <1>6, GetFound
<1>14. stateOut' = [stateOut EXCEPT ![i] = @ \o ex \o <<[type |-> "GetAck", kind |-> k, count |-> Len(ex)]>>]
  BY <1>6, <1>10 DEF AnswerTo
<1>15. \A j \in Insts, h \in StateKeys : Sending(j, h)' <=> Sending(j, h) \/ (j = i /\ Has(ex, StatesOf(h)))
  <2>1. ex \in Seq(StateMsgs)
    BY <1>11
  <2>2. \A n \in 1 .. Len(ex) : ex[n] \in StateMsgs /\ ex[n].hashkey.kind = k
    BY <1>11
  <2>3. \A n, p \in 1 .. Len(ex) : ex[n].hashkey = ex[p].hashkey => n = p
    BY <1>11, Zenon
  <2>4. \A j \in Insts : ~Answering(j, k)
    BY <1>13
  <2>5. \A j \in Insts, h \in StateKeys : h.kind = k => ~Sending(j, h)
    BY <1>13, Zenon
  <2>6. QED
    BY <1>14, <2>1, <2>2, <2>3, <2>4, <2>5, AnswerSent
<1>16. /\ \A j \in Insts, l \in Kinds : Asking(j, l)' <=> Asking(j, l) /\ ~(j = i /\ m.kind = l)
       /\ \A j \in Insts, h \in StateKeys : Putting(j, h)' <=> Putting(j, h)
  BY <1>2, <1>3, RequestTaken
<1>17. /\ \A x \in ExportedMsgs(i, m) : x.type = "State" /\ Carry(x)
       /\ \A h \in StateKeys : h.kind = m.kind /\ h.unit \in m.units /\ OfSource(h) =>
            \E x \in ExportedMsgs(i, m) : x.hashkey = h
  BY <1>3, <1>5, <1>13, SourceExports
<1>18. \A n \in 1 .. Len(ex) : ex[n] \in Answers
  BY <1>11 DEF Answers
<1>19. \A j \in Insts : Echo(j)' <=> Echo(j)
  BY <1>1, NoReports, SameEcho
<1>20. Busy' <=> Busy
  <2>1. \A l \in Kinds : Active(l)' <=> Active(l)
    BY GetRound
  <2>2. QED
    BY <2>1, ListTypes, SameBusy
<1>21. ASSUME currentSource \in Insts, NEW d \in Insts, NEW h \in StateKeys, d # currentSource, h.unit \in key,
              OfSource(h), Waits(d, h)
       PROVE  Waits(d, h)'
  <2>1. Tasked(h)' <=> Tasked(h)
    BY <1>1 DEF Tasked
  <2>2. CASE Asking(currentSource, h.kind) /\ h.kind = k
    <3>1. PICK x \in ExportedMsgs(i, m) : x.hashkey = h
      BY <1>6, <1>9, <1>17, <1>21, <2>2
    <3>2. PICK n \in 1 .. Len(ex) : ex[n] = x
      BY <1>12
    <3>3. ex[n] \in StatesOf(h)
      BY <1>17, <1>18, <3>1, <3>2, Sorted
    <3>4. Sending(i, h)'
      BY <1>15, <3>3 DEF Has
    <3>5. QED
      BY <1>1, <1>13, <3>4 DEF Waits
  <2>3. CASE ~(Asking(currentSource, h.kind) /\ h.kind = k)
    <3>1. h.kind \in Kinds
      BY MessageTypes
    <3>2. Asking(currentSource, h.kind) => Asking(i, h.kind)'
      BY <1>6, <1>13, <1>16, <2>3, <3>1
    <3>3. Sending(currentSource, h) => Sending(i, h)'
      BY <1>13, <1>15
    <3>4. QED
      BY <1>1, <1>13, <1>16, <1>21, <2>1, <3>2, <3>3 DEF Waits
  <2>4. QED
    BY <2>2, <2>3
<1>22. \A j \in Insts : ~Has(stateOut'[j], WrongAnswers)
  <2>1. PICK a : a = [type |-> "GetAck", kind |-> k, count |-> Len(ex)]
    OBVIOUS
  <2>2. a \in Answers /\ a \notin WrongAnswers
    <3>1. Len(ex) \in Nat /\ k \in Kinds
      BY <1>5, <1>6, <1>11, LenProperties
    <3>2. a \in Answers /\ a.type = "GetAck"
      BY <2>1, <3>1 DEF Answers
    <3>3. QED
      BY <3>2, WrongOnes
  <2>3. ex \in Seq(Answers)
    BY <1>11, SeqMonotonic DEF Answers
  <2>4. ~Has(ex, WrongAnswers)
    BY <1>12, <1>17, <1>18, WrongOnes DEF Has
  <2>5. /\ stateOut \in [Insts -> Seq(Answers)] /\ \A j \in Insts : ~Has(stateOut[j], WrongAnswers)
    BY <1>7 DEF CarryInv, VarsType, ChannelsType
  <2>6. ~Has(stateOut[i] \o ex \o <<a>>, WrongAnswers)
    BY <2>2, <2>3, <2>4, <2>5, NoneAnswered
  <2>7. \A j \in Insts : stateOut'[j] = IF j = i THEN stateOut[i] \o ex \o <<a>> ELSE stateOut[j]
    BY <1>14, <2>1, <2>5
  <2>8. QED
    BY <2>5, <2>6, <2>7
<1>23. \A b \in 1 .. Len(chunks') : chunks'[b].live => Carry(chunks'[b])
  BY <1>1, <1>7 DEF CarryInv
<1>24. QED
  BY <1>1, <1>8, <1>9, <1>19, <1>20, <1>21, <1>22, <1>23, CopyFrame

(* What a put changes: lists of one unit of an instance that is not the    *)
(* source, by a record of the source.                                      *)
LEMMA PutChanges ==
  ASSUME VarsType, VarsType', args' = args, RoundInv, CarryInv, NEW i \in Insts, handle_put(i),
         NEW m, m = Head(stateIn[i]), NEW h, h = m.hashkey
  PROVE  /\ h \in StateKeys /\ m.rec \in Cargo /\ OfSource(h) /\ Carry(m)
         /\ currentSource \in Insts /\ i # currentSource /\ Busy
         /\ \A d \in Insts, k \in StateKinds, u \in Units :
              state'[d][k][u] = IF d = i /\ u = h.unit THEN Installed(k, state[i][k][u], m) ELSE state[d][k][u]
         /\ \A j \in Insts : ~Has(stateIn'[j], WrongRequests)
         /\ \A j \in Insts, k \in Kinds : Asking(j, k)' <=> Asking(j, k)
         /\ \A j \in Insts, g \in StateKeys : Putting(j, g)' <=> Putting(j, g) /\ ~(j = i /\ h = g)
<1>1. stateIn[i] # <<>> /\ m.type = "Put" /\ stateIn' = [stateIn EXCEPT ![i] = Tail(@)]
  BY DEF handle_put, Request
<1>2. /\ m \in Requests /\ h \in StateKeys /\ m.rec \in Cargo /\ h.kind \in StateKinds /\ h.unit \in Units
      /\ \A d \in Insts, k \in StateKinds, u \in Units :
           state'[d][k][u] = IF d = i /\ u = h.unit THEN Installed(k, state[i][k][u], m) ELSE state[d][k][u]
  BY PutLists
<1>3. /\ \A j \in Insts, k \in Kinds : Asking(j, k)' <=> Asking(j, k)
      /\ \A j \in Insts, g \in StateKeys : Putting(j, g)' <=> Putting(j, g) /\ ~(j = i /\ h = g)
  BY <1>1, RequestTaken
<1>4. m \notin WrongRequests /\ \A j \in Insts : ~Has(stateIn'[j], WrongRequests)
  BY <1>1, WrongTaken
<1>5. OfSource(h) /\ Carry(m)
  BY <1>1, <1>2, <1>4, WrongOnes DEF Carry
<1>6. Putting(i, h)
  BY <1>1, <1>2, RequestTaken
<1>7. i # currentSource /\ InTable(h)
  BY <1>2, <1>6 DEF RoundInv, SourceInv
<1>8. Busy
  <2>1. Active(h.kind)
    BY <1>2, <1>7 DEF RoundInv, TableInv
  <2>2. QED
    BY <1>2, <2>1 DEF Busy
<1>9. currentSource \in Insts
  BY <1>8, BusySource
<1>10. QED
  BY <1>2, <1>3, <1>4, <1>5, <1>7, <1>8, <1>9

(* Lists of multi-flow state.                                              *)
LEMMA AssetLists ==
  ASSUME VarsType, FormInv, "mf" \in StateKinds, NEW i \in Insts, NEW u \in Units, NEW l, l = state[i]["mf"][u]
  PROVE  /\ l \in Seq(Records) /\ Len(l) <= 1 /\ Seen(l) \in Nat /\ Seen(l) <= now /\ now \in Nat
         /\ (l # <<>> => Facts(l) # {}) /\ (l = <<>> => Facts(l) = {} /\ Seen(l) = 0)
         /\ Told(l) = Facts(l)
<1>1. l \in Seq(Records) /\ now \in Nat
  BY ListTypes
<1>2. Len(l) <= 1 /\ Seen(l) <= now /\ (l # <<>> => Facts(l) # {})
  BY DEF FormInv
<1>3. Seen(l) \in Nat /\ Told(l) = Facts(l)
  BY <1>1, <1>2, HeadOf
<1>4. l = <<>> => Facts(l) = {} /\ Seen(l) = 0
  BY DEF Facts, Seen
<1>5. QED
  BY <1>1, <1>2, <1>3, <1>4

(* A put of a record of the source's, on its own or with that of a flow,   *)
(* merges it with the one that is there, if it is sent along.              *)
LEMMA PutMerges ==
  ASSUME VarsType, FormInv, "mf" \in StateKinds, currentSource \in Insts, NEW i \in Insts,
         NEW m, m.rec \in Cargo, Carry(m), NEW h, h = m.hashkey, h \in StateKeys,
         NEW s, s = state[currentSource]["mf"][h.unit], NEW l, NEW x, x = Installed("mf", l, m)
  PROVE  /\ x = l \/ x = Merged(l, s)
         /\ h.kind = "mf" => x = Merged(l, s) /\ s = SourceList(h) /\ s # <<>> /\ SourceRec(h).facts = Facts(s)
<1>1. h.unit \in Units /\ h.pos \in Nat
  BY DEF StateKeys
<1>2. s \in Seq(Records) /\ Len(s) <= 1
  BY <1>1, AssetLists
<1>3. CASE h.kind = "mf"
  <2>1. s = SourceList(h)
    BY <1>3 DEF SourceList
  <2>2. PICK n \in Nat : n = Len(s)
    BY <1>2, LenProperties
  <2>3. h.pos < n /\ n <= 1
    BY <1>2, <2>1, <2>2 DEF Carry, OfSource
  <2>4. n = 1 /\ n - h.pos = 1
    BY <1>1, <2>3
  <2>5. SourceRec(h) = s[1]
    BY <2>1, <2>2, <2>4 DEF SourceRec
  <2>6. s # <<>> /\ Facts(s) = s[1].facts
    <3>1. Len(s) # 0
      BY <2>2, <2>4
    <3>2. s # <<>>
      BY <1>2, <3>1, HeadOf
    <3>3. QED
      BY <1>2, <3>2, HeadOf
  <2>7. Stored(m.rec) = Stored(s[1])
    BY <2>5 DEF Carry
  <2>8. m.rec.facts = s[1].facts /\ m.rec.seen = s[1].seen
    BY <2>7 DEF Stored
  <2>9. put_asset_per_sip(l, m.rec) = put_asset_per_sip(l, s[1])
    BY <2>7, <2>8 DEF put_asset_per_sip
  <2>10. x = put_asset_per_sip(l, m.rec)
    BY <1>3 DEF Installed
  <2>11. Merged(l, s) = put_asset_per_sip(l, s[1])
    BY <2>6 DEF Merged
  <2>12. QED
    BY <1>3, <2>1, <2>5, <2>6, <2>9, <2>10, <2>11
<1>4. CASE h.kind # "mf"
  <2>1. CASE h.kind = "pf" /\ m.rec.asset # <<>>
    <3>1. m.rec.asset \in {<<>>, s}
      BY <2>1 DEF Carry, OfHost
    <3>2. m.rec.asset = s /\ s # <<>>
      BY <2>1, <3>1
    <3>3. x = put_asset_per_sip(l, s[1])
      BY <2>1, <3>2 DEF Installed
    <3>4. QED
      BY <1>4, <3>2, <3>3 DEF Merged
  <2>2. CASE ~(h.kind = "pf" /\ m.rec.asset # <<>>)
    <3>1. x = l
      BY <1>4, <2>2 DEF Installed
    <3>2. QED
      BY <1>4, <3>1
  <2>3. QED
    BY <2>1, <2>2
<1>5. QED
  BY <1>3, <1>4

(* The instances that have been copied.                                    *)
LEMMA CopiedInsts ==
  ASSUME VarsType
  PROVE  \E T \in SUBSET Insts : T = 1 .. nextInstIndex
<1>1. args \in Configs /\ nextInstIndex \in 0 .. args.n
  BY DEF VarsType, FieldsType
<1>2. PICK n \in Nat : n = args.n
  BY <1>1, ShareAssumption
<1>3. \A t \in 1 .. nextInstIndex : t \in 1 .. n
  BY <1>1, <1>2
<1>4. QED
  BY <1>2, <1>3 DEF Insts

(* The first synchronization goes on while what the instances will hold    *)
(* after the round remains the same.                                       *)
LEMMA SyncKept ==
  ASSUME args' = args, FirstSync, UNCHANGED <<key, nextInstIndex>>, Busy' => currentSource' = nextInstIndex,
         \A j \in Insts, u \in Units : /\ InOrder => Facts(Final(j, u))' = Facts(Final(j, u))
                                       /\ Seen(Final(j, u))' = Seen(Final(j, u))
  PROVE  FirstSync'
<1>1. Insts' = Insts
  BY ArgsKept
<1>2. InOrder' <=> InOrder
  BY TellKept
<1>3. \A i, j \in Insts, u \in Units : Tell(Final(i, u), Final(j, u))' <=> Tell(Final(i, u), Final(j, u))
  BY <1>2 DEF Tell
<1>4. \A i, j \in Insts, u \in Units : Below(Final(i, u), Final(j, u))' <=> Below(Final(i, u), Final(j, u))
  BY <1>3 DEF Below
<1>5. QED
  BY <1>1, <1>3, <1>4 DEF FirstSync

(* A list that is merged, or stays as it is, tells no less.                *)
LEMMA MergeTells ==
  ASSUME NEW l \in Seq(Records), Len(l) <= 1, NEW s \in Seq(Records), Len(s) <= 1, NEW x, x = l \/ x = Merged(l, s)
  PROVE  /\ x \in Seq(Records) /\ Len(x) <= 1 /\ Seen(x) \in Nat
         /\ Facts(l) \subseteq Facts(x) /\ Seen(l) <= Seen(x) /\ (Seen(x) = Seen(l) \/ Seen(x) = Seen(s))
         /\ Facts(Merged(x, s)) = Facts(Merged(l, s)) /\ Seen(Merged(x, s)) = Seen(Merged(l, s))
         /\ Below(l, x) /\ Told(l) \subseteq Told(x) /\ Told(x) = Facts(x)
         /\ (l # <<>> => Facts(l) # {}) /\ (s # <<>> => Facts(s) # {}) => (x # <<>> => Facts(x) # {})
<1>1. Seen(l) \in Nat /\ Seen(l) <= Seen(l) /\ Seen(s) \in Nat
  BY HeadOf
<1>2. /\ x \in Seq(Records) /\ Len(x) <= 1
      /\ Facts(l) \subseteq Facts(x) /\ Seen(l) <= Seen(x) /\ (Seen(x) = Seen(l) \/ Seen(x) = Seen(s))
      /\ Facts(Merged(x, s)) = Facts(Merged(l, s)) /\ Seen(Merged(x, s)) = Seen(Merged(l, s))
  <2>1. CASE x = l
    BY <1>1, <2>1
  <2>2. CASE x = Merged(l, s)
    <3>1. x \in Seq(Records) /\ Len(x) <= 1
      BY <2>2, MergedList
    <3>2. /\ Facts(Merged(x, s)) = Facts(x) /\ Seen(Merged(x, s)) = Seen(x)
          /\ Facts(l) \subseteq Facts(x) /\ Seen(l) <= Seen(x) /\ (Seen(x) = Seen(l) \/ Seen(x) = Seen(s))
      BY <2>2, MergedTwice
    <3>3. QED
      BY <2>2, <3>1, <3>2
  <2>3. QED
    BY <2>1, <2>2
<1>3. Seen(x) \in Nat /\ Told(x) = Facts(x) /\ Told(l) = Facts(l)
  BY <1>2, HeadOf
<1>4. Below(l, x)
  BY <1>2 DEF Below, Tell
<1>5. ASSUME l # <<>> => Facts(l) # {}, s # <<>> => Facts(s) # {}, x # <<>>
      PROVE  Facts(x) # {}
  <2>1. CASE l # <<>>
    BY <1>2, <1>5, <2>1
  <2>2. CASE l = <<>>
    <3>1. x = Merged(l, s) /\ s # <<>>
      BY <1>5, <2>2 DEF Merged
    <3>2. Seen(l) = 0
      BY <2>2 DEF Seen
    <3>3. Seen(l) <= Seen(s)
      BY <1>1, <3>2
    <3>4. Facts(x) = Facts(l) \cup Facts(s)
      BY <3>1, <3>3, MergedList
    <3>5. QED
      BY <1>5, <3>1, <3>4
  <2>3. QED
    BY <2>1, <2>2
<1>6. QED
  BY <1>2, <1>3, <1>4, <1>5

(* Merging it, now or again, comes to the same.                            *)
LEMMA MergeFinal ==
  ASSUME NEW l \in Seq(Records), Len(l) <= 1, NEW s \in Seq(Records), Len(s) <= 1, NEW x, x = l \/ x = Merged(l, s)
  PROVE  Facts(Merged(x, s)) = Facts(Merged(l, s)) /\ Seen(Merged(x, s)) = Seen(Merged(l, s))
  BY MergeTells

(* What is merged from lists that tell something tells something.          *)
LEMMA MergeForm ==
  ASSUME NEW l \in Seq(Records), Len(l) <= 1, NEW s \in Seq(Records), Len(s) <= 1, NEW x, x = l \/ x = Merged(l, s),
         l # <<>> => Facts(l) # {}, s # <<>> => Facts(s) # {}, x # <<>>
  PROVE  Facts(x) # {}
  BY MergeTells

(* It is a list of one record at most, of one of the two seconds.          *)
LEMMA MergeList ==
  ASSUME NEW l \in Seq(Records), Len(l) <= 1, NEW s \in Seq(Records), Len(s) <= 1, NEW x, x = l \/ x = Merged(l, s)
  PROVE  x \in Seq(Records) /\ Len(x) <= 1 /\ Seen(x) \in Nat /\ (Seen(x) = Seen(l) \/ Seen(x) = Seen(s))
  BY MergeTells

(* It tells as much as what it is merged into.                             *)
LEMMA MergeBelow ==
  ASSUME NEW l \in Seq(Records), Len(l) <= 1, NEW s \in Seq(Records), Len(s) <= 1, NEW x, x = l \/ x = Merged(l, s)
  PROVE  Below(l, x)
  BY MergeTells

(* The order of the lists lasts: a list is merged with that of the source, *)
(* or stays as it is.                                                      *)
LEMMA PutOrder ==
  ASSUME VarsType, VarsType', args' = args, OrderInv, "mf" \in StateKinds, Busy, Busy', \A j \in Insts : ~Echo(j)',
         currentSource \in Insts, NEW i \in Insts, i # currentSource, NEW v \in Units,
         NEW l, l = state[i]["mf"][v], NEW s, s = state[currentSource]["mf"][v], NEW x, x = l \/ x = Merged(l, s),
         UNCHANGED <<currentSource, key, now, isSyncFinished, nextInstIndex>>,
         \A d \in Insts, u \in Units :
           state'[d]["mf"][u] = IF d = i /\ u = v THEN x ELSE state[d]["mf"][u]
  PROVE  OrderInv'
<1>1. Insts' = Insts /\ StateKinds' = StateKinds
  BY ArgsKept
<1>2. FormInv
  BY DEF OrderInv
<1>3. /\ l \in Seq(Records) /\ Len(l) <= 1 /\ Seen(l) \in Nat /\ Seen(l) <= now /\ now \in Nat
      /\ (l # <<>> => Facts(l) # {}) /\ (l = <<>> => Facts(l) = {} /\ Seen(l) = 0) /\ Told(l) = Facts(l)
  <2>1. l \in Seq(Records) /\ Len(l) <= 1 /\ Told(l) = Facts(l)
    BY <1>2, AssetLists
  <2>2. Seen(l) \in Nat /\ Seen(l) <= now /\ now \in Nat
    BY <1>2, AssetLists
  <2>3. (l # <<>> => Facts(l) # {}) /\ (l = <<>> => Facts(l) = {} /\ Seen(l) = 0)
    BY <1>2, AssetLists
  <2>4. QED
    BY <2>1, <2>2, <2>3
<1>4. /\ s \in Seq(Records) /\ Len(s) <= 1 /\ Seen(s) \in Nat /\ Seen(s) <= now
      /\ (s # <<>> => Facts(s) # {}) /\ (s = <<>> => Facts(s) = {} /\ Seen(s) = 0)
  <2>1. s \in Seq(Records) /\ Len(s) <= 1
    BY <1>2, AssetLists
  <2>2. Seen(s) \in Nat /\ Seen(s) <= now
    BY <1>2, AssetLists
  <2>3. (s # <<>> => Facts(s) # {}) /\ (s = <<>> => Facts(s) = {} /\ Seen(s) = 0)
    BY <1>2, AssetLists
  <2>4. QED
    BY <2>1, <2>2, <2>3
<1>5. x \in Seq(Records) /\ Len(x) <= 1 /\ Seen(x) \in Nat /\ (Seen(x) = Seen(l) \/ Seen(x) = Seen(s))
  <2>1. l \in Seq(Records) /\ Len(l) <= 1 /\ s \in Seq(Records) /\ Len(s) <= 1
    BY <1>3, <1>4
  <2>2. QED
    BY <2>1, MergeList
<1>6. x # <<>> => Facts(x) # {}
  BY <1>3, <1>4, MergeForm
<1>7. Below(l, x)
  BY <1>3, <1>4, MergeBelow
<1>8. Facts(Merged(x, s)) = Facts(Merged(l, s)) /\ Seen(Merged(x, s)) = Seen(Merged(l, s))
  BY <1>3, <1>4, MergeFinal
<1>9. PICK L : L = [d \in Insts |-> [u \in Units |-> state[d]["mf"][u]]]
  OBVIOUS
<1>10. PICK M : M = [d \in Insts |-> [u \in Units |-> state'[d]["mf"][u]]]
  OBVIOUS
<1>11. \A d \in Insts, u \in Units : /\ state[d]["mf"][u] = L[d][u] /\ state'[d]["mf"][u] = M[d][u]
                                     /\ M[d][u] = IF d = i /\ u = v THEN x ELSE L[d][u]
  BY <1>9, <1>10
<1>12. l = L[i][v] /\ s = L[currentSource][v]
  BY <1>11
<1>13. FormInv'
  <2>1. \A d \in Insts, u \in Units : /\ Len(L[d][u]) <= 1 /\ Seen(L[d][u]) <= now
                                      /\ L[d][u] # <<>> => Facts(L[d][u]) # {}
    BY <1>2, <1>11 DEF FormInv
  <2>2. Len(x) <= 1 /\ Seen(x) <= now
    BY <1>3, <1>4, <1>5
  <2>3. \A d \in Insts, u \in Units : /\ Len(M[d][u]) <= 1 /\ Seen(M[d][u]) <= now
                                      /\ M[d][u] # <<>> => Facts(M[d][u]) # {}
    BY <1>6, <1>11, <2>1, <2>2
  <2>4. \A d \in Insts, u \in Units : /\ Len(state'[d]["mf"][u]) <= 1 /\ Seen(state'[d]["mf"][u]) <= now
                                      /\ state'[d]["mf"][u] # <<>> => Facts(state'[d]["mf"][u]) # {}
    BY <1>11, <2>3
  <2>5. QED
    BY <1>1, <2>4 DEF FormInv, Seen, Facts
<1>14. ASSUME ~isSyncFinished
       PROVE  FirstSync'
  <2>1. FirstSync
    BY <1>14 DEF OrderInv
  <2>2. \A j \in Insts, u \in Units : /\ Final(j, u) = Merged(L[j][u], L[currentSource][u])
                                      /\ Final(j, u)' = Merged(M[j][u], L[currentSource][u])
    <3>1. \A j \in Insts, u \in Units : Final(j, u) = Merged(L[j][u], L[currentSource][u])
      BY <1>11 DEF Final
    <3>2. \A j \in Insts, u \in Units : Final(j, u)' = Merged(state'[j]["mf"][u], state'[currentSource]["mf"][u])
      BY DEF Final, Merged, put_asset_per_sip, Stored
    <3>3. \A u \in Units : state'[currentSource]["mf"][u] = L[currentSource][u]
      BY <1>11
    <3>4. QED
      BY <1>11, <3>1, <3>2, <3>3
  <2>3. ASSUME NEW j \in Insts, NEW u \in Units
        PROVE  Facts(Final(j, u))' = Facts(Final(j, u)) /\ Seen(Final(j, u))' = Seen(Final(j, u))
    <3>1. PICK f, g : f = Final(j, u) /\ g = Final(j, u)'
      OBVIOUS
    <3>2. Facts(g) = Facts(f) /\ Seen(g) = Seen(f)
      <4>1. CASE j = i /\ u = v
        BY <1>8, <1>11, <1>12, <2>2, <3>1, <4>1
      <4>2. CASE ~(j = i /\ u = v)
        <5>1. M[j][u] = L[j][u]
          BY <1>11, <4>2
        <5>2. g = f
          BY <2>2, <3>1, <5>1
        <5>3. QED
          BY <5>2
      <4>3. QED
        BY <4>1, <4>2
    <3>3. QED
      BY <3>1, <3>2 DEF Facts, Seen
  <2>4. Busy' => currentSource' = nextInstIndex
    BY <2>1 DEF FirstSync
  <2>5. QED
    BY <2>1, <2>3, <2>4, SyncKept
<1>15. ASSUME isSyncFinished
       PROVE  LaterSync'
  <2>1. Ahead(currentSource, key)
    BY <1>15 DEF OrderInv, LaterSync
  <2>2. \A j \in Insts, u \in Units : /\ Below(L[j][u], L[currentSource][u])
                                      /\ u \notin key => Below(L[currentSource][u], L[j][u])
    BY <1>11, <2>1 DEF Ahead
  <2>3. Below(x, s)
    <3>1. Below(l, s)
      BY <1>12, <2>2
    <3>2. CASE x = l
      BY <3>1, <3>2
    <3>3. CASE x = Merged(l, s)
      <4>1. Seen(l) <= Seen(s)
        BY <3>1 DEF Below
      <4>2. Facts(x) = Facts(l) \cup Facts(s) /\ Seen(x) = Seen(s)
        BY <1>3, <1>4, <3>3, <4>1, MergedList
      <4>3. Seen(x) <= Seen(s)
        BY <1>4, <4>2
      <4>4. QED
        BY <3>1, <4>2, <4>3, Zenon DEF Below, Tell
    <3>4. QED
      BY <3>2, <3>3
  <2>4. Below(s, l) => Below(s, x)
    BY <1>3, <1>4, <1>5, <1>7, BelowOrder
  <2>5. \A j \in Insts, u \in Units : /\ Below(M[j][u], M[currentSource][u])
                                      /\ u \notin key => Below(M[currentSource][u], M[j][u])
    BY <1>11, <1>12, <2>2, <2>3, <2>4
  <2>6. \A j \in Insts, u \in Units : /\ Below(state'[j]["mf"][u], state'[currentSource]["mf"][u])
                                      /\ u \notin key => Below(state'[currentSource]["mf"][u], state'[j]["mf"][u])
    BY <1>11, <2>5
  <2>7. Ahead(currentSource, key)'
    BY <1>1, <2>6, TellKept DEF Ahead, Below, Tell, Seen, Facts
  <2>8. QED
    BY <1>1, <2>7 DEF LaterSync
<1>16. OrderInv'
  BY <1>13, <1>14, <1>15 DEF OrderInv
<1>17. QED
  BY <1>16

(* An instance knows what it has been told.                                *)
LEMMA KnownTold ==
  /\ \A i, k, u : Known(i, k, u) = Told(state[i][k][u])
  /\ \A i, k, u : Known(i, k, u)' = Told(state'[i][k][u])
  BY DEF Known, Told

(* Later on the source is ahead: no put is ignored.                        *)
LEMMA PutLater ==
  ASSUME VarsType, OrderInv, Busy, isSyncFinished, "mf" \in StateKinds, NEW i \in Insts, NEW u \in Units
  PROVE  Seen(state[i]["mf"][u]) <= Seen(state[currentSource]["mf"][u])
<1>1. Ahead(currentSource, key)
  BY DEF OrderInv, LaterSync
<1>2. Below(state[i]["mf"][u], state[currentSource]["mf"][u])
  BY <1>1 DEF Ahead
<1>3. QED
  BY <1>2 DEF Below

(* A put takes nothing away. It tells what the source does: an older       *)
(* record is ignored in the first synchronization only, and only if the    *)
(* one that is there tells as much or InOrder does not hold.               *)
LEMMA PutTells ==
  ASSUME VarsType, OrderInv, Busy, currentSource \in Insts, NEW i \in Insts, "mf" \in StateKinds,
         NEW m, m.rec \in Cargo, Carry(m), NEW h, h = m.hashkey, h \in StateKeys,
         NEW l, l = state[i]["mf"][h.unit], NEW x, x = Installed("mf", l, m)
  PROVE  /\ x \in Seq(Records) /\ Below(l, x)
         /\ h.kind = "mf" => Below(SourceList(h), x)
<1>1. h.kind \in StateKinds /\ h.unit \in Units
  BY MessageTypes
<1>2. FormInv
  BY DEF OrderInv
<1>3. PICK s : s = state[currentSource]["mf"][h.unit]
  OBVIOUS
<1>4. /\ s \in Seq(Records) /\ Len(s) <= 1 /\ Seen(s) \in Nat
      /\ l \in Seq(Records) /\ Len(l) <= 1 /\ Seen(l) \in Nat
  BY <1>1, <1>2, <1>3, AssetLists
<1>5. /\ x = l \/ x = Merged(l, s)
      /\ h.kind = "mf" => x = Merged(l, s) /\ s = SourceList(h)
  BY <1>2, <1>3, PutMerges
<1>6. x \in Seq(Records) /\ Below(l, x)
  BY <1>4, <1>5, MergeTells
<1>7. ASSUME h.kind = "mf"
      PROVE  Below(s, x)
  <2>1. Seen(s) <= Seen(x)
    BY <1>4, <1>5, <1>7, MergedTwice
  <2>2. CASE isSyncFinished
    <3>1. Seen(l) <= Seen(s)
      BY <1>1, <1>3, <2>2, PutLater
    <3>2. Facts(s) \subseteq Facts(x)
      BY <1>4, <1>5, <1>7, <3>1, MergedList
    <3>3. QED
      BY <2>1, <3>2 DEF Below, Tell
  <2>3. CASE ~isSyncFinished
    <3>1. FirstSync
      BY <2>3 DEF OrderInv
    <3>2. currentSource = nextInstIndex
      BY <3>1 DEF FirstSync
    <3>3. currentSource <= nextInstIndex
      BY <3>2 DEF VarsType, FieldsType
    <3>4. Below(Final(currentSource, h.unit), Final(i, h.unit))
      BY <1>1, <3>1, <3>3 DEF FirstSync
    <3>5. Final(i, h.unit) = x /\ Final(currentSource, h.unit) = Merged(s, s)
      BY <1>3, <1>5, <1>7 DEF Final
    <3>6. Facts(s) \subseteq Facts(Merged(s, s))
      BY <1>4, MergedTwice
    <3>7. Tell(s, x)
      BY <3>4, <3>5, <3>6, Zenon DEF Below, Tell
    <3>8. QED
      BY <2>1, <3>7 DEF Below
  <2>4. QED
    BY <2>2, <2>3
<1>8. QED
  BY <1>5, <1>6, <1>7

(* What an instance knows after a put.                                     *)
LEMMA PutTold ==
  ASSUME VarsType, OrderInv, Busy, currentSource \in Insts, NEW i \in Insts,
         NEW m, m.rec \in Cargo, Carry(m), NEW h, h = m.hashkey, h \in StateKeys, NEW r, r = SourceRec(h),
         NEW k \in StateKinds, NEW l, l = state[i][k][h.unit], NEW x, x = Installed(k, l, m)
  PROVE  /\ Told(l) \subseteq Told(x)
         /\ k = h.kind /\ (k = "pf" \/ isSyncFinished) => r.facts \subseteq Told(x)
<1>1. h.kind \in StateKinds /\ h.unit \in Units /\ k \in {"pf", "mf"} /\ h.kind \in {"pf", "mf"}
  BY MessageTypes, ListTypes
<1>2. CASE k = "mf"
  <2>1. FormInv
    BY <1>2 DEF OrderInv
  <2>2. PICK s : s = state[currentSource]["mf"][h.unit]
    OBVIOUS
  <2>3. s \in Seq(Records) /\ Len(s) <= 1 /\ l \in Seq(Records) /\ Len(l) <= 1
    BY <1>1, <1>2, <2>1, <2>2, AssetLists
  <2>4. /\ x = l \/ x = Merged(l, s)
        /\ h.kind = "mf" => x = Merged(l, s) /\ r.facts = Facts(s)
    BY <1>2, <2>1, <2>2, PutMerges
  <2>5. Told(l) \subseteq Told(x) /\ Told(x) = Facts(x)
    BY <2>3, <2>4, MergeTells
  <2>6. ASSUME h.kind = "mf", isSyncFinished
        PROVE  r.facts \subseteq Told(x)
    <3>1. Seen(l) <= Seen(s)
      BY <1>1, <1>2, <2>2, <2>6, PutLater
    <3>2. Facts(s) \subseteq Facts(x)
      BY <2>3, <2>4, <2>6, <3>1, MergedList
    <3>3. QED
      BY <2>4, <2>5, <2>6, <3>2
  <2>7. QED
    BY <1>2, <2>5, <2>6
<1>3. CASE k = "pf"
  <2>1. CASE h.kind = "pf"
    <3>1. PICK y \in Records : y = Stored(m.rec)
      BY RecordFields
    <3>2. x = <<y>> \o l
      BY <1>3, <2>1, <3>1 DEF Installed, local_put_perflow
    <3>3. l \in Seq(Records)
      BY <1>1, ListTypes
    <3>4. y.facts \subseteq Told(x) /\ Told(l) \subseteq Told(x)
      BY <3>2, <3>3, FrontTells
    <3>5. y.facts = r.facts
      <4>1. Stored(m.rec) = Stored(r)
        BY DEF Carry
      <4>2. QED
        BY <3>1, <4>1 DEF Stored
    <3>6. QED
      BY <3>4, <3>5
  <2>2. CASE h.kind # "pf"
    <3>1. x = l
      BY <1>1, <1>3, <2>2 DEF Installed
    <3>2. QED
      BY <1>3, <2>2, <3>1
  <2>3. QED
    BY <2>1, <2>2
<1>4. QED
  BY <1>1, <1>2, <1>3

(* While state is copied no packet is out.                                 *)
LEMMA BusyTurn ==
  ASSUME VarsType, OneTurn, Busy
  PROVE  /\ currentSource \in Insts /\ Round /\ ~Out /\ \A i \in Insts : ~Echo(i)
         /\ \A t \in Threads : ~Turn(t)
<1>1. currentSource \in Insts /\ Round
  BY BusySource DEF OneTurn
<1>2. QED
  BY <1>1 DEF OneTurn, TurnInv, Out

(* A record has been got.                                                  *)
LEMMA GotNext ==
  ASSUME args' = args, isSyncFinished' = isSyncFinished, NEW d, NEW g,
         SourceList(g)' = SourceList(g), SourceRec(g)' = SourceRec(g),
         g.kind = "pf" \/ isSyncFinished => SourceRec(g).facts \subseteq Known(d, g.kind, g.unit)',
         g.kind = "mf" => Below(SourceList(g), state'[d]["mf"][g.unit])
  PROVE  Got(d, g)'
  BY TellKept DEF Got, Below, Tell, Seen, Facts

(* A put is carried out.                                                   *)
LEMMA PutCopies ==
  ASSUME VarsType, VarsType', args' = args, OneTurn, Copies, NEW i \in Insts, handle_put(i)
  PROVE  Copies'
<1>1. UNCHANGED <<currentSource, key, now, processed, lastPacket, isSyncFinished, nextInstIndex, acked, tasks,
                  stateOut, chunks>>
  BY DEF handle_put, opVars, syncVars, chunkVars
<1>2. PICK m : m = Head(stateIn[i])
  OBVIOUS
<1>3. PICK h : h = m.hashkey
  OBVIOUS
<1>7. RoundInv /\ CarryInv /\ OrderInv /\ LearnedInv /\ CopiedInv
  BY DEF OneTurn, Copies
<1>8. /\ h \in StateKeys /\ m.rec \in Cargo /\ OfSource(h) /\ Carry(m)
      /\ currentSource \in Insts /\ i # currentSource /\ Busy
  BY <1>2, <1>3, <1>7, PutChanges
<1>9. \A d \in Insts, k \in StateKinds, u \in Units :
        state'[d][k][u] = IF d = i /\ u = h.unit THEN Installed(k, state[i][k][u], m) ELSE state[d][k][u]
  BY <1>2, <1>3, <1>7, PutChanges
<1>10. \A j \in Insts : ~Has(stateIn'[j], WrongRequests)
  BY <1>2, <1>3, <1>7, PutChanges
<1>11. /\ \A j \in Insts, k \in Kinds : Asking(j, k)' <=> Asking(j, k)
       /\ \A j \in Insts, g \in StateKeys : Putting(j, g)' <=> Putting(j, g) /\ ~(j = i /\ h = g)
  BY <1>2, <1>3, <1>7, PutChanges
<1>12. ASSUME NEW k \in StateKinds
       PROVE  /\ Told(state[i][k][h.unit]) \subseteq Told(state'[i][k][h.unit])
              /\ k = h.kind /\ (k = "pf" \/ isSyncFinished) => SourceRec(h).facts \subseteq Told(state'[i][k][h.unit])
              /\ k = "mf" => state'[i][k][h.unit] \in Seq(Records) /\ Below(state[i][k][h.unit], state'[i][k][h.unit])
              /\ k = "mf" /\ h.kind = "mf" => Below(SourceList(h), state'[i][k][h.unit])
  <2>1. h.unit \in Units
    BY <1>8, MessageTypes
  <2>2. PICK l, x, r : l = state[i][k][h.unit] /\ x = Installed(k, l, m) /\ r = SourceRec(h)
    OBVIOUS
  <2>3. state'[i][k][h.unit] = x
    BY <1>9, <2>1, <2>2
  <2>4. /\ m.rec \in Cargo /\ Carry(m) /\ h = m.hashkey /\ h \in StateKeys
        /\ OrderInv /\ Busy /\ currentSource \in Insts
    BY <1>3, <1>7, <1>8
  <2>5. /\ Told(l) \subseteq Told(x)
        /\ k = h.kind /\ (k = "pf" \/ isSyncFinished) => r.facts \subseteq Told(x)
    BY <2>2, <2>4, PutTold
  <2>6. k = "mf" => x \in Seq(Records) /\ Below(l, x)
    BY <2>2, <2>4, PutTells
  <2>7. k = "mf" /\ h.kind = "mf" => Below(SourceList(h), x)
    BY <2>2, <2>4, PutTells
  <2>8. QED
    BY <2>2, <2>3, <2>5, <2>6, <2>7
<1>13. state'[currentSource] = state[currentSource]
  BY <1>8 DEF handle_put, VarsType, InstancesType
<1>14. /\ \A g : SourceList(g)' = SourceList(g) /\ (OfSource(g)' <=> OfSource(g)) /\ SourceRec(g)' = SourceRec(g)
       /\ \A c : Carry(c)' <=> Carry(c)
       /\ WrongRequests' = WrongRequests /\ WrongAnswers' = WrongAnswers
  BY <1>1, <1>13, SourceSame
<1>15. Insts' = Insts /\ StateKinds' = StateKinds /\ StateKeys' = StateKeys
  BY ArgsKept
<1>16. Busy'
  <2>1. \A k \in Kinds : Active(k)' <=> Active(k)
    BY <1>7, PutRound
  <2>2. QED
    BY <1>8, <2>1, ListTypes, SameBusy
<1>17. \A j \in Insts : ~Echo(j)' /\ ~Echo(j)
  <2>1. \A j \in Insts : ~Echo(j)
    BY <1>8, BusyTurn
  <2>2. PICK a : a = [type |-> "PutAck", hashkey |-> h]
    OBVIOUS
  <2>3. a \in Events /\ a \notin ReportMsgs
    BY <1>8, <2>2, NoReports DEF Events
  <2>4. eventOut \in [Insts -> Seq(Events)] /\ eventOut' = [eventOut EXCEPT ![i] = Append(@, a)]
    BY <1>2, <1>3, <2>2 DEF handle_put, VarsType, ChannelsType
  <2>5. \A j \in Insts : eventOut'[j] = IF j = i THEN Append(eventOut[j], a) ELSE eventOut[j]
    BY <2>4
  <2>6. SameReports
    BY <2>3, <2>5 DEF SameReports, Kept
  <2>7. \A j \in Insts : Echo(j)' <=> Echo(j)
    BY <1>1, <2>6, SameEcho
  <2>8. QED
    BY <2>1, <2>7
<1>18. \A d \in Insts, k \in StateKinds, u \in Units : Known(d, k, u) \subseteq Known(d, k, u)'
  <2>1. SUFFICES ASSUME NEW d \in Insts, NEW k \in StateKinds, NEW u \in Units
                 PROVE  Told(state[d][k][u]) \subseteq Told(state'[d][k][u])
    BY KnownTold
  <2>2. CASE d = i /\ u = h.unit
    BY <1>12, <2>2
  <2>3. CASE ~(d = i /\ u = h.unit)
    <3>1. state'[d][k][u] = state[d][k][u]
      BY <1>9, <2>3
    <3>2. QED
      BY <3>1
  <2>4. QED
    BY <2>2, <2>3
<1>19. CarryInv'
  <2>1. PICK cs : cs = chunks
    OBVIOUS
  <2>2. \A c \in 1 .. Len(chunks') : chunks'[c].live => Carry(chunks[c])'
    <3>1. \A c \in 1 .. Len(cs) : cs[c].live => Carry(cs[c])
      BY <1>7, <2>1 DEF CarryInv
    <3>2. \A c \in 1 .. Len(cs) : cs[c].live => Carry(cs[c])'
      BY <1>14, <3>1
    <3>3. cs = chunks'
      BY <1>1, <2>1
    <3>4. QED
      BY <3>2, <3>3 DEF Carry, OfSource, SourceRec, SourceList
  <2>3. \A j \in Insts : ~Has(stateOut'[j], WrongAnswers)
    BY <1>1, <1>7 DEF CarryInv
  <2>4. QED
    BY <1>10, <1>14, <1>15, <2>2, <2>3 DEF CarryInv
<1>20. CopiedInv'
  <2>1. SUFFICES ASSUME NEW d \in Insts, d # currentSource, NEW g \in StateKeys, g.unit \in key, OfSource(g)
                 PROVE  Waits(d, g)' \/ Got(d, g)'
    BY <1>1, <1>14, <1>15 DEF CopiedInv
  <2>2. g.kind \in StateKinds /\ g.kind \in Kinds /\ g.unit \in Units
    BY MessageTypes
  <2>3. Waits(d, g) \/ Got(d, g)
    BY <1>7, <1>8, <2>1 DEF CopiedInv
  <2>4. CASE d = i /\ g = h
    <3>1. g.kind = "pf" \/ isSyncFinished => SourceRec(g).facts \subseteq Known(d, g.kind, g.unit)'
      BY <1>12, <2>2, <2>4, KnownTold
    <3>2. g.kind = "mf" => Below(SourceList(g), state'[d]["mf"][g.unit])
      BY <1>12, <2>2, <2>4
    <3>3. QED
      BY <1>1, <1>14, <3>1, <3>2, GotNext
  <2>5. CASE Waits(d, g) /\ ~(d = i /\ g = h)
    <3>1. Sending(currentSource, g)' <=> Sending(currentSource, g)
      BY <1>1, <1>15 DEF Sending, StatesOf
    <3>2. Tasked(g)' <=> Tasked(g)
      BY <1>1 DEF Tasked
    <3>3. Asking(currentSource, g.kind)' <=> Asking(currentSource, g.kind)
      BY <1>1, <1>8, <1>11, <2>2
    <3>4. Putting(d, g) => Putting(d, g)'
      BY <1>11, <2>5
    <3>5. QED
      BY <1>1, <2>5, <3>1, <3>2, <3>3, <3>4 DEF Waits
  <2>6. CASE Got(d, g)
    <3>1. g.kind = "pf" \/ isSyncFinished => SourceRec(g).facts \subseteq Known(d, g.kind, g.unit)'
      BY <1>18, <2>2, <2>6 DEF Got
    <3>2. ASSUME g.kind = "mf"
          PROVE  Below(SourceList(g), state'[d]["mf"][g.unit])
      <4>1. Below(SourceList(g), state[d]["mf"][g.unit])
        BY <2>6, <3>2 DEF Got
      <4>2. CASE d = i /\ g.unit = h.unit
        <5>1. PICK s, l, x : s = SourceList(g) /\ l = state[i]["mf"][h.unit] /\ x = state'[i]["mf"][h.unit]
          OBVIOUS
        <5>2. x \in Seq(Records) /\ Below(l, x)
          BY <1>12, <2>2, <3>2, <5>1
        <5>3. s \in Seq(Records) /\ l \in Seq(Records)
          BY <1>8, <2>2, <3>2, <4>2, <5>1, ListTypes DEF SourceList
        <5>4. Below(s, l)
          BY <4>1, <4>2, <5>1
        <5>5. Below(s, x)
          BY <5>2, <5>3, <5>4, BelowOrder
        <5>6. QED
          BY <4>2, <5>1, <5>5
      <4>3. CASE ~(d = i /\ g.unit = h.unit)
        <5>1. state'[d]["mf"][g.unit] = state[d]["mf"][g.unit]
          BY <1>9, <2>2, <3>2, <4>3
        <5>2. QED
          BY <4>1, <5>1
      <4>4. QED
        BY <4>2, <4>3
    <3>3. QED
      BY <1>1, <1>14, <3>1, <3>2, GotNext
  <2>7. QED
    BY <2>3, <2>4, <2>5, <2>6
<1>21. OrderInv'
  <2>1. SUFFICES ASSUME "mf" \in StateKinds PROVE OrderInv'
    BY <1>15 DEF OrderInv
  <2>2. PICK v \in Units : v = h.unit
    BY <1>8, MessageTypes
  <2>3. PICK s, l, x : s = state[currentSource]["mf"][v] /\ l = state[i]["mf"][v] /\ x = Installed("mf", l, m)
    OBVIOUS
  <2>4. x = l \/ x = Merged(l, s)
    <3>1. FormInv
      BY <1>7, <2>1 DEF OrderInv
    <3>2. QED
      BY <1>3, <1>8, <2>1, <2>2, <2>3, <3>1, PutMerges
  <2>5. \A d \in Insts, u \in Units : state'[d]["mf"][u] = IF d = i /\ u = v THEN x ELSE state[d]["mf"][u]
    BY <1>9, <2>1, <2>2, <2>3
  <2>6. QED
    BY <1>1, <1>7, <1>8, <1>16, <1>17, <2>1, <2>3, <2>4, <2>5, PutOrder
<1>22. LearnedInv'
  <2>1. (~isSyncFinished => processed = <<>>)' /\ (isSyncFinished => nextInstIndex = args.n)'
    BY <1>1, <1>7 DEF LearnedInv
  <2>2. (Busy /\ isSyncFinished => key = {UnitOf[lastPacket]} /\ AtHead(currentSource))'
    <3>1. AtHead(currentSource)' <=> AtHead(currentSource)
      BY <1>1, <1>13, <1>15 DEF AtHead, Facts
    <3>2. QED
      BY <1>1, <1>7, <1>8, <1>16, <3>1 DEF LearnedInv
  <2>3. (\A p \in Range(processed), j \in Insts, k \in StateKinds :
           p \in Known(j, k, UnitOf[p]) \/ (p = lastPacket /\ (Busy \/ \E n \in Insts : Echo(n))))'
    <3>1. SUFFICES ASSUME NEW p \in Range(processed), NEW j \in Insts, NEW k \in StateKinds, p # lastPacket
                   PROVE  p \in Known(j, k, UnitOf[p])'
      BY <1>1, <1>15, <1>16
    <3>2. p \in Known(j, k, UnitOf[p])
      BY <1>7, <3>1 DEF LearnedInv
    <3>3. p \in Packets /\ UnitOf[p] \in Units
      BY ShareAssumption, RangeType DEF VarsType, InstancesType
    <3>4. QED
      BY <1>18, <3>2, <3>3
  <2>4. QED
    BY <1>15, <1>17, <2>1, <2>2, <2>3 DEF LearnedInv
<1>23. QED
  BY <1>19, <1>20, <1>21, <1>22 DEF Copies

(* Requests, sorted by what they ask for.                                  *)
LEMMA RequestSorts ==
  ASSUME NEW m \in Requests
  PROVE  /\ m.type = "Get" => m.kind \in Kinds /\ m.units \in SUBSET Units /\ m \in GetsOf(m.kind)
         /\ m.type = "Put" => m.hashkey \in StateKeys /\ m \in PutsOf(m.hashkey)
  BY DEF Requests, GetsOf, PutsOf

(* State that is sent, sorted by its hashkey.                              *)
LEMMA AnswerSorts ==
  ASSUME NEW m \in Answers, m.type = "State"
  PROVE  m.hashkey \in StateKeys /\ m \in StatesOf(m.hashkey)
  BY DEF Answers, StateMsgs, StatesOf

-----------------------------------------------------------------------------
(* Steps between two rounds.                                               *)

(* When nothing is under way, nothing is wrong with it.                    *)
LEMMA StillCopies == VarsType /\ Still => ~Busy /\ CarryInv /\ CopiedInv
<1>1. SUFFICES ASSUME VarsType, Still PROVE ~Busy /\ CarryInv /\ CopiedInv
  OBVIOUS
<1>2. ~Busy
  BY <1>1, ListTypes DEF Still, Busy
<1>3. ASSUME NEW i \in Insts, Has(stateIn[i], WrongRequests)
      PROVE  FALSE
  <2>1. PICK n \in 1 .. Len(stateIn[i]) : stateIn[i][n] \in WrongRequests
    BY <1>3 DEF Has
  <2>2. PICK m \in Requests : m = stateIn[i][n] /\ (m.type = "Get" \/ m.type = "Put")
    BY <2>1 DEF WrongRequests
  <2>3. CASE m.type = "Get"
    <3>1. m.kind \in Kinds /\ m \in GetsOf(m.kind)
      BY <2>2, <2>3, RequestSorts
    <3>2. Asking(i, m.kind)
      BY <2>2, <3>1 DEF Asking, Has
    <3>3. QED
      BY <1>1, <3>1, <3>2 DEF Still, Active
  <2>4. CASE m.type = "Put"
    <3>1. m.hashkey \in StateKeys /\ m \in PutsOf(m.hashkey)
      BY <2>2, <2>4, RequestSorts
    <3>2. Putting(i, m.hashkey)
      BY <2>2, <3>1 DEF Putting, Has
    <3>3. QED
      BY <1>1, <3>1, <3>2 DEF Still
  <2>5. QED
    BY <2>2, <2>3, <2>4
<1>4. ASSUME NEW i \in Insts, Has(stateOut[i], WrongAnswers)
      PROVE  FALSE
  <2>1. PICK n \in 1 .. Len(stateOut[i]) : stateOut[i][n] \in WrongAnswers
    BY <1>4 DEF Has
  <2>2. PICK m \in Answers : m = stateOut[i][n] /\ m.type = "State"
    BY <2>1 DEF WrongAnswers
  <2>3. m.hashkey \in StateKeys /\ m \in StatesOf(m.hashkey)
    BY <2>2, AnswerSorts
  <2>4. Sending(i, m.hashkey)
    BY <2>2, <2>3 DEF Sending, Has
  <2>5. QED
    BY <1>1, <2>3, <2>4 DEF Still
<1>5. ASSUME NEW c \in 1 .. Len(chunks), chunks[c].live
      PROVE  FALSE
  <2>1. chunks[c] \in Chunks
    BY <1>1, ElementOfSeq DEF VarsType, ChunksType
  <2>2. chunks[c].hashkey \in StateKeys
    BY <2>1 DEF Chunks
  <2>3. InTable(chunks[c].hashkey)
    BY <1>5 DEF InTable
  <2>4. QED
    BY <1>1, <2>2, <2>3 DEF Still
<1>6. CarryInv
  BY <1>3, <1>4, <1>5 DEF CarryInv
<1>7. QED
  BY <1>2, <1>6 DEF CopiedInv

(* The same of the next state.                                             *)
LEMMA StillCopiesNext ==
  ASSUME VarsType', Still'
  PROVE  ~Busy' /\ CarryInv' /\ CopiedInv'
<1>1. (VarsType /\ Still => ~Busy /\ CarryInv /\ CopiedInv)'
  BY StillCopies, PTL
<1>2. QED
  BY <1>1

(* A queue something is sent on is not empty.                              *)
LEMMA SentSome ==
  ASSUME NEW S, NEW s \in Seq(S), NEW x
  PROVE  Append(s, x) # <<>>
<1>1. PICK T : T = S \cup {x}
  OBVIOUS
<1>2. s \in Seq(T) /\ x \in T
  BY <1>1, SeqMonotonic
<1>3. Append(s, x) \in Seq(T) /\ Len(Append(s, x)) = Len(s) + 1
  BY <1>2, AppendProperties
<1>4. Len(s) \in Nat
  BY LenProperties
<1>5. QED
  BY <1>3, <1>4, EmptySeq

(* All have been copied: nobody is ahead of another.                       *)
LEMMA NobodyAhead ==
  ASSUME VarsType, OrderInv, "mf" \in StateKinds, ~Busy, \A i \in Insts : ~Echo(i),
         isSyncFinished \/ nextInstIndex = args.n
  PROVE  FormInv /\ \A i \in Insts : Ahead(i, {})
<1>1. FormInv
  BY DEF OrderInv
<1>2. CASE isSyncFinished
  BY <1>1, <1>2 DEF OrderInv, LaterSync
<1>3. CASE ~isSyncFinished
  <2>1. FirstSync
    BY <1>3 DEF OrderInv
  <2>2. \A i \in Insts : i <= nextInstIndex
    BY <1>3, ShareAssumption DEF Insts, VarsType
  <2>3. \A i, u : Final(i, u) = state[i]["mf"][u]
    BY DEF Final
  <2>4. \A i, j \in Insts, u \in Units : Below(state[i]["mf"][u], state[j]["mf"][u])
    BY <2>1, <2>2, <2>3 DEF FirstSync
  <2>5. QED
    BY <1>1, <2>4 DEF Ahead
<1>4. QED
  BY <1>2, <1>3

(* When nothing is under way and nobody is ahead, it stays so.             *)
LEMMA RestCopies ==
  ASSUME VarsType, VarsType', args' = args, Copies, ~Busy, \A i \in Insts : ~Echo(i), Still',
         \A i \in Insts : ~Echo(i)', isSyncFinished', isSyncFinished \/ nextInstIndex = args.n,
         UNCHANGED <<state, now, processed, nextInstIndex>>
  PROVE  Copies'
<1>1. ~Busy' /\ CarryInv' /\ CopiedInv'
  BY StillCopiesNext
<1>2. Insts' = Insts /\ StateKinds' = StateKinds
  BY ArgsKept
<1>3. OrderInv'
  <2>1. SUFFICES ASSUME "mf" \in StateKinds PROVE OrderInv'
    BY <1>2 DEF OrderInv
  <2>2. FormInv /\ \A i \in Insts : Ahead(i, {})
    BY <2>1, NobodyAhead DEF Copies
  <2>3. FormInv'
    BY <1>2, <2>2 DEF FormInv, Seen, Facts
  <2>4. \A i \in Insts : Ahead(i, {})'
    BY <1>2, <2>2, TellKept DEF Ahead, Below, Tell, Seen, Facts
  <2>5. LaterSync'
    BY <1>1, <1>2, <2>4 DEF LaterSync
  <2>6. QED
    BY <2>3, <2>5 DEF OrderInv
<1>4. LearnedInv'
  <2>1. LearnedInv
    BY DEF Copies
  <2>2. nextInstIndex' = args'.n
    BY <2>1 DEF LearnedInv
  <2>3. \A p \in Range(processed), j \in Insts, k \in StateKinds : p \in Known(j, k, UnitOf[p])
    BY <2>1 DEF LearnedInv
  <2>4. \A p \in Range(processed'), j \in Insts', k \in StateKinds' : p \in Known(j, k, UnitOf[p])'
    BY <1>2, <2>3 DEF Known
  <2>5. QED
    BY <1>1, <1>2, <2>2, <2>4 DEF LearnedInv
<1>5. QED
  BY <1>1, <1>3, <1>4 DEF Copies

(* Nothing is under way when a thread has the turn.                        *)
LEMMA TurnStill ==
  ASSUME VarsType, OneTurn, NEW t \in Threads, Turn(t)
  PROVE  Still /\ ~Round /\ ~Busy /\ ~Out /\ \A i \in Insts : ~Echo(i)
<1>1. RoundInv /\ ~Round /\ ~Out
  BY DEF OneTurn, TurnInv
<1>2. Still
  BY <1>1, NoRoundStill
<1>3. QED
  BY <1>1, <1>2, StillCopies DEF Out

(* The first packet is returned, or waited for.                            *)
LEMMA DequeueCopies ==
  ASSUME VarsType, VarsType', args' = args, OneTurn, OneTurn', Copies, NEW t \in Threads, dequeueAfterSync(t)
  PROVE  Copies'
<1>1. /\ UNCHANGED <<isSyncFinished, nextInstIndex, now, processed, originalEvents, acked, chunks, tasks, read, chunk,
                     stateIn, stateOut, eventOut, state>>
      /\ Goto(t, "dequeue", "idle") /\ dequeueEvent(originalEvents, callFromReprocess)
  BY DEF dequeueAfterSync, chunkVars, nfVars
<1>2. pc[t] = "dequeue" /\ Turn(t)
  BY <1>1 DEF Goto, Turn
<1>3. Still /\ ~Busy /\ \A i \in Insts : ~Echo(i)
  BY <1>2, TurnStill
<1>4. isSyncFinished
  BY <1>2 DEF OneTurn, TurnInv
<1>5. Still'
  <2>1. "idle" \in Labels
    BY DEF Labels
  <2>2. SameQueues /\ SameThreads /\ SameChunks
    BY <1>1, <2>1, Silent, OtherThread DEF SameChunks
  <2>3. QED
    BY <1>1, <1>3, <2>2, StillFrame
<1>6. \A i \in Insts : ~Echo(i)'
  <2>1. CASE originalEvents = <<>>
    BY <1>1, <1>3, <2>1 DEF dequeueEvent, Echo
  <2>2. CASE originalEvents # <<>>
    <3>1. PICK x : ofq' = Append(ofq, x)
      BY <1>1, <2>2 DEF dequeueEvent
    <3>2. ofq' # <<>>
      BY <3>1, SentSome DEF VarsType, ChannelsType
    <3>3. QED
      BY <3>2, ArgsKept DEF OneTurn, OutInv
  <2>3. QED
    BY <2>1, <2>2
<1>7. QED
  BY <1>1, <1>3, <1>4, <1>5, <1>6, RestCopies

(* A round starts: all the state of the source has yet to be put.          *)
LEMMA StartCopy ==
  ASSUME VarsType, VarsType', args' = args, Still, NEW i \in Insts, NEW us, us \subseteq Units,
         syncFromInstance(i, us), UNCHANGED <<stateOut, chunks>>
  PROVE  /\ \A k \in ScopeKinds : k \in Kinds /\ Active(k)'
         /\ CarryInv' /\ CopiedInv' /\ currentSource' = i /\ key' = us
<1>1. /\ currentSource' = i /\ key' = us
      /\ stateIn' = [stateIn EXCEPT ![i] = @ \o Gets(us)]
  BY DEF syncFromInstance, ResetSync
<1>2. PICK g : g = Gets(us)
  OBVIOUS
<1>3. g \in Seq(Requests)
  BY <1>2, GetsType
<1>4. stateIn \in [Insts -> Seq(Requests)]
  BY DEF VarsType, ChannelsType
<1>5. \A j \in Insts : stateIn'[j] = IF j = i THEN stateIn[j] \o g ELSE stateIn[j]
  BY <1>1, <1>2, <1>4
<1>6. Insts' = Insts /\ StateKinds' = StateKinds /\ StateKeys' = StateKeys /\ ScopeKinds' = ScopeKinds
  BY ArgsKept, ScopeKept
<1>7. ScopeOrder \in Seq(Kinds) /\ Len(ScopeOrder) \in Nat /\ DOMAIN ScopeOrder = 1 .. Len(ScopeOrder)
  BY ScopeType, LenProperties
<1>8. Len(g) = Len(ScopeOrder) /\ \A n \in 1 .. Len(g) : g[n] = [type |-> "Get", kind |-> ScopeOrder[n], units |-> us]
  BY <1>2, <1>7 DEF Gets
<1>9. \A n \in 1 .. Len(g) : g[n] \in Requests /\ g[n].type = "Get" /\ g[n].kind = ScopeOrder[n] /\ g[n].units = us
  <2>1. SUFFICES ASSUME NEW n \in 1 .. Len(g)
                 PROVE  g[n].type = "Get" /\ g[n].kind = ScopeOrder[n] /\ g[n].units = us
    BY <1>3, ElementOfSeq
  <2>2. PICK r : r = [type |-> "Get", kind |-> ScopeOrder[n], units |-> us]
    OBVIOUS
  <2>3. g[n] = r /\ r.type = "Get" /\ r.kind = ScopeOrder[n] /\ r.units = us
    BY <1>8, <2>2
  <2>4. QED
    BY <2>3
<1>10. \A k \in ScopeKinds : k \in Kinds /\ Asking(i, k)'
  <2>1. SUFFICES ASSUME NEW k \in ScopeKinds
                 PROVE  k \in Kinds /\ Asking(i, k)'
    OBVIOUS
  <2>2. PICK n \in 1 .. Len(ScopeOrder) : k = ScopeOrder[n]
    BY <1>7 DEF ScopeKinds, Range
  <2>3. k \in Kinds
    BY <1>7, <2>2
  <2>4. g[n] \in GetsOf(k)
    BY <1>8, <1>9, <2>2, <2>3, Sorted
  <2>5. Has(g, GetsOf(k))
    BY <1>8, <2>2, <2>4 DEF Has
  <2>6. Has(stateIn[i] \o g, GetsOf(k))
    BY <1>3, <1>4, <2>5, HasConcat
  <2>7. QED
    BY <1>5, <2>3, <2>6 DEF Asking, GetsOf
<1>11. \A k \in ScopeKinds : k \in Kinds /\ Active(k)'
  BY <1>6, <1>10 DEF Active
<1>12. \A j \in Insts : ~Has(stateIn'[j], WrongRequests')
  <2>1. SUFFICES ASSUME NEW j \in Insts, NEW m \in Requests, m \in WrongRequests', NEW n \in 1 .. Len(stateIn'[j]),
                        stateIn'[j][n] = m
                 PROVE  FALSE
    BY <1>6 DEF Has, WrongRequests, Requests
  <2>2. (m.type = "Get" /\ m.units # us) \/ m.type = "Put"
    BY <1>1, <2>1 DEF WrongRequests
  <2>3. ~Has(g, {m})
    BY <1>9, <2>2 DEF Has
  <2>4. ~Has(stateIn[j], {m})
    <3>1. SUFFICES ASSUME Has(stateIn[j], {m})
                   PROVE  FALSE
      OBVIOUS
    <3>2. CASE m.type = "Get"
      <4>1. m.kind \in Kinds /\ m \in GetsOf(m.kind)
        BY <2>1, <3>2, RequestSorts
      <4>2. Asking(j, m.kind)
        BY <3>1, <4>1 DEF Asking, Has
      <4>3. QED
        BY <4>1, <4>2 DEF Still, Active
    <3>3. CASE m.type = "Put"
      <4>1. m.hashkey \in StateKeys /\ m \in PutsOf(m.hashkey)
        BY <2>1, <3>3, RequestSorts
      <4>2. Putting(j, m.hashkey)
        BY <3>1, <4>1 DEF Putting, Has
      <4>3. QED
        BY <4>1, <4>2 DEF Still
    <3>4. QED
      BY <2>2, <3>2, <3>3
  <2>5. ~Has(stateIn[j] \o g, {m})
    BY <1>3, <1>4, <2>3, <2>4, HasConcat
  <2>6. ~Has(stateIn'[j], {m})
    BY <1>5, <2>4, <2>5
  <2>7. QED
    BY <2>1, <2>6 DEF Has
<1>13. \A j \in Insts : ~Has(stateOut'[j], WrongAnswers')
  <2>1. SUFFICES ASSUME NEW j \in Insts, NEW m \in Answers, m.type = "State", NEW n \in 1 .. Len(stateOut[j]),
                        stateOut[j][n] = m
                 PROVE  FALSE
    BY ArgsKept DEF Has, WrongAnswers
  <2>2. m.hashkey \in StateKeys /\ m \in StatesOf(m.hashkey)
    BY <2>1, AnswerSorts
  <2>3. Sending(j, m.hashkey)
    BY <2>1, <2>2 DEF Sending, Has
  <2>4. QED
    BY <2>2, <2>3 DEF Still
<1>14. \A c \in 1 .. Len(chunks') : ~chunks'[c].live
  <2>1. SUFFICES ASSUME NEW c \in 1 .. Len(chunks), chunks[c].live
                 PROVE  FALSE
    OBVIOUS
  <2>2. chunks[c] \in Chunks
    BY ElementOfSeq DEF VarsType, ChunksType
  <2>3. chunks[c].hashkey \in StateKeys
    BY <2>2 DEF Chunks
  <2>4. InTable(chunks[c].hashkey)
    BY <2>1 DEF InTable
  <2>5. QED
    BY <2>3, <2>4 DEF Still
<1>15. CarryInv'
  BY <1>6, <1>12, <1>13, <1>14 DEF CarryInv
<1>16. CopiedInv'
  <2>1. SUFFICES ASSUME NEW d \in Insts, NEW h \in StateKeys
                 PROVE  Waits(d, h)'
    BY <1>6 DEF CopiedInv
  <2>2. h.kind \in ScopeKinds
    <3>1. h.kind \in StateKinds
      BY MessageTypes
    <3>2. QED
      BY <3>1 DEF StateKinds
  <2>3. Asking(i, h.kind)'
    BY <1>10, <2>2
  <2>4. Asking(currentSource, h.kind)'
    BY <1>1, <2>3 DEF Asking
  <2>5. QED
    BY <2>4 DEF Waits
<1>17. QED
  BY <1>1, <1>11, <1>15, <1>16

(* No element is in an empty sequence.                                     *)
LEMMA RangeNone ==
  ASSUME NEW s, s = <<>>
  PROVE  \A e : e \notin Range(s)
<1>1. s \in Seq({}) /\ Len(s) = 0
  BY EmptySeq
<1>2. 1 .. Len(s) = {}
  BY <1>1
<1>3. QED
  BY <1>1, <1>2, InRange

(* A list that is below the source's is so when both are merged with it.   *)
LEMMA RoundBelow ==
  ASSUME NEW l \in Seq(Records), Len(l) <= 1, NEW m \in Seq(Records), Len(m) <= 1, NEW s \in Seq(Records), Len(s) <= 1,
         NEW x, x = Merged(l, s), NEW y, y = Merged(m, s), Below(l, s), Tell(s, m) \/ Seen(m) <= Seen(s)
  PROVE  Below(x, y)
<1>1. Seen(l) \in Nat /\ Seen(m) \in Nat /\ Seen(s) \in Nat
  BY HeadOf
<1>2. Seen(l) <= Seen(s)
  BY DEF Below
<1>3. Facts(x) = Facts(l) \cup Facts(s) /\ Seen(x) = Seen(s)
  BY <1>2, MergedList
<1>4. Seen(x) <= Seen(y)
  BY <1>3, MergedTwice
<1>5. InOrder => Facts(x) \subseteq Facts(s)
  BY <1>3 DEF Below, Tell
<1>6. InOrder => Facts(s) \subseteq Facts(y)
  <2>1. CASE Seen(m) <= Seen(s)
    <3>1. Facts(y) = Facts(m) \cup Facts(s)
      BY <2>1, MergedList
    <3>2. QED
      BY <3>1
  <2>2. CASE ~(Seen(m) <= Seen(s))
    <3>1. Facts(y) = Facts(m)
      BY <2>2, MergedList
    <3>2. QED
      BY <2>2, <3>1 DEF Tell
  <2>3. QED
    BY <2>1, <2>2
<1>7. Tell(x, y)
  BY <1>5, <1>6 DEF Tell
<1>8. QED
  BY <1>4, <1>7 DEF Below

(* Of two lists the first remains the later one, or goes on to tell no more *)
(* than the second.                                                        *)
LEMMA RoundLater ==
  ASSUME NEW l \in Seq(Records), Len(l) <= 1, NEW m \in Seq(Records), Len(m) <= 1, NEW s \in Seq(Records), Len(s) <= 1,
         NEW x, x = Merged(l, s), NEW y, y = Merged(m, s), Tell(l, m) \/ Seen(m) <= Seen(l),
         Tell(s, m) \/ Seen(m) <= Seen(s)
  PROVE  Tell(x, y) \/ Seen(y) <= Seen(x)
<1>1. Seen(l) \in Nat /\ Seen(m) \in Nat /\ Seen(s) \in Nat
  BY HeadOf
<1>2. /\ Seen(l) <= Seen(s) => Facts(x) = Facts(l) \cup Facts(s) /\ Seen(x) = Seen(s)
      /\ ~(Seen(l) <= Seen(s)) => Facts(x) = Facts(l) /\ Seen(x) = Seen(l)
  BY MergedList
<1>3. /\ Seen(m) <= Seen(s) => Facts(y) = Facts(m) \cup Facts(s) /\ Seen(y) = Seen(s)
      /\ ~(Seen(m) <= Seen(s)) => Facts(y) = Facts(m) /\ Seen(y) = Seen(m)
  BY MergedList
<1>4. CASE Seen(m) <= Seen(l)
  <2>1. Seen(y) <= Seen(x)
    BY <1>1, <1>2, <1>3, <1>4
  <2>2. QED
    BY <2>1
<1>5. CASE Tell(l, m)
  <2>1. InOrder => Facts(l) \subseteq Facts(m)
    BY <1>5 DEF Tell
  <2>2. CASE Seen(m) <= Seen(s)
    <3>1. Facts(x) \subseteq Facts(l) \cup Facts(s)
      BY <1>2
    <3>2. Facts(y) = Facts(m) \cup Facts(s)
      BY <1>3, <2>2
    <3>3. Tell(x, y)
      BY <2>1, <3>1, <3>2 DEF Tell
    <3>4. QED
      BY <3>3
  <2>3. CASE ~(Seen(m) <= Seen(s))
    <3>1. Facts(x) \subseteq Facts(l) \cup Facts(s)
      BY <1>2
    <3>2. Facts(y) = Facts(m) /\ (InOrder => Facts(s) \subseteq Facts(m))
      BY <1>3, <2>3 DEF Tell
    <3>3. Tell(x, y)
      BY <2>1, <3>1, <3>2 DEF Tell
    <3>4. QED
      BY <3>3
  <2>4. QED
    BY <2>2, <2>3
<1>6. QED
  BY <1>4, <1>5

(* The next round of the first synchronization keeps the order.            *)
LEMMA RoundOrder ==
  ASSUME VarsType, args' = args, "mf" \in StateKinds, FormInv, FirstSync, ~Busy, Busy',
         NEW c \in Insts, c = nextInstIndex + 1, nextInstIndex' = c, currentSource' = c, key' = key, state' = state
  PROVE  FirstSync'
<1>1. Insts' = Insts
  BY ArgsKept
<1>2. nextInstIndex \in Nat /\ Insts \subseteq Nat
  BY ShareAssumption DEF VarsType, FieldsType, Insts
<1>3. PICK L : L = [j \in Insts |-> [u \in Units |-> state[j]["mf"][u]]]
  OBVIOUS
<1>4. \A j \in Insts, u \in Units : /\ state[j]["mf"][u] = L[j][u] /\ L[j][u] \in Seq(Records) /\ Len(L[j][u]) <= 1
                                    /\ Final(j, u) = L[j][u]
  <2>1. \A j \in Insts, u \in Units : state[j]["mf"][u] = L[j][u]
    BY <1>3
  <2>2. \A j \in Insts, u \in Units : state[j]["mf"][u] \in Seq(Records) /\ Len(state[j]["mf"][u]) <= 1
    BY ListTypes DEF FormInv
  <2>3. \A j \in Insts, u \in Units : Final(j, u) = state[j]["mf"][u]
    BY DEF Final
  <2>4. QED
    BY <2>1, <2>2, <2>3
<1>5. \A j \in Insts, u \in Units : Final(j, u)' = Merged(L[j][u], L[c][u])
  <2>1. \A j \in Insts, u \in Units : Final(j, u)' = Merged(state[j]["mf"][u], state[c]["mf"][u])
    BY DEF Final, Merged, put_asset_per_sip, Stored
  <2>2. QED
    BY <1>4, <2>1
<1>6. \A i, j \in Insts, u \in Units : /\ i <= nextInstIndex => Below(L[i][u], L[j][u])
                                       /\ i < j => Tell(L[i][u], L[j][u]) \/ Seen(L[j][u]) <= Seen(L[i][u])
  BY <1>4 DEF FirstSync
<1>7. \A i \in Insts : i < c => i <= nextInstIndex
  BY <1>2
<1>8. ASSUME NEW i \in Insts, i <= c, NEW u \in Units
      PROVE  Below(L[i][u], L[c][u])
  <2>1. CASE i = c
    BY <1>4, <2>1, BelowOrder
  <2>2. CASE i # c
    <3>1. i <= nextInstIndex
      BY <1>2, <1>7, <1>8, <2>2
    <3>2. QED
      BY <1>6, <3>1
  <2>3. QED
    BY <2>1, <2>2
<1>9. ASSUME NEW j \in Insts, NEW u \in Units
      PROVE  Tell(L[c][u], L[j][u]) \/ Seen(L[j][u]) <= Seen(L[c][u])
  <2>1. CASE j <= c
    BY <1>8, <2>1 DEF Below
  <2>2. CASE ~(j <= c)
    <3>1. c < j
      BY <1>2, <2>2
    <3>2. QED
      BY <1>6, <3>1
  <2>3. QED
    BY <2>1, <2>2
<1>10. ASSUME NEW i \in Insts, NEW j \in Insts, NEW u \in Units, NEW x, x = Final(i, u)', NEW y, y = Final(j, u)'
       PROVE  /\ i <= c => Below(x, y)
              /\ i < j => Tell(x, y) \/ Seen(y) <= Seen(x)
  <2>1. PICK l \in Seq(Records), m \in Seq(Records), s \in Seq(Records) : l = L[i][u] /\ m = L[j][u] /\ s = L[c][u]
    BY <1>4
  <2>2. Len(l) <= 1 /\ Len(m) <= 1 /\ Len(s) <= 1
    BY <1>4, <2>1
  <2>3. x = Merged(l, s) /\ y = Merged(m, s)
    BY <1>5, <1>10, <2>1
  <2>4. Tell(s, m) \/ Seen(m) <= Seen(s)
    BY <1>9, <2>1
  <2>5. i <= c => Below(x, y)
    BY <1>8, <2>1, <2>2, <2>3, <2>4, RoundBelow
  <2>6. ASSUME i < j
        PROVE  Tell(x, y) \/ Seen(y) <= Seen(x)
    <3>1. Tell(l, m) \/ Seen(m) <= Seen(l)
      BY <1>6, <2>1, <2>6
    <3>2. QED
      BY <2>2, <2>3, <2>4, <3>1, RoundLater
  <2>7. QED
    BY <2>5, <2>6
<1>11. ASSUME NEW i \in Insts, NEW j \in Insts, NEW u \in Units
       PROVE  /\ i <= c => Below(Final(i, u), Final(j, u))'
              /\ i < j => (Tell(Final(i, u), Final(j, u)) \/ Seen(Final(j, u)) <= Seen(Final(i, u)))'
  <2>1. PICK x, y : x = Final(i, u)' /\ y = Final(j, u)'
    OBVIOUS
  <2>2. /\ i <= c => Below(x, y)
        /\ i < j => Tell(x, y) \/ Seen(y) <= Seen(x)
    BY <1>10, <2>1
  <2>3. (InOrder' <=> InOrder) /\ Facts(Final(i, u))' = Facts(x) /\ Facts(Final(j, u))' = Facts(y)
        /\ Seen(Final(i, u))' = Seen(x) /\ Seen(Final(j, u))' = Seen(y)
    BY <2>1, TellKept DEF Facts, Seen
  <2>4. QED
    BY <2>2, <2>3 DEF Below, Tell
<1>12. QED
  BY <1>1, <1>11 DEF FirstSync

(* The first synchronization ends, or goes on with the next instance.      *)
LEMMA SyncCopies ==
  ASSUME VarsType, VarsType', args' = args, OneTurn, OneTurn', Copies, NEW t \in Threads, syncAllInstances(t)
  PROVE  Copies'
<1>1. UNCHANGED <<lastPacket, now, processed, chunks, tasks, read, chunk, stateOut, eventOut, state>>
  BY DEF syncAllInstances, chunkVars, nfVars
<1>2. pc[t] = "sync" /\ Turn(t)
  BY DEF syncAllInstances, Goto, Turn
<1>3. Still /\ ~Busy /\ \A i \in Insts : ~Echo(i)
  BY <1>2, TurnStill
<1>4. Insts' = Insts /\ StateKinds' = StateKinds
  BY ArgsKept
<1>5. \A i \in Insts : ~Echo(i)'
  BY <1>1, <1>3 DEF Echo
<1>6. CASE AllSynced
  <2>1. /\ Goto(t, "sync", "dequeue") /\ isSyncFinished' = TRUE
        /\ UNCHANGED <<nextInstIndex, acked, stateIn>>
    BY <1>6 DEF syncAllInstances, syncVars
  <2>2. Still'
    <3>1. "dequeue" \in Labels
      BY DEF Labels
    <3>2. SameQueues /\ SameThreads /\ SameChunks
      BY <1>1, <2>1, <3>1, Silent, OtherThread DEF SameChunks
    <3>3. QED
      BY <1>1, <1>3, <2>1, <3>2, StillFrame
  <2>3. nextInstIndex = args.n
    BY <1>6 DEF AllSynced
  <2>4. QED
    BY <1>1, <1>3, <1>5, <2>1, <2>2, <2>3, RestCopies
<1>7. CASE ~AllSynced
  <2>1. PICK i : i = nextInstIndex + 1
    OBVIOUS
  <2>2. isSyncFinished' = isSyncFinished /\ syncFromInstance(i, key) /\ nextInstIndex' = i
    BY <1>7, <2>1 DEF syncAllInstances
  <2>3. i \in Insts /\ key \subseteq Units
    BY <1>7, <2>1, ShareAssumption DEF AllSynced, VarsType, FieldsType, SyncType, Insts
  <2>4. /\ \A k \in ScopeKinds : k \in Kinds /\ Active(k)'
        /\ CarryInv' /\ CopiedInv' /\ currentSource' = i /\ key' = key
    BY <1>1, <1>3, <2>2, <2>3, StartCopy
  <2>5. LearnedInv /\ ~isSyncFinished /\ processed = <<>>
    BY <1>7 DEF AllSynced, Copies, LearnedInv
  <2>6. LearnedInv'
    <3>1. \A p : p \notin Range(processed')
      BY <1>1, <2>5, RangeNone
    <3>2. QED
      BY <1>1, <1>4, <1>5, <2>2, <2>5, <3>1 DEF LearnedInv
  <2>7. OrderInv'
    <3>1. SUFFICES ASSUME "mf" \in StateKinds PROVE OrderInv'
      BY <1>4 DEF OrderInv
    <3>2. FormInv /\ FirstSync
      BY <2>5, <3>1 DEF Copies, OrderInv
    <3>3. FormInv'
      BY <1>1, <1>4, <3>2 DEF FormInv, Seen, Facts
    <3>4. Busy'
      BY <1>4, <2>4, <3>1 DEF Busy, StateKinds
    <3>5. FirstSync'
      BY <1>1, <1>3, <2>1, <2>2, <2>3, <2>4, <3>1, <3>2, <3>4, RoundOrder
    <3>6. QED
      BY <2>2, <2>5, <3>3, <3>5 DEF OrderInv
  <2>8. QED
    BY <2>4, <2>6, <2>7 DEF Copies
<1>8. QED
  BY <1>6, <1>7

(* Some kind is of the scope.                                              *)
LEMMA ScopeSome ==
  ASSUME VarsType
  PROVE  \E k \in ScopeKinds : k \in Kinds
<1>1. ScopeOrder \in Seq(Kinds) /\ DOMAIN ScopeOrder = 1 .. Len(ScopeOrder)
  BY ScopeType, LenProperties
<1>2. 1 \in 1 .. Len(ScopeOrder)
  BY DEF ScopeOrder
<1>3. ScopeOrder[1] \in Kinds /\ ScopeOrder[1] \in ScopeKinds
  BY <1>1, <1>2, ElementOfSeq DEF ScopeKinds, Range
<1>4. QED
  BY <1>3

(* A report that is only held.                                             *)
LEMMA HoldCopies ==
  ASSUME VarsType, VarsType', args' = args, OneTurn, Copies, NEW i \in Insts, receiveReprocess(i),
         NEW m, m = Head(eventOut[i]), m.pkt # lastPacket,
         UNCHANGED <<lastPacket, acked, currentSource, key, stateIn>>
  PROVE  Copies'
<1>1. UNCHANGED <<state, now, processed, isSyncFinished, nextInstIndex, tasks, chunks, stateOut>>
  BY DEF receiveReprocess, chunkVars, nfVars
<1>2. /\ eventOut[i] # <<>> /\ m.type = "Reprocess" /\ eventOut' = [eventOut EXCEPT ![i] = Tail(@)]
  BY ReportFrame
<1>3. RoundInv /\ ReportsInv
  BY DEF OneTurn
<1>4. m # Reprocess(lastPacket)
  BY DEF Reprocess
<1>5. \A j \in Insts : Echo(j)' <=> Echo(j)
  BY <1>2, <1>3, <1>4, EchoKept
<1>6. SameChunks /\ \A c \in 1 .. Len(chunks) : chunks'[c].rec = chunks[c].rec
  BY <1>1 DEF SameChunks
<1>7. \A j \in Insts : Kept(stateIn[j], stateIn'[j], RoundRequests) /\ Kept(stateOut[j], stateOut'[j], RoundAnswers)
  BY <1>1 DEF Kept
<1>8. QED
  BY <1>1, <1>3, <1>5, <1>6, <1>7, QuietCopies

(* A report that makes the operation return the next packet.               *)
LEMMA SendCopies ==
  ASSUME VarsType, VarsType', args' = args, OneTurn, OneTurn', Copies, NEW i \in Insts, receiveReprocess(i),
         NEW m, m = Head(eventOut[i]), isSyncFinished, originalEvents' = PutEvent(Text[m.pkt], i),
         callFromReprocess, dequeueEvent(PutEvent(Text[m.pkt], i), FALSE), UNCHANGED <<acked, stateIn>>
  PROVE  Copies'
<1>1. UNCHANGED <<state, now, processed, isSyncFinished, nextInstIndex, tasks, chunks, stateOut>>
  BY DEF receiveReprocess, chunkVars, nfVars
<1>2. /\ eventOut[i] # <<>> /\ m.type = "Reprocess" /\ eventOut' = [eventOut EXCEPT ![i] = Tail(@)]
      /\ SameThreads /\ SameChunks
  BY ReportFrame
<1>3. PICK x : x = Text[m.pkt]
  OBVIOUS
<1>4. RoundInv /\ ReportsInv
  BY DEF OneTurn
<1>5. x \in Packets /\ \A j \in Insts : Kept(eventOut[j], eventOut'[j], RoundEvents)
  BY <1>2, <1>3, <1>4, ReportTaken
<1>6. ~Round /\ ~Out
  BY DEF OneTurn, TurnInv
<1>7. Still /\ ~Busy /\ \A j \in Insts : ~Echo(j)
  BY <1>4, <1>6, NoRoundStill, StillCopies DEF Out
<1>8. Still'
  <2>1. SameQueues
    BY <1>1, <1>5 DEF SameQueues, Kept
  <2>2. QED
    BY <1>1, <1>2, <1>7, <2>1, StillFrame
<1>9. \A j \in Insts : ~Echo(j)'
  <2>1. originalEvents' # <<>>
    BY <1>3, <1>5, PutEventTexts
  <2>2. PICK y : ofq' = Append(ofq, y)
    BY <2>1 DEF dequeueEvent
  <2>3. ofq' # <<>>
    BY <2>2, SentSome DEF VarsType, ChannelsType
  <2>4. QED
    BY <2>3, ArgsKept DEF OneTurn, OutInv
<1>10. QED
  BY <1>1, <1>7, <1>8, <1>9, RestCopies

(* The echo of a packet makes the operation copy what it has changed.      *)
LEMMA EchoCopies ==
  ASSUME VarsType, VarsType', args' = args, OneTurn, OneTurn', Copies, NEW i \in Insts, receiveReprocess(i),
         isSyncFinished, NEW m, m = Head(eventOut[i]), m.pkt = lastPacket,
         syncFromInstance(i, {UnitOf[m.pkt]}), lastPacket' = lastPacket
  PROVE  Copies'
<1>1. UNCHANGED <<state, now, processed, isSyncFinished, nextInstIndex, tasks, chunks, stateOut>>
  BY DEF receiveReprocess, chunkVars, nfVars
<1>2. /\ eventOut[i] # <<>> /\ m.type = "Reprocess" /\ eventOut' = [eventOut EXCEPT ![i] = Tail(@)]
  BY ReportFrame
<1>3. RoundInv /\ ReportsInv /\ OrderInv /\ LearnedInv
  BY DEF OneTurn, Copies
<1>4. m = Reprocess(m.pkt) /\ m.pkt \in Packets
  <2>1. PICK x : x = Text[m.pkt]
    OBVIOUS
  <2>2. QED
    BY <1>2, <1>3, <2>1, ReportTaken
<1>5. Echo(i)
  <2>1. eventOut[i] \in Seq(Events)
    BY DEF VarsType, ChannelsType
  <2>2. Has(eventOut[i], {Reprocess(lastPacket)})
    BY <1>2, <1>4, <2>1, HasTail
  <2>3. QED
    BY <2>2 DEF Echo
<1>6. Still
  <2>1. Out
    BY <1>5 DEF Out
  <2>2. ~Round
    BY <2>1 DEF OneTurn, TurnInv
  <2>3. QED
    BY <1>3, <2>2, NoRoundStill
<1>7. PICK v \in Units : v = UnitOf[lastPacket]
  BY <1>4, ShareAssumption
<1>8. syncFromInstance(i, {v}) /\ {v} \subseteq Units
  BY <1>7
<1>9. /\ \A k \in ScopeKinds : k \in Kinds /\ Active(k)'
      /\ CarryInv' /\ CopiedInv' /\ currentSource' = i /\ key' = {v}
  BY <1>1, <1>6, <1>8, StartCopy
<1>10. Insts' = Insts /\ StateKinds' = StateKinds
  BY ArgsKept
<1>11. \A j \in Insts : ~Echo(j)'
  <2>1. PICK k \in ScopeKinds : k \in Kinds
    BY ScopeSome
  <2>2. Round'
    BY <1>9, <2>1 DEF Round
  <2>3. ~Out'
    BY <2>2 DEF OneTurn, TurnInv
  <2>4. QED
    BY <1>10, <2>3 DEF Out
<1>12. \A k \in StateKinds : Busy'
  BY <1>9, <1>10 DEF Busy, StateKinds
<1>13. OrderInv'
  <2>1. SUFFICES ASSUME "mf" \in StateKinds PROVE OrderInv'
    BY <1>10 DEF OrderInv
  <2>2. FormInv'
    BY <1>1, <1>3, <1>10, <2>1 DEF OrderInv, FormInv, Seen, Facts
  <2>3. Ahead(i, {v})
    BY <1>3, <1>5, <1>7, <2>1 DEF OrderInv, LaterSync
  <2>4. Ahead(currentSource, key)'
    BY <1>1, <1>9, <1>10, <2>3, TellKept DEF Ahead, Below, Tell, Seen, Facts
  <2>5. LaterSync'
    BY <1>10, <1>11, <1>12, <2>1, <2>4 DEF LaterSync
  <2>6. QED
    BY <1>1, <2>2, <2>5 DEF OrderInv
<1>14. LearnedInv'
  <2>1. AtHead(i)
    BY <1>3, <1>5 DEF LearnedInv
  <2>2. AtHead(currentSource)'
    BY <1>1, <1>9, <1>10, <2>1 DEF AtHead, Facts
  <2>3. \A p \in Range(processed'), j \in Insts', k \in StateKinds' :
          p \in Known(j, k, UnitOf[p])' \/ (p = lastPacket' /\ Busy')
    <3>1. SUFFICES ASSUME NEW p \in Range(processed), NEW j \in Insts, NEW k \in StateKinds, p # lastPacket
                   PROVE  p \in Known(j, k, UnitOf[p])'
      BY <1>1, <1>10, <1>12
    <3>2. p \in Known(j, k, UnitOf[p])
      BY <1>3, <3>1 DEF LearnedInv
    <3>3. QED
      BY <1>1, <3>2 DEF Known
  <2>4. isSyncFinished' => nextInstIndex' = args'.n
    BY <1>1, <1>3 DEF LearnedInv
  <2>5. key' = {UnitOf[lastPacket']}
    BY <1>7, <1>9
  <2>6. QED
    BY <1>1, <1>10, <1>11, <2>2, <2>3, <2>4, <2>5 DEF LearnedInv
<1>15. QED
  BY <1>9, <1>13, <1>14 DEF Copies

(* A report, of any kind.                                                  *)
LEMMA ReportCopies ==
  ASSUME VarsType, VarsType', args' = args, OneTurn, OneTurn', Copies, NEW i \in Insts, receiveReprocess(i)
  PROVE  Copies'
<1>1. PICK m : m = Head(eventOut[i])
  OBVIOUS
<1>2. CASE ~isSyncFinished
  <2>1. UNCHANGED <<lastPacket, acked, currentSource, key, stateIn>>
    BY <1>2 DEF receiveReprocess, syncVars
  <2>2. lastPacket = NoPacket /\ ReportsInv
    BY <1>2 DEF OneTurn, TurnInv
  <2>3. m.pkt \in Packets
    <3>1. PICK x : x = Text[m.pkt]
      OBVIOUS
    <3>2. eventOut[i] # <<>> /\ m.type = "Reprocess" /\ eventOut' = [eventOut EXCEPT ![i] = Tail(@)]
      BY <1>1, ReportFrame
    <3>3. QED
      BY <1>1, <2>2, <3>1, <3>2, ReportTaken
  <2>4. m.pkt # lastPacket
    BY <2>2, <2>3, ShareAssumption
  <2>5. QED
    BY <1>1, <2>1, <2>4, HoldCopies
<1>3. CASE isSyncFinished /\ lastPacket = m.pkt
  <2>1. syncFromInstance(i, {UnitOf[m.pkt]}) /\ lastPacket' = lastPacket
    BY <1>1, <1>3 DEF receiveReprocess
  <2>2. QED
    BY <1>1, <1>3, <2>1, EchoCopies
<1>4. CASE isSyncFinished /\ lastPacket # m.pkt
  <2>1. /\ originalEvents' = PutEvent(Text[m.pkt], i) /\ UNCHANGED <<acked, key, stateIn>>
        /\ IF callFromReprocess
             THEN dequeueEvent(PutEvent(Text[m.pkt], i), FALSE)
             ELSE UNCHANGED <<callFromReprocess, lastPacket, currentSource, ofq>>
    BY <1>1, <1>4 DEF receiveReprocess
  <2>2. CASE callFromReprocess
    <3>1. dequeueEvent(PutEvent(Text[m.pkt], i), FALSE)
      BY <2>1, <2>2
    <3>2. QED
      BY <1>1, <1>4, <2>1, <2>2, <3>1, SendCopies
  <2>3. CASE ~callFromReprocess
    BY <1>1, <1>4, <2>1, <2>3, HoldCopies
  <2>4. QED
    BY <2>2, <2>3
<1>5. QED
  BY <1>2, <1>3, <1>4

(* Nothing is under way when no kind takes part.                           *)
LEMMA RoundOver == VarsType /\ RoundInv /\ ~Round => Still
  BY NoRoundStill

(* Nor is it in the next state, when a thread has the turn then.           *)
LEMMA TurnStillNext ==
  ASSUME VarsType', OneTurn', NEW t \in Threads', Turn(t)'
  PROVE  Still' /\ ~Busy' /\ \A i \in Insts' : ~Echo(i)'
<1>1. RoundInv' /\ ~Round' /\ ~Out'
  BY DEF OneTurn, TurnInv
<1>2. (VarsType /\ RoundInv /\ ~Round => Still)'
  BY RoundOver, PTL
<1>3. Still'
  BY <1>1, <1>2
<1>4. ~Busy'
  BY <1>3, StillCopiesNext
<1>5. QED
  BY <1>1, <1>3, <1>4 DEF Out

(* When a round is complete, everybody has got what the source had.        *)
LEMMA AllGot ==
  ASSUME VarsType, RoundInv, CopiedInv, Complete
  PROVE  /\ StateKinds # {} => Busy
         /\ Busy => \A d \in Insts \ {currentSource}, h \in StateKeys : h.unit \in key /\ OfSource(h) => Got(d, h)
<1>1. /\ \A d \in Insts, h \in StateKeys : ~Sending(d, h) /\ ~Putting(d, h)
      /\ \A d \in Insts, k \in Kinds : ~Asking(d, k)
      /\ tasks = <<>>
  BY CompleteRound
<1>2. StateKinds # {} => Busy
  BY DEF Complete, Busy, Active, StateKinds
<1>3. \A h : ~Tasked(h)
  <2>1. 1 .. Len(tasks) = {}
    BY <1>1
  <2>2. QED
    BY <2>1 DEF Tasked
<1>4. ASSUME Busy, NEW d \in Insts, d # currentSource, NEW h \in StateKeys
      PROVE  ~Waits(d, h)
  <2>1. currentSource \in Insts
    BY <1>4, BusySource
  <2>2. h.kind \in Kinds
    BY MessageTypes
  <2>3. QED
    BY <1>1, <1>3, <2>1, <2>2 DEF Waits
<1>5. QED
  BY <1>2, <1>4 DEF CopiedInv

(* Of multi-flow state that is the whole list.                             *)
LEMMA GotList ==
  ASSUME VarsType, RoundInv, CopiedInv, OrderInv, Complete, "mf" \in StateKinds
  PROVE  /\ Busy /\ currentSource \in Insts
         /\ \A d \in Insts, u \in key : Below(state[currentSource]["mf"][u], state[d]["mf"][u])
<1>1. Busy /\ currentSource \in Insts
  BY AllGot, BusySource
<1>2. ASSUME NEW d \in Insts, NEW u \in key
      PROVE  Below(state[currentSource]["mf"][u], state[d]["mf"][u])
  <2>1. PICK s : s = state[currentSource]["mf"][u]
    OBVIOUS
  <2>2. PICK l : l = state[d]["mf"][u]
    OBVIOUS
  <2>3. u \in Units /\ s \in Seq(Records) /\ l \in Seq(Records)
    BY <1>1, <2>1, <2>2, ListTypes
  <2>4. CASE d = currentSource \/ s = <<>>
    <3>1. Below(s, l)
      BY <2>1, <2>2, <2>3, <2>4, BelowOrder
    <3>2. QED
      BY <2>1, <2>2, <3>1
  <2>5. CASE d # currentSource /\ s # <<>>
    <3>1. PICK h : h = [kind |-> "mf", unit |-> u, pos |-> 0]
      OBVIOUS
    <3>2. h \in StateKeys /\ h.kind = "mf" /\ h.unit = u /\ h.pos = 0
      BY <2>3, <3>1 DEF StateKeys
    <3>3. SourceList(h) = s
      BY <2>1, <3>2 DEF SourceList
    <3>4. OfSource(h)
      <4>1. PICK n \in Nat : n = Len(s)
        BY <2>3, LenProperties
      <4>2. n # 0
        BY <2>3, <2>5, <4>1, HeadOf
      <4>3. QED
        BY <3>2, <3>3, <4>1, <4>2 DEF OfSource
    <3>5. Got(d, h)
      BY <1>1, <2>5, <3>2, <3>4, AllGot
    <3>6. QED
      BY <2>1, <3>2, <3>3, <3>5 DEF Got
  <2>6. QED
    BY <2>4, <2>5
<1>3. QED
  BY <1>1, <1>2

(* The head of a list of the source is known by all.                       *)
LEMMA GotHead ==
  ASSUME VarsType, RoundInv, CopiedInv, Complete, isSyncFinished, NEW k \in StateKinds, NEW u \in key, NEW d \in Insts
  PROVE  Facts(state[currentSource][k][u]) \subseteq Known(d, k, u)
<1>1. Busy /\ currentSource \in Insts
  BY AllGot, BusySource
<1>2. PICK s : s = state[currentSource][k][u]
  OBVIOUS
<1>3. u \in Units /\ s \in Seq(Records)
  BY <1>1, <1>2, ListTypes
<1>4. CASE s = <<>>
  BY <1>2, <1>4 DEF Facts
<1>5. CASE d = currentSource
  <2>1. Facts(s) \subseteq Told(s)
    BY <1>3, HeadOf
  <2>2. QED
    BY <1>2, <1>5, <2>1, KnownTold
<1>6. CASE d # currentSource /\ s # <<>>
  <2>1. PICK n \in Nat : n = Len(s)
    BY <1>3, LenProperties
  <2>2. n # 0
    BY <1>3, <1>6, <2>1, HeadOf
  <2>3. PICK p \in Nat : p = n - 1 /\ p < n /\ n - p = 1
    BY <2>2
  <2>4. PICK h : h = [kind |-> k, unit |-> u, pos |-> p]
    OBVIOUS
  <2>5. h \in StateKeys /\ h.kind = k /\ h.unit = u /\ h.pos = p
    BY <1>3, <2>4 DEF StateKeys
  <2>6. SourceList(h) = s
    BY <1>2, <2>5 DEF SourceList
  <2>7. OfSource(h) /\ SourceRec(h) = s[1]
    <3>1. OfSource(h)
      BY <2>1, <2>3, <2>5, <2>6 DEF OfSource
    <3>2. SourceRec(h) = s[n - p]
      BY <2>1, <2>5, <2>6 DEF SourceRec
    <3>3. QED
      BY <2>3, <3>1, <3>2
  <2>8. Got(d, h)
    BY <1>1, <1>6, <2>5, <2>7, AllGot
  <2>9. Facts(s) = s[1].facts
    BY <1>3, <1>6, HeadOf
  <2>10. QED
    BY <1>2, <2>5, <2>7, <2>8, <2>9 DEF Got
<1>7. QED
  BY <1>4, <1>5, <1>6

(* A round is found to be complete, or not.                                *)
LEMMA CheckCopies ==
  ASSUME VarsType, VarsType', args' = args, OneTurn, OneTurn', Copies, NEW t \in Threads, checkIfInstFinished(t)
  PROVE  Copies'
<1>1. UNCHANGED <<state, currentSource, key, now, processed, lastPacket, isSyncFinished, nextInstIndex, tasks,
                  stateIn, stateOut, eventOut>>
  BY DEF checkIfInstFinished, opVars, chanVars, nfVars
<1>2. RoundInv /\ CopiedInv /\ OrderInv /\ LearnedInv
  BY DEF OneTurn, Copies
<1>3. Insts' = Insts /\ StateKinds' = StateKinds /\ Threads' = Threads
  BY ArgsKept
<1>4. CASE ~Complete
  <2>1. UNCHANGED <<acked, chunks>>
    BY <1>4 DEF checkIfInstFinished
  <2>2. SameChunks /\ \A c \in 1 .. Len(chunks) : chunks'[c].rec = chunks[c].rec
    BY <2>1 DEF SameChunks
  <2>3. \A j \in Insts : Kept(stateIn[j], stateIn'[j], RoundRequests) /\ Kept(stateOut[j], stateOut'[j], RoundAnswers)
    BY <1>1 DEF Kept
  <2>4. \A j \in Insts : Echo(j)' <=> Echo(j)
    BY <1>1 DEF Echo
  <2>5. QED
    BY <1>1, <1>2, <2>1, <2>2, <2>3, <2>4, QuietCopies
<1>5. CASE Complete
  <2>1. Turn(t)'
    BY <1>5 DEF checkIfInstFinished, Goto, Turn, VarsType, ThreadsType
  <2>2. Still' /\ ~Busy' /\ \A j \in Insts : ~Echo(j)'
    BY <1>3, <2>1, TurnStillNext
  <2>3. CarryInv' /\ CopiedInv'
    BY <2>2, StillCopiesNext
  <2>4. OrderInv'
    <3>1. SUFFICES ASSUME "mf" \in StateKinds PROVE OrderInv'
      BY <1>3 DEF OrderInv
    <3>2. /\ Busy /\ currentSource \in Insts
          /\ \A d \in Insts, u \in key : Below(state[currentSource]["mf"][u], state[d]["mf"][u])
      BY <1>2, <1>5, <3>1, GotList
    <3>3. FormInv
      BY <1>2, <3>1 DEF OrderInv
    <3>4. FormInv'
      BY <1>1, <1>3, <3>3 DEF FormInv, Seen, Facts
    <3>5. ASSUME ~isSyncFinished
          PROVE  FirstSync'
      <4>1. FirstSync
        BY <1>2, <3>1, <3>5 DEF OrderInv
      <4>2. key = Units
        BY <4>1 DEF FirstSync
      <4>3. ASSUME NEW j \in Insts, NEW u \in Units
            PROVE  /\ InOrder => Facts(Final(j, u))' = Facts(Final(j, u))
                   /\ Seen(Final(j, u))' = Seen(Final(j, u))
        <5>1. PICK s, l : s = state[currentSource]["mf"][u] /\ l = state[j]["mf"][u]
          OBVIOUS
        <5>2. s \in Seq(Records) /\ Len(s) <= 1 /\ l \in Seq(Records) /\ Len(l) <= 1
          BY <3>1, <3>2, <3>3, <5>1, ListTypes DEF FormInv
        <5>3. Below(s, l)
          BY <3>2, <4>2, <5>1
        <5>4. Final(j, u) = Merged(l, s) /\ Final(j, u)' = l
          BY <1>1, <2>2, <3>2, <5>1 DEF Final
        <5>5. (InOrder => Facts(Merged(l, s)) = Facts(l)) /\ Seen(Merged(l, s)) = Seen(l)
          BY <5>2, <5>3, MergedDone
        <5>6. Facts(Final(j, u))' = Facts(l) /\ Seen(Final(j, u))' = Seen(l)
          BY <5>4 DEF Facts, Seen
        <5>7. QED
          BY <5>4, <5>5, <5>6
      <4>4. QED
        BY <1>1, <2>2, <4>1, <4>3, SyncKept
    <3>6. ASSUME isSyncFinished
          PROVE  LaterSync'
      <4>1. Ahead(currentSource, key)
        BY <1>2, <3>1, <3>2, <3>6 DEF OrderInv, LaterSync
      <4>2. ASSUME NEW i \in Insts, NEW j \in Insts, NEW u \in Units
            PROVE  Below(state[i]["mf"][u], state[j]["mf"][u])
        <5>1. PICK l, s, m : l = state[i]["mf"][u] /\ s = state[currentSource]["mf"][u] /\ m = state[j]["mf"][u]
          OBVIOUS
        <5>2. l \in Seq(Records) /\ s \in Seq(Records) /\ m \in Seq(Records)
          BY <3>1, <3>2, <5>1, ListTypes
        <5>3. Below(l, s)
          BY <4>1, <5>1 DEF Ahead
        <5>4. Below(s, m)
          <6>1. CASE u \in key
            BY <3>2, <5>1, <6>1
          <6>2. CASE u \notin key
            BY <4>1, <5>1, <6>2 DEF Ahead
          <6>3. QED
            BY <6>1, <6>2
        <5>5. Below(l, m)
          BY <5>2, <5>3, <5>4, BelowOrder
        <5>6. QED
          BY <5>1, <5>5
      <4>3. \A i \in Insts : Ahead(i, {})
        BY <4>2 DEF Ahead
      <4>4. \A i \in Insts : Ahead(i, {})'
        BY <1>1, <1>3, <4>3, TellKept DEF Ahead, Below, Tell, Seen, Facts
      <4>5. QED
        BY <1>3, <2>2, <4>4 DEF LaterSync
    <3>7. QED
      BY <1>1, <3>4, <3>5, <3>6 DEF OrderInv
  <2>5. LearnedInv'
    <3>1. \A p \in Range(processed), j \in Insts, k \in StateKinds : p \in Known(j, k, UnitOf[p])
      <4>1. SUFFICES ASSUME NEW p \in Range(processed), NEW j \in Insts, NEW k \in StateKinds, p = lastPacket
                     PROVE  p \in Known(j, k, UnitOf[p])
        BY <1>2 DEF LearnedInv
      <4>2. Busy
        BY <1>2, <1>5, AllGot
      <4>3. isSyncFinished
        BY <1>2, <4>1, RangeNone DEF LearnedInv
      <4>4. key = {UnitOf[lastPacket]} /\ AtHead(currentSource)
        BY <1>2, <4>2, <4>3 DEF LearnedInv
      <4>5. PICK u \in key : u = UnitOf[lastPacket]
        BY <4>4
      <4>6. lastPacket \in Facts(state[currentSource][k][u])
        BY <4>4, <4>5 DEF AtHead
      <4>7. Facts(state[currentSource][k][u]) \subseteq Known(j, k, u)
        BY <1>2, <1>5, <4>3, GotHead
      <4>8. QED
        BY <4>1, <4>5, <4>6, <4>7
    <3>2. \A p \in Range(processed'), j \in Insts', k \in StateKinds' : p \in Known(j, k, UnitOf[p])'
      BY <1>1, <1>3, <3>1 DEF Known
    <3>3. (~isSyncFinished => processed = <<>>)' /\ (isSyncFinished => nextInstIndex = args.n)'
      BY <1>1, <1>2 DEF LearnedInv
    <3>4. QED
      BY <1>3, <2>2, <3>2, <3>3 DEF LearnedInv
  <2>6. QED
    BY <2>3, <2>4, <2>5 DEF Copies
<1>6. QED
  BY <1>4, <1>5

-----------------------------------------------------------------------------
(* A packet is processed.                                                  *)

(* The lists of its unit tell of it and are new, all others are kept.      *)
LEMMA ProcessLists ==
  ASSUME VarsType, VarsType', args' = args, MarksInv, NEW i \in Insts, process_packet(i), NEW p, p = hand[i].pkt
  PROVE  /\ p \in Packets /\ UnitOf[p] \in Units /\ now \in Nat /\ now' \in Nat /\ now <= now'
         /\ \A j \in Insts, m \in StateKinds, v \in Units :
              j # i \/ v # UnitOf[p] => state'[j][m][v] = state[j][m][v]
         /\ \A m \in StateKinds :
              /\ Told(state[i][m][UnitOf[p]]) \subseteq Told(state'[i][m][UnitOf[p]])
              /\ p \in Facts(state'[i][m][UnitOf[p]])
              /\ Facts(state[i][m][UnitOf[p]]) \subseteq Facts(state'[i][m][UnitOf[p]])
              /\ Seen(state'[i][m][UnitOf[p]]) = now'
              /\ Len(state[i][m][UnitOf[p]]) <= 1 => Len(state'[i][m][UnitOf[p]]) <= 1
<1>1. p # NoPacket /\ now' \in now .. MaxTime
  BY DEF process_packet
<1>2. p \in Packets /\ UnitOf[p] \in Units
  BY <1>1, ShareAssumption DEF VarsType, InstancesType
<1>3. now \in Nat /\ now' \in Nat /\ now <= now' /\ now' \in 0 .. MaxTime
  BY <1>1, ShareAssumption DEF VarsType, InstancesType
<1>4. PICK s \in 0 .. MaxTime : s = now'
  BY <1>3
<1>5. PICK u \in Units : u = UnitOf[p]
  BY <1>2
<1>6. state' = [state EXCEPT ![i] = [k \in StateKinds |->
                  [state[i][k] EXCEPT ![u] = Updated(state[i][k][u], k, p, s)]]]
  BY <1>4, <1>5 DEF process_packet
<1>7. \A j \in Insts, m \in StateKinds, v \in Units :
        state'[j][m][v] = IF j = i /\ v = u THEN Updated(state[i][m][u], m, p, s) ELSE state[j][m][v]
  BY <1>6 DEF VarsType, InstancesType
<1>8. ASSUME NEW m \in StateKinds
      PROVE  /\ Told(state[i][m][u]) \subseteq Told(state'[i][m][u])
             /\ p \in Facts(state'[i][m][u])
             /\ Facts(state[i][m][u]) \subseteq Facts(state'[i][m][u])
             /\ Seen(state'[i][m][u]) = s
             /\ Len(state[i][m][u]) <= 1 => Len(state'[i][m][u]) <= 1
  <2>1. PICK l \in Seq(Records) : l = state[i][m][u] /\ Clean(l)
    <3>1. state[i][m][u] \in Seq(Records) /\ Clean(state[i][m][u])
      BY ListTypes DEF MarksInv, Clean
    <3>2. QED
      BY <3>1
  <2>2. PICK n : n = state'[i][m][u]
    OBVIOUS
  <2>3. n = Updated(l, m, p, s)
    BY <1>7, <2>1, <2>2
  <2>4. p \in Packets /\ s \in 0 .. MaxTime /\ l \in Seq(Records) /\ Clean(l)
    BY <1>2, <1>4, <2>1
  <2>5. Told(l) \subseteq Told(n) /\ p \in Facts(n) /\ Facts(l) \subseteq Facts(n)
    <3>1. Told(l) \subseteq Told(n)
      BY <2>3, <2>4, UpdatedTold
    <3>2. p \in Facts(n)
      BY <2>3, <2>4, UpdatedTells
    <3>3. Facts(l) \subseteq Facts(n)
      BY <2>3, <2>4, UpdatedFacts
    <3>4. QED
      BY <3>1, <3>2, <3>3
  <2>6. Seen(n) = s
    BY <2>3, <2>4, UpdatedSeen
  <2>7. Len(l) <= 1 => Len(n) <= 1
    BY <2>3, <2>4, UpdatedLength
  <2>8. QED
    BY <2>1, <2>2, <2>5, <2>6, <2>7
<1>9. \A j \in Insts, m \in StateKinds, v \in Units : j # i \/ v # u => state'[j][m][v] = state[j][m][v]
  BY <1>7
<1>10. UnitOf[p] = u /\ now' = s
  BY <1>4, <1>5
<1>11. QED
  BY <1>2, <1>3, <1>8, <1>9, <1>10

(* The reports of it, if it had been returned.                             *)
LEMMA ProcessEcho ==
  ASSUME VarsType, VarsType', args' = args, OneTurn, NEW i \in Insts, process_packet(i), hand[i].event
  PROVE  /\ hand[i].pkt = lastPacket /\ \A j \in Insts : ~Echo(j) /\ (Echo(j)' <=> j = i)
         /\ \A j \in Insts : Kept(eventOut[j], eventOut'[j], RoundEvents)
<1>1. PICK p : p = hand[i].pkt
  OBVIOUS
<1>2. lastPacket' = lastPacket /\ p # NoPacket
  BY <1>1 DEF process_packet, opVars
<1>3. p \in Packets /\ UnitOf[p] \in Units
  BY <1>1, <1>2, ShareAssumption DEF VarsType, InstancesType
<1>4. ReportsInv /\ MarksInv
  BY DEF OneTurn
<1>5. ~(/\ "pf" \in StateKinds
        /\ state[i]["pf"][UnitOf[p]] # <<>> /\ state[i]["pf"][UnitOf[p]][1].gotten)
  <2>1. ASSUME "pf" \in StateKinds, state[i]["pf"][UnitOf[p]] # <<>>
        PROVE  ~state[i]["pf"][UnitOf[p]][1].gotten
    <3>1. PICK l \in Seq(Records) : l = state[i]["pf"][UnitOf[p]]
      BY <1>3, <2>1 DEF VarsType, InstancesType
    <3>2. Len(l) \in Nat \ {0} /\ \A n \in 1 .. Len(l) : ~l[n].gotten
      BY <1>3, <1>4, <2>1, <3>1, QueueType DEF MarksInv
    <3>3. QED
      BY <3>1, <3>2
  <2>2. QED
    BY <2>1
<1>6. eventOut' = [eventOut EXCEPT ![i] = @ \o <<>> \o <<Reprocess(p)>>]
  BY <1>1, <1>5 DEF process_packet
<1>7. /\ eventOut'[i] = Append(eventOut[i], Reprocess(p))
      /\ \A j \in Insts : j # i => eventOut'[j] = eventOut[j]
  <2>1. PICK m \in Events : m = Reprocess(p)
    BY <1>3 DEF Events, Reprocess
  <2>2. PICK q \in Seq(Events) : q = eventOut[i]
    BY DEF VarsType, ChannelsType
  <2>3. q \o <<>> \o <<m>> = Append(q, m)
    OBVIOUS
  <2>4. QED
    BY <1>6, <2>1, <2>2, <2>3 DEF VarsType, ChannelsType
<1>8. p = lastPacket /\ \A j \in Insts : ~Echo(j)
  BY <1>1 DEF OneTurn, OutInv
<1>9. lastPacket \in Texts /\ Text[p] = lastPacket
  BY <1>2, <1>4, <1>8, TextsType DEF ReportsInv
<1>10. PICK x \in Packets : x = lastPacket /\ x = Text[p]
  BY <1>3, <1>8, <1>9
<1>11. \A j \in Insts : ~Reported(j, x)
  BY <1>4, <1>8, <1>10 DEF ReportsInv
<1>12. /\ lastPacket' = lastPacket => \A j \in Insts : Echo(j)' <=> Echo(j) \/ (j = i /\ p = lastPacket)
       /\ \A j \in Insts : Kept(eventOut[j], eventOut'[j], RoundEvents)
  BY <1>3, <1>4, <1>7, <1>10, <1>11, ReportSent
<1>13. QED
  BY <1>1, <1>2, <1>8, <1>12

(* The instance that has processed the packet returned is ahead of the     *)
(* others in its unit.                                                     *)
LEMMA ProcessAhead ==
  ASSUME VarsType, VarsType', args' = args, MarksInv, FormInv, "mf" \in StateKinds, \A j \in Insts : Ahead(j, {}),
         NEW i \in Insts, process_packet(i), NEW p, p = hand[i].pkt
  PROVE  FormInv' /\ Ahead(i, {UnitOf[p]})'
<1>1. Insts' = Insts
  BY ArgsKept
<1>2. /\ p \in Packets /\ UnitOf[p] \in Units /\ now \in Nat /\ now' \in Nat /\ now <= now'
      /\ \A j \in Insts, v \in Units : j # i \/ v # UnitOf[p] => state'[j]["mf"][v] = state[j]["mf"][v]
      /\ p \in Facts(state'[i]["mf"][UnitOf[p]])
      /\ Facts(state[i]["mf"][UnitOf[p]]) \subseteq Facts(state'[i]["mf"][UnitOf[p]])
      /\ Seen(state'[i]["mf"][UnitOf[p]]) = now'
      /\ Len(state[i]["mf"][UnitOf[p]]) <= 1 => Len(state'[i]["mf"][UnitOf[p]]) <= 1
  <2>1. p \in Packets /\ UnitOf[p] \in Units /\ now \in Nat /\ now' \in Nat /\ now <= now'
    BY ProcessLists
  <2>2. \A j \in Insts, v \in Units : j # i \/ v # UnitOf[p] => state'[j]["mf"][v] = state[j]["mf"][v]
    BY ProcessLists
  <2>3. /\ p \in Facts(state'[i]["mf"][UnitOf[p]])
        /\ Facts(state[i]["mf"][UnitOf[p]]) \subseteq Facts(state'[i]["mf"][UnitOf[p]])
    BY ProcessLists
  <2>4. Seen(state'[i]["mf"][UnitOf[p]]) = now'
    BY ProcessLists
  <2>5. Len(state[i]["mf"][UnitOf[p]]) <= 1 => Len(state'[i]["mf"][UnitOf[p]]) <= 1
    BY ProcessLists
  <2>6. QED
    BY <2>1, <2>2, <2>3, <2>4, <2>5
<1>3. PICK u \in Units : u = UnitOf[p]
  BY <1>2
<1>4. ASSUME NEW j \in Insts, NEW v \in Units
      PROVE  /\ state[j]["mf"][v] \in Seq(Records) /\ state'[j]["mf"][v] \in Seq(Records)
             /\ Len(state[j]["mf"][v]) <= 1 /\ Seen(state[j]["mf"][v]) <= now
             /\ state[j]["mf"][v] # <<>> => Facts(state[j]["mf"][v]) # {}
             /\ Below(state[j]["mf"][v], state[i]["mf"][v]) /\ Below(state[i]["mf"][v], state[j]["mf"][v])
  <2>1. state[j]["mf"][v] \in Seq(Records)
    BY ListTypes
  <2>2. state'[j]["mf"][v] \in Seq(Records)
    BY ArgsKept DEF VarsType, InstancesType
  <2>3. /\ Len(state[j]["mf"][v]) <= 1 /\ Seen(state[j]["mf"][v]) <= now
        /\ state[j]["mf"][v] # <<>> => Facts(state[j]["mf"][v]) # {}
    BY DEF FormInv
  <2>4. Below(state[j]["mf"][v], state[i]["mf"][v]) /\ Below(state[i]["mf"][v], state[j]["mf"][v])
    BY DEF Ahead
  <2>5. QED
    BY <2>1, <2>2, <2>3, <2>4
<1>5. ASSUME NEW j \in Insts, NEW v \in Units
      PROVE  /\ Len(state'[j]["mf"][v]) <= 1 /\ Seen(state'[j]["mf"][v]) <= now'
             /\ state'[j]["mf"][v] # <<>> => Facts(state'[j]["mf"][v]) # {}
  <2>1. CASE j = i /\ v = u
    <3>1. Len(state[i]["mf"][UnitOf[p]]) <= 1
      BY <1>3, <1>4
    <3>2. /\ Len(state'[i]["mf"][UnitOf[p]]) <= 1 /\ Seen(state'[i]["mf"][UnitOf[p]]) <= now'
          /\ Facts(state'[i]["mf"][UnitOf[p]]) # {}
      BY <1>2, <3>1
    <3>3. QED
      BY <1>3, <2>1, <3>2
  <2>2. CASE j # i \/ v # u
    <3>1. PICK l \in Seq(Records) : l = state[j]["mf"][v] /\ Len(l) <= 1 /\ Seen(l) <= now /\ (l # <<>> => Facts(l) # {})
      BY <1>4
    <3>2. state'[j]["mf"][v] = l
      BY <1>2, <1>3, <2>2, <3>1
    <3>3. Seen(l) \in Nat
      BY HeadOf
    <3>4. Seen(l) <= now'
      BY <1>2, <3>1, <3>3
    <3>5. QED
      BY <3>1, <3>2, <3>4
  <2>3. QED
    BY <2>1, <2>2
<1>6. FormInv'
  BY <1>1, <1>5 DEF FormInv, Seen, Facts
<1>7. ASSUME NEW j \in Insts, NEW v \in Units
      PROVE  /\ Below(state'[j]["mf"][v], state'[i]["mf"][v])
             /\ v # u => Below(state'[i]["mf"][v], state'[j]["mf"][v])
  <2>1. PICK l \in Seq(Records), h \in Seq(Records), a \in Seq(Records), b \in Seq(Records) :
          /\ l = state[j]["mf"][v] /\ h = state[i]["mf"][v] /\ a = state'[j]["mf"][v] /\ b = state'[i]["mf"][v]
          /\ Below(l, h) /\ Below(h, l)
    BY <1>4
  <2>2. CASE v # u
    BY <1>2, <1>3, <2>1, <2>2
  <2>3. CASE v = u /\ j = i
    BY <2>1, <2>3, BelowOrder
  <2>4. CASE v = u /\ j # i
    <3>1. a = l
      BY <1>2, <2>1, <2>4
    <3>2. Facts(h) \subseteq Facts(b) /\ Seen(b) = now'
      BY <1>2, <1>3, <2>1, <2>4
    <3>3. Seen(l) <= now /\ Seen(l) \in Nat
      BY <1>4, <2>1, HeadOf
    <3>4. Tell(l, b)
      BY <2>1, <3>2 DEF Below, Tell
    <3>5. Seen(l) <= Seen(b)
      BY <1>2, <3>2, <3>3
    <3>6. Below(a, b)
      BY <3>1, <3>4, <3>5 DEF Below
    <3>7. QED
      BY <2>1, <2>4, <3>6
  <2>5. QED
    BY <2>2, <2>3, <2>4
<1>8. Ahead(i, {UnitOf[p]})'
  <2>1. \A j \in Insts, v \in Units : /\ Below(state[j]["mf"][v], state[i]["mf"][v])'
                                      /\ v # u => Below(state[i]["mf"][v], state[j]["mf"][v])'
    BY <1>7, TellKept DEF Below, Tell, Seen, Facts
  <2>2. QED
    BY <1>1, <1>3, <2>1 DEF Ahead
<1>9. QED
  BY <1>6, <1>8

(* The packet returned has been processed, and is reported.                *)
LEMMA ProcessCopies ==
  ASSUME VarsType, VarsType', args' = args, OneTurn, OneTurn', Copies, NEW i \in Insts, process_packet(i), hand[i].event
  PROVE  Copies'
<1>1. PICK p : p = hand[i].pkt
  OBVIOUS
<1>2. /\ UNCHANGED <<isSyncFinished, nextInstIndex, lastPacket, acked, chunks, tasks, stateIn, stateOut, pc, read, chunk>>
      /\ processed' = Append(processed, p)
  BY <1>1 DEF process_packet, opVars, syncVars, chunkVars, threads
<1>3. RoundInv /\ MarksInv /\ TurnInv
  BY DEF OneTurn
<1>4. /\ p = lastPacket /\ \A j \in Insts : ~Echo(j) /\ (Echo(j)' <=> j = i)
      /\ \A j \in Insts : Kept(eventOut[j], eventOut'[j], RoundEvents)
  BY <1>1, ProcessEcho
<1>5. Out
  BY DEF Out
<1>6. ~Round /\ isSyncFinished
  BY <1>3, <1>5 DEF TurnInv
<1>7. Still /\ ~Busy
  BY <1>3, <1>6, NoRoundStill, StillCopies
<1>8. Still'
  <2>1. SameQueues
    BY <1>2, <1>4 DEF SameQueues, Kept
  <2>2. SameThreads /\ SameChunks
    BY <1>2, NoThread DEF SameChunks
  <2>3. QED
    BY <1>2, <1>7, <2>1, <2>2, StillFrame
<1>9. ~Busy' /\ CarryInv' /\ CopiedInv'
  BY <1>8, StillCopiesNext
<1>10. Insts' = Insts /\ StateKinds' = StateKinds
  BY ArgsKept
<1>11. OrderInv /\ LearnedInv
  BY DEF Copies
<1>12. OrderInv'
  <2>1. SUFFICES ASSUME "mf" \in StateKinds PROVE OrderInv'
    BY <1>10 DEF OrderInv
  <2>2. FormInv /\ \A j \in Insts : Ahead(j, {})
    BY <1>4, <1>6, <1>7, <1>11, <2>1, NobodyAhead
  <2>3. FormInv' /\ Ahead(i, {UnitOf[p]})'
    BY <1>1, <1>3, <2>1, <2>2, ProcessAhead
  <2>4. UnitOf[p] = UnitOf[lastPacket']
    BY <1>2, <1>4
  <2>5. Ahead(i, {UnitOf[lastPacket]})'
    BY <2>3, <2>4 DEF Ahead
  <2>6. LaterSync'
    BY <1>4, <1>9, <1>10, <2>5 DEF LaterSync
  <2>7. QED
    BY <1>2, <1>6, <2>3, <2>6 DEF OrderInv
<1>13. LearnedInv'
  <2>1. /\ p \in Packets /\ UnitOf[p] \in Units
        /\ \A j \in Insts, m \in StateKinds, v \in Units :
             j # i \/ v # UnitOf[p] => state'[j][m][v] = state[j][m][v]
        /\ \A m \in StateKinds : /\ Told(state[i][m][UnitOf[p]]) \subseteq Told(state'[i][m][UnitOf[p]])
                                 /\ p \in Facts(state'[i][m][UnitOf[p]])
    <3>1. p \in Packets /\ UnitOf[p] \in Units
      BY <1>1, <1>3, ProcessLists
    <3>2. \A j \in Insts, m \in StateKinds, v \in Units :
            j # i \/ v # UnitOf[p] => state'[j][m][v] = state[j][m][v]
      BY <1>1, <1>3, ProcessLists
    <3>3. \A m \in StateKinds : Told(state[i][m][UnitOf[p]]) \subseteq Told(state'[i][m][UnitOf[p]])
      BY <1>1, <1>3, ProcessLists
    <3>4. \A m \in StateKinds : p \in Facts(state'[i][m][UnitOf[p]])
      BY <1>1, <1>3, ProcessLists
    <3>5. QED
      BY <3>1, <3>2, <3>3, <3>4
  <2>2. AtHead(i)'
    BY <1>2, <1>4, <1>10, <2>1 DEF AtHead, Facts
  <2>3. \A q \in Range(processed') : q \in Range(processed) \/ q = p
    <3>1. processed \in Seq(Packets)
      BY DEF VarsType, InstancesType
    <3>2. QED
      BY <1>2, <2>1, <3>1, RangeAppend
  <2>4. ASSUME NEW q \in Range(processed), NEW j \in Insts, NEW k \in StateKinds
        PROVE  q \in Known(j, k, UnitOf[q])'
    <3>1. q \in Known(j, k, UnitOf[q])
      BY <1>4, <1>7, <1>11 DEF LearnedInv
    <3>2. UnitOf[q] \in Units
      <4>1. q \in Packets
        BY RangeType DEF VarsType, InstancesType
      <4>2. QED
        BY <4>1, ShareAssumption
    <3>3. Told(state[j][k][UnitOf[q]]) \subseteq Told(state'[j][k][UnitOf[q]])
      <4>1. CASE j = i /\ UnitOf[q] = UnitOf[p]
        BY <2>1, <4>1
      <4>2. CASE j # i \/ UnitOf[q] # UnitOf[p]
        <5>1. state'[j][k][UnitOf[q]] = state[j][k][UnitOf[q]]
          BY <2>1, <3>2, <4>2
        <5>2. QED
          BY <5>1
      <4>3. QED
        BY <4>1, <4>2
    <3>4. Known(j, k, UnitOf[q]) = Told(state[j][k][UnitOf[q]])
      BY KnownTold
    <3>5. Known(j, k, UnitOf[q])' = Told(state'[j][k][UnitOf[q]])
      BY DEF Known, Told
    <3>6. QED
      BY <3>1, <3>3, <3>4, <3>5
  <2>5. \A q \in Range(processed'), j \in Insts', k \in StateKinds' :
          q \in Known(j, k, UnitOf[q])' \/ (q = lastPacket' /\ (\E l \in Insts : Echo(l))')
    <3>1. (\E l \in Insts : Echo(l))'
      BY <1>4, <1>10
    <3>2. QED
      BY <1>2, <1>4, <1>10, <2>3, <2>4, <3>1
  <2>6. isSyncFinished' /\ nextInstIndex' = args'.n
    BY <1>2, <1>6, <1>11 DEF LearnedInv
  <2>7. QED
    BY <1>4, <1>9, <1>10, <2>2, <2>5, <2>6 DEF LearnedInv
<1>14. QED
  BY <1>9, <1>12, <1>13 DEF Copies

-----------------------------------------------------------------------------
(* The theorems.                                                           *)

(* What instances have processed that the operation has not been told of   *)
(* does not get less.                                                      *)
LEMMA StraysGrow ==
  ASSUME VarsType, [Next]_vars, strays' = {}
  PROVE  strays = {} /\ \A i \in Insts : process_packet(i) => hand[i].event
<1>1. ASSUME NEW i \in Insts, process_packet(i)
      PROVE  strays = {} /\ hand[i].event
  <2>1. PICK x : x = [pkt |-> hand[i].pkt, late |-> filter[i]]
    OBVIOUS
  <2>2. strays' = IF hand[i].event THEN strays ELSE strays \cup {x}
    BY <1>1, <2>1 DEF process_packet
  <2>3. QED
    BY <2>2
<1>2. ASSUME UNCHANGED vars
      PROVE  strays' = strays
  BY <1>2 DEF vars, nfVars
<1>3. ASSUME execute \/ Pool \/ packetOut
      PROVE  strays' = strays
  BY <1>3 DEF execute, Pool, callChunk, packetOut, nfVars
<1>4. ASSUME NEW i \in Insts, StateThread(i)
      PROVE  strays' = strays
  BY <1>4 DEF StateThread, receiveEventsAck, incrementEventAckCount, checkEventAckCount, receiveState,
              receiveGetAck, setGetCount, Thread, syncAllInstances, dequeueAfterSync, checkIfInstFinished, nfVars
<1>5. ASSUME NEW i \in Insts, EventThread(i)
      PROVE  strays' = strays
  BY <1>5 DEF EventThread, receivePutAck, incrementPutAcks, incrementAcked, compareAcked, receiveReprocess,
              Thread, syncAllInstances, dequeueAfterSync, checkIfInstFinished, nfVars
<1>6. ASSUME NEW i \in Insts, InstanceState(i) \/ sdmbn_preprocess_packet(i)
      PROVE  strays' = strays
  BY <1>6 DEF InstanceState, handle_enable_events, handle_get, get_unsupported, handle_put,
              sdmbn_preprocess_packet, nfVars
<1>7. strays = {}
  BY <1>1, <1>2, <1>3, <1>4, <1>5, <1>6 DEF Next
<1>8. QED
  BY <1>1, <1>7

(* At the start nothing has been copied or processed.                      *)
LEMMA InitCopies ==
  ASSUME Init, VarsType
  PROVE  Copies
<1>1. /\ nextInstIndex = 0 /\ ~isSyncFinished /\ key = Units /\ processed = <<>> /\ starts = 0
      /\ \A i \in Insts : eventOut[i] = <<>>
  BY DEF Init
<1>2. \A i \in Insts : ~Echo(i)
  BY <1>1, HasNone DEF Echo
<1>3. RoundInv /\ ~Round
  BY <1>1, InitTurn DEF OneTurn, TurnInv
<1>4. ~Busy /\ CarryInv /\ CopiedInv
  BY <1>3, NoRoundStill, StillCopies
<1>5. ASSUME NEW i \in Insts, NEW u \in Units, "mf" \in StateKinds
      PROVE  /\ Len(state[i]["mf"][u]) <= 1 /\ Seen(state[i]["mf"][u]) <= now
             /\ Facts(state[i]["mf"][u]) = args.knows[i][u]
             /\ Seen(state[i]["mf"][u]) = IF args.knows[i][u] = {} THEN 0 ELSE args.seen[i][u]
             /\ state[i]["mf"][u] # <<>> => Facts(state[i]["mf"][u]) # {}
  <2>1. state[i]["mf"][u] = InitialState(i, u) /\ args.seen[i][u] <= now
    BY <1>5 DEF Init
  <2>2. PICK l \in Seq(Records) : l = state[i]["mf"][u]
    BY <1>5, ListTypes
  <2>3. CASE args.knows[i][u] = {}
    <3>1. l = <<>>
      BY <2>1, <2>2, <2>3 DEF InitialState
    <3>2. Len(l) <= 1 /\ Seen(l) = 0 /\ Facts(l) = {} /\ 0 <= now
      BY <3>1, ListTypes DEF Seen, Facts
    <3>3. QED
      BY <2>2, <2>3, <3>1, <3>2
  <2>4. CASE args.knows[i][u] # {}
    <3>1. PICK r : r = [facts |-> args.knows[i][u], seen |-> args.seen[i][u], gotten |-> FALSE]
      OBVIOUS
    <3>2. l = <<r>> /\ r.seen = args.seen[i][u] /\ r.facts = args.knows[i][u]
      BY <2>1, <2>2, <2>4, <3>1 DEF InitialState
    <3>3. Len(l) = 1 /\ l[1] = r /\ l # <<>>
      BY <3>2
    <3>4. Seen(l) = args.seen[i][u] /\ Facts(l) = args.knows[i][u]
      BY <3>2, <3>3 DEF Seen, Facts
    <3>5. QED
      BY <2>1, <2>2, <2>4, <3>3, <3>4
  <2>5. QED
    BY <2>3, <2>4
<1>6. OrderInv
  <2>1. SUFFICES ASSUME "mf" \in StateKinds PROVE FormInv /\ FirstSync
    BY <1>1 DEF OrderInv
  <2>2. FormInv
    BY <1>5, <2>1 DEF FormInv
  <2>3. ASSUME NEW i \in Insts, NEW j \in Insts, i < j, NEW u \in Units
        PROVE  Tell(state[i]["mf"][u], state[j]["mf"][u]) \/ Seen(state[j]["mf"][u]) <= Seen(state[i]["mf"][u])
    <3>1. PICK l, m : l = state[i]["mf"][u] /\ m = state[j]["mf"][u]
      OBVIOUS
    <3>2. PICK a, b : a = args.knows[i][u] /\ b = args.knows[j][u]
      OBVIOUS
    <3>3. PICK s \in Nat, t \in Nat : s = args.seen[i][u] /\ t = args.seen[j][u]
      <4>1. args \in Configs
        BY DEF VarsType
      <4>2. PICK f : f = args.seen /\ f \in [Insts -> [Units -> 0 .. MaxTime]]
        BY <4>1, ShareAssumption DEF Insts
      <4>3. f[i][u] \in 0 .. MaxTime /\ f[j][u] \in 0 .. MaxTime
        BY <4>2
      <4>4. QED
        BY <4>2, <4>3, ShareAssumption
    <3>4. /\ Facts(l) = a /\ Seen(l) = IF a = {} THEN 0 ELSE s
          /\ Facts(m) = b /\ Seen(m) = IF b = {} THEN 0 ELSE t
      BY <1>5, <2>1, <3>1, <3>2, <3>3
    <3>5. InOrder => a \subseteq b \/ b = {} \/ t <= s
      BY <2>3, <3>2, <3>3 DEF InOrder
    <3>6. CASE ~InOrder \/ a \subseteq b
      <4>1. Tell(l, m)
        BY <3>4, <3>6 DEF Tell
      <4>2. QED
        BY <3>1, <4>1
    <3>7. CASE ~(a \subseteq b) /\ (b = {} \/ t <= s)
      <4>1. a # {}
        BY <3>7
      <4>2. Seen(m) <= Seen(l)
        BY <3>3, <3>4, <3>7, <4>1
      <4>3. QED
        BY <3>1, <4>2
    <3>8. QED
      BY <3>5, <3>6, <3>7
  <2>4. \A i, u : Final(i, u) = state[i]["mf"][u]
    BY <1>4 DEF Final
  <2>5. \A i \in Insts : ~(i <= nextInstIndex)
    BY <1>1 DEF Insts
  <2>6. QED
    BY <1>1, <1>4, <2>2, <2>3, <2>4, <2>5 DEF FirstSync
<1>7. LearnedInv
  <2>1. Range(processed) = {}
    BY <1>1, RangeNone
  <2>2. QED
    BY <1>1, <1>2, <1>4, <2>1 DEF LearnedInv
<1>8. QED
  BY <1>4, <1>6, <1>7 DEF Copies

(* Every step copies what it has to.                                       *)
LEMMA CopyStep ==
  ASSUME VarsType, VarsType', args' = args, Ordinary, OneTurn, OneTurn', Copies, [Next]_vars,
         \A i \in Insts : process_packet(i) => hand[i].event
  PROVE  Copies'
<1>1. DistinctTraffic /\ Unmarked /\ FewRecords /\ RoundInv
  BY DEF Ordinary, OneTurn
<1>2. CASE UNCHANGED vars
  <2>1. UNCHANGED <<state, currentSource, key, now, processed, lastPacket, isSyncFinished, nextInstIndex, acked, tasks,
                    stateIn, stateOut, eventOut, chunks>>
    BY <1>2 DEF vars, opVars, syncVars, chunkVars, chanVars, nfVars
  <2>2. /\ \A i \in Insts : Kept(stateIn[i], stateIn'[i], RoundRequests) /\ Kept(stateOut[i], stateOut'[i], RoundAnswers)
        /\ SameChunks /\ \A c \in 1 .. Len(chunks) : chunks'[c].rec = chunks[c].rec
    BY <2>1 DEF Kept, SameChunks
  <2>3. \A i \in Insts : Echo(i)' <=> Echo(i)
    BY <2>1, NoReports, SameEcho
  <2>4. QED
    BY <1>1, <2>1, <2>2, <2>3, QuietCopies
<1>3. CASE execute
  BY <1>1, <1>3, StartCopies
<1>4. CASE Pool
  BY <1>1, <1>4, PoolCopies
<1>5. CASE packetOut
  BY <1>1, <1>5, PacketCopies
<1>6. ASSUME NEW t \in Threads, Thread(t)
      PROVE  Copies'
  BY <1>6, SyncCopies, DequeueCopies, CheckCopies DEF Thread
<1>7. ASSUME NEW i \in Insts, StateThread(i)
      PROVE  Copies'
  <2>1. CASE receiveEventsAck(i) \/ incrementEventAckCount(i) \/ checkEventAckCount(i)
    BY <1>1, <2>1, StartCopies
  <2>2. CASE receiveState(i)
    BY <1>1, <2>2, StateCopies
  <2>3. CASE receiveGetAck(i)
    BY <1>1, <2>3, GetAckCopies
  <2>4. CASE setGetCount(i)
    BY <1>1, <2>4, CountCopies
  <2>5. CASE Thread(<<"ss", i>>)
    BY <1>6, <2>5, ThreadsOf
  <2>6. QED
    BY <1>7, <2>1, <2>2, <2>3, <2>4, <2>5 DEF StateThread
<1>8. ASSUME NEW i \in Insts, EventThread(i)
      PROVE  Copies'
  <2>1. CASE receivePutAck(i) \/ incrementPutAcks(i) \/ incrementAcked(i) \/ compareAcked(i)
    BY <1>1, <2>1, CountCopies
  <2>2. CASE receiveReprocess(i)
    BY <2>2, ReportCopies
  <2>3. CASE Thread(<<"se", i>>)
    BY <1>6, <2>3, ThreadsOf
  <2>4. QED
    BY <1>8, <2>1, <2>2, <2>3 DEF EventThread
<1>9. ASSUME NEW i \in Insts, InstanceState(i)
      PROVE  Copies'
  <2>1. CASE handle_enable_events(i)
    BY <1>1, <2>1, StartCopies
  <2>2. CASE handle_get(i)
    BY <1>1, <2>2, GetCopies
  <2>3. CASE get_unsupported(i)
    BY <1>1, <2>3, UnsupportedCopies
  <2>4. CASE handle_put(i)
    BY <2>4, PutCopies
  <2>5. QED
    BY <1>9, <2>1, <2>2, <2>3, <2>4 DEF InstanceState
<1>10. ASSUME NEW i \in Insts, process_packet(i)
       PROVE  Copies'
  BY <1>10, ProcessCopies
<1>11. ASSUME NEW i \in Insts, sdmbn_preprocess_packet(i)
       PROVE  Copies'
  BY <1>1, <1>11, PacketCopies
<1>12. QED
  BY <1>2, <1>3, <1>4, <1>5, <1>7, <1>8, <1>9, <1>10, <1>11 DEF Next

(* While a returned packet is to be processed, nothing is copied and no    *)
(* packet has been reported again.                                         *)
LEMMA WaitingAlone ==
  ASSUME VarsType, OneTurn, Waiting # {}
  PROVE  isSyncFinished /\ ~Busy /\ \A i \in Insts : ~Echo(i)
<1>1. ofq # <<>> \/ \E i \in Insts : hand[i].event
  <2>1. ofq = <<>> => Range(ofq) = {}
    BY RangeNone
  <2>2. QED
    BY <2>1, Zenon DEF Waiting
<1>2. Out
  BY <1>1 DEF Out
<1>3. RoundInv /\ ~Round /\ isSyncFinished
  BY <1>2 DEF OneTurn, TurnInv
<1>4. \A i \in Insts : ~Echo(i)
  BY <1>1 DEF OneTurn, OutInv
<1>5. QED
  BY <1>3, <1>4, NoRoundStill, StillCopies

(* Instances none of which is ahead hold the same records.                 *)
LEMMA NoneAheadEqual ==
  ASSUME VarsType, MarksInv, FormInv, InOrder, "mf" \in StateKinds, \A i \in Insts : Ahead(i, {})
  PROVE  \A i, j \in Insts : state[i]["mf"] = state[j]["mf"]
<1>1. ASSUME NEW i \in Insts, NEW j \in Insts, NEW u \in Units
      PROVE  state[i]["mf"][u] = state[j]["mf"][u]
  <2>1. PICK l \in Seq(Records), m \in Seq(Records) : l = state[i]["mf"][u] /\ m = state[j]["mf"][u]
    BY ListTypes
  <2>2. Len(l) <= 1 /\ Len(m) <= 1 /\ (l # <<>> => Facts(l) # {}) /\ (m # <<>> => Facts(m) # {})
    BY <2>1 DEF FormInv
  <2>3. Clean(l) /\ Clean(m)
    BY <2>1 DEF MarksInv, Clean
  <2>4. Below(l, m) /\ Below(m, l)
    BY <2>1 DEF Ahead
  <2>5. l = m
    BY <2>2, <2>3, <2>4, BelowEqual
  <2>6. QED
    BY <2>1, <2>5
<1>2. \A i \in Insts : state[i]["mf"] \in [Units -> Seq(Records)]
  BY DEF VarsType, InstancesType
<1>3. QED
  BY <1>1, <1>2

(* The invariant, of every share in the scope of the properties whose      *)
(* synchronization was started once and whose instances processed no       *)
(* packet on their own: what travels is what the source holds, what has    *)
(* been put is known, and no instance is ahead of the others but the one   *)
(* that has processed the packet returned, until it has been copied.       *)
THEOREM CopiesInvariant == Spec /\ []Ordinary => []CopiesInv
<1>1. Init => CopiesInv
  BY InitInv, InitCopies DEF ShareInv, CopiesInv
<1>2. ShareInv /\ TurnsInv /\ TurnsInv' /\ CopiesInv /\ Ordinary /\ [Next]_vars => CopiesInv'
  <2>1. SUFFICES ASSUME ShareInv, TurnsInv, TurnsInv', CopiesInv, Ordinary, [Next]_vars, Single', strays' = {}
                 PROVE  Copies'
    BY DEF CopiesInv
  <2>2. VarsType /\ VarsType' /\ args' = args
    BY <2>1, TypeStep DEF ShareInv
  <2>3. Single /\ strays = {} /\ \A i \in Insts : process_packet(i) => hand[i].event
    BY <2>1, <2>2, StartsGrow, StraysGrow
  <2>4. OneTurn /\ OneTurn' /\ Copies
    BY <2>1, <2>3 DEF TurnsInv, CopiesInv
  <2>5. QED
    BY <2>1, <2>2, <2>3, <2>4, CopyStep
<1>3. QED
  BY <1>1, <1>2, ShareInvariant, TurnInvariant, PTL DEF Spec

(* Strong consistency: whenever a returned packet is about to be           *)
(* processed, all instances hold the same multi-flow records, for any      *)
(* number of instances, any traffic, clock and order of puts, acks and     *)
(* events, and any facts and seconds they start with that are InOrder:     *)
(* those an instance has seen later than one that is copied before it tell *)
(* as much. Of shares whose packets are different texts and so on          *)
(* (Ordinary), started once, without stray packets.                        *)
THEOREM KeepsConsistent == Spec /\ []Ordinary => []StrongConsistency
<1>1. ShareInv /\ TurnsInv /\ CopiesInv => StrongConsistency
  <2>1. SUFFICES ASSUME ShareInv, TurnsInv, CopiesInv, Single, strays = {}, InOrder, Waiting # {}, "mf" \in StateKinds
                 PROVE  \A i, j \in Insts : state[i]["mf"] = state[j]["mf"]
    BY DEF StrongConsistency
  <2>2. VarsType /\ OneTurn /\ Copies
    BY <2>1 DEF ShareInv, TurnsInv, CopiesInv
  <2>3. isSyncFinished /\ ~Busy /\ \A i \in Insts : ~Echo(i)
    BY <2>1, <2>2, WaitingAlone
  <2>4. FormInv /\ \A i \in Insts : Ahead(i, {})
    BY <2>1, <2>2, <2>3, NobodyAhead DEF Copies
  <2>5. QED
    BY <2>1, <2>2, <2>4, NoneAheadEqual DEF OneTurn
<1>2. QED
  BY <1>1, ShareInvariant, TurnInvariant, CopiesInvariant, PTL

(* All instances know of every packet that has been processed, in all      *)
(* state that is shared, before the next one is.                           *)
THEOREM AllLearn == Spec /\ []Ordinary => []LearnedByAll
<1>1. ShareInv /\ TurnsInv /\ CopiesInv => LearnedByAll
  <2>1. SUFFICES ASSUME ShareInv, TurnsInv, CopiesInv, Single, strays = {}, Waiting # {},
                        NEW p \in Range(processed), NEW i \in Insts, NEW k \in StateKinds
                 PROVE  p \in Known(i, k, UnitOf[p])
    BY DEF LearnedByAll
  <2>2. VarsType /\ OneTurn /\ LearnedInv
    BY <2>1 DEF ShareInv, TurnsInv, CopiesInv, Copies
  <2>3. ~Busy /\ \A j \in Insts : ~Echo(j)
    BY <2>1, <2>2, WaitingAlone
  <2>4. QED
    BY <2>1, <2>2, <2>3 DEF LearnedInv
<1>2. QED
  BY <1>1, ShareInvariant, TurnInvariant, CopiesInvariant, PTL
=============================================================================
