---------------------------- MODULE ShareProofs -----------------------------
(***************************************************************************)
(* Module Share for any instances, units, packets, traffic and scopes.     *)
(* First its types and the count of the acks of events. Then what a round  *)
(* of copying the state of one instance does: it is found complete only    *)
(* when nothing of it is left on any connection, in the pool or in a       *)
(* thread. Module ShareTurnProofs goes on from there.                      *)
(***************************************************************************)
EXTENDS ShareInvariant, FiniteSetTheorems

-----------------------------------------------------------------------------
(* What the constants and the arguments give.                              *)

(* There are instances, two at least, and finitely many.                   *)
LEMMA InstancesFinite ==
  ASSUME args \in Configs
  PROVE  /\ args.n \in Nat \ {0, 1} /\ IsFiniteSet(Insts) /\ Cardinality(Insts) = args.n
         /\ Insts \subseteq Nat \ {0}
<1>1. args.n \in Nat \ {0, 1}
  BY ShareAssumption
<1>2. IsFiniteSet(1 .. args.n) /\ Cardinality(1 .. args.n) = args.n
  <2>1. PICK n \in Int : n = args.n /\ n > 0
    BY <1>1
  <2>2. IsFiniteSet(1 .. n) /\ Cardinality(1 .. n) = IF 1 > n THEN 0 ELSE n - 1 + 1
    BY FS_Interval
  <2>3. QED
    BY <2>1, <2>2
<1>3. QED
  BY <1>1, <1>2 DEF Insts

(* A scope names kinds of state, in an order.                              *)
LEMMA ScopeType ==
  /\ ScopeOrder \in Seq(Kinds) /\ ScopeKinds \subseteq Kinds /\ StateKinds \subseteq {"pf", "mf"}
<1>1. ScopeOrder \in Seq(Kinds)
  <2> DEFINE K == Kinds
  <2>1. "pf" \in K /\ "mf" \in K /\ "af" \in K
    BY DEF Kinds
  <2> HIDE DEF K
  <2>2. \A a, b, c \in K : <<a>> \in Seq(K) /\ <<a, b>> \in Seq(K) /\ <<a, b, c>> \in Seq(K)
    OBVIOUS
  <2>3. QED
    BY <2>1, <2>2, Zenon DEF ScopeOrder, K
<1>2. ScopeKinds \subseteq Kinds
  BY <1>1, RangeOfSeq DEF ScopeKinds
<1>3. QED
  BY <1>1, <1>2 DEF StateKinds, Kinds

(* An operation keeps its arguments, and with them the types.              *)
LEMMA ArgsKept ==
  ASSUME args' = args
  PROVE  /\ Insts' = Insts /\ Threads' = Threads /\ StateKinds' = StateKinds
         /\ StateKeys' = StateKeys /\ StateMsgs' = StateMsgs /\ Requests' = Requests
         /\ Answers' = Answers /\ Events' = Events /\ Chunks' = Chunks /\ Held' = Held
         /\ PacketOuts' = PacketOuts
<1>1. Insts' = Insts /\ StateKinds' = StateKinds
  BY DEF Insts, StateKinds, ScopeKinds, ScopeOrder
<1>2. Threads' = Threads /\ StateKeys' = StateKeys
  BY <1>1 DEF Threads, StateKeys
<1>3. StateMsgs' = StateMsgs
  BY <1>2 DEF StateMsgs
<1>4. QED
  BY <1>1, <1>2, <1>3 DEF Requests, Answers, Events, Chunks, Held, PacketOuts

(* A thread belongs to an instance.                                        *)
LEMMA ThreadsOf ==
  ASSUME NEW i \in Insts
  PROVE  <<"ss", i>> \in Threads /\ <<"se", i>> \in Threads
  BY DEF Threads

(* A full sequence gains or loses an end.                                  *)
LEMMA QueueType ==
  ASSUME NEW S, NEW s \in Seq(S)
  PROVE  /\ s # <<>> => /\ Head(s) \in S /\ Tail(s) \in Seq(S) /\ Len(s) \in Nat \ {0}
                        /\ Head(s) = s[1] /\ Len(Tail(s)) = Len(s) - 1
                        /\ \A n \in 1 .. Len(Tail(s)) : Tail(s)[n] = s[n + 1]
         /\ \A x \in S : /\ Append(s, x) \in Seq(S) /\ Len(Append(s, x)) = Len(s) + 1
                         /\ Append(s, x)[Len(s) + 1] = x
                         /\ \A n \in 1 .. Len(s) : Append(s, x)[n] = s[n]
  OBVIOUS

-----------------------------------------------------------------------------
(* Types.                                                                  *)

(* What an action leaves alone keeps its type.                             *)
LEMMA TypeFrame ==
  ASSUME VarsType, args' = args
  PROVE  /\ UNCHANGED <<executed, opVars>> => FieldsType'
         /\ UNCHANGED <<eventAckCount, starts>> => CountersType'
         /\ UNCHANGED syncVars => SyncType'
         /\ UNCHANGED chunkVars => ChunksType'
         /\ UNCHANGED <<threads, chunks>> => ThreadsType'
         /\ UNCHANGED chanVars => ChannelsType'
         /\ UNCHANGED <<nfVars, arrived>> => InstancesType'
<1>1. UNCHANGED <<executed, opVars>> => FieldsType'
  BY ArgsKept DEF VarsType, FieldsType, opVars
<1>2. UNCHANGED syncVars => SyncType'
  BY ArgsKept DEF VarsType, SyncType, syncVars
<1>3. UNCHANGED chunkVars => ChunksType'
  BY ArgsKept DEF VarsType, ChunksType, chunkVars
<1>4. UNCHANGED <<threads, chunks>> => ThreadsType'
  BY ArgsKept DEF VarsType, ThreadsType, threads
<1>5. UNCHANGED chanVars => ChannelsType'
  BY ArgsKept DEF VarsType, ChannelsType, chanVars
<1>6. UNCHANGED <<nfVars, arrived>> => InstancesType'
  BY ArgsKept DEF VarsType, InstancesType, nfVars
<1>7. UNCHANGED <<eventAckCount, starts>> => CountersType'
  BY DEF VarsType, CountersType
<1>8. QED
  BY <1>1, <1>2, <1>3, <1>4, <1>5, <1>6, <1>7

(* A thread goes from label to label.                                      *)
LEMMA GotoType ==
  ASSUME VarsType, NEW t \in Threads, NEW a, NEW b \in Labels, Goto(t, a, b)
  PROVE  /\ pc' \in [Threads -> Labels] /\ pc[t] = a /\ pc'[t] = b
         /\ \A u \in Threads : u # t => pc'[u] = pc[u]
  BY DEF VarsType, ThreadsType, Goto

(* A thread that has left its chunk, or had none, needs none.              *)
LEMMA ThreadSteps ==
  ASSUME VarsType, args' = args, NEW t \in Threads, NEW a, NEW b \in Labels, Goto(t, a, b),
         b \notin {"putAck", "chunkAck", "compare"}, chunk' \in [Threads -> Nat],
         \A u \in Threads : u # t => chunk'[u] = chunk[u],
         read' \in [Threads -> [kind : Kinds, count : Nat]], Len(chunks') = Len(chunks)
  PROVE  ThreadsType'
<1>1. /\ pc' \in [Threads -> Labels] /\ pc'[t] = b
      /\ \A u \in Threads : u # t => pc'[u] = pc[u]
  BY GotoType
<1>2. \A u \in Threads : pc'[u] \in {"putAck", "chunkAck", "compare"} => chunk'[u] \in 1 .. Len(chunks)
  BY <1>1 DEF VarsType, ThreadsType
<1>3. QED
  BY <1>1, <1>2, ArgsKept DEF ThreadsType

(* What the operation sends instance i, each instance or those in D.       *)
LEMMA SentType ==
  ASSUME VarsType, args' = args, UNCHANGED <<stateOut, eventOut, ofq>>,
         stateIn' \in [Insts -> Seq(Requests)]
  PROVE  ChannelsType'
  BY ArgsKept DEF VarsType, ChannelsType

(* The head of a connection is of its type, and so is the rest.            *)
LEMMA ReceivedType ==
  ASSUME VarsType, NEW i \in Insts
  PROVE  /\ stateIn[i] # <<>> =>
              Head(stateIn[i]) \in Requests /\ [stateIn EXCEPT ![i] = Tail(@)] \in [Insts -> Seq(Requests)]
         /\ stateOut[i] # <<>> =>
              Head(stateOut[i]) \in Answers /\ [stateOut EXCEPT ![i] = Tail(@)] \in [Insts -> Seq(Answers)]
         /\ eventOut[i] # <<>> =>
              Head(eventOut[i]) \in Events /\ [eventOut EXCEPT ![i] = Tail(@)] \in [Insts -> Seq(Events)]
<1>1. /\ stateIn \in [Insts -> Seq(Requests)] /\ stateOut \in [Insts -> Seq(Answers)]
      /\ eventOut \in [Insts -> Seq(Events)]
  BY DEF VarsType, ChannelsType
<1>2. /\ stateIn[i] # <<>> => Head(stateIn[i]) \in Requests /\ Tail(stateIn[i]) \in Seq(Requests)
      /\ stateOut[i] # <<>> => Head(stateOut[i]) \in Answers /\ Tail(stateOut[i]) \in Seq(Answers)
      /\ eventOut[i] # <<>> => Head(eventOut[i]) \in Events /\ Tail(eventOut[i]) \in Seq(Events)
  BY <1>1, HeadTailProperties
<1>3. QED
  BY <1>1, <1>2

(* The messages by their type.                                             *)
LEMMA MessageTypes ==
  /\ \A m \in Requests : m.type = "Get" => m.kind \in Kinds /\ m.units \subseteq Units
  /\ \A m \in Requests : m.type = "Put" => m.hashkey \in StateKeys /\ m.rec \in Cargo
  /\ \A m \in Answers : m.type = "State" => m.hashkey \in StateKeys /\ m.rec \in Cargo
  /\ \A m \in Answers : m.type = "GetAck" => m.kind \in Kinds /\ m.count \in Nat
  /\ \A m \in Events : m.type = "PutAck" => m.hashkey \in StateKeys
  /\ \A m \in Events : m.type = "Reprocess" => m.pkt \in Packets
  /\ \A h \in StateKeys : h.kind \in StateKinds /\ h.kind \in Kinds /\ h.unit \in Units
<1>1. \A m \in Requests : /\ m.type = "Get" => m.kind \in Kinds /\ m.units \subseteq Units
                          /\ m.type = "Put" => m.hashkey \in StateKeys /\ m.rec \in Cargo
  BY DEF Requests
<1>2. \A m \in Answers : /\ m.type = "State" => m.hashkey \in StateKeys /\ m.rec \in Cargo
                         /\ m.type = "GetAck" => m.kind \in Kinds /\ m.count \in Nat
  BY DEF Answers, StateMsgs
<1>3. \A m \in Events : /\ m.type = "PutAck" => m.hashkey \in StateKeys
                        /\ m.type = "Reprocess" => m.pkt \in Packets
  BY DEF Events
<1>4. \A h \in StateKeys : h.kind \in StateKinds /\ h.kind \in Kinds /\ h.unit \in Units
  BY ScopeType DEF StateKeys, Kinds
<1>5. QED
  BY <1>1, <1>2, <1>3, <1>4

(* The start: requests for events, acks, the shared count.                 *)
LEMMA StartTypes ==
  ASSUME VarsType
  PROVE  /\ execute => VarsType'
         /\ \A i \in Insts : \/ receiveEventsAck(i) \/ incrementEventAckCount(i) \/ checkEventAckCount(i)
                             => VarsType'
<1>1. CASE execute
  <2>1. args' = args
    BY <1>1 DEF execute
  <2>2. [type |-> "EnableEvents"] \in Requests
    BY DEF Requests
  <2>3. stateIn' \in [Insts -> Seq(Requests)]
    BY <1>1, <2>2, AppendProperties DEF execute, VarsType, ChannelsType
  <2>4. FieldsType'
    BY <1>1, <2>1, ArgsKept DEF execute, VarsType, FieldsType, opVars
  <2>5. ChannelsType'
    BY <1>1, <2>1, <2>3, SentType DEF execute
  <2>6. QED
    BY <1>1, <2>1, <2>4, <2>5, TypeFrame DEF execute, VarsType, chunkVars
<1>2. ASSUME NEW i \in Insts, receiveEventsAck(i)
      PROVE  VarsType'
  <2>1. args' = args /\ <<"ss", i>> \in Threads
    BY <1>2, ThreadsOf DEF receiveEventsAck
  <2>2. ChannelsType'
    BY <1>2, <2>1, ReceivedType, ArgsKept DEF receiveEventsAck, FromState, VarsType, ChannelsType
  <2>3. ThreadsType'
    <3>1. read' \in [Threads -> [kind : Kinds, count : Nat]]
      BY <1>2, <2>1 DEF receiveEventsAck, VarsType, ThreadsType, CountersType
    <3>2. QED
      BY <1>2, <2>1, <3>1, ThreadSteps DEF receiveEventsAck, VarsType, ThreadsType, chunkVars, Labels
  <2>4. QED
    BY <1>2, <2>1, <2>2, <2>3, TypeFrame DEF receiveEventsAck, VarsType
<1>3. ASSUME NEW i \in Insts, incrementEventAckCount(i)
      PROVE  VarsType'
  <2>1. args' = args /\ <<"ss", i>> \in Threads
    BY <1>3, ThreadsOf DEF incrementEventAckCount
  <2>2. ThreadsType'
    <3>1. read' \in [Threads -> [kind : Kinds, count : Nat]]
      BY <1>3, <2>1 DEF incrementEventAckCount, VarsType, ThreadsType, NoRead, Kinds
    <3>2. QED
      BY <1>3, <2>1, <3>1, ThreadSteps DEF incrementEventAckCount, VarsType, ThreadsType, chunkVars, Labels
  <2>3. CountersType'
    BY <1>3, <2>1 DEF incrementEventAckCount, VarsType, ThreadsType, CountersType
  <2>4. QED
    BY <1>3, <2>1, <2>2, <2>3, TypeFrame DEF incrementEventAckCount, VarsType
<1>4. ASSUME NEW i \in Insts, checkEventAckCount(i)
      PROVE  VarsType'
  <2>1. args' = args /\ <<"ss", i>> \in Threads
    BY <1>4, ThreadsOf DEF checkEventAckCount
  <2>2. PICK b \in {"sync", "idle"} : Goto(<<"ss", i>>, "eventCheck", b)
    BY <1>4 DEF checkEventAckCount
  <2>3. ThreadsType'
    BY <1>4, <2>1, <2>2, ThreadSteps DEF checkEventAckCount, VarsType, ThreadsType, chunkVars, Labels
  <2>4. CountersType'
    BY <1>4 DEF checkEventAckCount, VarsType, CountersType
  <2>5. QED
    BY <1>4, <2>1, <2>3, <2>4, TypeFrame DEF checkEventAckCount, VarsType
<1>5. QED
  BY <1>1, <1>2, <1>3, <1>4

(* The requests for the state of an instance.                              *)
LEMMA GetsType ==
  ASSUME NEW us, us \subseteq Units
  PROVE  /\ Gets(us) \in Seq(Requests)
         /\ \A j \in 1 .. Len(Gets(us)) : Gets(us)[j].type = "Get"
<1>1. /\ Len(ScopeOrder) \in Nat
      /\ \A j \in 1 .. Len(ScopeOrder) : ScopeOrder[j] \in Kinds
  BY ScopeType, LenProperties, ElementOfSeq
<1>2. \A j \in 1 .. Len(ScopeOrder) :
        [type |-> "Get", kind |-> ScopeOrder[j], units |-> us] \in Requests
  BY <1>1 DEF Requests
<1>3. QED
  BY <1>1, <1>2 DEF Gets

(* syncFromInstance: an instance is asked for its state.                   *)
LEMMA SyncFromType ==
  ASSUME VarsType, args' = args, NEW i \in Insts, NEW us, us \subseteq Units, syncFromInstance(i, us),
         UNCHANGED <<stateOut, eventOut, ofq>>
  PROVE  SyncType' /\ ChannelsType'
<1>1. stateIn' \in [Insts -> Seq(Requests)]
  <2>1. stateIn[i] \o Gets(us) \in Seq(Requests)
    BY GetsType, ConcatProperties DEF VarsType, ChannelsType
  <2>2. QED
    BY <2>1 DEF syncFromInstance, VarsType, ChannelsType
<1>2. Large \in Nat
  BY DEF Large
<1>3. SyncType'
  BY <1>2, ArgsKept DEF syncFromInstance, ResetSync, SyncType
<1>4. QED
  BY <1>1, <1>3, SentType

(* dequeueEvent: a packet is returned to where it came from.               *)
LEMMA DequeuedType ==
  ASSUME VarsType, NEW events \in Seq(Held), NEW flag \in BOOLEAN, dequeueEvent(events, flag)
  PROVE  /\ callFromReprocess' \in BOOLEAN /\ lastPacket' \in Packets \cup {NoPacket}
         /\ ofq' \in Seq(PacketOuts) /\ currentSource' \in Insts \cup {0}
<1>1. CASE events = <<>>
  BY <1>1 DEF dequeueEvent, VarsType, FieldsType, ChannelsType, SyncType
<1>2. CASE events # <<>>
  <2>1. Head(events) \in Held
    BY <1>2, HeadTailProperties
  <2>2. Head(events).text \in Packets /\ Head(events).from \in Insts
    BY <2>1 DEF Held
  <2>3. [to |-> Head(events).from, pkt |-> Head(events).text] \in PacketOuts
    BY <2>2 DEF PacketOuts
  <2>4. ofq' \in Seq(PacketOuts)
    <3>1. ofq \in Seq(PacketOuts)
      BY DEF VarsType, ChannelsType
    <3>2. PICK m \in PacketOuts : ofq' = Append(ofq, m)
      BY <1>2, <2>3 DEF dequeueEvent
    <3>3. QED
      BY <3>1, <3>2, QueueType
  <2>5. QED
    BY <1>2, <2>2, <2>4 DEF dequeueEvent
<1>3. QED
  BY <1>1, <1>2

(* syncAllInstances and what follows it.                                   *)
LEMMA SyncTypes ==
  ASSUME VarsType, NEW t \in Threads
  PROVE  syncAllInstances(t) \/ dequeueAfterSync(t) \/ checkIfInstFinished(t) => VarsType'
<1>1. CASE syncAllInstances(t)
  <2>1. args' = args /\ UNCHANGED <<chunk, read, chunks, tasks>>
    BY <1>1 DEF syncAllInstances, chunkVars
  <2>2. PICK b \in {"dequeue", "idle"} : Goto(t, "sync", b)
    BY <1>1 DEF syncAllInstances
  <2>3. ThreadsType'
    <3>1. /\ b \in Labels /\ b \notin {"putAck", "chunkAck", "compare"}
          /\ chunk' \in [Threads -> Nat] /\ read' \in [Threads -> [kind : Kinds, count : Nat]]
      BY <2>1 DEF VarsType, ThreadsType, Labels
    <3>2. QED
      BY <2>1, <2>2, <3>1, ThreadSteps
  <2>4. args.n \in Nat /\ nextInstIndex \in 0 .. args.n /\ key \subseteq Units
    BY InstancesFinite DEF VarsType, FieldsType, SyncType
  <2>5. FieldsType' /\ SyncType' /\ ChannelsType'
    <3>1. CASE AllSynced
      BY <1>1, <2>1, <3>1, TypeFrame, ArgsKept
         DEF syncAllInstances, VarsType, FieldsType, chanVars, syncVars
    <3>2. CASE ~AllSynced
      <4>1. nextInstIndex + 1 \in Insts
        BY <2>4, <3>2 DEF AllSynced, Insts
      <4>2. SyncType' /\ ChannelsType'
        BY <1>1, <2>1, <2>4, <3>2, <4>1, SyncFromType DEF syncAllInstances
      <4>3. nextInstIndex' \in 0 .. args'.n
        BY <1>1, <2>1, <2>4, <3>2 DEF syncAllInstances, AllSynced
      <4>4. FieldsType'
        BY <1>1, <2>1, <3>2, <4>3, ArgsKept DEF syncAllInstances, VarsType, FieldsType
      <4>5. QED
        BY <4>2, <4>4
    <3>3. QED
      BY <3>1, <3>2
  <2>6. QED
    BY <1>1, <2>1, <2>3, <2>5, TypeFrame DEF syncAllInstances, VarsType
<1>2. CASE dequeueAfterSync(t)
  <2>1. args' = args /\ UNCHANGED <<chunk, read, chunks, tasks>>
    BY <1>2 DEF dequeueAfterSync, chunkVars
  <2>2. ThreadsType'
    BY <1>2, <2>1, ThreadSteps DEF dequeueAfterSync, VarsType, ThreadsType, Labels
  <2>3. /\ callFromReprocess' \in BOOLEAN /\ lastPacket' \in Packets \cup {NoPacket}
        /\ ofq' \in Seq(PacketOuts) /\ currentSource' \in Insts \cup {0}
    <3>1. originalEvents \in Seq(Held) /\ callFromReprocess \in BOOLEAN
      BY DEF VarsType, FieldsType
    <3>2. dequeueEvent(originalEvents, callFromReprocess)
      BY <1>2 DEF dequeueAfterSync
    <3>3. QED
      BY <3>1, <3>2, DequeuedType
  <2>4. FieldsType'
    BY <1>2, <2>1, <2>3, ArgsKept DEF dequeueAfterSync, VarsType, FieldsType
  <2>5. SyncType'
    BY <1>2, <2>1, <2>3, ArgsKept DEF dequeueAfterSync, VarsType, SyncType
  <2>6. ChannelsType'
    BY <1>2, <2>1, <2>3, ArgsKept DEF dequeueAfterSync, VarsType, ChannelsType
  <2>7. QED
    BY <1>2, <2>1, <2>2, <2>4, <2>5, <2>6, TypeFrame DEF dequeueAfterSync, VarsType
<1>3. CASE checkIfInstFinished(t)
  <2>1. args' = args /\ UNCHANGED <<chunk, read, tasks>>
    BY <1>3 DEF checkIfInstFinished
  <2>2. PICK b \in {"sync", "idle"} : Goto(t, "check", b)
    BY <1>3 DEF checkIfInstFinished
  <2>3. chunks' \in Seq(Chunks) /\ Len(chunks') = Len(chunks)
    <3>1. chunks \in Seq(Chunks)
      BY DEF VarsType, ChunksType
    <3>2. Len(chunks) \in Nat /\ DOMAIN chunks = 1 .. Len(chunks)
          /\ \A c \in 1 .. Len(chunks) : chunks[c] \in Chunks
      BY <3>1, LenProperties, ElementOfSeq
    <3>3. \A c \in 1 .. Len(chunks) : [chunks[c] EXCEPT !.live = FALSE] \in Chunks
      BY <3>2 DEF Chunks
    <3>4. \/ UNCHANGED chunks
          \/ chunks' = [c \in 1 .. Len(chunks) |-> [chunks[c] EXCEPT !.live = FALSE]]
      BY <1>3, <3>2 DEF checkIfInstFinished
    <3>5. QED
      BY <3>1, <3>2, <3>3, <3>4
  <2>4. ThreadsType'
    <3>1. b \in Labels /\ b \notin {"putAck", "chunkAck", "compare"} /\ Len(chunks) <= Len(chunks')
      BY <2>3, LenProperties DEF Labels, VarsType, ChunksType
    <3>2. QED
      BY <2>1, <2>2, <2>3, <3>1, ThreadSteps DEF VarsType, ThreadsType
  <2>5. ChunksType'
    BY <2>1, <2>3, ArgsKept DEF VarsType, ChunksType
  <2>6. acked' \in [Kinds -> BOOLEAN]
    BY <1>3 DEF checkIfInstFinished, VarsType, SyncType
  <2>7. SyncType'
    BY <1>3, <2>1, <2>6, ArgsKept DEF checkIfInstFinished, VarsType, SyncType
  <2>8. QED
    BY <1>3, <2>1, <2>4, <2>5, <2>7, TypeFrame DEF checkIfInstFinished, VarsType
<1>4. QED
  BY <1>1, <1>2, <1>3

(* obtainStateChunk: the table has a chunk of the hashkey afterwards.      *)
LEMMA ObtainType ==
  ASSUME VarsType, NEW h \in StateKeys, NEW r \in Cargo
  PROVE  /\ Obtain(h, r) \in Seq(Chunks) /\ Len(Obtain(h, r)) >= Len(chunks)
         /\ \E c \in DOMAIN Obtain(h, r) : Obtain(h, r)[c].live /\ Obtain(h, r)[c].hashkey = h
<1>1. chunks \in Seq(Chunks) /\ Len(chunks) \in Nat /\ DOMAIN chunks = 1 .. Len(chunks)
  BY LenProperties DEF VarsType, ChunksType
<1>2. CASE Live(h) # {}
  <2>1. PICK c : c \in Live(h) /\ c = CHOOSE x \in Live(h) : TRUE
    BY <1>2
  <2>2. c \in 1 .. Len(chunks) /\ chunks[c] \in Chunks /\ chunks[c].live /\ chunks[c].hashkey = h
    BY <1>1, <2>1, ElementOfSeq DEF Live
  <2>3. PICK d : d = [chunks[c] EXCEPT !.rec = r, !.dsts = Insts \ {currentSource}]
    OBVIOUS
  <2>4. d \in Chunks /\ d.live /\ d.hashkey = h
    BY <2>2, <2>3 DEF Chunks
  <2>5. Obtain(h, r) = [chunks EXCEPT ![c] = d]
    BY <1>2, <2>1, <2>3 DEF Obtain
  <2>6. /\ Obtain(h, r) \in Seq(Chunks) /\ Len(Obtain(h, r)) = Len(chunks)
        /\ Obtain(h, r)[c] = d
    BY <1>1, <2>2, <2>4, <2>5, ExceptSeq
  <2>7. QED
    BY <1>1, <2>2, <2>4, <2>6, LenProperties
<1>3. CASE Live(h) = {}
  <2>1. PICK d : d = [hashkey |-> h, rec |-> r, dsts |-> Insts \ {currentSource}, acks |-> 0,
                      live |-> TRUE]
    OBVIOUS
  <2>2. d \in Chunks /\ d.live /\ d.hashkey = h
    BY <2>1 DEF Chunks
  <2>3. Obtain(h, r) = Append(chunks, d)
    BY <1>3, <2>1 DEF Obtain
  <2>4. /\ Obtain(h, r) \in Seq(Chunks) /\ Len(Obtain(h, r)) = Len(chunks) + 1
        /\ Obtain(h, r)[Len(chunks) + 1] = d
    BY <1>1, <2>2, <2>3, QueueType
  <2>5. Len(chunks) + 1 \in DOMAIN Obtain(h, r)
    BY <1>1, <2>4, LenProperties
  <2>6. QED
    BY <1>1, <2>2, <2>4, <2>5
<1>4. QED
  BY <1>2, <1>3

(* More chunks: what named one names it still.                             *)
LEMMA MoreChunks ==
  ASSUME VarsType, NEW cs \in Seq(Chunks), Len(cs) >= Len(chunks)
  PROVE  /\ 1 .. Len(chunks) \subseteq 1 .. Len(cs) /\ Len(cs) \in Nat
         /\ tasks \in Seq(1 .. Len(cs))
<1>1. Len(chunks) \in Nat /\ Len(cs) \in Nat
  BY LenProperties DEF VarsType, ChunksType
<1>2. 1 .. Len(chunks) \subseteq 1 .. Len(cs)
  BY <1>1
<1>3. QED
  BY <1>1, <1>2, SeqMonotonic DEF VarsType, ChunksType

(* State of the source arrives.                                            *)
LEMMA StateTypes ==
  ASSUME VarsType, NEW i \in Insts
  PROVE  receiveState(i) \/ receiveGetAck(i) \/ setGetCount(i) => VarsType'
<1>0. <<"ss", i>> \in Threads
  BY ThreadsOf
<1>1. CASE receiveState(i)
  <2>1. PICK m : m = Head(stateOut[i])
    OBVIOUS
  <2>2. /\ args' = args /\ UNCHANGED <<pc, chunk, read, eventOut, ofq>>
        /\ stateOut[i] # <<>> /\ m.type = "State" /\ stateOut' = [stateOut EXCEPT ![i] = Tail(@)]
    BY <1>1, <2>1 DEF receiveState, FromState, threads
  <2>3. /\ stateOut' \in [Insts -> Seq(Answers)] /\ m \in Answers
    BY <2>1, <2>2, ReceivedType
  <2>4. m.hashkey \in StateKeys /\ m.rec \in Cargo
    BY <2>2, <2>3, MessageTypes
  <2>5. PICK cs : cs = Obtain(m.hashkey, m.rec)
    OBVIOUS
  <2>6. /\ cs \in Seq(Chunks) /\ Len(cs) >= Len(chunks)
        /\ \E c \in DOMAIN cs : cs[c].live /\ cs[c].hashkey = m.hashkey
    BY <2>4, <2>5, ObtainType
  <2>7. /\ 1 .. Len(chunks) \subseteq 1 .. Len(cs) /\ tasks \in Seq(1 .. Len(cs))
        /\ DOMAIN cs = 1 .. Len(cs)
    BY <2>6, MoreChunks, LenProperties
  <2>8. chunks' = cs
    BY <1>1, <2>1, <2>5 DEF receiveState
  <2>9. tasks' \in Seq(1 .. Len(cs))
    <3>1. CASE args.strict
      BY <1>1, <2>7, <3>1 DEF receiveState
    <3>2. CASE ~args.strict
      <4>1. PICK c : c = CHOOSE x \in DOMAIN cs : cs[x].live /\ cs[x].hashkey = m.hashkey
        OBVIOUS
      <4>2. c \in 1 .. Len(cs)
        BY <2>6, <2>7, <4>1
      <4>3. tasks' = Append(tasks, c)
        BY <1>1, <2>1, <2>5, <3>2, <4>1 DEF receiveState
      <4>4. QED
        BY <2>7, <4>2, <4>3, QueueType
    <3>3. QED
      BY <3>1, <3>2
  <2>10. ChunksType'
    BY <2>2, <2>6, <2>8, <2>9, ArgsKept DEF ChunksType
  <2>11. ThreadsType'
    BY <2>2, <2>7, <2>8, ArgsKept DEF VarsType, ThreadsType
  <2>12. stateIn' \in [Insts -> Seq(Requests)]
    <3>1. PICK p : p = Puts(m.hashkey, m.rec)
      OBVIOUS
    <3>2. p \in Requests
      BY <2>4, <3>1 DEF Puts, Requests
    <3>3. stateIn \in [Insts -> Seq(Requests)]
      BY DEF VarsType, ChannelsType
    <3>4. \A j \in Insts : Append(stateIn[j], p) \in Seq(Requests)
      BY <3>2, <3>3, AppendProperties
    <3>5. \/ UNCHANGED stateIn
          \/ stateIn' = [j \in Insts |-> IF j = currentSource THEN stateIn[j] ELSE Append(stateIn[j], p)]
      BY <1>1, <2>1, <3>1 DEF receiveState
    <3>6. QED
      BY <3>3, <3>4, <3>5
  <2>13. ChannelsType'
    BY <2>2, <2>3, <2>12, ArgsKept DEF VarsType, ChannelsType
  <2>14. QED
    BY <1>1, <2>2, <2>10, <2>11, <2>13, TypeFrame DEF receiveState, VarsType
<1>2. CASE receiveGetAck(i)
  <2>1. /\ args' = args /\ UNCHANGED <<chunk, chunks>> /\ stateOut[i] # <<>>
        /\ Head(stateOut[i]).type = "GetAck" /\ stateOut' = [stateOut EXCEPT ![i] = Tail(@)]
    BY <1>2 DEF receiveGetAck, FromState, chunkVars
  <2>2. /\ stateOut' \in [Insts -> Seq(Answers)] /\ Head(stateOut[i]) \in Answers
    BY <2>1, ReceivedType
  <2>3. Head(stateOut[i]).kind \in Kinds /\ Head(stateOut[i]).count \in Nat
    BY <2>1, <2>2, MessageTypes
  <2>4. read' \in [Threads -> [kind : Kinds, count : Nat]]
    BY <1>0, <1>2, <2>3 DEF receiveGetAck, VarsType, ThreadsType
  <2>5. ThreadsType'
    <3>1. Goto(<<"ss", i>>, "idle", "getAck") /\ chunk' \in [Threads -> Nat] /\ "getAck" \in Labels
      BY <1>2, <2>1 DEF receiveGetAck, VarsType, ThreadsType, Labels
    <3>2. QED
      BY <1>0, <2>1, <2>4, <3>1, ThreadSteps
  <2>6. SyncType'
    BY <1>2, <2>1, <2>3, ArgsKept DEF receiveGetAck, VarsType, SyncType
  <2>7. ChannelsType'
    BY <1>2, <2>1, <2>2, ArgsKept DEF receiveGetAck, VarsType, ChannelsType
  <2>8. QED
    BY <1>2, <2>1, <2>5, <2>6, <2>7, TypeFrame DEF receiveGetAck, VarsType
<1>3. CASE setGetCount(i)
  <2>1. args' = args /\ UNCHANGED <<chunk, chunks>>
    BY <1>3 DEF setGetCount, chunkVars
  <2>2. read[<<"ss", i>>].kind \in Kinds /\ read[<<"ss", i>>].count \in Nat
    BY <1>0 DEF VarsType, ThreadsType
  <2>3. read' \in [Threads -> [kind : Kinds, count : Nat]]
    BY <1>0, <1>3 DEF setGetCount, VarsType, ThreadsType, NoRead, Kinds
  <2>4. ThreadsType'
    <3>1. Goto(<<"ss", i>>, "getAck", "check") /\ chunk' \in [Threads -> Nat] /\ "check" \in Labels
      BY <1>3, <2>1 DEF setGetCount, VarsType, ThreadsType, Labels
    <3>2. QED
      BY <1>0, <2>1, <2>3, <3>1, ThreadSteps
  <2>5. SyncType'
    BY <1>3, <2>1, <2>2, ArgsKept DEF setGetCount, VarsType, SyncType
  <2>6. QED
    BY <1>3, <2>1, <2>4, <2>5, TypeFrame DEF setGetCount, VarsType
<1>4. QED
  BY <1>1, <1>2, <1>3

(* A pool thread sends what a chunk holds.                                 *)
LEMMA PoolTypes ==
  ASSUME VarsType, Pool
  PROVE  VarsType'
<1>1. PICK n \in DOMAIN tasks : callChunk(n)
  BY DEF Pool
<1>2. args' = args
  BY <1>1 DEF callChunk
<1>3. /\ chunks \in Seq(Chunks) /\ tasks \in Seq(1 .. Len(chunks)) /\ n \in 1 .. Len(tasks)
      /\ Len(tasks) \in Nat /\ \A k \in 1 .. Len(tasks) : tasks[k] \in 1 .. Len(chunks)
  BY LenProperties, ElementOfSeq DEF VarsType, ChunksType
<1>4. PICK c : c = chunks[tasks[n]]
  OBVIOUS
<1>5. c \in Chunks
  BY <1>3, <1>4, ElementOfSeq
<1>6. PICK p : p = Puts(c.hashkey, c.rec)
  OBVIOUS
<1>7. p \in Requests
  BY <1>5, <1>6 DEF Puts, Requests, Chunks
<1>8. stateIn' \in [Insts -> Seq(Requests)]
  <2>1. stateIn \in [Insts -> Seq(Requests)]
    BY DEF VarsType, ChannelsType
  <2>2. \A j \in Insts : Append(stateIn[j], p) \in Seq(Requests)
    BY <1>7, <2>1, AppendProperties
  <2>3. stateIn' = [j \in Insts |-> IF j \in c.dsts THEN Append(stateIn[j], p) ELSE stateIn[j]]
    BY <1>1, <1>4, <1>6 DEF callChunk
  <2>4. QED
    BY <2>1, <2>2, <2>3
<1>9. tasks' \in Seq(1 .. Len(chunks))
  <2>1. /\ SubSeq(tasks, 1, n - 1) \in Seq(1 .. Len(chunks))
        /\ SubSeq(tasks, n + 1, Len(tasks)) \in Seq(1 .. Len(chunks))
    BY <1>3, SubSeqProperties
  <2>2. tasks' = SubSeq(tasks, 1, n - 1) \o SubSeq(tasks, n + 1, Len(tasks))
    BY <1>1 DEF callChunk, RemoveAt
  <2>3. QED
    BY <2>1, <2>2, ConcatProperties
<1>10. ChunksType' /\ ChannelsType'
  BY <1>1, <1>2, <1>3, <1>8, <1>9, ArgsKept, SentType DEF callChunk, ChunksType
<1>11. QED
  BY <1>1, <1>2, <1>10, TypeFrame DEF callChunk, VarsType

(* A thread has a chunk of the table, and stays with it.                   *)
LEMMA ChunkSteps ==
  ASSUME VarsType, args' = args, NEW t \in Threads, NEW a, NEW b \in Labels, Goto(t, a, b),
         chunk' \in [Threads -> Nat], \A u \in Threads : u # t => chunk'[u] = chunk[u],
         read' \in [Threads -> [kind : Kinds, count : Nat]],
         chunks' \in Seq(Chunks), Len(chunks') >= Len(chunks), chunk'[t] \in 1 .. Len(chunks')
  PROVE  ThreadsType'
<1>1. /\ pc' \in [Threads -> Labels] /\ pc'[t] = b
      /\ \A u \in Threads : u # t => pc'[u] = pc[u]
  BY GotoType
<1>2. 1 .. Len(chunks) \subseteq 1 .. Len(chunks')
  BY MoreChunks
<1>3. \A u \in Threads : pc'[u] \in {"putAck", "chunkAck", "compare"} => chunk'[u] \in 1 .. Len(chunks')
  BY <1>1, <1>2 DEF VarsType, ThreadsType
<1>4. QED
  BY <1>1, <1>3, ArgsKept DEF ThreadsType

(* Acks of an instance that got state.                                     *)
LEMMA PutAckTypes ==
  ASSUME VarsType, NEW i \in Insts
  PROVE  receivePutAck(i) \/ incrementPutAcks(i) \/ incrementAcked(i) \/ compareAcked(i) => VarsType'
<1>0. PICK t \in Threads : t = <<"se", i>>
  BY ThreadsOf
<1>1. CASE receivePutAck(i)
  <2>1. /\ args' = args /\ UNCHANGED <<tasks, stateIn, stateOut, ofq>> /\ Goto(t, "idle", "putAck")
        /\ eventOut[i] # <<>> /\ Head(eventOut[i]).type = "PutAck"
        /\ eventOut' = [eventOut EXCEPT ![i] = Tail(@)]
    BY <1>0, <1>1 DEF receivePutAck, FromEvent
  <2>2. eventOut' \in [Insts -> Seq(Events)] /\ Head(eventOut[i]) \in Events
    BY <2>1, ReceivedType
  <2>3. PICK h : h = Head(eventOut[i]).hashkey
    OBVIOUS
  <2>4. h \in StateKeys /\ h.kind \in Kinds
    BY <2>1, <2>2, <2>3, MessageTypes
  <2>5. chunks \in Seq(Chunks) /\ Len(chunks) \in Nat /\ DOMAIN chunks = 1 .. Len(chunks)
    BY LenProperties DEF VarsType, ChunksType
  <2>6. PICK d : d = [hashkey |-> h, rec |-> NoRecord, dsts |-> {}, acks |-> 0, live |-> TRUE]
    OBVIOUS
  <2>7. d \in Chunks /\ d.live /\ d.hashkey = h
    <3>1. NoRecord \in Cargo
      <4>1. <<>> \in Seq(Records) /\ 0 \in 0 .. MaxTime
        BY ShareAssumption
      <4>2. QED
        BY <4>1 DEF NoRecord, Cargo
    <3>2. QED
      BY <2>4, <2>6, <3>1 DEF Chunks
  <2>8. chunks' = IF Live(h) # {} THEN chunks ELSE Append(chunks, d)
    BY <1>1, <2>3, <2>6 DEF receivePutAck
  <2>9. /\ chunks' \in Seq(Chunks) /\ Len(chunks') >= Len(chunks)
        /\ \E c \in 1 .. Len(chunks') : chunks'[c].live /\ chunks'[c].hashkey = h
    <3>1. CASE Live(h) # {}
      BY <2>5, <2>8, <3>1 DEF Live
    <3>2. CASE Live(h) = {}
      <4>1. /\ chunks' \in Seq(Chunks) /\ Len(chunks') = Len(chunks) + 1
            /\ chunks'[Len(chunks) + 1] = d
        BY <2>5, <2>7, <2>8, <3>2, QueueType
      <4>2. Len(chunks) + 1 \in 1 .. Len(chunks')
        BY <2>5, <4>1
      <4>3. QED
        BY <2>5, <2>7, <4>1, <4>2
    <3>3. QED
      BY <3>1, <3>2
  <2>10. PICK c : c = CHOOSE x \in DOMAIN chunks' : chunks'[x].live /\ chunks'[x].hashkey = h
    OBVIOUS
  <2>11. c \in 1 .. Len(chunks') /\ Len(chunks') \in Nat
    BY <2>9, <2>10, LenProperties
  <2>12. chunk' = [chunk EXCEPT ![t] = c]
    BY <1>0, <1>1, <2>3, <2>10 DEF receivePutAck
  <2>13. /\ chunk' \in [Threads -> Nat] /\ chunk'[t] = c
         /\ \A u \in Threads : u # t => chunk'[u] = chunk[u]
    BY <2>11, <2>12 DEF VarsType, ThreadsType
  <2>14. read' \in [Threads -> [kind : Kinds, count : Nat]]
    <3>1. putAcks[h.kind] \in Nat
      BY <2>4 DEF VarsType, SyncType
    <3>2. read' = [read EXCEPT ![t].count = putAcks[h.kind]]
      BY <1>0, <1>1, <2>3 DEF receivePutAck
    <3>3. QED
      BY <3>1, <3>2 DEF VarsType, ThreadsType
  <2>15. ThreadsType'
    <3>1. "putAck" \in Labels
      BY DEF Labels
    <3>2. QED
      BY <2>1, <2>9, <2>11, <2>13, <2>14, <3>1, ChunkSteps
  <2>16. ChunksType'
    BY <2>1, <2>9, MoreChunks, ArgsKept DEF ChunksType
  <2>17. ChannelsType'
    BY <2>1, <2>2, ArgsKept DEF VarsType, ChannelsType
  <2>18. QED
    BY <1>1, <2>1, <2>15, <2>16, <2>17, TypeFrame DEF receivePutAck, VarsType
<1>2. CASE incrementPutAcks(i)
  <2>1. args' = args /\ UNCHANGED <<chunk, chunks>> /\ Goto(t, "putAck", "chunkAck")
    BY <1>0, <1>2 DEF incrementPutAcks, chunkVars
  <2>2. chunks \in Seq(Chunks) /\ chunk \in [Threads -> Nat] /\ chunk[t] \in 1 .. Len(chunks)
    BY <2>1 DEF VarsType, ChunksType, ThreadsType, Goto
  <2>3. chunks[chunk[t]] \in Chunks
    BY <2>2, ElementOfSeq
  <2>4. chunks[chunk[t]].hashkey \in StateKeys /\ chunks[chunk[t]].acks \in Nat
    BY <2>3 DEF Chunks
  <2>5. chunks[chunk[t]].hashkey.kind \in Kinds /\ read[t].count \in Nat
    BY <2>4, MessageTypes DEF VarsType, ThreadsType
  <2>6. read' \in [Threads -> [kind : Kinds, count : Nat]]
    BY <1>0, <1>2, <2>4 DEF incrementPutAcks, VarsType, ThreadsType
  <2>7. ThreadsType'
    <3>1. "chunkAck" \in Labels /\ Len(chunks') >= Len(chunks)
      BY <2>1, <2>2, LenProperties DEF Labels
    <3>2. QED
      BY <2>1, <2>2, <2>6, <3>1, ChunkSteps
  <2>8. SyncType'
    <3>1. putAcks' \in [Kinds -> Nat]
      BY <1>0, <1>2, <2>5 DEF incrementPutAcks, VarsType, SyncType
    <3>2. QED
      BY <1>2, <2>1, <3>1, ArgsKept DEF incrementPutAcks, VarsType, SyncType
  <2>9. QED
    BY <1>2, <2>1, <2>7, <2>8, TypeFrame DEF incrementPutAcks, VarsType
<1>3. CASE incrementAcked(i)
  <2>1. args' = args /\ UNCHANGED <<chunk, tasks>> /\ Goto(t, "chunkAck", "compare")
    BY <1>0, <1>3 DEF incrementAcked
  <2>2. chunks \in Seq(Chunks) /\ chunk \in [Threads -> Nat] /\ chunk[t] \in 1 .. Len(chunks)
    BY <2>1 DEF VarsType, ChunksType, ThreadsType, Goto
  <2>3. chunks[chunk[t]] \in Chunks /\ read[t].count \in Nat
    BY <2>2, ElementOfSeq DEF VarsType, ThreadsType
  <2>4. PICK d : d = [chunks[chunk[t]] EXCEPT !.acks = read[t].count + 1]
    OBVIOUS
  <2>5. d \in Chunks
    BY <2>3, <2>4 DEF Chunks
  <2>6. chunks' = [chunks EXCEPT ![chunk[t]] = d]
    BY <1>0, <1>3, <2>4 DEF incrementAcked
  <2>7. chunks' \in Seq(Chunks) /\ Len(chunks') = Len(chunks) /\ Len(chunks) \in Nat
    BY <2>2, <2>5, <2>6, ExceptSeq, LenProperties
  <2>8. read' \in [Threads -> [kind : Kinds, count : Nat]]
    BY <1>0, <1>3 DEF incrementAcked, VarsType, ThreadsType, NoRead, Kinds
  <2>9. ThreadsType'
    <3>1. "compare" \in Labels /\ Len(chunks') >= Len(chunks) /\ chunk'[t] \in 1 .. Len(chunks')
      BY <2>1, <2>2, <2>7 DEF Labels
    <3>2. QED
      BY <2>1, <2>2, <2>7, <2>8, <3>1, ChunkSteps
  <2>10. ChunksType'
    BY <2>1, <2>7, ArgsKept DEF VarsType, ChunksType
  <2>11. QED
    BY <1>3, <2>1, <2>9, <2>10, TypeFrame DEF incrementAcked, VarsType
<1>4. CASE compareAcked(i)
  <2>1. args' = args /\ UNCHANGED <<read, chunks, tasks>>
    BY <1>4 DEF compareAcked, chunkVars
  <2>2. PICK b \in {"check", "idle"} : Goto(t, "compare", b)
    BY <1>0, <1>4 DEF compareAcked
  <2>3. chunk' \in [Threads -> Nat] /\ \A u \in Threads : u # t => chunk'[u] = chunk[u]
    BY <1>0, <1>4 DEF compareAcked, VarsType, ThreadsType
  <2>4. ThreadsType'
    <3>1. b \in Labels /\ read' \in [Threads -> [kind : Kinds, count : Nat]]
      BY <2>1 DEF VarsType, ThreadsType, Labels
    <3>2. QED
      BY <2>1, <2>2, <2>3, <3>1, ThreadSteps
  <2>5. QED
    BY <1>4, <2>1, <2>4, TypeFrame DEF compareAcked, VarsType
<1>5. QED
  BY <1>1, <1>2, <1>3, <1>4

(* The map of reported packets.                                            *)
LEMMA HeldType ==
  ASSUME VarsType, NEW i \in Insts, NEW p \in Packets
  PROVE  PutEvent(p, i) \in Seq(Held) /\ RemoveEvent(p) \in Seq(Held)
<1>1. /\ originalEvents \in Seq(Held) /\ Len(originalEvents) \in Nat
      /\ DOMAIN originalEvents = 1 .. Len(originalEvents)
      /\ \A n \in 1 .. Len(originalEvents) : originalEvents[n] \in Held
  BY LenProperties, ElementOfSeq DEF VarsType, FieldsType
<1>2. PICK e : e = [text |-> p, from |-> i]
  OBVIOUS
<1>3. e \in Held
  BY <1>2 DEF Held
<1>4. PutEvent(p, i) \in Seq(Held)
  <2>1. Append(originalEvents, e) \in Seq(Held)
    BY <1>1, <1>3, QueueType
  <2>2. [n \in 1 .. Len(originalEvents) |->
           IF originalEvents[n].text = p THEN e ELSE originalEvents[n]] \in Seq(Held)
    BY <1>1, <1>3
  <2>3. QED
    BY <1>1, <1>2, <2>1, <2>2 DEF PutEvent
<1>5. RemoveEvent(p) \in Seq(Held)
  <2> DEFINE held == {n \in DOMAIN originalEvents : originalEvents[n].text = p}
  <2>1. CASE held = {}
    BY <1>1, <2>1 DEF RemoveEvent
  <2>2. CASE held # {}
    <3>1. PICK n : n = CHOOSE x \in held : TRUE
      OBVIOUS
    <3>2. n \in 1 .. Len(originalEvents)
      BY <1>1, <2>2, <3>1
    <3>3. /\ SubSeq(originalEvents, 1, n - 1) \in Seq(Held)
          /\ SubSeq(originalEvents, n + 1, Len(originalEvents)) \in Seq(Held)
      BY <1>1, <3>2, SubSeqProperties
    <3>4. RemoveEvent(p) = SubSeq(originalEvents, 1, n - 1)
                             \o SubSeq(originalEvents, n + 1, Len(originalEvents))
      BY <2>2, <3>1 DEF RemoveEvent, RemoveAt
    <3>5. QED
      BY <3>3, <3>4, ConcatProperties
  <2>3. QED
    BY <2>1, <2>2
<1>6. QED
  BY <1>4, <1>5

(* A packet is reported.                                                   *)
LEMMA ReprocessTypes ==
  ASSUME VarsType, NEW i \in Insts, receiveReprocess(i)
  PROVE  VarsType'
<1>1. /\ args' = args /\ UNCHANGED <<executed, eventAckCount, starts, nextInstIndex, isSyncFinished,
                                     chunks, tasks, pc, read, chunk, stateOut>>
      /\ eventOut[i] # <<>> /\ Head(eventOut[i]).type = "Reprocess"
      /\ eventOut' = [eventOut EXCEPT ![i] = Tail(@)]
  BY DEF receiveReprocess, FromEvent, chunkVars, threads
<1>2. PICK p : p = Head(eventOut[i]).pkt
  OBVIOUS
<1>3. eventOut' \in [Insts -> Seq(Events)] /\ p \in Packets
  BY <1>1, <1>2, ReceivedType, MessageTypes
<1>4. Text[p] \in Packets /\ UnitOf[p] \in Units
  BY <1>3, ShareAssumption
<1>5. PutEvent(Text[p], i) \in Seq(Held) /\ RemoveEvent(Text[p]) \in Seq(Held)
  BY <1>4, HeldType
<1>6. /\ executed' \in BOOLEAN /\ nextInstIndex' \in 0 .. args'.n /\ isSyncFinished' \in BOOLEAN
      /\ callFromReprocess \in BOOLEAN /\ lastPacket \in Packets \cup {NoPacket}
  BY <1>1 DEF VarsType, FieldsType
<1>7. CASE /\ originalEvents' = PutEvent(Text[p], i)
           /\ UNCHANGED <<callFromReprocess, lastPacket, syncVars, stateIn, ofq>>
  <2>1. FieldsType' /\ SyncType' /\ ChannelsType'
    BY <1>1, <1>3, <1>5, <1>6, <1>7, ArgsKept
       DEF VarsType, FieldsType, SyncType, ChannelsType, syncVars
  <2>2. QED
    BY <1>1, <2>1, TypeFrame DEF receiveReprocess, VarsType
<1>8. CASE /\ originalEvents' = RemoveEvent(Text[p]) /\ syncFromInstance(i, {UnitOf[p]})
           /\ UNCHANGED <<callFromReprocess, lastPacket, ofq>>
  <2>1. SyncType'
    BY <1>1, <1>4, <1>8, ArgsKept DEF syncFromInstance, ResetSync, SyncType, Large
  <2>2. stateIn' \in [Insts -> Seq(Requests)]
    <3>1. stateIn[i] \o Gets({UnitOf[p]}) \in Seq(Requests)
      BY <1>4, GetsType, ConcatProperties DEF VarsType, ChannelsType
    <3>2. QED
      BY <1>8, <3>1 DEF syncFromInstance, VarsType, ChannelsType
  <2>3. FieldsType' /\ ChannelsType'
    BY <1>1, <1>3, <1>5, <1>6, <1>8, <2>2, ArgsKept DEF VarsType, FieldsType, ChannelsType
  <2>4. QED
    BY <1>1, <2>1, <2>3, TypeFrame DEF receiveReprocess, VarsType
<1>9. CASE /\ originalEvents' = PutEvent(Text[p], i)
           /\ \/ dequeueEvent(PutEvent(Text[p], i), FALSE)
              \/ UNCHANGED <<callFromReprocess, lastPacket, currentSource, ofq>>
           /\ UNCHANGED <<acked, count, putAcks, key, stateIn>>
  <2>1. /\ callFromReprocess' \in BOOLEAN /\ lastPacket' \in Packets \cup {NoPacket}
        /\ ofq' \in Seq(PacketOuts) /\ currentSource' \in Insts \cup {0}
    <3>1. CASE dequeueEvent(PutEvent(Text[p], i), FALSE)
      BY <1>5, <3>1, DequeuedType
    <3>2. CASE UNCHANGED <<callFromReprocess, lastPacket, currentSource, ofq>>
      BY <1>6, <3>2 DEF VarsType, SyncType, ChannelsType
    <3>3. QED
      BY <1>9, <3>1, <3>2
  <2>2. FieldsType' /\ SyncType' /\ ChannelsType'
    BY <1>1, <1>3, <1>5, <1>6, <1>9, <2>1, ArgsKept
       DEF VarsType, FieldsType, SyncType, ChannelsType
  <2>3. QED
    BY <1>1, <2>2, TypeFrame DEF receiveReprocess, VarsType
<1>10. QED
  BY <1>2, <1>7, <1>8, <1>9 DEF receiveReprocess

(* With a record goes the asset of its host, or nothing.                   *)
LEMMA CargoType ==
  ASSUME VarsType, NEW i \in Insts, NEW u \in Units, NEW h, h.unit = u, NEW r \in Records
  PROVE  /\ AssetOf(i, h) = <<>> \/ (h.kind = "pf" /\ "mf" \in StateKinds /\ AssetOf(i, h) = state[i]["mf"][u])
         /\ Copied(r, AssetOf(i, h)) \in Cargo
<1>1. AssetOf(i, h) = <<>> \/ (h.kind = "pf" /\ "mf" \in StateKinds /\ AssetOf(i, h) = state[i]["mf"][u])
  BY DEF AssetOf
<1>2. "mf" \in StateKinds => state[i]["mf"][u] \in Seq(Records)
  BY DEF VarsType, InstancesType
<1>3. <<>> \in Seq(Records)
  OBVIOUS
<1>4. PICK as \in Seq(Records) : as = AssetOf(i, h)
  BY <1>1, <1>2, <1>3
<1>5. Copied(r, as) \in Cargo
  BY DEF Copied, Cargo, Records
<1>6. QED
  BY <1>1, <1>4, <1>5

(* A record that is put is one of an instance.                             *)
LEMMA PutTypes ==
  ASSUME NEW l \in Seq(Records), NEW r \in Records \cup Cargo
  PROVE  /\ Stored(r) \in Records /\ put_asset_per_sip(l, r) \in Seq(Records)
         /\ local_put_perflow(l, r) \in Seq(Records)
<1>1. \A x \in Records : <<x>> \in Seq(Records)
  OBVIOUS
<1>2. r.facts \in SUBSET Packets /\ r.seen \in 0 .. MaxTime
  BY DEF Records, Cargo
<1>3. Stored(r) \in Records
  BY <1>2 DEF Stored, Records
<1>4. l # <<>> => l[1] \in Records
  OBVIOUS
<1>5. l # <<>> => [l[1] EXCEPT !.facts = @ \cup r.facts, !.seen = r.seen] \in Records
  BY <1>2, <1>4 DEF Records
<1>6. put_asset_per_sip(l, r) \in Seq(Records)
  BY <1>1, <1>3, <1>5 DEF put_asset_per_sip
<1>7. local_put_perflow(l, r) \in Seq(Records)
  BY <1>1, <1>3, ConcatProperties DEF local_put_perflow
<1>8. QED
  BY <1>3, <1>6, <1>7

LEMMA InstalledType ==
  ASSUME NEW k, NEW l \in Seq(Records), NEW m, m.rec \in Cargo
  PROVE  Installed(k, l, m) \in Seq(Records)
<1>1. m.rec.asset \in Seq(Records)
  BY DEF Cargo
<1>2. m.rec.asset # <<>> => m.rec.asset[1] \in Records
  BY <1>1
<1>3. put_asset_per_sip(l, m.rec) \in Seq(Records) /\ local_put_perflow(l, m.rec) \in Seq(Records)
  BY PutTypes
<1>4. m.rec.asset # <<>> => put_asset_per_sip(l, m.rec.asset[1]) \in Seq(Records)
  BY <1>2, PutTypes
<1>5. QED
  BY <1>3, <1>4 DEF Installed

(* What an instance exports: messages of state, finitely many.             *)
LEMMA ExportedType ==
  ASSUME VarsType, NEW i \in Insts, NEW k \in StateKinds, NEW us, us \subseteq Units
  PROVE  /\ UNION {Exported(i, k, u) : u \in us} \subseteq StateMsgs
         /\ IsFiniteSet(UNION {Exported(i, k, u) : u \in us})
<1>1. \A u \in Units : state[i][k][u] \in Seq(Records)
  BY DEF VarsType, InstancesType
<1>2. ASSUME NEW u \in Units
      PROVE  Exported(i, k, u) \subseteq StateMsgs /\ IsFiniteSet(Exported(i, k, u))
  <2>1. PICK l : l = state[i][k][u]
    OBVIOUS
  <2>2. /\ Len(l) \in Nat /\ DOMAIN l = 1 .. Len(l)
        /\ \A n \in 1 .. Len(l) : l[n] \in Records
    BY <1>1, <2>1, LenProperties, ElementOfSeq
  <2> DEFINE Key(n) == [kind |-> k, unit |-> u, pos |-> Len(l) - n]
             f == [n \in 1 .. Len(l) |->
                     [type |-> "State", rec |-> Copied(l[n], AssetOf(i, Key(n))), hashkey |-> Key(n)]]
  <2>3. Exported(i, k, u) = {f[n] : n \in 1 .. Len(l)}
    BY <2>1, <2>2 DEF Exported
  <2>4. \A n \in 1 .. Len(l) : Key(n) \in StateKeys /\ Key(n).unit = u
    BY <2>2 DEF StateKeys
  <2>5. \A n \in 1 .. Len(l) : f[n] \in StateMsgs
    <3> HIDE DEF Key
    <3> SUFFICES ASSUME NEW n \in 1 .. Len(l)
                 PROVE  f[n] \in StateMsgs
      OBVIOUS
    <3>1. Copied(l[n], AssetOf(i, Key(n))) \in Cargo
      BY <2>2, <2>4, CargoType
    <3>2. QED
      BY <2>4, <3>1 DEF StateMsgs
  <2>6. f \in Surjection(1 .. Len(l), Exported(i, k, u))
    <3>1. f \in [1 .. Len(l) -> Exported(i, k, u)]
      BY <2>3
    <3>2. \A y \in Exported(i, k, u) : \E n \in 1 .. Len(l) : f[n] = y
      BY <2>3
    <3> HIDE DEF f
    <3>3. QED
      BY <3>1, <3>2 DEF Surjection
  <2>7. IsFiniteSet(1 .. Len(l))
    BY <2>2, FS_Interval
  <2>8. IsFiniteSet(Exported(i, k, u))
    BY <2>6, <2>7, FS_Surjection
  <2>9. QED
    BY <2>3, <2>5, <2>8
<1>3. PICK E : E = [u \in us |-> Exported(i, k, u)]
  OBVIOUS
<1>4. PICK T : T = {Exported(i, k, u) : u \in us}
  OBVIOUS
<1>5. IsFiniteSet(us)
  BY ShareAssumption, FS_Subset
<1>6. E \in Surjection(us, T)
  BY <1>3, <1>4 DEF Surjection
<1>7. IsFiniteSet(T)
  BY <1>5, <1>6, FS_Surjection
<1>8. \A S \in T : IsFiniteSet(S) /\ S \subseteq StateMsgs
  BY <1>2, <1>4
<1>9. IsFiniteSet(UNION T) /\ UNION T \subseteq StateMsgs
  BY <1>7, <1>8, FS_UNION
<1>10. QED
  BY <1>4, <1>9

(* A listing of messages is a sequence of them.                            *)
LEMMA ListingType ==
  ASSUME NEW M, IsFiniteSet(M), NEW ex \in Listings(M)
  PROVE  ex \in Seq(M) /\ Len(ex) \in Nat
<1>1. Cardinality(M) \in Nat
  BY FS_CardinalityType
<1>2. ex \in [1 .. Cardinality(M) -> M]
  BY DEF Listings, SetToSeqs
<1>3. QED
  BY <1>1, <1>2

(* A get is answered by the messages of state, in some order, and an ack.  *)
ExportedMsgs(i, m) == UNION {Exported(i, m.kind, u) : u \in m.units}
AnswerTo(i, m, ex) ==
  [stateOut EXCEPT ![i] = @ \o ex \o <<[type |-> "GetAck", kind |-> m.kind, count |-> Len(ex)]>>]

(* handle_get sends just that.                                             *)
LEMMA GetAnswered ==
  ASSUME NEW i, handle_get(i), NEW m, m = Head(stateIn[i])
  PROVE  \E ex \in Listings(ExportedMsgs(i, m)) : stateOut' = AnswerTo(i, m, ex)
  BY DEF handle_get, ExportedMsgs, AnswerTo

(* The requests an instance serves.                                        *)
LEMMA RequestTypes ==
  ASSUME VarsType, NEW i \in Insts
  PROVE  handle_enable_events(i) \/ handle_get(i) \/ get_unsupported(i) \/ handle_put(i) => VarsType'
<1>0. PICK m : m = Head(stateIn[i])
  OBVIOUS
<1>1. CASE handle_enable_events(i)
  <2>1. args' = args /\ stateIn[i] # <<>> /\ stateIn' = [stateIn EXCEPT ![i] = Tail(@)]
    BY <1>1 DEF handle_enable_events, Request
  <2>2. stateIn' \in [Insts -> Seq(Requests)]
    BY <2>1, ReceivedType
  <2>3. stateOut' \in [Insts -> Seq(Answers)]
    <3>1. [type |-> "EventsAck"] \in Answers
      BY DEF Answers
    <3>2. Append(stateOut[i], [type |-> "EventsAck"]) \in Seq(Answers)
      BY <3>1, AppendProperties DEF VarsType, ChannelsType
    <3>3. QED
      BY <1>1, <3>2 DEF handle_enable_events, VarsType, ChannelsType
  <2>4. ChannelsType'
    BY <1>1, <2>1, <2>2, <2>3, ArgsKept DEF handle_enable_events, VarsType, ChannelsType
  <2>5. InstancesType'
    BY <1>1, <2>1, ArgsKept DEF handle_enable_events, VarsType, InstancesType
  <2>6. QED
    BY <1>1, <2>1, <2>4, <2>5, TypeFrame DEF handle_enable_events, VarsType, chunkVars, threads
<1>2. CASE handle_get(i)
  <2>1. /\ args' = args /\ stateIn[i] # <<>> /\ stateIn' = [stateIn EXCEPT ![i] = Tail(@)]
        /\ m.type = "Get" /\ m.kind \in StateKinds
    BY <1>0, <1>2 DEF handle_get, Request
  <2>2. stateIn' \in [Insts -> Seq(Requests)] /\ m \in Requests
    BY <1>0, <2>1, ReceivedType
  <2>3. m.kind \in Kinds /\ m.units \subseteq Units
    BY <2>1, <2>2, MessageTypes
  <2>4. PICK M : M = ExportedMsgs(i, m)
    OBVIOUS
  <2>5. PICK ex \in Listings(M) : stateOut' = AnswerTo(i, m, ex)
    BY <1>0, <1>2, <2>4, GetAnswered
  <2>6. M \subseteq StateMsgs /\ IsFiniteSet(M)
    BY <2>1, <2>3, <2>4, ExportedType DEF ExportedMsgs
  <2>7. ex \in Seq(M) /\ Len(ex) \in Nat
    BY <2>6, ListingType
  <2>8. ex \in Seq(Answers)
    BY <2>6, <2>7, SeqMonotonic DEF Answers
  <2>9. PICK a : a = [type |-> "GetAck", kind |-> m.kind, count |-> Len(ex)]
    OBVIOUS
  <2>10. <<a>> \in Seq(Answers)
    <3>1. a \in Answers
      BY <2>3, <2>7, <2>9 DEF Answers
    <3>2. QED
      BY <3>1
  <2>11. stateOut' \in [Insts -> Seq(Answers)]
    <3>1. stateOut \in [Insts -> Seq(Answers)]
      BY DEF VarsType, ChannelsType
    <3>2. stateOut[i] \o ex \o <<a>> \in Seq(Answers)
      BY <2>8, <2>10, <3>1, ConcatProperties
    <3>3. stateOut' = [stateOut EXCEPT ![i] = stateOut[i] \o ex \o <<a>>]
      BY <2>5, <2>9 DEF AnswerTo
    <3>4. QED
      BY <3>1, <3>2, <3>3
  <2>12. state' \in [Insts -> [StateKinds -> [Units -> Seq(Records)]]]
    <3>1. PICK l : l = state[i][m.kind]
      OBVIOUS
    <3>2. state \in [Insts -> [StateKinds -> [Units -> Seq(Records)]]] /\ l \in [Units -> Seq(Records)]
      BY <2>1, <3>1 DEF VarsType, InstancesType
    <3>3. PICK l2 : l2 = [u \in Units |-> IF u \in m.units /\ m.kind = "pf" /\ args.strict
                            THEN [n \in DOMAIN l[u] |-> [l[u][n] EXCEPT !.gotten = TRUE]]
                            ELSE l[u]]
      OBVIOUS
    <3>4. \A s \in Seq(Records) : [n \in DOMAIN s |-> [s[n] EXCEPT !.gotten = TRUE]] \in Seq(Records)
      <4> SUFFICES ASSUME NEW s \in Seq(Records)
                   PROVE  [n \in DOMAIN s |-> [s[n] EXCEPT !.gotten = TRUE]] \in Seq(Records)
        OBVIOUS
      <4>1. /\ Len(s) \in Nat /\ DOMAIN s = 1 .. Len(s)
            /\ \A n \in 1 .. Len(s) : s[n] \in Records
        BY LenProperties, ElementOfSeq
      <4>2. \A n \in 1 .. Len(s) : [s[n] EXCEPT !.gotten = TRUE] \in Records
        BY <4>1 DEF Records
      <4>3. QED
        BY <4>1, <4>2
    <3>5. l2 \in [Units -> Seq(Records)]
      BY <3>2, <3>3, <3>4
    <3>6. state' = [state EXCEPT ![i][m.kind] = l2]
      BY <1>0, <1>2, <3>1, <3>3 DEF handle_get
    <3>7. QED
      BY <2>1, <3>2, <3>5, <3>6
  <2>13. ChannelsType'
    BY <1>2, <2>1, <2>2, <2>11, ArgsKept DEF handle_get, VarsType, ChannelsType
  <2>14. InstancesType'
    <3>1. sent' \in [Insts -> SUBSET Units]
      <4>1. PICK D : D \subseteq Units /\ sent' = [sent EXCEPT ![i] = @ \cup D]
        <5>1. PICK D : D = {u \in m.units : m.kind = "pf" /\ Pointing(i, u) # {}}
          OBVIOUS
        <5>2. QED
          BY <1>0, <1>2, <2>3, <5>1 DEF handle_get
      <4>2. QED
        BY <4>1 DEF VarsType, InstancesType
    <3>2. QED
      BY <1>2, <2>1, <2>12, <3>1, ArgsKept DEF handle_get, VarsType, InstancesType
  <2>15. QED
    BY <1>2, <2>1, <2>13, <2>14, TypeFrame DEF handle_get, VarsType, chunkVars, threads
<1>3. CASE get_unsupported(i)
  <2>1. args' = args /\ stateIn[i] # <<>> /\ stateIn' = [stateIn EXCEPT ![i] = Tail(@)]
    BY <1>3 DEF get_unsupported, Request
  <2>2. stateIn' \in [Insts -> Seq(Requests)]
    BY <2>1, ReceivedType
  <2>3. ChannelsType'
    BY <1>3, <2>1, <2>2, SentType DEF get_unsupported
  <2>4. QED
    BY <1>3, <2>1, <2>3, TypeFrame DEF get_unsupported, VarsType, chunkVars, threads
<1>4. CASE handle_put(i)
  <2>1. /\ args' = args /\ stateIn[i] # <<>> /\ stateIn' = [stateIn EXCEPT ![i] = Tail(@)]
        /\ m.type = "Put"
    BY <1>0, <1>4 DEF handle_put, Request
  <2>2. stateIn' \in [Insts -> Seq(Requests)] /\ m \in Requests
    BY <1>0, <2>1, ReceivedType
  <2>3. /\ m.hashkey \in StateKeys /\ m.rec \in Cargo
        /\ m.hashkey.kind \in StateKinds /\ m.hashkey.unit \in Units
    BY <2>1, <2>2, MessageTypes
  <2>4. eventOut' \in [Insts -> Seq(Events)]
    <3>1. PICK a : a = [type |-> "PutAck", hashkey |-> m.hashkey]
      OBVIOUS
    <3>2. a \in Events
      BY <2>3, <3>1 DEF Events
    <3>3. eventOut \in [Insts -> Seq(Events)] /\ Append(eventOut[i], a) \in Seq(Events)
      BY <3>2, AppendProperties DEF VarsType, ChannelsType
    <3>4. eventOut' = [eventOut EXCEPT ![i] = Append(@, a)]
      BY <1>0, <1>4, <3>1 DEF handle_put
    <3>5. QED
      BY <3>3, <3>4
  <2>5. state' \in [Insts -> [StateKinds -> [Units -> Seq(Records)]]]
    <3>1. PICK u \in Units : u = m.hashkey.unit
      BY <2>3
    <3>2. state \in [Insts -> [StateKinds -> [Units -> Seq(Records)]]]
      BY DEF VarsType, InstancesType
    <3>3. \A k \in StateKinds : Installed(k, state[i][k][u], m) \in Seq(Records)
      <4>1. \A k \in StateKinds : state[i][k][u] \in Seq(Records)
        BY <3>2
      <4>2. QED
        BY <2>3, <4>1, InstalledType
    <3>4. PICK s : s = [k \in StateKinds |->
                          [state[i][k] EXCEPT ![u] = Installed(k, state[i][k][u], m)]]
      OBVIOUS
    <3>5. s \in [StateKinds -> [Units -> Seq(Records)]]
      BY <3>2, <3>3, <3>4
    <3>6. state' = [state EXCEPT ![i] = s]
      BY <1>0, <1>4, <3>1, <3>4 DEF handle_put
    <3>7. QED
      BY <3>2, <3>5, <3>6
  <2>6. ChannelsType'
    BY <1>4, <2>1, <2>2, <2>4, ArgsKept DEF handle_put, VarsType, ChannelsType
  <2>7. InstancesType'
    BY <1>4, <2>1, <2>5, ArgsKept DEF handle_put, VarsType, InstancesType
  <2>8. QED
    BY <1>4, <2>1, <2>6, <2>7, TypeFrame DEF handle_put, VarsType, chunkVars, threads
<1>5. QED
  BY <1>1, <1>2, <1>3, <1>4

(* The packets an instance meets.                                          *)
LEMMA PacketTypes ==
  ASSUME VarsType
  PROVE  /\ packetOut => VarsType'
         /\ \A i \in Insts : sdmbn_preprocess_packet(i) \/ process_packet(i) => VarsType'
<1>1. CASE packetOut
  <2>1. args' = args /\ ofq # <<>> /\ ofq' = Tail(ofq)
    BY <1>1 DEF packetOut
  <2>2. ofq' \in Seq(PacketOuts) /\ Head(ofq) \in PacketOuts
    BY <2>1, HeadTailProperties DEF VarsType, ChannelsType
  <2>3. Head(ofq).to \in Insts /\ Head(ofq).pkt \in Packets
    BY <2>2 DEF PacketOuts
  <2>4. InstancesType'
    BY <1>1, <2>1, <2>3, ArgsKept DEF packetOut, VarsType, InstancesType
  <2>5. ChannelsType'
    BY <1>1, <2>1, <2>2, ArgsKept DEF packetOut, VarsType, ChannelsType
  <2>6. QED
    BY <1>1, <2>1, <2>4, <2>5, TypeFrame DEF packetOut, VarsType, chunkVars, threads
<1>2. \A p \in Packets : Reprocess(p) \in Events
  BY DEF Reprocess, Events
<1>3. ASSUME NEW i \in Insts, sdmbn_preprocess_packet(i)
      PROVE  VarsType'
  <2>1. PICK p : p = args.traffic[arrived + 1]
    OBVIOUS
  <2>2. /\ args' = args /\ arrived < Len(args.traffic) /\ arrived' = arrived + 1
    BY <1>3 DEF sdmbn_preprocess_packet
  <2>3. args.traffic \in Seq(Packets) /\ arrived \in 0 .. Len(args.traffic)
    BY ShareAssumption DEF VarsType, InstancesType
  <2>4. p \in Packets /\ arrived' \in 0 .. Len(args.traffic)
    <3>1. Len(args.traffic) \in Nat /\ arrived + 1 \in 1 .. Len(args.traffic)
      BY <2>2, <2>3, LenProperties
    <3>2. QED
      BY <2>1, <2>2, <2>3, <3>1, ElementOfSeq
  <2>5. eventOut' \in [Insts -> Seq(Events)]
    <3>1. eventOut \in [Insts -> Seq(Events)] /\ Append(eventOut[i], Reprocess(p)) \in Seq(Events)
      BY <1>2, <2>4, AppendProperties DEF VarsType, ChannelsType
    <3>2. \/ UNCHANGED eventOut
          \/ eventOut' = [eventOut EXCEPT ![i] = Append(@, Reprocess(p))]
      BY <1>3, <2>1 DEF sdmbn_preprocess_packet
    <3>3. QED
      BY <3>1, <3>2
  <2>6. hand' \in [Insts -> [pkt : Packets \cup {NoPacket}, event : BOOLEAN]]
    <3>1. \/ UNCHANGED hand
          \/ hand' = [hand EXCEPT ![i] = [pkt |-> p, event |-> FALSE]]
      BY <1>3, <2>1 DEF sdmbn_preprocess_packet
    <3>2. /\ hand \in [Insts -> [pkt : Packets \cup {NoPacket}, event : BOOLEAN]]
          /\ [pkt |-> p, event |-> FALSE] \in [pkt : Packets \cup {NoPacket}, event : BOOLEAN]
      BY <2>4 DEF VarsType, InstancesType
    <3>3. QED
      BY <3>1, <3>2
  <2>7. InstancesType'
    BY <1>3, <2>2, <2>4, <2>6, ArgsKept DEF sdmbn_preprocess_packet, VarsType, InstancesType
  <2>8. ChannelsType'
    BY <1>3, <2>2, <2>5, ArgsKept DEF sdmbn_preprocess_packet, VarsType, ChannelsType
  <2>9. QED
    BY <1>3, <2>2, <2>7, <2>8, TypeFrame DEF sdmbn_preprocess_packet, VarsType, chunkVars, threads
<1>4. ASSUME NEW i \in Insts, process_packet(i)
      PROVE  VarsType'
  <2>1. PICK p : p = hand[i].pkt
    OBVIOUS
  <2>2. args' = args /\ p # NoPacket /\ now' \in now .. MaxTime
    BY <1>4, <2>1 DEF process_packet
  <2>3. p \in Packets /\ now' \in 0 .. MaxTime /\ UnitOf[p] \in Units
    BY <2>1, <2>2, ShareAssumption DEF VarsType, InstancesType
  <2>4. PICK u \in Units : u = UnitOf[p]
    BY <2>3
  <2>5. eventOut' \in [Insts -> Seq(Events)]
    <3>1. PICK e : eventOut' = [eventOut EXCEPT ![i] = e]
                   /\ \E a, b \in {<<>>, <<Reprocess(p)>>} : e = eventOut[i] \o a \o b
      BY <1>4, <2>1 DEF process_packet
    <3>2. \A a \in {<<>>, <<Reprocess(p)>>} : a \in Seq(Events)
      <4>1. PICK x \in Events : x = Reprocess(p)
        BY <1>2, <2>3
      <4>2. <<x>> \in Seq(Events) /\ <<>> \in Seq(Events)
        OBVIOUS
      <4>3. QED
        BY <4>1, <4>2
    <3>3. eventOut \in [Insts -> Seq(Events)]
      BY DEF VarsType, ChannelsType
    <3>4. e \in Seq(Events)
      <4>1. PICK a, b \in Seq(Events) : e = eventOut[i] \o a \o b
        BY <3>1, <3>2
      <4>2. eventOut[i] \o a \in Seq(Events)
        BY <3>3, ConcatProperties
      <4>3. QED
        BY <4>1, <4>2, ConcatProperties
    <3>5. QED
      BY <3>1, <3>3, <3>4
  <2>6. state' \in [Insts -> [StateKinds -> [Units -> Seq(Records)]]]
    <3>1. ASSUME NEW l \in Seq(Records), NEW k
          PROVE  Updated(l, k, p, now') \in Seq(Records)
      <4>1. \A r \in Records : <<r>> \in Seq(Records)
        OBVIOUS
      <4>2. [facts |-> {p}, seen |-> now', gotten |-> FALSE] \in Records
        BY <2>3 DEF Records
      <4>3. CASE l # <<>>
        <5>1. l[1] \in Records /\ Tail(l) \in Seq(Records)
          BY <4>3
        <5>2. [l[1] EXCEPT !.facts = @ \cup {p}, !.seen = now'] \in Records
          BY <2>3, <5>1 DEF Records
        <5>3. <<[l[1] EXCEPT !.facts = @ \cup {p}, !.seen = now']>> \o Tail(l) \in Seq(Records)
          BY <4>1, <5>1, <5>2, ConcatProperties
        <5>4. QED
          BY <4>3, <5>3 DEF Updated
      <4>4. CASE l = <<>>
        BY <4>1, <4>2, <4>4 DEF Updated
      <4>5. QED
        BY <4>3, <4>4
    <3>2. state \in [Insts -> [StateKinds -> [Units -> Seq(Records)]]]
      BY DEF VarsType, InstancesType
    <3>3. PICK s : s = [k \in StateKinds |->
                          [state[i][k] EXCEPT ![u] = Updated(state[i][k][u], k, p, now')]]
      OBVIOUS
    <3>4. \A k \in StateKinds :
            [state[i][k] EXCEPT ![u] = Updated(state[i][k][u], k, p, now')] \in [Units -> Seq(Records)]
      BY <3>1, <3>2
    <3>5. s \in [StateKinds -> [Units -> Seq(Records)]]
      BY <3>3, <3>4
    <3>6. state' = [state EXCEPT ![i] = s]
      BY <1>4, <2>1, <2>4, <3>3 DEF process_packet
    <3>7. QED
      BY <3>2, <3>5, <3>6
  <2>7. strays' \subseteq [pkt : Packets, late : BOOLEAN]
    <3>1. strays \subseteq [pkt : Packets, late : BOOLEAN] /\ filter[i] \in BOOLEAN
      BY DEF VarsType, InstancesType
    <3>2. [pkt |-> p, late |-> filter[i]] \in [pkt : Packets, late : BOOLEAN]
      BY <2>3, <3>1
    <3>3. strays' = strays \/ strays' = strays \cup {[pkt |-> p, late |-> filter[i]]}
      BY <1>4, <2>1 DEF process_packet
    <3>4. QED
      BY <3>1, <3>2, <3>3
  <2>8. processed' \in Seq(Packets)
    BY <1>4, <2>1, <2>3, AppendProperties DEF process_packet, VarsType, InstancesType
  <2>9. hand' \in [Insts -> [pkt : Packets \cup {NoPacket}, event : BOOLEAN]]
    BY <1>4 DEF process_packet, EmptyHand, VarsType, InstancesType
  <2>13. assets' \in [Insts -> SUBSET Hashkeys]
    <3>1. PICK D : /\ assets' = [assets EXCEPT ![i] = @ \cup D]
                   /\ D = {[kind |-> k, unit |-> u, pos |-> Len(state'[i][k][u]) - 1] : k \in StateKinds \cap {"pf"}}
      BY <1>4, <2>1, <2>4 DEF process_packet
    <3>2. \A k \in StateKinds : Len(state'[i][k][u]) \in Nat \ {0}
      <4> SUFFICES ASSUME NEW k \in StateKinds
                   PROVE  Len(state'[i][k][u]) \in Nat \ {0}
        OBVIOUS
      <4>1. state[i][k][u] \in Seq(Records) /\ state'[i][k][u] \in Seq(Records)
        BY <2>6 DEF VarsType, InstancesType
      <4>2. state'[i][k][u] = Updated(state[i][k][u], k, p, now')
        <5>1. PICK s : /\ s = [x \in StateKinds |->
                                 [state[i][x] EXCEPT ![u] = Updated(state[i][x][u], x, p, now')]]
                       /\ state' = [state EXCEPT ![i] = s]
          BY <1>4, <2>1, <2>4 DEF process_packet
        <5>2. state'[i] = s
          BY <5>1 DEF VarsType, InstancesType
        <5>3. s[k] = [state[i][k] EXCEPT ![u] = Updated(state[i][k][u], k, p, now')]
          BY <5>1
        <5>4. state[i][k] \in [Units -> Seq(Records)]
          BY DEF VarsType, InstancesType
        <5>5. QED
          BY <5>2, <5>3, <5>4
      <4>3. state'[i][k][u] # <<>>
        <5>1. PICK l \in Seq(Records) : l = state[i][k][u]
          BY <4>1
        <5>2. \A x : <<x>> # <<>> /\ Len(<<x>> \o Tail(l)) # 0
          <6>1. l = <<>> => Tail(l) = <<>>
            OBVIOUS
          <6>2. QED
            OBVIOUS
        <5>3. QED
          BY <4>2, <5>1, <5>2 DEF Updated
      <4>4. QED
        BY <4>1, <4>3
    <3>3. D \subseteq Hashkeys
      BY <3>1, <3>2 DEF Hashkeys, Kinds
    <3>4. QED
      BY <3>1, <3>3 DEF VarsType, InstancesType
  <2>10. InstancesType'
    BY <1>4, <2>2, <2>3, <2>6, <2>7, <2>8, <2>9, <2>13, ArgsKept DEF process_packet, VarsType, InstancesType
  <2>11. ChannelsType'
    BY <1>4, <2>2, <2>5, ArgsKept DEF process_packet, VarsType, ChannelsType
  <2>12. QED
    BY <1>4, <2>2, <2>10, <2>11, TypeFrame DEF process_packet, VarsType, chunkVars, threads
<1>5. QED
  BY <1>1, <1>3, <1>4

(* Every step keeps the types.                                             *)
LEMMA TypeStep ==
  ASSUME VarsType, [Next]_vars
  PROVE  VarsType' /\ args' = args
<1>1. CASE UNCHANGED vars
  <2>1. /\ UNCHANGED <<args, executed, opVars>> /\ UNCHANGED <<eventAckCount, starts>>
        /\ UNCHANGED syncVars /\ UNCHANGED chunkVars /\ UNCHANGED <<threads, chunks>>
        /\ UNCHANGED chanVars /\ UNCHANGED <<nfVars, arrived>>
    BY <1>1 DEF vars, chunkVars
  <2>2. QED
    BY <2>1, TypeFrame DEF VarsType
<1>2. CASE execute
  BY <1>2, StartTypes DEF execute
<1>3. ASSUME NEW i \in Insts, StateThread(i)
      PROVE  VarsType' /\ args' = args
  <2>1. CASE receiveEventsAck(i)
    BY <2>1, StartTypes DEF receiveEventsAck
  <2>2. CASE incrementEventAckCount(i)
    BY <2>2, StartTypes DEF incrementEventAckCount
  <2>3. CASE checkEventAckCount(i)
    BY <2>3, StartTypes DEF checkEventAckCount
  <2>4. CASE receiveState(i)
    BY <2>4, StateTypes DEF receiveState
  <2>5. CASE receiveGetAck(i)
    BY <2>5, StateTypes DEF receiveGetAck
  <2>6. CASE setGetCount(i)
    BY <2>6, StateTypes DEF setGetCount
  <2>7. CASE Thread(<<"ss", i>>)
    <3>1. <<"ss", i>> \in Threads
      BY ThreadsOf
    <3>2. QED
      BY <2>7, <3>1, SyncTypes DEF Thread, syncAllInstances, dequeueAfterSync, checkIfInstFinished
  <2>8. QED
    BY <1>3, <2>1, <2>2, <2>3, <2>4, <2>5, <2>6, <2>7 DEF StateThread
<1>4. ASSUME NEW i \in Insts, EventThread(i)
      PROVE  VarsType' /\ args' = args
  <2>1. CASE receivePutAck(i)
    BY <2>1, PutAckTypes DEF receivePutAck
  <2>2. CASE incrementPutAcks(i)
    BY <2>2, PutAckTypes DEF incrementPutAcks
  <2>3. CASE incrementAcked(i)
    BY <2>3, PutAckTypes DEF incrementAcked
  <2>4. CASE compareAcked(i)
    BY <2>4, PutAckTypes DEF compareAcked
  <2>5. CASE receiveReprocess(i)
    BY <2>5, ReprocessTypes DEF receiveReprocess
  <2>6. CASE Thread(<<"se", i>>)
    <3>1. <<"se", i>> \in Threads
      BY ThreadsOf
    <3>2. QED
      BY <2>6, <3>1, SyncTypes DEF Thread, syncAllInstances, dequeueAfterSync, checkIfInstFinished
  <2>7. QED
    BY <1>4, <2>1, <2>2, <2>3, <2>4, <2>5, <2>6 DEF EventThread
<1>5. ASSUME NEW i \in Insts, InstanceState(i)
      PROVE  VarsType' /\ args' = args
  BY <1>5, RequestTypes
     DEF InstanceState, handle_enable_events, handle_get, get_unsupported, handle_put
<1>6. ASSUME NEW i \in Insts, process_packet(i) \/ sdmbn_preprocess_packet(i)
      PROVE  VarsType' /\ args' = args
  BY <1>6, PacketTypes DEF process_packet, sdmbn_preprocess_packet
<1>7. CASE Pool
  BY <1>7, PoolTypes DEF Pool, callChunk
<1>8. CASE packetOut
  BY <1>8, PacketTypes DEF packetOut
<1>9. QED
  BY <1>1, <1>2, <1>3, <1>4, <1>5, <1>6, <1>7, <1>8 DEF Next

-----------------------------------------------------------------------------
(* Acks of events.                                                         *)

(* Messages of type ty in queue t are those that were in queue s.          *)
NoNew(s, t, ty) == \A n \in 1 .. Len(t) : t[n].type = ty => n \in 1 .. Len(s) /\ s[n].type = ty

(* A step that has nothing to do with the acks of events.                  *)
KeepsFirst ==
  /\ UNCHANGED <<executed, eventAckCount, starts>>
  /\ \A i \in Insts :
       /\ NoNew(stateIn[i], stateIn'[i], "EnableEvents")
       /\ NoNew(stateOut[i], stateOut'[i], "EventsAck")
       /\ Asked(i)' => stateOut'[i] = stateOut[i] \/ stateOut'[i] = <<>>
       /\ Counting(i)' => /\ pc'[<<"ss", i>>] = pc[<<"ss", i>>]
                          /\ read'[<<"ss", i>>] = read[<<"ss", i>>]

(* Fewer instances are left, or as many: the bounds on the counts grow.    *)
LEMMA MoreAcked ==
  ASSUME VarsType, args' = args, Unacked' \subseteq Unacked
  PROVE  /\ Cardinality(Insts \ Unacked) \in Nat /\ Cardinality(Insts \ Unacked)' \in Nat
         /\ Cardinality(Insts \ Unacked) <= Cardinality(Insts \ Unacked)'
<1>1. IsFiniteSet(Insts) /\ Insts' = Insts
  BY InstancesFinite, ArgsKept DEF VarsType
<1>2. IsFiniteSet(Insts \ Unacked') /\ IsFiniteSet(Insts \ Unacked)
  BY <1>1, FS_Difference
<1>3. Insts \ Unacked \in SUBSET (Insts \ Unacked')
  OBVIOUS
<1>4. QED
  BY <1>1, <1>2, <1>3, FS_Subset, FS_CardinalityType

(* The same for the threads that have not compared the count.             *)
LEMMA MoreChecked ==
  ASSUME VarsType, args' = args, Unchecked' \subseteq Unchecked
  PROVE  /\ Cardinality(Insts \ Unchecked) \in Nat /\ Cardinality(Insts \ Unchecked)' \in Nat
         /\ Cardinality(Insts \ Unchecked) <= Cardinality(Insts \ Unchecked)'
<1>1. IsFiniteSet(Insts) /\ Insts' = Insts
  BY InstancesFinite, ArgsKept DEF VarsType
<1>2. IsFiniteSet(Insts \ Unchecked') /\ IsFiniteSet(Insts \ Unchecked)
  BY <1>1, FS_Difference
<1>3. Insts \ Unchecked \in SUBSET (Insts \ Unchecked')
  OBVIOUS
<1>4. QED
  BY <1>1, <1>2, <1>3, FS_Subset, FS_CardinalityType

(* And what a thread has read stays within them.                           *)
LEMMA ReadBound ==
  ASSUME VarsType, args' = args, AckCountInv, Unacked' \subseteq Unacked, NEW i \in Insts,
         pc[<<"ss", i>>] = "eventAck", read'[<<"ss", i>>] = read[<<"ss", i>>]
  PROVE  read'[<<"ss", i>>].count <= Cardinality(Insts \ Unacked)'
<1>1. read[<<"ss", i>>].count \in Nat
  BY ThreadsOf DEF VarsType, ThreadsType
<1>2. read[<<"ss", i>>].count <= Cardinality(Insts \ Unacked)
  BY DEF AckCountInv
<1>3. QED
  BY <1>1, <1>2, MoreAcked

(* Such a step changes nothing about the acks.                             *)
LEMMA FirstKept ==
  ASSUME VarsType, args' = args, FirstInv, AckCountInv, KeepsFirst
  PROVE  FirstInv' /\ AckCountInv'
<1>1. Insts' = Insts
  BY ArgsKept
<1>2. \A i \in Insts : /\ Asked(i)' => Asked(i)
                       /\ Answered(i)' => Answered(i)
                       /\ pc'[<<"ss", i>>] \in {"eventAck", "eventCheck"} => pc'[<<"ss", i>>] = pc[<<"ss", i>>]
  BY DEF KeepsFirst, NoNew, Asked, Answered, Counting
<1>3. Unacked' \subseteq Unacked /\ Unchecked' \subseteq Unchecked
  BY <1>1, <1>2 DEF Unacked, Unchecked, KeepsFirst
<1>4. AckCountInv'
  <2>1. /\ eventAckCount' \in 0 .. Cardinality(Insts \ Unacked)'
        /\ starts' \in 0 .. Cardinality(Insts \ Unchecked)'
    BY <1>3, MoreAcked, MoreChecked DEF AckCountInv, KeepsFirst
  <2>2. ASSUME NEW i \in Insts, pc'[<<"ss", i>>] = "eventAck"
        PROVE  read'[<<"ss", i>>].count <= Cardinality(Insts \ Unacked)'
    <3>1. pc[<<"ss", i>>] = "eventAck" /\ read'[<<"ss", i>>] = read[<<"ss", i>>]
      BY <2>2 DEF KeepsFirst, Counting
    <3>2. QED
      BY <1>3, <3>1, ReadBound
  <2>3. QED
    BY <1>1, <2>1, <2>2 DEF AckCountInv
<1>5. FirstInv'
  <2>1. ASSUME NEW i \in Insts
        PROVE  /\ \A n \in 1 .. Len(stateIn'[i]) : stateIn'[i][n].type = "EnableEvents" =>
                    n = 1 /\ stateOut'[i] = <<>> /\ ~Counting(i)'
               /\ \A n \in 1 .. Len(stateOut'[i]) : stateOut'[i][n].type = "EventsAck" =>
                    n = 1 /\ ~Counting(i)'
    <3>1. Counting(i)' => Counting(i)
      BY <1>2 DEF Counting
    <3>2. ASSUME NEW n \in 1 .. Len(stateIn'[i]), stateIn'[i][n].type = "EnableEvents"
          PROVE  n = 1 /\ stateOut'[i] = <<>> /\ ~Counting(i)'
      <4>1. n \in 1 .. Len(stateIn[i]) /\ stateIn[i][n].type = "EnableEvents" /\ Asked(i)'
        BY <3>2 DEF KeepsFirst, NoNew, Asked
      <4>2. n = 1 /\ stateOut[i] = <<>> /\ ~Counting(i)
        BY <4>1 DEF FirstInv
      <4>3. QED
        BY <3>1, <4>1, <4>2 DEF KeepsFirst
    <3>3. ASSUME NEW n \in 1 .. Len(stateOut'[i]), stateOut'[i][n].type = "EventsAck"
          PROVE  n = 1 /\ ~Counting(i)'
      <4>1. n \in 1 .. Len(stateOut[i]) /\ stateOut[i][n].type = "EventsAck"
        BY <3>3 DEF KeepsFirst, NoNew
      <4>2. QED
        BY <3>1, <4>1 DEF FirstInv
    <3>4. QED
      BY <3>2, <3>3
  <2>2. QED
    BY <1>1, <2>1 DEF FirstInv
<1>6. QED
  BY <1>4, <1>5

(* What is added to a queue, or taken off it, brings no message of type ty. *)
LEMMA NoNewMessages ==
  ASSUME NEW S, NEW s \in Seq(S), NEW ty
  PROVE  /\ NoNew(s, s, ty)
         /\ \A x \in S : x.type # ty => NoNew(s, Append(s, x), ty)
         /\ \A t \in Seq(S) : (\A n \in 1 .. Len(t) : t[n].type # ty) => NoNew(s, s \o t, ty)
         /\ s # <<>> /\ (\A n \in 1 .. Len(s) : s[n].type = ty => n = 1) => NoNew(s, Tail(s), ty)
<1>1. NoNew(s, s, ty)
  BY DEF NoNew
<1>2. ASSUME NEW x \in S, x.type # ty
      PROVE  NoNew(s, Append(s, x), ty)
  BY <1>2, QueueType, LenProperties DEF NoNew
<1>3. ASSUME NEW t \in Seq(S), \A n \in 1 .. Len(t) : t[n].type # ty
      PROVE  NoNew(s, s \o t, ty)
  <2>1. Len(s) \in Nat /\ Len(t) \in Nat
    BY LenProperties
  <2>2. /\ Len(s \o t) = Len(s) + Len(t)
        /\ \A n \in 1 .. Len(s) + Len(t) : (s \o t)[n] = IF n <= Len(s) THEN s[n] ELSE t[n - Len(s)]
    BY ConcatProperties
  <2>3. ASSUME NEW n \in 1 .. Len(s) + Len(t), (s \o t)[n].type = ty
        PROVE  n \in 1 .. Len(s) /\ s[n].type = ty
    <3>1. CASE n <= Len(s)
      BY <2>1, <2>2, <2>3, <3>1
    <3>2. CASE n > Len(s)
      <4>1. n - Len(s) \in 1 .. Len(t)
        BY <2>1, <3>2
      <4>2. QED
        BY <1>3, <2>1, <2>2, <2>3, <3>2, <4>1
    <3>3. QED
      BY <2>1, <3>1, <3>2
  <2>4. QED
    BY <2>2, <2>3 DEF NoNew
<1>4. ASSUME s # <<>>, \A n \in 1 .. Len(s) : s[n].type = ty => n = 1
      PROVE  NoNew(s, Tail(s), ty)
  <2>1. /\ Len(s) \in Nat /\ Len(Tail(s)) = Len(s) - 1
        /\ \A n \in 1 .. Len(Tail(s)) : Tail(s)[n] = s[n + 1]
    BY <1>4, QueueType
  <2>2. ASSUME NEW n \in 1 .. Len(Tail(s)), Tail(s)[n].type = ty
        PROVE  FALSE
    <3>1. n + 1 \in 1 .. Len(s) /\ s[n + 1].type = ty
      BY <2>1, <2>2
    <3>2. n + 1 = 1
      BY <1>4, <3>1
    <3>3. QED
      BY <2>1, <3>2
  <2>3. QED
    BY <2>2 DEF NoNew
<1>5. QED
  BY <1>1, <1>2, <1>3, <1>4

(* A thread moves, and counts no ack of events afterwards.                 *)
LEMMA PcKept ==
  ASSUME VarsType, NEW t \in Threads, NEW a, NEW b \in Labels, Goto(t, a, b),
         b \notin {"eventAck", "eventCheck"}, \A u \in Threads : u # t => read'[u] = read[u]
  PROVE  \A i \in Insts : Counting(i)' => /\ pc'[<<"ss", i>>] = pc[<<"ss", i>>]
                                          /\ read'[<<"ss", i>>] = read[<<"ss", i>>]
<1>1. pc'[t] = b /\ \A u \in Threads : u # t => pc'[u] = pc[u]
  BY GotoType
<1>2. QED
  BY <1>1, ThreadsOf DEF Counting

(* The connections of an instance, when it takes a request off that is not *)
(* the one for events, and when the controller takes off an answer.        *)
LEMMA QueuesKept ==
  ASSUME VarsType, FirstInv, NEW i \in Insts
  PROVE  /\ NoNew(stateIn[i], stateIn[i], "EnableEvents") /\ NoNew(stateOut[i], stateOut[i], "EventsAck")
         /\ stateIn[i] # <<>> => NoNew(stateIn[i], Tail(stateIn[i]), "EnableEvents")
         /\ stateOut[i] # <<>> => NoNew(stateOut[i], Tail(stateOut[i]), "EventsAck")
         /\ \A x \in Requests : x.type # "EnableEvents" =>
              NoNew(stateIn[i], Append(stateIn[i], x), "EnableEvents")
         /\ stateIn[i] # <<>> /\ Head(stateIn[i]).type # "EnableEvents" => ~Asked(i)
         /\ stateOut[i] # <<>> => ~Asked(i)
<1>1. stateIn[i] \in Seq(Requests) /\ stateOut[i] \in Seq(Answers)
  BY DEF VarsType, ChannelsType
<1>2. /\ \A n \in 1 .. Len(stateIn[i]) : stateIn[i][n].type = "EnableEvents" => n = 1 /\ stateOut[i] = <<>>
      /\ \A n \in 1 .. Len(stateOut[i]) : stateOut[i][n].type = "EventsAck" => n = 1
  BY DEF FirstInv
<1>3. /\ NoNew(stateIn[i], stateIn[i], "EnableEvents") /\ NoNew(stateOut[i], stateOut[i], "EventsAck")
  BY <1>1, NoNewMessages
<1>4. /\ stateIn[i] # <<>> => NoNew(stateIn[i], Tail(stateIn[i]), "EnableEvents")
      /\ stateOut[i] # <<>> => NoNew(stateOut[i], Tail(stateOut[i]), "EventsAck")
  BY <1>1, <1>2, NoNewMessages
<1>5. \A x \in Requests : x.type # "EnableEvents" =>
        NoNew(stateIn[i], Append(stateIn[i], x), "EnableEvents")
  BY <1>1, NoNewMessages
<1>6. stateIn[i] # <<>> /\ Head(stateIn[i]).type # "EnableEvents" => ~Asked(i)
  BY <1>1, <1>2, QueueType DEF Asked
<1>7. stateOut[i] # <<>> => ~Asked(i)
  BY <1>2 DEF Asked
<1>8. QED
  BY <1>3, <1>4, <1>5, <1>6, <1>7

(* The threads of the operation after the start.                           *)
LEMMA ThreadKeepsFirst ==
  ASSUME VarsType, FirstInv, NEW t \in Threads, Thread(t)
  PROVE  KeepsFirst
<1>1. UNCHANGED <<read, stateOut, executed, eventAckCount, starts>>
  BY DEF Thread, syncAllInstances, dequeueAfterSync, checkIfInstFinished, chanVars
<1>2. PICK a, b \in {"dequeue", "idle", "sync", "check"} : Goto(t, a, b)
  BY DEF Thread, syncAllInstances, dequeueAfterSync, checkIfInstFinished
<1>3. \A i \in Insts : Counting(i)' => /\ pc'[<<"ss", i>>] = pc[<<"ss", i>>]
                                       /\ read'[<<"ss", i>>] = read[<<"ss", i>>]
  <2>1. b \in Labels
    BY DEF Labels
  <2>2. QED
    BY <1>1, <1>2, <2>1, PcKept
<1>4. \A i \in Insts : NoNew(stateIn[i], stateIn'[i], "EnableEvents")
  <2>1. CASE UNCHANGED stateIn
    BY <2>1, QueuesKept
  <2>2. CASE stateIn' # stateIn
    <3>1. syncFromInstance(nextInstIndex + 1, key)
      BY <2>2 DEF Thread, syncAllInstances, dequeueAfterSync, checkIfInstFinished, chanVars
    <3>2. key \subseteq Units /\ stateIn \in [Insts -> Seq(Requests)]
      BY DEF VarsType, SyncType, ChannelsType
    <3>3. PICK g : g = Gets(key)
      OBVIOUS
    <3>4. g \in Seq(Requests) /\ \A j \in 1 .. Len(g) : g[j].type # "EnableEvents"
      BY <3>2, <3>3, GetsType
    <3>5. stateIn' = [stateIn EXCEPT ![nextInstIndex + 1] = @ \o g]
      BY <3>1, <3>3 DEF syncFromInstance
    <3>6. \A i \in Insts : NoNew(stateIn[i], stateIn[i] \o g, "EnableEvents")
      BY <3>2, <3>4, NoNewMessages
    <3>7. QED
      BY <3>2, <3>5, <3>6, QueuesKept
  <2>3. QED
    BY <2>1, <2>2
<1>5. QED
  BY <1>1, <1>3, <1>4, QueuesKept DEF KeepsFirst

(* State and acks of a get arrive, a task runs.                            *)
LEMMA StateKeepsFirst ==
  ASSUME VarsType, FirstInv, NEW i \in Insts,
         receiveState(i) \/ receiveGetAck(i) \/ setGetCount(i)
  PROVE  KeepsFirst
<1>0. <<"ss", i>> \in Threads
  BY ThreadsOf
<1>1. UNCHANGED <<executed, eventAckCount, starts>>
  BY DEF receiveState, receiveGetAck, setGetCount
<1>2. \/ UNCHANGED stateOut
      \/ stateOut[i] # <<>> /\ stateOut' = [stateOut EXCEPT ![i] = Tail(@)]
  BY DEF receiveState, receiveGetAck, setGetCount, FromState, chanVars
<1>3. stateOut \in [Insts -> Seq(Answers)] /\ stateIn \in [Insts -> Seq(Requests)]
  BY DEF VarsType, ChannelsType
<1>4. \A j \in Insts : NoNew(stateOut[j], stateOut'[j], "EventsAck")
  BY <1>2, <1>3, QueuesKept
<1>5. \A j \in Insts : Counting(j)' => /\ pc'[<<"ss", j>>] = pc[<<"ss", j>>]
                                       /\ read'[<<"ss", j>>] = read[<<"ss", j>>]
  <2>1. CASE receiveState(i)
    BY <2>1 DEF receiveState, threads
  <2>2. CASE receiveGetAck(i)
    <3>1. Goto(<<"ss", i>>, "idle", "getAck") /\ "getAck" \in Labels
      BY <2>2 DEF receiveGetAck, Labels
    <3>2. \A u \in Threads : u # <<"ss", i>> => read'[u] = read[u]
      BY <1>0, <2>2 DEF receiveGetAck, VarsType, ThreadsType
    <3>3. QED
      BY <1>0, <3>1, <3>2, PcKept
  <2>3. CASE setGetCount(i)
    <3>1. Goto(<<"ss", i>>, "getAck", "check") /\ "check" \in Labels
      BY <2>3 DEF setGetCount, Labels
    <3>2. \A u \in Threads : u # <<"ss", i>> => read'[u] = read[u]
      BY <1>0, <2>3 DEF setGetCount, VarsType, ThreadsType
    <3>3. QED
      BY <1>0, <3>1, <3>2, PcKept
  <2>4. QED
    BY <2>1, <2>2, <2>3
<1>6. \A j \in Insts : NoNew(stateIn[j], stateIn'[j], "EnableEvents")
  <2>1. CASE UNCHANGED stateIn
    BY <2>1, QueuesKept
  <2>2. CASE stateIn' # stateIn
    <3>1. PICK m : m = Head(stateOut[i])
      OBVIOUS
    <3>2. PICK p : p = Puts(m.hashkey, m.rec)
      OBVIOUS
    <3>3. /\ stateIn' = [j \in Insts |-> IF j = currentSource THEN stateIn[j] ELSE Append(stateIn[j], p)]
          /\ stateOut[i] # <<>> /\ m.type = "State"
      BY <2>2, <3>1, <3>2 DEF receiveState, receiveGetAck, setGetCount, chanVars, FromState
    <3>4. p \in Requests /\ p.type # "EnableEvents"
      <4>1. m \in Answers
        BY <3>1, <3>3, ReceivedType
      <4>2. m.hashkey \in StateKeys /\ m.rec \in Cargo
        BY <3>3, <4>1, MessageTypes
      <4>3. QED
        BY <3>2, <4>2 DEF Puts, Requests
    <3>5. QED
      BY <3>3, <3>4, QueuesKept
  <2>3. QED
    BY <2>1, <2>2
<1>7. ASSUME NEW j \in Insts, Asked(j)'
      PROVE  stateOut'[j] = stateOut[j]
  <2>1. Asked(j)
    BY <1>6, <1>7 DEF NoNew, Asked
  <2>2. stateOut[j] = <<>>
    BY <2>1, QueuesKept
  <2>3. QED
    BY <1>2, <1>3, <2>2
<1>8. QED
  BY <1>1, <1>4, <1>5, <1>6, <1>7 DEF KeepsFirst

(* A chunk is sent.                                                        *)
LEMMA PoolKeepsFirst ==
  ASSUME VarsType, FirstInv, Pool
  PROVE  KeepsFirst
<1>1. PICK n \in DOMAIN tasks : callChunk(n)
  BY DEF Pool
<1>2. UNCHANGED <<executed, eventAckCount, starts, pc, read, stateOut>>
  BY <1>1 DEF callChunk, threads
<1>3. /\ chunks \in Seq(Chunks) /\ tasks[n] \in 1 .. Len(chunks)
  BY <1>1, LenProperties, ElementOfSeq DEF VarsType, ChunksType
<1>4. PICK c \in Chunks : c = chunks[tasks[n]]
  BY <1>3, ElementOfSeq
<1>5. PICK p : p = Puts(c.hashkey, c.rec)
  OBVIOUS
<1>6. p \in Requests /\ p.type # "EnableEvents"
  BY <1>5 DEF Puts, Requests, Chunks
<1>7. stateIn' = [j \in Insts |-> IF j \in c.dsts THEN Append(stateIn[j], p) ELSE stateIn[j]]
  BY <1>1, <1>4, <1>5 DEF callChunk
<1>8. \A j \in Insts : NoNew(stateIn[j], stateIn'[j], "EnableEvents")
  BY <1>6, <1>7, QueuesKept
<1>9. QED
  BY <1>2, <1>8, QueuesKept DEF KeepsFirst

(* Put acks and reports arrive.                                            *)
LEMMA EventKeepsFirst ==
  ASSUME VarsType, FirstInv, NEW i \in Insts,
         receivePutAck(i) \/ incrementPutAcks(i) \/ incrementAcked(i) \/ compareAcked(i)
           \/ receiveReprocess(i)
  PROVE  KeepsFirst
<1>1. UNCHANGED <<executed, eventAckCount, starts, stateOut>>
  BY DEF receivePutAck, incrementPutAcks, incrementAcked, compareAcked, receiveReprocess, chanVars
<1>2. \A j \in Insts : Counting(j)' => /\ pc'[<<"ss", j>>] = pc[<<"ss", j>>]
                                       /\ read'[<<"ss", j>>] = read[<<"ss", j>>]
  <2>1. CASE receiveReprocess(i)
    BY <2>1 DEF receiveReprocess, threads
  <2>2. CASE ~receiveReprocess(i)
    <3>1. PICK t \in Threads : t = <<"se", i>>
      BY ThreadsOf
    <3>2. PICK a, b \in {"idle", "putAck", "chunkAck", "compare", "check"} : Goto(t, a, b)
      BY <2>2, <3>1 DEF receivePutAck, incrementPutAcks, incrementAcked, compareAcked
    <3>3. \A u \in Threads : u # t => read'[u] = read[u]
      BY <2>2, <3>1 DEF receivePutAck, incrementPutAcks, incrementAcked, compareAcked, VarsType, ThreadsType
    <3>4. b \in Labels
      BY DEF Labels
    <3>5. QED
      BY <3>2, <3>3, <3>4, PcKept
  <2>3. QED
    BY <2>1, <2>2
<1>3. \A j \in Insts : NoNew(stateIn[j], stateIn'[j], "EnableEvents")
  <2>1. CASE UNCHANGED stateIn
    BY <2>1, QueuesKept
  <2>2. CASE stateIn' # stateIn
    <3>1. PICK p : p = Head(eventOut[i]).pkt
      OBVIOUS
    <3>2. syncFromInstance(i, {UnitOf[p]}) /\ eventOut[i] # <<>> /\ Head(eventOut[i]).type = "Reprocess"
      BY <2>2, <3>1 DEF receivePutAck, incrementPutAcks, incrementAcked, compareAcked,
                        receiveReprocess, chanVars, FromEvent
    <3>3. p \in Packets
      BY <3>1, <3>2, ReceivedType, MessageTypes
    <3>4. {UnitOf[p]} \subseteq Units /\ stateIn \in [Insts -> Seq(Requests)]
      BY <3>3, ShareAssumption DEF VarsType, ChannelsType
    <3>5. PICK g : g = Gets({UnitOf[p]})
      OBVIOUS
    <3>6. g \in Seq(Requests) /\ \A j \in 1 .. Len(g) : g[j].type # "EnableEvents"
      BY <3>4, <3>5, GetsType
    <3>7. stateIn' = [stateIn EXCEPT ![i] = @ \o g]
      BY <3>2, <3>5 DEF syncFromInstance
    <3>8. \A j \in Insts : NoNew(stateIn[j], stateIn[j] \o g, "EnableEvents")
      BY <3>4, <3>6, NoNewMessages
    <3>9. QED
      BY <3>4, <3>7, <3>8, QueuesKept
  <2>3. QED
    BY <2>1, <2>2
<1>4. QED
  BY <1>1, <1>2, <1>3, QueuesKept DEF KeepsFirst

(* An instance serves another request than the one for events.             *)
LEMMA RequestKeepsFirst ==
  ASSUME VarsType, FirstInv, NEW i \in Insts, handle_get(i) \/ get_unsupported(i) \/ handle_put(i)
  PROVE  KeepsFirst
<1>1. /\ UNCHANGED <<executed, eventAckCount, starts, pc, read>>
      /\ stateIn[i] # <<>> /\ Head(stateIn[i]).type # "EnableEvents"
      /\ stateIn' = [stateIn EXCEPT ![i] = Tail(@)]
  BY DEF handle_get, get_unsupported, handle_put, Request, threads
<1>2. stateOut \in [Insts -> Seq(Answers)] /\ stateIn \in [Insts -> Seq(Requests)]
  BY DEF VarsType, ChannelsType
<1>3. \A j \in Insts : NoNew(stateIn[j], stateIn'[j], "EnableEvents")
  BY <1>1, <1>2, QueuesKept
<1>4. ~Asked(i) /\ ~Asked(i)'
  <2>1. ~Asked(i)
    BY <1>1, QueuesKept
  <2>2. QED
    BY <1>3, <2>1 DEF NoNew, Asked
<1>5. \A j \in Insts : j # i => stateOut'[j] = stateOut[j]
  BY <1>2 DEF handle_get, get_unsupported, handle_put
<1>6. NoNew(stateOut[i], stateOut'[i], "EventsAck")
  <2>1. CASE UNCHANGED stateOut
    BY <2>1, QueuesKept
  <2>2. CASE stateOut' # stateOut
    <3>1. PICK m : m = Head(stateIn[i])
      OBVIOUS
    <3>2. m.type = "Get" /\ m.kind \in StateKinds /\ m \in Requests
      <4>1. handle_get(i)
        BY <2>2 DEF get_unsupported, handle_put
      <4>2. m.type = "Get" /\ m.kind \in StateKinds
        BY <3>1, <4>1 DEF handle_get, Request
      <4>3. QED
        BY <1>1, <3>1, <4>2, ReceivedType
    <3>3. m.kind \in Kinds /\ m.units \subseteq Units
      BY <3>2, MessageTypes
    <3>4. PICK M : M = ExportedMsgs(i, m)
      OBVIOUS
    <3>5. PICK ex \in Listings(M) : stateOut' = AnswerTo(i, m, ex)
      <4>1. handle_get(i)
        BY <2>2 DEF get_unsupported, handle_put
      <4>2. QED
        BY <3>1, <3>4, <4>1, GetAnswered
    <3>6. M \subseteq StateMsgs /\ IsFiniteSet(M)
      BY <3>2, <3>3, <3>4, ExportedType DEF ExportedMsgs
    <3>7. ex \in Seq(M) /\ Len(ex) \in Nat
      BY <3>6, ListingType
    <3>8. ex \in Seq(Answers) /\ \A n \in 1 .. Len(ex) : ex[n].type # "EventsAck"
      <4>1. ex \in Seq(Answers)
        BY <3>6, <3>7, SeqMonotonic DEF Answers
      <4>2. \A n \in 1 .. Len(ex) : ex[n] \in StateMsgs
        BY <3>6, <3>7, ElementOfSeq
      <4>3. QED
        BY <4>1, <4>2 DEF StateMsgs
    <3>9. PICK a : a = [type |-> "GetAck", kind |-> m.kind, count |-> Len(ex)]
      OBVIOUS
    <3>10. a \in Answers /\ a.type # "EventsAck"
      BY <3>3, <3>7, <3>9 DEF Answers
    <3>11. stateOut'[i] = Append(stateOut[i] \o ex, a)
      <4>1. stateOut'[i] = (stateOut[i] \o ex) \o <<a>>
        BY <1>2, <3>5, <3>9 DEF AnswerTo
      <4>2. stateOut[i] \o ex \in Seq(Answers)
        BY <1>2, <3>8, ConcatProperties
      <4>3. QED
        BY <3>10, <4>1, <4>2, AppendIsConcat
    <3>12. NoNew(stateOut[i], stateOut[i] \o ex, "EventsAck") /\ stateOut[i] \o ex \in Seq(Answers)
      BY <1>2, <3>8, NoNewMessages, ConcatProperties
    <3>13. NoNew(stateOut[i] \o ex, Append(stateOut[i] \o ex, a), "EventsAck")
      BY <3>10, <3>12, NoNewMessages
    <3>14. QED
      BY <3>11, <3>12, <3>13 DEF NoNew
  <2>3. QED
    BY <2>1, <2>2
<1>7. QED
  BY <1>1, <1>3, <1>4, <1>5, <1>6, QueuesKept DEF KeepsFirst

(* Packets have nothing to do with it.                                     *)
LEMMA PacketKeepsFirst ==
  ASSUME VarsType, FirstInv,
         packetOut \/ \E i \in Insts : sdmbn_preprocess_packet(i) \/ process_packet(i)
  PROVE  KeepsFirst
<1>1. UNCHANGED <<executed, eventAckCount, starts, pc, read, stateIn, stateOut>>
  BY DEF packetOut, sdmbn_preprocess_packet, process_packet, threads
<1>2. QED
  BY <1>1, QueuesKept DEF KeepsFirst

(* The steps that ask for events, answer, and count the answers.           *)
LEMMA StartFirst ==
  ASSUME VarsType, IdleInv, FirstInv, AckCountInv, execute
  PROVE  FirstInv' /\ AckCountInv'
<1>1. /\ args' = args /\ ~executed /\ executed'
      /\ UNCHANGED <<eventAckCount, starts, pc, read, stateOut>>
      /\ stateIn' = [i \in Insts |-> Append(stateIn[i], [type |-> "EnableEvents"])]
  BY DEF execute, threads
<1>2. Insts' = Insts
  BY <1>1, ArgsKept
<1>3. /\ \A t \in Threads : pc[t] = "idle"
      /\ \A i \in Insts : stateIn[i] = <<>> /\ stateOut[i] = <<>>
  BY <1>1 DEF IdleInv
<1>4. PICK x : x = [type |-> "EnableEvents"]
  OBVIOUS
<1>5. ASSUME NEW i \in Insts
      PROVE  /\ Len(stateIn'[i]) = 1 /\ Len(stateOut'[i]) = 0 /\ stateOut'[i] = <<>>
             /\ pc'[<<"ss", i>>] = "idle" /\ stateIn'[i][1].type = "EnableEvents"
  <2>1. stateIn'[i] = Append(<<>>, x)
    BY <1>1, <1>3, <1>4
  <2>2. Append(<<>>, x) = <<x>>
    OBVIOUS
  <2>3. Len(stateIn'[i]) = 1 /\ stateIn'[i][1] = x /\ x.type = "EnableEvents"
    BY <1>4, <2>1, <2>2
  <2>4. stateOut'[i] = <<>> /\ pc'[<<"ss", i>>] = "idle"
    BY <1>1, <1>3, ThreadsOf
  <2>5. QED
    BY <2>3, <2>4
<1>6. FirstInv'
  <2>1. ASSUME NEW i \in Insts
        PROVE  /\ \A n \in 1 .. Len(stateIn'[i]) : stateIn'[i][n].type = "EnableEvents" =>
                    n = 1 /\ stateOut'[i] = <<>> /\ ~Counting(i)'
               /\ \A n \in 1 .. Len(stateOut'[i]) : stateOut'[i][n].type = "EventsAck" =>
                    n = 1 /\ ~Counting(i)'
    <3>1. ~Counting(i)'
      BY <1>5 DEF Counting
    <3>2. Len(stateIn'[i]) = 1 /\ Len(stateOut'[i]) = 0 /\ stateOut'[i] = <<>>
      BY <1>5
    <3>3. (\A n \in 1 .. 1 : n = 1) /\ \A n \in 1 .. 0 : FALSE
      OBVIOUS
    <3>4. stateOut'[i] = <<>>
      BY <3>2
    <3>5. QED
      BY <3>1, <3>2, <3>3, <3>4, Zenon
  <2>2. QED
    BY <1>2, <2>1 DEF FirstInv
<1>7. Unacked = Insts /\ Unacked' = Insts /\ Unchecked = Insts /\ Unchecked' = Insts
  <2>1. Unacked = Insts
    BY <1>1 DEF Unacked
  <2>2. Unacked' = Insts
    BY <1>2, <1>5 DEF Unacked, Asked
  <2>3. QED
    BY <1>2, <2>1, <2>2 DEF Unchecked
<1>8. AckCountInv'
  BY <1>1, <1>2, <1>5, <1>7 DEF AckCountInv
<1>9. QED
  BY <1>6, <1>8

(* An instance answers the request for events.                             *)
LEMMA EnableFirst ==
  ASSUME VarsType, FirstInv, AckCountInv, NEW i \in Insts, handle_enable_events(i)
  PROVE  FirstInv' /\ AckCountInv'
<1>1. /\ args' = args /\ UNCHANGED <<executed, eventAckCount, starts, pc, read>>
      /\ stateIn[i] # <<>> /\ Head(stateIn[i]).type = "EnableEvents"
      /\ stateIn' = [stateIn EXCEPT ![i] = Tail(@)]
      /\ stateOut' = [stateOut EXCEPT ![i] = Append(@, [type |-> "EventsAck"])]
  BY DEF handle_enable_events, Request, threads
<1>2. /\ stateIn \in [Insts -> Seq(Requests)] /\ stateOut \in [Insts -> Seq(Answers)] /\ Insts' = Insts
  BY <1>1, ArgsKept DEF VarsType, ChannelsType
<1>3. /\ Len(stateIn[i]) \in Nat \ {0} /\ stateIn[i][1].type = "EnableEvents"
  BY <1>1, <1>2, QueueType
<1>4. stateOut[i] = <<>> /\ ~Counting(i) /\ Asked(i)
  BY <1>3 DEF FirstInv, Asked
<1>5. stateOut'[i] = <<[type |-> "EventsAck"]>> /\ stateIn'[i] = Tail(stateIn[i])
  BY <1>1, <1>2, <1>4
<1>6. \A j \in Insts : j # i => stateOut'[j] = stateOut[j] /\ stateIn'[j] = stateIn[j]
  BY <1>1, <1>2
<1>7. NoNew(stateIn[i], Tail(stateIn[i]), "EnableEvents") /\ Len(stateOut'[i]) = 1
  BY <1>1, <1>5, QueuesKept
<1>8. \A n \in 1 .. Len(stateIn'[i]) : stateIn'[i][n].type # "EnableEvents"
  <2>1. Len(Tail(stateIn[i])) = Len(stateIn[i]) - 1
        /\ \A n \in 1 .. Len(Tail(stateIn[i])) : Tail(stateIn[i])[n] = stateIn[i][n + 1]
    BY <1>1, <1>2, QueueType
  <2>2. \A n \in 1 .. Len(stateIn[i]) : stateIn[i][n].type = "EnableEvents" => n = 1
    BY DEF FirstInv
  <2>3. ASSUME NEW n \in 1 .. Len(Tail(stateIn[i]))
        PROVE  Tail(stateIn[i])[n].type # "EnableEvents"
    <3>1. n + 1 \in 1 .. Len(stateIn[i]) /\ n + 1 # 1
      BY <1>3, <2>1, <2>3
    <3>2. QED
      BY <2>1, <2>2, <2>3, <3>1
  <2>4. stateIn'[i] = Tail(stateIn[i])
    BY <1>5
  <2>5. QED
    BY <2>3, <2>4
<1>9. FirstInv'
  <2>1. \A j \in Insts : Counting(j)' <=> Counting(j)
    BY <1>1 DEF Counting
  <2>2. ASSUME NEW j \in Insts
        PROVE  /\ \A n \in 1 .. Len(stateIn'[j]) : stateIn'[j][n].type = "EnableEvents" =>
                    n = 1 /\ stateOut'[j] = <<>> /\ ~Counting(j)'
               /\ \A n \in 1 .. Len(stateOut'[j]) : stateOut'[j][n].type = "EventsAck" =>
                    n = 1 /\ ~Counting(j)'
    <3>1. CASE j = i
      BY <1>4, <1>7, <1>8, <2>1, <3>1
    <3>2. CASE j # i
      BY <1>6, <2>1, <3>2 DEF FirstInv
    <3>3. QED
      BY <3>1, <3>2
  <2>3. QED
    BY <1>2, <2>2 DEF FirstInv
<1>10. Unacked' \subseteq Unacked /\ Unchecked' \subseteq Unchecked
  <2>1. i \in Unacked
    BY <1>4 DEF Unacked
  <2>2. \A j \in Insts : j # i => (Asked(j)' <=> Asked(j)) /\ (Answered(j)' <=> Answered(j))
    BY <1>6 DEF Asked, Answered
  <2>3. Unacked' \subseteq Unacked
    BY <1>1, <1>2, <2>1, <2>2 DEF Unacked
  <2>4. QED
    BY <1>1, <1>2, <2>3 DEF Unchecked
<1>11. AckCountInv'
  <2>1. /\ eventAckCount' \in 0 .. Cardinality(Insts \ Unacked)'
        /\ starts' \in 0 .. Cardinality(Insts \ Unchecked)'
    BY <1>1, <1>10, MoreAcked, MoreChecked DEF AckCountInv
  <2>2. \A j \in Insts : pc'[<<"ss", j>>] = "eventAck" =>
          read'[<<"ss", j>>].count <= Cardinality(Insts \ Unacked)'
    <3>1. read' = read /\ pc' = pc
      BY <1>1
    <3>2. QED
      BY <1>1, <1>10, <3>1, ReadBound
  <2>3. QED
    BY <1>2, <2>1, <2>2 DEF AckCountInv
<1>12. QED
  BY <1>9, <1>11

(* Its ack arrives, and the count is read.                                 *)
LEMMA ReceiveAckFirst ==
  ASSUME VarsType, IdleInv, FirstInv, AckCountInv, NEW i \in Insts, receiveEventsAck(i)
  PROVE  FirstInv' /\ AckCountInv'
<1>0. PICK t \in Threads : t = <<"ss", i>>
  BY ThreadsOf
<1>1. /\ args' = args /\ UNCHANGED <<executed, eventAckCount, starts, stateIn>>
      /\ Goto(t, "idle", "eventAck") /\ stateOut[i] # <<>> /\ Head(stateOut[i]).type = "EventsAck"
      /\ stateOut' = [stateOut EXCEPT ![i] = Tail(@)]
      /\ read' = [read EXCEPT ![t].count = eventAckCount]
  BY <1>0 DEF receiveEventsAck, FromState
<1>2. /\ stateIn \in [Insts -> Seq(Requests)] /\ stateOut \in [Insts -> Seq(Answers)] /\ Insts' = Insts
  BY <1>1, ArgsKept DEF VarsType, ChannelsType
<1>3. Len(stateOut[i]) \in Nat \ {0} /\ stateOut[i][1].type = "EventsAck" /\ Answered(i)
  <2>1. stateOut[i] \in Seq(Answers)
    BY <1>2
  <2>2. Len(stateOut[i]) \in Nat \ {0} /\ stateOut[i][1].type = "EventsAck"
    BY <1>1, <2>1, QueueType
  <2>3. 1 \in 1 .. Len(stateOut[i])
    BY <2>2
  <2>4. QED
    BY <2>2, <2>3 DEF Answered
<1>4. ~Asked(i) /\ ~Asked(i)'
  BY <1>1, QueuesKept DEF Asked
<1>5. /\ pc[t] = "idle" /\ pc'[t] = "eventAck" /\ \A u \in Threads : u # t => pc'[u] = pc[u]
  <2>1. "eventAck" \in Labels
    BY DEF Labels
  <2>2. QED
    BY <1>1, <2>1, GotoType
<1>6. /\ \A j \in Insts : j # i => /\ pc'[<<"ss", j>>] = pc[<<"ss", j>>] /\ stateOut'[j] = stateOut[j]
                                   /\ read'[<<"ss", j>>] = read[<<"ss", j>>]
      /\ stateOut'[i] = Tail(stateOut[i]) /\ read'[t].count = eventAckCount
  BY <1>0, <1>1, <1>2, <1>5, ThreadsOf DEF VarsType, ThreadsType
<1>7. \A n \in 1 .. Len(stateOut'[i]) : stateOut'[i][n].type # "EventsAck"
  <2>1. Len(Tail(stateOut[i])) = Len(stateOut[i]) - 1
        /\ \A n \in 1 .. Len(Tail(stateOut[i])) : Tail(stateOut[i])[n] = stateOut[i][n + 1]
    BY <1>1, <1>2, QueueType
  <2>2. \A n \in 1 .. Len(stateOut[i]) : stateOut[i][n].type = "EventsAck" => n = 1
    BY DEF FirstInv
  <2>3. ASSUME NEW n \in 1 .. Len(Tail(stateOut[i]))
        PROVE  Tail(stateOut[i])[n].type # "EventsAck"
    <3>1. n + 1 \in 1 .. Len(stateOut[i]) /\ n + 1 # 1
      BY <1>3, <2>1, <2>3
    <3>2. QED
      BY <2>1, <2>2, <2>3, <3>1
  <2>4. stateOut'[i] = Tail(stateOut[i])
    BY <1>6
  <2>5. QED
    BY <2>3, <2>4
<1>8. FirstInv'
  <2>1. ASSUME NEW j \in Insts
        PROVE  /\ \A n \in 1 .. Len(stateIn'[j]) : stateIn'[j][n].type = "EnableEvents" =>
                    n = 1 /\ stateOut'[j] = <<>> /\ ~Counting(j)'
               /\ \A n \in 1 .. Len(stateOut'[j]) : stateOut'[j][n].type = "EventsAck" =>
                    n = 1 /\ ~Counting(j)'
    <3>1. CASE j = i
      BY <1>4, <1>7, <3>1 DEF Asked
    <3>2. CASE j # i
      BY <1>1, <1>6, <3>2 DEF FirstInv, Counting
    <3>3. QED
      BY <3>1, <3>2
  <2>2. QED
    BY <1>2, <2>1 DEF FirstInv
<1>9. Unacked' \subseteq Unacked /\ Unchecked' \subseteq Unchecked
  <2>1. i \in Unacked
    BY <1>3 DEF Unacked
  <2>2. \A j \in Insts : j # i => (Asked(j)' <=> Asked(j)) /\ (Answered(j)' <=> Answered(j))
    BY <1>1, <1>6 DEF Asked, Answered
  <2>3. Unacked' \subseteq Unacked
    BY <1>1, <1>2, <1>6, <2>1, <2>2 DEF Unacked
  <2>4. QED
    BY <1>0, <1>2, <1>5, <1>6, <2>3 DEF Unchecked
<1>10. AckCountInv'
  <2>1. /\ eventAckCount' \in 0 .. Cardinality(Insts \ Unacked)'
        /\ starts' \in 0 .. Cardinality(Insts \ Unchecked)'
    BY <1>1, <1>9, MoreAcked, MoreChecked DEF AckCountInv
  <2>2. ASSUME NEW j \in Insts, pc'[<<"ss", j>>] = "eventAck"
        PROVE  read'[<<"ss", j>>].count <= Cardinality(Insts \ Unacked)'
    <3>1. CASE j = i
      BY <1>0, <1>1, <1>6, <2>1, <3>1
    <3>2. CASE j # i
      <4>1. pc[<<"ss", j>>] = "eventAck" /\ read'[<<"ss", j>>] = read[<<"ss", j>>]
        BY <1>6, <2>2, <3>2
      <4>2. QED
        BY <1>1, <1>9, <4>1, ReadBound
    <3>3. QED
      BY <3>1, <3>2
  <2>3. QED
    BY <1>2, <2>1, <2>2 DEF AckCountInv
<1>11. QED
  BY <1>8, <1>10

(* The count is written, whatever it has become in between: one more ack   *)
(* has come than before, and the count read was within the bound then.     *)
LEMMA IncrementFirst ==
  ASSUME VarsType, IdleInv, FirstInv, AckCountInv, NEW i \in Insts, incrementEventAckCount(i)
  PROVE  FirstInv' /\ AckCountInv'
<1>0. PICK t \in Threads : t = <<"ss", i>>
  BY ThreadsOf
<1>1. /\ args' = args /\ UNCHANGED <<executed, starts, stateIn, stateOut>>
      /\ Goto(t, "eventAck", "eventCheck") /\ eventAckCount' = read[t].count + 1
      /\ read' = [read EXCEPT ![t] = NoRead]
  BY <1>0 DEF incrementEventAckCount, chanVars
<1>2. Insts' = Insts
  BY <1>1, ArgsKept
<1>3. /\ pc[t] = "eventAck" /\ pc'[t] = "eventCheck" /\ \A u \in Threads : u # t => pc'[u] = pc[u]
  <2>1. "eventCheck" \in Labels
    BY DEF Labels
  <2>2. QED
    BY <1>1, <2>1, GotoType
<1>4. \A j \in Insts : j # i => /\ pc'[<<"ss", j>>] = pc[<<"ss", j>>]
                                /\ read'[<<"ss", j>>] = read[<<"ss", j>>]
  BY <1>0, <1>1, <1>3, ThreadsOf DEF VarsType, ThreadsType
<1>5. executed /\ Counting(i) /\ ~Asked(i) /\ ~Answered(i)
  <2>1. executed
    BY <1>3 DEF IdleInv
  <2>2. Counting(i)
    BY <1>0, <1>3 DEF Counting
  <2>3. QED
    BY <2>1, <2>2 DEF FirstInv, Asked, Answered
<1>6. FirstInv'
  <2>1. \A j \in Insts : Counting(j)' <=> Counting(j)
    BY <1>0, <1>3, <1>4 DEF Counting
  <2>2. QED
    BY <1>1, <1>2, <2>1 DEF FirstInv
<1>7. /\ i \in Unacked /\ Unacked' = Unacked \ {i} /\ Unchecked' = Unchecked
      /\ Unacked \subseteq Insts
  <2>1. \A j \in Insts : (Asked(j)' <=> Asked(j)) /\ (Answered(j)' <=> Answered(j))
    BY <1>1 DEF Asked, Answered
  <2>2. \A j \in Insts : j \in Unacked' <=> j \in Unacked /\ j # i
    BY <1>0, <1>1, <1>2, <1>3, <1>4, <1>5, <2>1 DEF Unacked
  <2>3. Unacked \subseteq Insts /\ Unacked' \subseteq Insts
    BY <1>2 DEF Unacked
  <2>4. i \in Unacked
    BY <1>0, <1>3 DEF Unacked
  <2>5. Unchecked' = Unchecked
    <3>1. \A j \in Insts : j \in Unchecked' <=> j \in Unchecked
      BY <1>0, <1>2, <1>3, <1>4, <2>2, <2>4 DEF Unchecked
    <3>2. Unchecked \subseteq Insts /\ Unchecked' \subseteq Insts
      BY <1>2, <2>3 DEF Unchecked
    <3>3. QED
      BY <3>1, <3>2
  <2>6. QED
    BY <2>2, <2>3, <2>4, <2>5
<1>8. /\ Cardinality(Insts \ Unacked) \in Nat
      /\ Cardinality(Insts \ Unacked)' = Cardinality(Insts \ Unacked) + 1
  <2>1. IsFiniteSet(Insts)
    BY InstancesFinite DEF VarsType
  <2>2. IsFiniteSet(Insts \ Unacked)
    BY <2>1, FS_Difference
  <2>3. (Insts \ Unacked)' = (Insts \ Unacked) \cup {i}
    BY <1>2, <1>7
  <2>4. QED
    BY <1>7, <2>2, <2>3, FS_AddElement, FS_CardinalityType
<1>9. AckCountInv'
  <2>1. \A j \in Insts : read[<<"ss", j>>].count \in Nat
    BY ThreadsOf DEF VarsType, ThreadsType
  <2>2. eventAckCount' \in 0 .. Cardinality(Insts \ Unacked)'
    <3>1. read[t].count <= Cardinality(Insts \ Unacked)
      BY <1>0, <1>3 DEF AckCountInv
    <3>2. QED
      BY <1>0, <1>1, <1>8, <2>1, <3>1
  <2>3. ASSUME NEW j \in Insts, pc'[<<"ss", j>>] = "eventAck"
        PROVE  read'[<<"ss", j>>].count <= Cardinality(Insts \ Unacked)'
    <3>1. j # i
      BY <1>0, <1>3, <2>3
    <3>2. pc[<<"ss", j>>] = "eventAck" /\ read'[<<"ss", j>>] = read[<<"ss", j>>]
      BY <1>4, <2>3, <3>1
    <3>3. Unacked' \subseteq Unacked
      BY <1>7
    <3>4. QED
      BY <1>1, <3>2, <3>3, ReadBound
  <2>4. starts' \in 0 .. Cardinality(Insts \ Unchecked)'
    BY <1>1, <1>2, <1>7 DEF AckCountInv
  <2>5. QED
    BY <1>2, <2>2, <2>3, <2>4 DEF AckCountInv
<1>10. QED
  BY <1>6, <1>9

(* The thread compares the count, and starts the synchronization or not.   *)
LEMMA CheckFirst ==
  ASSUME VarsType, IdleInv, FirstInv, AckCountInv, NEW i \in Insts, checkEventAckCount(i)
  PROVE  FirstInv' /\ AckCountInv'
<1>0. PICK t \in Threads : t = <<"ss", i>>
  BY ThreadsOf
<1>1. /\ args' = args /\ UNCHANGED <<executed, eventAckCount, stateIn, stateOut, read>>
      /\ starts' \in {starts, starts + 1}
  BY DEF checkEventAckCount, chanVars
<1>2. PICK b \in {"sync", "idle"} : Goto(t, "eventCheck", b)
  BY <1>0 DEF checkEventAckCount
<1>3. Insts' = Insts
  BY <1>1, ArgsKept
<1>4. /\ pc[t] = "eventCheck" /\ pc'[t] = b /\ \A u \in Threads : u # t => pc'[u] = pc[u]
  <2>1. b \in Labels
    BY DEF Labels
  <2>2. QED
    BY <1>2, <2>1, GotoType
<1>5. \A j \in Insts : j # i => pc'[<<"ss", j>>] = pc[<<"ss", j>>]
  BY <1>0, <1>4, ThreadsOf
<1>6. executed /\ ~Asked(i) /\ ~Answered(i)
  <2>1. executed
    BY <1>4 DEF IdleInv
  <2>2. Counting(i)
    BY <1>0, <1>4 DEF Counting
  <2>3. QED
    BY <2>1, <2>2 DEF FirstInv, Asked, Answered
<1>7. FirstInv'
  <2>1. \A j \in Insts : Counting(j)' => Counting(j)
    BY <1>0, <1>4, <1>5 DEF Counting
  <2>2. QED
    BY <1>1, <1>3, <2>1 DEF FirstInv
<1>8. /\ Unacked' = Unacked /\ i \in Unchecked /\ Unchecked' = Unchecked \ {i}
      /\ Unchecked \subseteq Insts
  <2>1. \A j \in Insts : (Asked(j)' <=> Asked(j)) /\ (Answered(j)' <=> Answered(j))
    BY <1>1 DEF Asked, Answered
  <2>2. \A j \in Insts : j \in Unacked' <=> j \in Unacked
    BY <1>0, <1>1, <1>3, <1>4, <1>5, <2>1 DEF Unacked
  <2>3. Unacked \subseteq Insts /\ Unacked' \subseteq Insts
    BY <1>3 DEF Unacked
  <2>4. i \notin Unacked
    BY <1>0, <1>4, <1>6 DEF Unacked
  <2>5. Unacked' = Unacked
    BY <2>2, <2>3
  <2>6. \A j \in Insts : j \in Unchecked' <=> j \in Unchecked /\ j # i
    BY <1>0, <1>3, <1>4, <1>5, <2>4, <2>5 DEF Unchecked
  <2>7. Unchecked \subseteq Insts /\ Unchecked' \subseteq Insts
    BY <1>3, <2>3 DEF Unchecked
  <2>8. i \in Unchecked
    BY <1>0, <1>4 DEF Unchecked
  <2>9. QED
    BY <2>5, <2>6, <2>7, <2>8
<1>9. /\ Cardinality(Insts \ Unchecked) \in Nat
      /\ Cardinality(Insts \ Unchecked)' = Cardinality(Insts \ Unchecked) + 1
  <2>1. IsFiniteSet(Insts)
    BY InstancesFinite DEF VarsType
  <2>2. IsFiniteSet(Insts \ Unchecked)
    BY <2>1, FS_Difference
  <2>3. (Insts \ Unchecked)' = (Insts \ Unchecked) \cup {i}
    BY <1>3, <1>8
  <2>4. QED
    BY <1>8, <2>2, <2>3, FS_AddElement, FS_CardinalityType
<1>10. AckCountInv'
  <2>1. starts' \in 0 .. Cardinality(Insts \ Unchecked)'
    BY <1>1, <1>9 DEF AckCountInv
  <2>2. \A j \in Insts : pc'[<<"ss", j>>] = "eventAck" => pc[<<"ss", j>>] = "eventAck"
    BY <1>0, <1>4, <1>5
  <2>3. QED
    BY <1>1, <1>3, <1>8, <2>1, <2>2 DEF AckCountInv
<1>11. QED
  BY <1>7, <1>10

(* Every step keeps what is said of the acks.                              *)
LEMMA FirstStep ==
  ASSUME VarsType, args' = args, IdleInv, FirstInv, AckCountInv, [Next]_vars
  PROVE  FirstInv' /\ AckCountInv'
<1>1. CASE UNCHANGED vars
  <2>1. UNCHANGED <<executed, eventAckCount, starts, pc, read, stateIn, stateOut>>
    BY <1>1 DEF vars, threads, chanVars
  <2>2. KeepsFirst
    BY <2>1, QueuesKept DEF KeepsFirst
  <2>3. QED
    BY <2>2, FirstKept
<1>2. CASE execute
  BY <1>2, StartFirst
<1>3. ASSUME NEW i \in Insts, StateThread(i)
      PROVE  FirstInv' /\ AckCountInv'
  <2>1. CASE receiveEventsAck(i)
    BY <2>1, ReceiveAckFirst
  <2>2. CASE incrementEventAckCount(i)
    BY <2>2, IncrementFirst
  <2>3. CASE checkEventAckCount(i)
    BY <2>3, CheckFirst
  <2>4. CASE receiveState(i) \/ receiveGetAck(i) \/ setGetCount(i)
    BY <2>4, StateKeepsFirst, FirstKept
  <2>5. CASE Thread(<<"ss", i>>)
    <3>1. <<"ss", i>> \in Threads
      BY ThreadsOf
    <3>2. KeepsFirst
      BY <2>5, <3>1, ThreadKeepsFirst
    <3>3. QED
      BY <3>2, FirstKept
  <2>6. QED
    BY <1>3, <2>1, <2>2, <2>3, <2>4, <2>5 DEF StateThread
<1>4. ASSUME NEW i \in Insts, EventThread(i)
      PROVE  FirstInv' /\ AckCountInv'
  <2>1. CASE Thread(<<"se", i>>)
    <3>1. <<"se", i>> \in Threads
      BY ThreadsOf
    <3>2. KeepsFirst
      BY <2>1, <3>1, ThreadKeepsFirst
    <3>3. QED
      BY <3>2, FirstKept
  <2>2. CASE ~Thread(<<"se", i>>)
    BY <1>4, <2>2, EventKeepsFirst, FirstKept DEF EventThread
  <2>3. QED
    BY <2>1, <2>2
<1>5. ASSUME NEW i \in Insts, InstanceState(i)
      PROVE  FirstInv' /\ AckCountInv'
  <2>1. CASE handle_enable_events(i)
    BY <2>1, EnableFirst
  <2>2. CASE handle_get(i) \/ get_unsupported(i) \/ handle_put(i)
    BY <2>2, RequestKeepsFirst, FirstKept
  <2>3. QED
    BY <1>5, <2>1, <2>2 DEF InstanceState
<1>6. CASE packetOut \/ \E i \in Insts : process_packet(i) \/ sdmbn_preprocess_packet(i)
  BY <1>6, PacketKeepsFirst, FirstKept
<1>7. CASE Pool
  BY <1>7, PoolKeepsFirst, FirstKept
<1>8. QED
  BY <1>1, <1>2, <1>3, <1>4, <1>5, <1>6, <1>7 DEF Next

(* Before the operation is executed only packets move.                     *)
LEMMA IdleSteps ==
  ASSUME VarsType, IdleInv, ~executed, Next
  PROVE  \/ execute \/ packetOut
         \/ \E i \in Insts : \/ process_packet(i) \/ sdmbn_preprocess_packet(i)
                             \/ receiveReprocess(i)
<1>1. \A i \in Insts : pc[<<"ss", i>>] = "idle" /\ pc[<<"se", i>>] = "idle"
  BY ThreadsOf DEF IdleInv
<1>2. \A i \in Insts : stateIn[i] = <<>> /\ stateOut[i] = <<>>
  BY DEF IdleInv
<1>3. ASSUME NEW t \in Threads, pc[t] = "idle"
      PROVE  ~Thread(t)
  BY <1>3 DEF Thread, syncAllInstances, dequeueAfterSync, checkIfInstFinished, Goto
<1>4. \A t \in Threads : ~Thread(t)
  BY <1>3 DEF IdleInv
<1>5. ASSUME NEW i \in Insts
      PROVE  ~StateThread(i)
  <2>1. ~receiveEventsAck(i) /\ ~receiveState(i) /\ ~receiveGetAck(i)
    BY <1>2 DEF receiveEventsAck, receiveState, receiveGetAck, FromState
  <2>2. ~incrementEventAckCount(i) /\ ~checkEventAckCount(i) /\ ~setGetCount(i)
    BY <1>1 DEF incrementEventAckCount, checkEventAckCount, setGetCount, Goto
  <2>3. QED
    BY <1>4, <2>1, <2>2, ThreadsOf DEF StateThread
<1>6. ASSUME NEW i \in Insts, EventThread(i)
      PROVE  receiveReprocess(i)
  <2>1. ~receivePutAck(i)
    <3>1. eventOut[i] \in Seq(Events)
      BY DEF VarsType, ChannelsType
    <3>2. eventOut[i] # <<>> => Head(eventOut[i]).type # "PutAck"
      BY <3>1, QueueType DEF IdleInv
    <3>3. QED
      BY <3>2 DEF receivePutAck, FromEvent
  <2>2. ~incrementPutAcks(i) /\ ~incrementAcked(i) /\ ~compareAcked(i)
    BY <1>1 DEF incrementPutAcks, incrementAcked, compareAcked, Goto
  <2>3. QED
    BY <1>4, <1>6, <2>1, <2>2, ThreadsOf DEF EventThread
<1>7. ASSUME NEW i \in Insts
      PROVE  ~InstanceState(i)
  BY <1>2 DEF InstanceState, handle_enable_events, handle_get, get_unsupported, handle_put, Request
<1>8. ~Pool
  <2>1. tasks = <<>>
    BY DEF IdleInv
  <2>2. DOMAIN tasks = {}
    BY <2>1
  <2>3. QED
    BY <2>2 DEF Pool
<1>9. QED
  BY <1>5, <1>6, <1>7, <1>8 DEF Next

(* They bring reports and nothing else.                                    *)
LEMMA IdleStep ==
  ASSUME VarsType, args' = args, IdleInv, [Next]_vars
  PROVE  IdleInv'
<1>1. SUFFICES ASSUME ~executed' PROVE IdleInv'
  BY DEF IdleInv
<1>2. Insts' = Insts /\ Threads' = Threads
  BY ArgsKept
<1>3. ASSUME ~executed, UNCHANGED <<pc, stateIn, stateOut, tasks, isSyncFinished>>,
             \A i \in Insts : \A n \in 1 .. Len(eventOut'[i]) : eventOut'[i][n].type # "PutAck"
      PROVE  IdleInv'
  BY <1>2, <1>3 DEF IdleInv
<1>4. eventOut \in [Insts -> Seq(Events)]
  BY DEF VarsType, ChannelsType
<1>5. CASE UNCHANGED vars
  <2>1. UNCHANGED <<executed, pc, stateIn, stateOut, tasks, isSyncFinished, eventOut>>
    BY <1>5 DEF vars, threads, chanVars, chunkVars, opVars
  <2>2. ~executed
    BY <1>1, <2>1
  <2>3. \A i \in Insts : \A n \in 1 .. Len(eventOut'[i]) : eventOut'[i][n].type # "PutAck"
    BY <2>1, <2>2 DEF IdleInv
  <2>4. QED
    BY <1>3, <2>1, <2>2, <2>3
<1>6. CASE Next
  <2>1. ~executed
    <3>1. \A t \in Threads : Thread(t) => UNCHANGED executed
      BY DEF Thread, syncAllInstances, dequeueAfterSync, checkIfInstFinished
    <3>2. \A i \in Insts : StateThread(i) => UNCHANGED executed
      BY <3>1, ThreadsOf DEF StateThread, receiveEventsAck, incrementEventAckCount,
         checkEventAckCount, receiveState, receiveGetAck, setGetCount
    <3>3. \A i \in Insts : EventThread(i) => UNCHANGED executed
      BY <3>1, ThreadsOf DEF EventThread, receivePutAck, incrementPutAcks, incrementAcked,
         compareAcked, receiveReprocess
    <3>4. \A i \in Insts : InstanceState(i) => UNCHANGED executed
      BY DEF InstanceState, handle_enable_events, handle_get, get_unsupported, handle_put
    <3>5. \A i \in Insts : process_packet(i) \/ sdmbn_preprocess_packet(i) => UNCHANGED executed
      BY DEF process_packet, sdmbn_preprocess_packet
    <3>6. (Pool => UNCHANGED executed) /\ (packetOut => UNCHANGED executed) /\ ~execute
      BY <1>1 DEF Pool, callChunk, packetOut, execute
    <3>7. QED
      BY <1>1, <1>6, <3>2, <3>3, <3>4, <3>5, <3>6 DEF Next
  <2>2. \A i \in Insts : \A n \in 1 .. Len(eventOut[i]) : eventOut[i][n].type # "PutAck"
    BY <2>1 DEF IdleInv
  <2>3. ~execute
    BY <1>1 DEF execute
  <2>4. CASE packetOut
    BY <1>3, <2>1, <2>2, <2>4 DEF packetOut, threads, chunkVars, opVars
  <2>5. ASSUME NEW i \in Insts, sdmbn_preprocess_packet(i)
        PROVE  IdleInv'
    <3>1. PICK x : x = Reprocess(args.traffic[arrived + 1])
      OBVIOUS
    <3>2. \/ UNCHANGED eventOut
          \/ eventOut' = [eventOut EXCEPT ![i] = Append(@, x)]
      BY <2>5, <3>1 DEF sdmbn_preprocess_packet
    <3>3. x.type # "PutAck"
      BY <3>1 DEF Reprocess
    <3>4. \A j \in Insts : \A n \in 1 .. Len(eventOut'[j]) : eventOut'[j][n].type # "PutAck"
      <4>1. eventOut[i] \in Seq(Events)
        BY <1>4
      <4>2. PICK q \in Seq(Events) : q = eventOut[i]
        BY <4>1
      <4>3. \A n \in 1 .. Len(Append(q, x)) : \/ n \in 1 .. Len(q) /\ Append(q, x)[n] = q[n]
                                              \/ Append(q, x)[n] = x
        OBVIOUS
      <4>4. \A n \in 1 .. Len(Append(q, x)) : Append(q, x)[n].type # "PutAck"
        BY <2>2, <3>3, <4>2, <4>3
      <4>5. QED
        BY <1>4, <2>2, <3>2, <4>2, <4>4
    <3>5. QED
      BY <1>3, <2>1, <2>5, <3>4 DEF sdmbn_preprocess_packet, threads, chunkVars, opVars
  <2>6. ASSUME NEW i \in Insts, process_packet(i)
        PROVE  IdleInv'
    <3>1. PICK x : x = Reprocess(hand[i].pkt)
      OBVIOUS
    <3>2. x.type # "PutAck"
      BY <3>1 DEF Reprocess
    <3>3. PICK a, b \in {<<>>, <<x>>} : eventOut' = [eventOut EXCEPT ![i] = @ \o a \o b]
      BY <2>6, <3>1 DEF process_packet
    <3>4. \A j \in Insts : \A n \in 1 .. Len(eventOut'[j]) : eventOut'[j][n].type # "PutAck"
      <4>1. PICK q \in Seq(Events) : q = eventOut[i]
        BY <1>4
      <4>2. ASSUME NEW S, NEW s \in Seq(S), NEW c \in {<<>>, <<x>>}, \A n \in 1 .. Len(s) : s[n].type # "PutAck"
            PROVE  s \o c \in Seq(S \cup {x}) /\ \A n \in 1 .. Len(s \o c) : (s \o c)[n].type # "PutAck"
        <5>1. CASE c = <<>>
          BY <4>2, <5>1
        <5>2. CASE c = <<x>>
          <6>1. \A n \in 1 .. Len(s \o c) : \/ n \in 1 .. Len(s) /\ (s \o c)[n] = s[n]
                                            \/ (s \o c)[n] = x
            BY <5>2
          <6>2. QED
            BY <3>2, <4>2, <5>2, <6>1
        <5>3. QED
          BY <5>1, <5>2
      <4>3. q \o a \in Seq(Events \cup {x}) /\ \A n \in 1 .. Len(q \o a) : (q \o a)[n].type # "PutAck"
        BY <2>2, <4>1, <4>2
      <4>4. \A n \in 1 .. Len(q \o a \o b) : (q \o a \o b)[n].type # "PutAck"
        BY <4>2, <4>3
      <4>5. QED
        BY <1>4, <2>2, <3>3, <4>1, <4>4
    <3>5. QED
      BY <1>3, <2>1, <2>6, <3>4 DEF process_packet, threads, chunkVars, opVars
  <2>7. ASSUME NEW i \in Insts, receiveReprocess(i)
        PROVE  IdleInv'
    <3>1. ~isSyncFinished
      BY <2>1 DEF IdleInv
    <3>2. /\ eventOut[i] # <<>> /\ eventOut' = [eventOut EXCEPT ![i] = Tail(@)]
          /\ UNCHANGED <<pc, stateIn, stateOut, tasks, isSyncFinished>>
      BY <2>7, <3>1 DEF receiveReprocess, FromEvent, threads, chunkVars
    <3>3. \A j \in Insts : \A n \in 1 .. Len(eventOut'[j]) : eventOut'[j][n].type # "PutAck"
      <4>1. /\ Len(eventOut[i]) \in Nat /\ Len(Tail(eventOut[i])) = Len(eventOut[i]) - 1
            /\ \A n \in 1 .. Len(Tail(eventOut[i])) : Tail(eventOut[i])[n] = eventOut[i][n + 1]
        BY <1>4, <3>2, QueueType
      <4>2. \A n \in 1 .. Len(Tail(eventOut[i])) : n + 1 \in 1 .. Len(eventOut[i])
        BY <4>1
      <4>3. \A n \in 1 .. Len(Tail(eventOut[i])) : Tail(eventOut[i])[n].type # "PutAck"
        BY <2>2, <4>1, <4>2
      <4>4. QED
        BY <1>4, <2>2, <3>2, <4>3
    <3>4. QED
      BY <1>3, <2>1, <3>2, <3>3
  <2>8. QED
    BY <1>6, <2>1, <2>3, <2>4, <2>5, <2>6, <2>7, IdleSteps
<1>7. QED
  BY <1>5, <1>6

-----------------------------------------------------------------------------
(* The invariant, and types.                                               *)

(* At first nothing is on its way.                                         *)
LEMMA InitInv ==
  ASSUME Init
  PROVE  ShareInv
<1>1. args \in Configs
  BY DEF Init
<1>2. /\ args.n \in Nat \ {0, 1} /\ IsFiniteSet(Insts) /\ Len(args.traffic) \in Nat
      /\ args.knows \in [1 .. args.n -> [Units -> SUBSET Packets]]
      /\ args.seen \in [1 .. args.n -> [Units -> 0 .. MaxTime]]
  BY <1>1, InstancesFinite, ShareAssumption
<1>3. FieldsType /\ CountersType
  <2>1. nextInstIndex \in 0 .. args.n /\ eventAckCount \in Nat /\ starts \in Nat
    BY <1>2 DEF Init
  <2>2. lastPacket \in Packets \cup {NoPacket} /\ originalEvents \in Seq(Held)
    BY DEF Init
  <2>3. executed \in BOOLEAN /\ isSyncFinished \in BOOLEAN /\ callFromReprocess \in BOOLEAN
    BY DEF Init
  <2>4. QED
    BY <2>1, <2>2, <2>3, Zenon DEF FieldsType, CountersType
<1>4. SyncType
  BY DEF Init, SyncType
<1>5. ChunksType
  BY DEF Init, ChunksType
<1>6. ThreadsType
  <2>1. NoRead \in [kind : Kinds, count : Nat] /\ "idle" \in Labels
    BY DEF NoRead, Kinds, Labels
  <2>2. QED
    BY <2>1 DEF Init, ThreadsType
<1>7. ChannelsType
  BY DEF Init, ChannelsType
<1>8. InstancesType
  <2>1. EmptyHand \in [pkt : Packets \cup {NoPacket}, event : BOOLEAN]
    BY DEF EmptyHand
  <2>2. ASSUME NEW i \in Insts, NEW u \in Units
        PROVE  InitialState(i, u) \in Seq(Records)
    <3>1. args.knows[i][u] \subseteq Packets
      BY <1>2 DEF Insts
    <3>2. PICK f \in SUBSET Packets : f = args.knows[i][u]
      BY <3>1
    <3>3. [facts |-> f, seen |-> args.seen[i][u], gotten |-> FALSE] \in Records
      BY <1>2 DEF Records, Insts
    <3>4. PICK r \in Records : r = [facts |-> f, seen |-> args.seen[i][u], gotten |-> FALSE]
      BY <3>3
    <3>5. <<r>> \in Seq(Records) /\ <<>> \in Seq(Records)
      OBVIOUS
    <3>6. InitialState(i, u) \in {<<r>>, <<>>}
      BY <3>2, <3>4 DEF InitialState
    <3>7. QED
      BY <3>5, <3>6
  <2>3. state = [i \in Insts |-> [k \in StateKinds |-> [u \in Units |-> InitialState(i, u)]]]
    BY DEF Init
  <2>4. state \in [Insts -> [StateKinds -> [Units -> Seq(Records)]]]
    BY <2>2, <2>3
  <2>5. /\ filter \in [Insts -> BOOLEAN] /\ now \in 0 .. MaxTime /\ strays = {}
        /\ processed \in Seq(Packets) /\ arrived \in 0 .. Len(args.traffic)
    BY <1>2, ShareAssumption DEF Init
  <2>6. hand \in [Insts -> [pkt : Packets \cup {NoPacket}, event : BOOLEAN]]
    BY <2>1 DEF Init
  <2>7. assets \in [Insts -> SUBSET Hashkeys] /\ sent \in [Insts -> SUBSET Units]
    <3>1. \A u \in Units : [kind |-> "pf", unit |-> u, pos |-> 0] \in Hashkeys
      BY DEF Hashkeys, Kinds
    <3>2. assets \in [Insts -> SUBSET Hashkeys]
      BY <3>1 DEF Init
    <3>3. QED
      BY <3>2 DEF Init
  <2>8. QED
    BY <2>4, <2>5, <2>6, <2>7 DEF InstancesType
<1>9. /\ ~executed /\ eventAckCount = 0 /\ starts = 0
      /\ \A t \in Threads : pc[t] = "idle"
      /\ \A i \in Insts : stateIn[i] = <<>> /\ stateOut[i] = <<>> /\ eventOut[i] = <<>>
  BY DEF Init
<1>10. IdleInv
  <2>1. tasks = <<>> /\ ~isSyncFinished
    BY DEF Init
  <2>2. \A i \in Insts : \A n \in 1 .. Len(eventOut[i]) : eventOut[i][n].type # "PutAck"
    BY <1>9
  <2>3. QED
    BY <1>9, <2>1, <2>2 DEF IdleInv
<1>11. FirstInv
  BY <1>9 DEF FirstInv
<1>12. AckCountInv
  <2>1. IsFiniteSet(Insts \ Unacked) /\ IsFiniteSet(Insts \ Unchecked)
    BY <1>2, FS_Difference
  <2>2. Cardinality(Insts \ Unacked) \in Nat /\ Cardinality(Insts \ Unchecked) \in Nat
    BY <2>1, FS_CardinalityType
  <2>3. \A i \in Insts : pc[<<"ss", i>>] # "eventAck"
    BY <1>9, ThreadsOf
  <2>4. QED
    BY <1>9, <2>2, <2>3 DEF AckCountInv
<1>13. QED
  BY <1>1, <1>3, <1>4, <1>5, <1>6, <1>7, <1>8, <1>10, <1>11, <1>12 DEF ShareInv, VarsType

(* The counts are within the number of instances.                          *)
LEMMA InvType ==
  ASSUME ShareInv
  PROVE  TypeOK
<1>1. VarsType
  BY DEF ShareInv
<1>2. args.n \in Nat /\ IsFiniteSet(Insts) /\ Cardinality(Insts) = args.n
  BY <1>1, InstancesFinite DEF VarsType
<1>3. /\ Cardinality(Insts \ Unacked) \in 0 .. args.n /\ Cardinality(Insts \ Unchecked) \in 0 .. args.n
  <2>1. Insts \ Unacked \in SUBSET Insts /\ Insts \ Unchecked \in SUBSET Insts
    OBVIOUS
  <2>2. IsFiniteSet(Insts \ Unacked) /\ IsFiniteSet(Insts \ Unchecked)
    BY <1>2, FS_Difference
  <2>3. QED
    BY <1>2, <2>1, <2>2, FS_Subset, FS_CardinalityType
<1>4. eventAckCount \in 0 .. args.n /\ starts \in 0 .. args.n
  BY <1>2, <1>3 DEF ShareInv, AckCountInv
<1>5. chunks \in Seq(Chunks) /\ DOMAIN chunks = 1 .. Len(chunks)
  BY <1>1 DEF VarsType, ChunksType
<1>6. chunks \in Seq([hashkey : Hashkeys, rec : Cargo, dsts : SUBSET Insts, acks : Nat,
                      live : BOOLEAN])
  <2> DEFINE C == [hashkey : Hashkeys, rec : Cargo, dsts : SUBSET Insts, acks : Nat,
                   live : BOOLEAN]
  <2>1. StateKeys \subseteq Hashkeys
    BY ScopeType DEF StateKeys, Hashkeys, Kinds
  <2>2. Chunks \subseteq C
    BY <2>1 DEF Chunks
  <2> HIDE DEF C
  <2>3. chunks \in Seq(C)
    BY <1>5, <2>2, SeqMonotonic
  <2>4. QED
    BY <2>3 DEF C
<1>7. tasks \in Seq(DOMAIN chunks)
  BY <1>1, <1>5 DEF VarsType, ChunksType
<1>8. \A t \in Threads : pc[t] \in {"putAck", "chunkAck", "compare"} => chunk[t] \in DOMAIN chunks
  BY <1>1, <1>5 DEF VarsType, ThreadsType
<1>9. DOMAIN stateIn = Insts /\ DOMAIN stateOut = Insts /\ DOMAIN eventOut = Insts
  BY <1>1 DEF VarsType, ChannelsType
<1>10. QED
  BY <1>1, <1>4, <1>6, <1>7, <1>8, <1>9
     DEF VarsType, FieldsType, SyncType, ThreadsType, ChannelsType, InstancesType, TypeOK, Held,
         PacketOuts, Labels

(* The invariant of a share: every variable has its type, also what is on  *)
(* its way on the connections, nothing happens before execute(), and the   *)
(* acks of the request for events are counted within bounds although       *)
(* eventAckCount++ of several threads may interleave and lose increments.  *)
THEOREM ShareInvariant == Spec => []ShareInv
<1>1. Init => ShareInv
  BY InitInv
<1>2. ShareInv /\ [Next]_vars => ShareInv'
  <2>1. SUFFICES ASSUME ShareInv, [Next]_vars PROVE ShareInv'
    OBVIOUS
  <2>2. VarsType /\ IdleInv /\ FirstInv /\ AckCountInv
    BY <2>1 DEF ShareInv
  <2>3. VarsType' /\ args' = args
    BY <2>1, <2>2, TypeStep
  <2>4. IdleInv'
    BY <2>1, <2>2, <2>3, IdleStep
  <2>5. FirstInv' /\ AckCountInv'
    BY <2>1, <2>2, <2>3, FirstStep
  <2>6. QED
    BY <2>3, <2>4, <2>5 DEF ShareInv
<1>3. QED
  BY <1>1, <1>2, PTL DEF Spec

(* Types, for any number of instances and any traffic: in particular the   *)
(* count of acks never passes the number of instances, which the operation *)
(* compares it with, no more threads start the synchronization than there  *)
(* are instances, nextInstIndex, which indexes their list, stays within    *)
(* it, and the chunk a thread works on is there also after the table has   *)
(* been flushed.                                                           *)
THEOREM TypeCorrect == Spec => []TypeOK
<1>1. ShareInv => TypeOK
  BY InvType
<1>2. QED
  BY <1>1, ShareInvariant, PTL

-----------------------------------------------------------------------------
(***************************************************************************)
(* The rounds.                                                             *)
(***************************************************************************)

(* The messages of a round.                                                *)
RoundRequests == {m \in Requests : m.type \in {"Get", "Put"}}
RoundAnswers  == {m \in Answers : m.type \in {"State", "GetAck"}}
RoundEvents   == {m \in Events : m.type = "PutAck"}

(* A message is of the kind, hashkey or text its fields say.               *)
LEMMA Sorted ==
  /\ \A m \in Requests : /\ \A k \in Kinds : m \in GetsOf(k) <=> m.type = "Get" /\ m.kind = k
                         /\ \A h \in StateKeys : m \in PutsOf(h) <=> m.type = "Put" /\ m.hashkey = h
  /\ \A m \in Answers : /\ \A k \in Kinds : m \in GetAcksOf(k) <=> m.type = "GetAck" /\ m.kind = k
                        /\ \A h \in StateKeys : m \in StatesOf(h) <=> m.type = "State" /\ m.hashkey = h
  /\ \A m \in Events : /\ \A h \in StateKeys : m \in PutAcksOf(h) <=> m.type = "PutAck" /\ m.hashkey = h
                       /\ \A x : m \in ReportsOf(x) <=> m.type = "Reprocess" /\ Text[m.pkt] = x
<1>1. \A m \in Requests : /\ \A k \in Kinds : m \in GetsOf(k) <=> m.type = "Get" /\ m.kind = k
                          /\ \A h \in StateKeys : m \in PutsOf(h) <=> m.type = "Put" /\ m.hashkey = h
  BY DEF Requests, GetsOf, PutsOf
<1>2. \A m \in Answers : /\ \A k \in Kinds : m \in GetAcksOf(k) <=> m.type = "GetAck" /\ m.kind = k
                         /\ \A h \in StateKeys : m \in StatesOf(h) <=> m.type = "State" /\ m.hashkey = h
  BY DEF Answers, StateMsgs, GetAcksOf, StatesOf
<1>3. \A m \in Events : /\ \A h \in StateKeys : m \in PutAcksOf(h) <=> m.type = "PutAck" /\ m.hashkey = h
                        /\ \A x : m \in ReportsOf(x) <=> m.type = "Reprocess" /\ Text[m.pkt] = x
  BY DEF Events, PutAcksOf, ReportsOf
<1>4. QED
  BY <1>1, <1>2, <1>3

(* They are messages of a round.                                           *)
LEMMA RoundMessages ==
  /\ \A k \in Kinds : /\ GetsOf(k) \in SUBSET RoundRequests /\ GetAcksOf(k) \in SUBSET RoundAnswers
                      /\ \A c : {m \in GetAcksOf(k) : m.count # c} \in SUBSET RoundAnswers
  /\ \A h \in StateKeys : /\ PutsOf(h) \in SUBSET RoundRequests /\ StatesOf(h) \in SUBSET RoundAnswers
                          /\ PutAcksOf(h) \in SUBSET RoundEvents
<1>1. ASSUME NEW k \in Kinds
      PROVE  GetsOf(k) \in SUBSET RoundRequests
  BY DEF Requests, GetsOf, RoundRequests
<1>2. ASSUME NEW k \in Kinds
      PROVE  /\ GetAcksOf(k) \in SUBSET RoundAnswers
             /\ \A c : {m \in GetAcksOf(k) : m.count # c} \in SUBSET RoundAnswers
  <2>1. GetAcksOf(k) \in SUBSET RoundAnswers
    BY DEF Answers, GetAcksOf, RoundAnswers
  <2>2. QED
    BY <2>1
<1>3. ASSUME NEW h \in StateKeys
      PROVE  /\ PutsOf(h) \in SUBSET RoundRequests /\ StatesOf(h) \in SUBSET RoundAnswers
             /\ PutAcksOf(h) \in SUBSET RoundEvents
  BY DEF Requests, PutsOf, RoundRequests, Answers, StateMsgs, StatesOf, RoundAnswers, Events, PutAcksOf,
         RoundEvents
<1>4. QED
  BY <1>1, <1>2, <1>3

-----------------------------------------------------------------------------
(* Steps that leave a round alone.                                         *)

(* A step that sends, receives and counts nothing of the round.            *)
SameChunks ==
  /\ Len(chunks') = Len(chunks)
  /\ \A c \in 1 .. Len(chunks) : /\ chunks'[c].hashkey = chunks[c].hashkey
                                 /\ chunks'[c].live = chunks[c].live /\ chunks'[c].dsts = chunks[c].dsts
SameQueues ==
  \A i \in Insts : /\ Kept(stateIn[i], stateIn'[i], RoundRequests)
                   /\ Kept(stateOut[i], stateOut'[i], RoundAnswers)
                   /\ Kept(eventOut[i], eventOut'[i], RoundEvents)
SameThreads ==
  \A i \in Insts :
    /\ pc[<<"ss", i>>] = "getAck" <=> pc'[<<"ss", i>>] = "getAck"
    /\ pc[<<"ss", i>>] = "getAck" => read'[<<"ss", i>>] = read[<<"ss", i>>]
    /\ pc[<<"se", i>>] = "putAck" <=> pc'[<<"se", i>>] = "putAck"
    /\ pc[<<"se", i>>] = "putAck" => /\ read'[<<"se", i>>] = read[<<"se", i>>]
                                     /\ chunk'[<<"se", i>>] = chunk[<<"se", i>>]

(* The scope stays.                                                        *)
LEMMA ScopeKept ==
  ASSUME args' = args
  PROVE  ScopeKinds' = ScopeKinds
  BY DEF ScopeKinds, ScopeOrder

(* Requests, answers and acks of the round, on a connection on which none  *)
(* is sent or received.                                                    *)
LEMMA SameIn ==
  ASSUME VarsType, VarsType', args' = args, NEW i \in Insts, Kept(stateIn[i], stateIn'[i], RoundRequests)
  PROVE  /\ \A k \in Kinds : /\ Asking(i, k)' <=> Asking(i, k)
                             /\ Once(stateIn[i], GetsOf(k)) => Once(stateIn'[i], GetsOf(k))
         /\ \A h \in StateKeys : /\ Putting(i, h)' <=> Putting(i, h)
                                 /\ Once(stateIn[i], PutsOf(h)) => Once(stateIn'[i], PutsOf(h))
<1>1. stateIn[i] \in Seq(Requests) /\ stateIn'[i] \in Seq(Requests)
  BY ArgsKept DEF VarsType, ChannelsType
<1>2. \A R \in SUBSET RoundRequests : /\ Has(stateIn'[i], R) <=> Has(stateIn[i], R)
                                      /\ Once(stateIn[i], R) => Once(stateIn'[i], R)
  BY <1>1, KeptQueue
<1>3. QED
  BY <1>2, RoundMessages, Zenon DEF Asking, Putting

(* Answers ...                                                             *)
LEMMA SameOut ==
  ASSUME VarsType, VarsType', args' = args, NEW i \in Insts, Kept(stateOut[i], stateOut'[i], RoundAnswers)
  PROVE  /\ \A k \in Kinds : /\ Answering(i, k)' <=> Answering(i, k)
                             /\ Once(stateOut[i], GetAcksOf(k)) => Once(stateOut'[i], GetAcksOf(k))
                             /\ \A c : Tells(stateOut[i], k, c) => Tells(stateOut'[i], k, c)
         /\ \A h \in StateKeys :
              /\ Sending(i, h)' <=> Sending(i, h)
              /\ Once(stateOut[i], StatesOf(h)) => Once(stateOut'[i], StatesOf(h))
              /\ \A k \in Kinds : Followed(stateOut[i], StatesOf(h), GetAcksOf(k)) =>
                                  Followed(stateOut'[i], StatesOf(h), GetAcksOf(k))
<1>1. stateOut[i] \in Seq(Answers) /\ stateOut'[i] \in Seq(Answers)
  BY ArgsKept DEF VarsType, ChannelsType
<1>2. /\ \A R \in SUBSET RoundAnswers : /\ Has(stateOut'[i], R) <=> Has(stateOut[i], R)
                                        /\ Once(stateOut[i], R) => Once(stateOut'[i], R)
      /\ \A R, T \in SUBSET RoundAnswers : Followed(stateOut[i], R, T) => Followed(stateOut'[i], R, T)
  BY <1>1, KeptQueue
<1>3. QED
  BY <1>2, RoundMessages, Zenon DEF Answering, Sending, Tells

(* ... and acks of puts, on a connection with none sent or received.       *)
LEMMA SameEvents ==
  ASSUME VarsType, VarsType', args' = args, NEW i \in Insts, Kept(eventOut[i], eventOut'[i], RoundEvents)
  PROVE  \A h \in StateKeys : /\ Acking(i, h)' <=> Acking(i, h)
                              /\ Once(eventOut[i], PutAcksOf(h)) => Once(eventOut'[i], PutAcksOf(h))
<1>1. eventOut[i] \in Seq(Events) /\ eventOut'[i] \in Seq(Events)
  BY ArgsKept DEF VarsType, ChannelsType
<1>2. \A R \in SUBSET RoundEvents : /\ Has(eventOut'[i], R) <=> Has(eventOut[i], R)
                                    /\ Once(eventOut[i], R) => Once(eventOut'[i], R)
  BY <1>1, KeptQueue
<1>3. QED
  BY <1>2, RoundMessages, Zenon DEF Acking

(* What a step that has nothing to do with the round does not change.      *)
LEMMA SameMessages ==
  ASSUME VarsType, VarsType', args' = args, SameQueues, NEW i \in Insts
  PROVE  /\ \A k \in Kinds : /\ Asking(i, k)' <=> Asking(i, k)
                             /\ Answering(i, k)' <=> Answering(i, k)
                             /\ Once(stateIn[i], GetsOf(k)) => Once(stateIn'[i], GetsOf(k))
                             /\ Once(stateOut[i], GetAcksOf(k)) => Once(stateOut'[i], GetAcksOf(k))
                             /\ \A c : Tells(stateOut[i], k, c) => Tells(stateOut'[i], k, c)
         /\ \A h \in StateKeys :
              /\ Sending(i, h)' <=> Sending(i, h)
              /\ Putting(i, h)' <=> Putting(i, h)
              /\ Acking(i, h)' <=> Acking(i, h)
              /\ Once(stateOut[i], StatesOf(h)) => Once(stateOut'[i], StatesOf(h))
              /\ Once(stateIn[i], PutsOf(h)) => Once(stateIn'[i], PutsOf(h))
              /\ Once(eventOut[i], PutAcksOf(h)) => Once(eventOut'[i], PutAcksOf(h))
              /\ \A k \in Kinds : Followed(stateOut[i], StatesOf(h), GetAcksOf(k)) =>
                                  Followed(stateOut'[i], StatesOf(h), GetAcksOf(k))
  BY SameIn, SameOut, SameEvents DEF SameQueues

(* The table, the tasks and the threads, when the step is not theirs.      *)
LEMMA SameTable ==
  ASSUME VarsType, args' = args, SameChunks, tasks' = tasks
  PROVE  \A h : (InTable(h)' <=> InTable(h)) /\ (Tasked(h)' <=> Tasked(h))
<1>1. \A n \in 1 .. Len(tasks) : tasks[n] \in 1 .. Len(chunks)
  BY ElementOfSeq DEF VarsType, ChunksType
<1>2. \A h : InTable(h)' <=> InTable(h)
  BY DEF InTable, SameChunks
<1>3. \A h : Tasked(h)' <=> Tasked(h)
  BY <1>1 DEF Tasked, SameChunks
<1>4. QED
  BY <1>2, <1>3

(* What the threads have read.                                             *)
LEMMA SameHands ==
  ASSUME VarsType, args' = args, SameChunks, SameThreads, NEW i \in Insts
  PROVE  /\ \A h : InHand(i, h)' <=> InHand(i, h)
         /\ \A k : Fetched(i, k)' <=> Fetched(i, k)
<1>1. pc[<<"se", i>>] = "putAck" => chunk[<<"se", i>>] \in 1 .. Len(chunks)
  BY ThreadsOf DEF VarsType, ThreadsType
<1>2. \A h : InHand(i, h)' <=> InHand(i, h)
  BY <1>1 DEF InHand, SameChunks, SameThreads
<1>3. \A k : Fetched(i, k)' <=> Fetched(i, k)
  BY DEF Fetched, SameThreads
<1>4. QED
  BY <1>2, <1>3

(* The hashkeys and pairs depend on what is in the table, sent or pending. *)
LEMMA SameKeys ==
  ASSUME args' = args, \A h \in StateKeys : InTable(h)' <=> InTable(h)
  PROVE  \A k : LiveKeys(k)' = LiveKeys(k)
  BY ArgsKept DEF LiveKeys

(* The hashkeys to come, when no state is sent or received.                *)
LEMMA SameToCome ==
  ASSUME args' = args, \A h \in StateKeys : InTable(h)' <=> InTable(h),
         \A i \in Insts, h \in StateKeys : Sending(i, h)' <=> Sending(i, h)
  PROVE  \A k : Keys(k)' = Keys(k)
  BY ArgsKept DEF Keys

(* The puts that have been counted, when none is sent or counted.          *)
LEMMA SameCounted ==
  ASSUME args' = args, currentSource' = currentSource, NEW k, LiveKeys(k)' = LiveKeys(k),
         \A d \in Insts \ {currentSource}, h \in LiveKeys(k) : Pending(d, h)' <=> Pending(d, h)
  PROVE  Counted(k)' = Counted(k) /\ Pairs(k)' = Pairs(k)
<1>1. Pairs(k)' = Pairs(k)
  BY ArgsKept DEF Pairs
<1>2. \A x \in Pairs(k) : x[1] \in LiveKeys(k) /\ x[2] \in Insts \ {currentSource}
  BY DEF Pairs
<1>3. QED
  BY <1>1, <1>2 DEF Counted

(* A step that has nothing to do with the round leaves it as it is.        *)
LEMMA RoundFrame ==
  ASSUME VarsType, VarsType', RoundInv, args' = args,
         UNCHANGED <<acked, count, putAcks, currentSource, tasks>>, SameChunks, SameQueues, SameThreads
  PROVE  RoundInv' /\ \A k \in Kinds : Active(k)' <=> Active(k)
<1>1. Insts' = Insts /\ StateKeys' = StateKeys /\ Threads' = Threads
  BY ArgsKept
<1>2. \A i \in Insts, k \in Kinds : /\ Asking(i, k)' <=> Asking(i, k)
                                    /\ Answering(i, k)' <=> Answering(i, k)
                                    /\ Fetched(i, k)' <=> Fetched(i, k)
                                    /\ Once(stateIn[i], GetsOf(k)) => Once(stateIn'[i], GetsOf(k))
                                    /\ Once(stateOut[i], GetAcksOf(k)) => Once(stateOut'[i], GetAcksOf(k))
                                    /\ \A c : Tells(stateOut[i], k, c) => Tells(stateOut'[i], k, c)
  BY SameMessages, SameHands
<1>3. \A i \in Insts, h \in StateKeys : /\ Sending(i, h)' <=> Sending(i, h)
                                        /\ Putting(i, h)' <=> Putting(i, h)
                                        /\ Acking(i, h)' <=> Acking(i, h)
                                        /\ InHand(i, h)' <=> InHand(i, h)
                                        /\ Pending(i, h)' <=> Pending(i, h)
  BY SameMessages, SameHands, SameTable DEF Pending
<1>4. \A i \in Insts, h \in StateKeys :
        /\ Once(stateOut[i], StatesOf(h)) => Once(stateOut'[i], StatesOf(h))
        /\ Once(stateIn[i], PutsOf(h)) => Once(stateIn'[i], PutsOf(h))
        /\ Once(eventOut[i], PutAcksOf(h)) => Once(eventOut'[i], PutAcksOf(h))
        /\ Followed(stateOut[i], StatesOf(h), GetAcksOf(h.kind)) =>
             Followed(stateOut'[i], StatesOf(h), GetAcksOf(h.kind))
  BY SameMessages, MessageTypes
<1>5. \A h : (InTable(h)' <=> InTable(h)) /\ (Tasked(h)' <=> Tasked(h))
  BY SameTable
<1>6. \A k : LiveKeys(k)' = LiveKeys(k) /\ Keys(k)' = Keys(k)
  BY <1>3, <1>5, SameKeys, SameToCome
<1>7. \A k : LiveKeys(k) \subseteq StateKeys
  BY DEF LiveKeys
<1>8. \A k : Counted(k)' = Counted(k)
  BY <1>3, <1>6, <1>7, SameCounted
<1>9. \A k \in Kinds : Active(k)' <=> Active(k)
  BY <1>1, <1>2 DEF Active
<1>10. SourceInv'
  BY <1>1, <1>2, <1>3, <1>5, <1>9, ScopeKept DEF RoundInv, SourceInv
<1>11. AnswersInv'
  <2>1. \A i \in Insts, k \in Kinds : Fetched(i, k) => read'[<<"ss", i>>] = read[<<"ss", i>>]
    BY DEF Fetched, SameThreads
  <2>2. QED
    BY <1>1, <1>2, <1>3, <1>4, <1>5, <1>6, <2>1 DEF RoundInv, AnswersInv
<1>12. TableInv'
  <2>1. \A n \in 1 .. Len(tasks) : tasks[n] \in 1 .. Len(chunks)
    BY ElementOfSeq DEF VarsType, ChunksType
  <2>2. \A h \in StateKeys : InTable(h)' => Active(h.kind)'
    BY <1>5, <1>9, MessageTypes DEF RoundInv, TableInv
  <2>3. QED
    BY <1>1, <2>1, <2>2 DEF RoundInv, TableInv, SameChunks
<1>13. PutsInv'
  BY <1>1, <1>3, <1>4, <1>5 DEF RoundInv, PutsInv
<1>14. PutAcksInv'
  <2>1. \A d \in Insts, h \in StateKeys : InHand(d, h) => read'[<<"se", d>>] = read[<<"se", d>>]
    BY DEF InHand, SameThreads
  <2>2. QED
    BY <1>1, <1>3, <1>8, <1>9, <2>1 DEF RoundInv, PutAcksInv
<1>15. QED
  BY <1>9, <1>10, <1>11, <1>12, <1>13, <1>14 DEF RoundInv

-----------------------------------------------------------------------------
(* No round.                                                               *)

(* Nothing of a round is under way.                                        *)
Still ==
  /\ \A k \in Kinds : ~Active(k)
  /\ \A i \in Insts, k \in Kinds : ~Fetched(i, k)
  /\ \A i \in Insts, h \in StateKeys : ~Sending(i, h) /\ ~Putting(i, h) /\ ~Acking(i, h) /\ ~InHand(i, h)
  /\ \A h \in StateKeys : ~InTable(h)
  /\ tasks = <<>>

(* When no kind takes part, nothing is.                                    *)
LEMMA NoRoundStill ==
  ASSUME VarsType, RoundInv, ~Round
  PROVE  Still
<1>1. \A k \in Kinds : ~Active(k) /\ ~acked[k] /\ \A i \in Insts : ~Asking(i, k) /\ ~Answering(i, k)
  BY DEF Round, Active
<1>2. \A i \in Insts, k \in Kinds : ~Fetched(i, k)
  BY <1>1 DEF RoundInv, AnswersInv
<1>3. \A h \in StateKeys : h.kind \in Kinds
  BY MessageTypes
<1>4. \A h \in StateKeys : ~InTable(h)
  BY <1>1, <1>3 DEF RoundInv, TableInv
<1>5. \A i \in Insts, h \in StateKeys : ~Putting(i, h) /\ ~Acking(i, h) /\ ~InHand(i, h)
  BY <1>4 DEF RoundInv, SourceInv
<1>6. ASSUME NEW i \in Insts, NEW h \in StateKeys, Sending(i, h)
      PROVE  FALSE
  <2>1. Followed(stateOut[i], StatesOf(h), GetAcksOf(h.kind))
    BY DEF RoundInv, AnswersInv
  <2>2. Answering(i, h.kind)
    BY <1>6, <2>1 DEF Sending, Answering, Has, Followed
  <2>3. QED
    BY <1>1, <1>3, <2>2
<1>7. tasks = <<>>
  <2>1. tasks \in Seq(1 .. Len(chunks)) /\ chunks \in Seq(Chunks)
    BY DEF VarsType, ChunksType
  <2>2. SUFFICES ASSUME tasks # <<>> PROVE FALSE
    OBVIOUS
  <2>3. 1 \in 1 .. Len(tasks) /\ tasks[1] \in 1 .. Len(chunks)
    BY <2>1, <2>2, ElementOfSeq, EmptySeq, LenProperties
  <2>4. chunks[tasks[1]] \in Chunks /\ chunks[tasks[1]].live
    BY <2>1, <2>3, ElementOfSeq DEF RoundInv, TableInv
  <2>5. chunks[tasks[1]].hashkey \in StateKeys /\ InTable(chunks[tasks[1]].hashkey)
    BY <2>3, <2>4 DEF Chunks, InTable
  <2>6. QED
    BY <1>4, <2>5
<1>8. QED
  BY <1>1, <1>2, <1>4, <1>5, <1>6, <1>7 DEF Still

(* When nothing is under way, the invariant of the round says nothing.     *)
LEMMA StillRound == VarsType /\ Still => RoundInv /\ ~Round
<1>1. SUFFICES ASSUME VarsType, Still PROVE RoundInv
  BY DEF Still, Round
<1>2. \A k \in Kinds : ~Active(k) /\ ~acked[k] /\ \A i \in Insts : ~Asking(i, k) /\ ~Answering(i, k)
  BY <1>1 DEF Still, Active
<1>3. SourceInv
  BY <1>1, <1>2 DEF SourceInv, Still
<1>4. \A i \in Insts, k \in Kinds : Once(stateIn[i], GetsOf(k)) /\ Once(stateOut[i], GetAcksOf(k))
  BY <1>2, HasNot DEF Asking, Answering
<1>5. \A i \in Insts, h \in StateKeys :
        /\ Once(stateOut[i], StatesOf(h)) /\ Followed(stateOut[i], StatesOf(h), GetAcksOf(h.kind))
        /\ Once(stateIn[i], PutsOf(h)) /\ Once(eventOut[i], PutAcksOf(h))
  BY <1>1, HasNot DEF Still, Sending, Putting, Acking
<1>6. AnswersInv
  BY <1>1, <1>2, <1>4, <1>5 DEF AnswersInv, Still
<1>7. TableInv
  <2>1. \A c \in 1 .. Len(chunks) : chunks[c].hashkey \in StateKeys
    <3>1. \A c \in 1 .. Len(chunks) : chunks[c] \in Chunks
      BY <1>1, ElementOfSeq DEF VarsType, ChunksType
    <3>2. QED
      BY <3>1 DEF Chunks
  <2>2. \A c \in 1 .. Len(chunks) : ~chunks[c].live
    BY <1>1, <2>1 DEF Still, InTable
  <2>3. 1 .. Len(tasks) = {}
    BY <1>1 DEF Still
  <2>4. QED
    BY <1>1, <2>2, <2>3 DEF TableInv, Still
<1>8. PutsInv
  <2>1. \A h : ~Tasked(h)
    <3>1. 1 .. Len(tasks) = {}
      BY <1>1 DEF Still
    <3>2. QED
      BY <3>1 DEF Tasked
  <2>2. QED
    BY <1>1, <1>5, <2>1 DEF PutsInv, Still
<1>9. PutAcksInv
  BY <1>1, <1>2 DEF PutAcksInv, Still
<1>10. QED
  BY <1>3, <1>6, <1>7, <1>8, <1>9 DEF RoundInv

(* The same of the next state.                                             *)
LEMMA StillRoundNext ==
  ASSUME VarsType', Still'
  PROVE  RoundInv' /\ ~Round'
<1>1. (VarsType /\ Still => RoundInv /\ ~Round)'
  BY StillRound, PTL
<1>2. QED
  BY <1>1

(* Stillness lasts, whoever the source is.                                 *)
LEMMA StillFrame ==
  ASSUME VarsType, VarsType', Still, args' = args, UNCHANGED <<acked, tasks>>,
         SameChunks, SameQueues, SameThreads
  PROVE  Still'
<1>1. Insts' = Insts /\ StateKeys' = StateKeys
  BY ArgsKept
<1>2. \A i \in Insts, k \in Kinds : /\ Asking(i, k)' <=> Asking(i, k)
                                    /\ Answering(i, k)' <=> Answering(i, k)
                                    /\ Fetched(i, k)' <=> Fetched(i, k)
  BY SameMessages, SameHands
<1>3. \A i \in Insts, h \in StateKeys : /\ Sending(i, h)' <=> Sending(i, h)
                                        /\ Putting(i, h)' <=> Putting(i, h)
                                        /\ Acking(i, h)' <=> Acking(i, h)
                                        /\ InHand(i, h)' <=> InHand(i, h)
  BY SameMessages, SameHands
<1>4. \A h : InTable(h)' <=> InTable(h)
  BY SameTable
<1>5. QED
  BY <1>1, <1>2, <1>3, <1>4 DEF Still, Active

-----------------------------------------------------------------------------
(* The steps of a round.                                                   *)

(* Nothing is said on the connections.                                     *)
LEMMA Silent ==
  ASSUME UNCHANGED <<stateIn, stateOut, eventOut>>
  PROVE  SameQueues
  BY DEF SameQueues, Kept

(* Who takes part, when the flags stay.                                    *)
LEMMA SameActive ==
  ASSUME args' = args, acked' = acked,
         \A i \in Insts, k \in Kinds : (Asking(i, k)' <=> Asking(i, k)) /\ (Answering(i, k)' <=> Answering(i, k))
  PROVE  \A k \in Kinds : Active(k)' <=> Active(k)
  BY ArgsKept DEF Active

-----------------------------------------------------------------------------
(* RoundInv is preserved by the steps of a round.                          *)

(* The thread of the source sets the count.                                *)
LEMMA SetCountRound ==
  ASSUME VarsType, VarsType', RoundInv, NEW i \in Insts, setGetCount(i)
  PROVE  RoundInv' /\ \A k \in Kinds : Active(k)' <=> Active(k)
<1>1. /\ args' = args /\ UNCHANGED <<acked, putAcks, currentSource, chunks, tasks, chunk>>
      /\ UNCHANGED <<stateIn, stateOut, eventOut>>
      /\ Goto(<<"ss", i>>, "getAck", "check")
      /\ read' = [read EXCEPT ![<<"ss", i>>] = NoRead]
  BY DEF setGetCount, chunkVars, chanVars
<1>2. PICK k \in Kinds : k = read[<<"ss", i>>].kind /\ Fetched(i, k)
  BY <1>1, ThreadsOf DEF VarsType, ThreadsType, Goto, Fetched
<1>3. /\ acked[k] /\ read[<<"ss", i>>].count = Cardinality(LiveKeys(k)) /\ i = currentSource
  BY <1>2 DEF RoundInv, AnswersInv, SourceInv
<1>4. /\ count'[k] = Cardinality(LiveKeys(k)) /\ \A l \in Kinds : l # k => count'[l] = count[l]
  BY <1>2, <1>3 DEF setGetCount, VarsType, SyncType
<1>5. /\ Insts' = Insts /\ StateKeys' = StateKeys /\ SameQueues /\ SameChunks
  BY <1>1, ArgsKept, Silent DEF SameChunks
<1>6. /\ "check" \in Labels /\ <<"ss", i>> \in Threads
  BY ThreadsOf DEF Labels
<1>7. /\ pc'[<<"ss", i>>] = "check" /\ \A t \in Threads : t # <<"ss", i>> => pc'[t] = pc[t] /\ read'[t] = read[t]
  BY <1>1, <1>6, GotoType DEF VarsType, ThreadsType
<1>8. /\ \A j \in Insts, l \in Kinds : ~Fetched(j, l)'
      /\ \A j \in Insts, l \in Kinds : Fetched(j, l) => l = k
  <2>1. \A j \in Insts : pc[<<"ss", j>>] = "getAck" => j = i
    <3>1. \A j \in Insts : read[<<"ss", j>>].kind \in Kinds
      BY ThreadsOf DEF VarsType, ThreadsType
    <3>2. QED
      BY <1>3, <3>1 DEF RoundInv, SourceInv, Fetched
  <2>2. \A j \in Insts : j # i => <<"ss", j>> \in Threads /\ <<"ss", j>> # <<"ss", i>>
    BY ThreadsOf
  <2>3. QED
    BY <1>2, <1>7, <2>1, <2>2 DEF Fetched
<1>9. \A j \in Insts : \A h : InHand(j, h)' <=> InHand(j, h)
  BY <1>1, <1>7, ThreadsOf DEF InHand
<1>10. \A j \in Insts, l \in Kinds : (Asking(j, l)' <=> Asking(j, l)) /\ (Answering(j, l)' <=> Answering(j, l))
  BY <1>1, <1>5, SameMessages
<1>11. \A j \in Insts, h \in StateKeys : /\ Sending(j, h)' <=> Sending(j, h)
                                         /\ Putting(j, h)' <=> Putting(j, h)
                                         /\ Acking(j, h)' <=> Acking(j, h)
  BY <1>1, <1>5, SameMessages
<1>12. \A h : (InTable(h)' <=> InTable(h)) /\ (Tasked(h)' <=> Tasked(h))
  BY <1>1, <1>5, SameTable
<1>13. \A l : LiveKeys(l)' = LiveKeys(l) /\ Keys(l)' = Keys(l)
  BY <1>1, <1>11, <1>12, SameKeys, SameToCome
<1>14. \A l : Counted(l)' = Counted(l)
  <2>1. \A l : LiveKeys(l) \subseteq StateKeys
    BY DEF LiveKeys
  <2>2. QED
    BY <1>1, <1>9, <1>11, <1>12, <1>13, <2>1, SameCounted DEF Pending
<1>15. \A l \in Kinds : Active(l)' <=> Active(l)
  BY <1>1, <1>10, SameActive
<1>16. SourceInv'
  BY <1>1, <1>5, <1>8, <1>9, <1>10, <1>11, <1>12, <1>15, ScopeKept DEF RoundInv, SourceInv
<1>17. AnswersInv'
  <2>1. \A j \in Insts, l \in Kinds : Asking(j, l) \/ Answering(j, l) => l # k
    BY <1>3 DEF RoundInv, AnswersInv
  <2>2. \A l \in Kinds : acked[l] => count'[l] = Cardinality(LiveKeys(l))
    BY <1>4, <1>8 DEF RoundInv, AnswersInv
  <2>3. QED
    BY <1>1, <1>4, <1>5, <1>8, <1>10, <1>13, <2>1, <2>2 DEF RoundInv, AnswersInv
<1>18. TableInv'
  BY <1>1, <1>5, <1>12, <1>15, MessageTypes DEF RoundInv, TableInv
<1>19. PutsInv'
  BY <1>1, <1>5, <1>9, <1>11, <1>12 DEF RoundInv, PutsInv
<1>20. PutAcksInv'
  <2>1. \A d \in Insts : read'[<<"se", d>>] = read[<<"se", d>>]
    BY <1>7, ThreadsOf
  <2>2. QED
    BY <1>1, <1>5, <1>9, <1>14, <1>15, <2>1 DEF RoundInv, PutAcksInv
<1>21. QED
  BY <1>15, <1>16, <1>17, <1>18, <1>19, <1>20 DEF RoundInv

(* The values of finitely many arguments are finitely many.                *)
LEMMA ImageFinite ==
  ASSUME NEW S, IsFiniteSet(S), NEW f
  PROVE  IsFiniteSet({f[x] : x \in S})
<1>1. PICK T : T = {f[x] : x \in S}
  OBVIOUS
<1>2. PICK g : g = [x \in S |-> f[x]]
  OBVIOUS
<1>3. g \in [S -> T] /\ \A y \in T : \E x \in S : g[x] = y
  BY <1>1, <1>2
<1>4. g \in Surjection(S, T)
  BY <1>3 DEF Surjection
<1>5. QED
  BY <1>1, <1>4, FS_Surjection

(* The table is finite, and so are the puts it takes to copy it.           *)
LEMMA TableFinite ==
  ASSUME VarsType, NEW k
  PROVE  /\ IsFiniteSet(LiveKeys(k)) /\ Cardinality(LiveKeys(k)) \in Nat
         /\ IsFiniteSet(Counted(k)) /\ Cardinality(Counted(k)) \in Nat
         /\ Counted(k) \subseteq Pairs(k) /\ Cardinality(Counted(k)) <= Cardinality(Pairs(k))
         /\ Cardinality(Counted(k)) = Cardinality(Pairs(k)) => Counted(k) = Pairs(k)
         /\ currentSource \in Insts => Cardinality(Pairs(k)) = Cardinality(LiveKeys(k)) * (args.n - 1)
<1>1. IsFiniteSet(LiveKeys(k))
  <2>1. Len(chunks) \in Nat
    BY LenProperties DEF VarsType, ChunksType
  <2>2. IsFiniteSet(1 .. Len(chunks))
    BY <2>1, FS_Interval
  <2>3. PICK f : f = [c \in 1 .. Len(chunks) |-> chunks[c].hashkey]
    OBVIOUS
  <2>4. IsFiniteSet({f[c] : c \in 1 .. Len(chunks)}) /\ LiveKeys(k) \subseteq {f[c] : c \in 1 .. Len(chunks)}
    BY <2>2, <2>3, ImageFinite DEF LiveKeys, InTable
  <2>5. QED
    BY <2>4, FS_Subset
<1>2. /\ IsFiniteSet(Insts) /\ Cardinality(Insts) = args.n /\ args.n \in Nat \ {0, 1}
  BY InstancesFinite DEF VarsType
<1>3. /\ IsFiniteSet(Insts \ {currentSource})
      /\ currentSource \in Insts => Cardinality(Insts \ {currentSource}) = args.n - 1
  BY <1>2, FS_RemoveElement
<1>4. /\ IsFiniteSet(Pairs(k))
      /\ Cardinality(Pairs(k)) = Cardinality(LiveKeys(k)) * Cardinality(Insts \ {currentSource})
  BY <1>1, <1>3, FS_Product DEF Pairs
<1>5. Counted(k) \subseteq Pairs(k)
  BY DEF Counted
<1>6. /\ IsFiniteSet(Counted(k)) /\ Cardinality(Counted(k)) <= Cardinality(Pairs(k))
      /\ Cardinality(Counted(k)) = Cardinality(Pairs(k)) => Counted(k) = Pairs(k)
  BY <1>4, <1>5, FS_Subset
<1>7. Cardinality(LiveKeys(k)) \in Nat /\ Cardinality(Counted(k)) \in Nat
  BY <1>1, <1>6, FS_CardinalityType
<1>8. QED
  BY <1>1, <1>3, <1>4, <1>5, <1>6, <1>7

(* A put ack is counted.                                                   *)
LEMMA CountRound ==
  ASSUME VarsType, VarsType', RoundInv, NEW i \in Insts, incrementPutAcks(i)
  PROVE  RoundInv' /\ \A k \in Kinds : Active(k)' <=> Active(k)
<1>0. PICK t \in Threads : t = <<"se", i>>
  BY ThreadsOf
<1>1. /\ args' = args /\ UNCHANGED <<acked, count, currentSource, chunks, tasks, chunk>>
      /\ UNCHANGED <<stateIn, stateOut, eventOut>>
      /\ Goto(t, "putAck", "chunkAck")
      /\ read' = [read EXCEPT ![t].count = chunks[chunk[t]].acks]
  BY <1>0 DEF incrementPutAcks, chunkVars, chanVars
<1>2. chunk[t] \in 1 .. Len(chunks) /\ chunks \in Seq(Chunks)
  BY <1>1 DEF VarsType, ThreadsType, ChunksType, Goto
<1>3. PICK h \in StateKeys : h = chunks[chunk[t]].hashkey
  <2>1. chunks[chunk[t]] \in Chunks
    BY <1>2, ElementOfSeq
  <2>2. QED
    BY <2>1 DEF Chunks
<1>4. PICK k \in Kinds : k = h.kind
  BY MessageTypes
<1>5. /\ putAcks'[k] = read[t].count + 1 /\ \A l \in Kinds : l # k => putAcks'[l] = putAcks[l]
      /\ read[t].count \in Nat
  BY <1>0, <1>3, <1>4 DEF incrementPutAcks, VarsType, SyncType, ThreadsType
<1>6. /\ Insts' = Insts /\ StateKeys' = StateKeys /\ SameQueues /\ SameChunks
  BY <1>1, ArgsKept, Silent DEF SameChunks
<1>7. /\ pc[t] = "putAck" /\ pc'[t] = "chunkAck"
      /\ \A u \in Threads : u # t => pc'[u] = pc[u] /\ read'[u] = read[u]
  <2>1. "chunkAck" \in Labels
    BY DEF Labels
  <2>2. QED
    BY <1>1, <2>1, GotoType DEF VarsType, ThreadsType
<1>8. \A j \in Insts : /\ <<"ss", j>> \in Threads /\ <<"ss", j>> # t /\ <<"se", j>> \in Threads
                       /\ j # i => <<"se", j>> # t
  BY <1>0, ThreadsOf
<1>9. \A j \in Insts : \A l : Fetched(j, l)' <=> Fetched(j, l)
  BY <1>7, <1>8 DEF Fetched
<1>10. /\ InHand(i, h) /\ \A g : InHand(i, g) => g = h
       /\ \A j \in Insts : \A g : InHand(j, g)' <=> j # i /\ InHand(j, g)
  BY <1>0, <1>1, <1>3, <1>7, <1>8 DEF InHand
<1>11. i # currentSource /\ InTable(h) /\ ~Tasked(h) /\ ~Putting(i, h) /\ ~Acking(i, h)
  BY <1>10 DEF RoundInv, SourceInv, PutsInv
<1>12. \A j \in Insts, l \in Kinds : (Asking(j, l)' <=> Asking(j, l)) /\ (Answering(j, l)' <=> Answering(j, l))
  BY <1>1, <1>6, SameMessages
<1>13. \A j \in Insts, g \in StateKeys : /\ Sending(j, g)' <=> Sending(j, g)
                                         /\ Putting(j, g)' <=> Putting(j, g)
                                         /\ Acking(j, g)' <=> Acking(j, g)
  BY <1>1, <1>6, SameMessages
<1>14. \A g : (InTable(g)' <=> InTable(g)) /\ (Tasked(g)' <=> Tasked(g))
  BY <1>1, <1>6, SameTable
<1>15. \A l : LiveKeys(l)' = LiveKeys(l) /\ Keys(l)' = Keys(l)
  BY <1>1, <1>13, <1>14, SameKeys, SameToCome
<1>16. \A l \in Kinds : l # k => Counted(l)' = Counted(l)
  <2>1. ASSUME NEW l \in Kinds, l # k
        PROVE  \A d \in Insts \ {currentSource}, g \in LiveKeys(l) : Pending(d, g)' <=> Pending(d, g)
    <3>1. \A g \in LiveKeys(l) : g \in StateKeys /\ g # h
      BY <1>4, <2>1 DEF LiveKeys
    <3>2. QED
      BY <1>10, <1>13, <1>14, <3>1 DEF Pending
  <2>2. QED
    BY <1>1, <1>15, <2>1, SameCounted
<1>17. Cardinality(Counted(k)') = Cardinality(Counted(k)) + 1
  <2>1. Pairs(k)' = Pairs(k)
    BY <1>1, <1>6, <1>15 DEF Pairs
  <2>2. <<h, i>> \in Pairs(k) /\ <<h, i>> \notin Counted(k)
    BY <1>4, <1>10, <1>11 DEF Pairs, LiveKeys, Counted, Pending
  <2>3. \A x \in Pairs(k) : x[1] \in StateKeys /\ x[2] \in Insts /\ (x[1] = h /\ x[2] = i => x = <<h, i>>)
    BY DEF Pairs, LiveKeys
  <2>4. \A x \in Pairs(k) : Pending(x[2], x[1])' <=> Pending(x[2], x[1]) /\ x # <<h, i>>
    <3>1. SUFFICES ASSUME NEW x \in Pairs(k) PROVE Pending(x[2], x[1])' <=> Pending(x[2], x[1]) /\ x # <<h, i>>
      OBVIOUS
    <3>2. PICK g \in StateKeys, d \in Insts : g = x[1] /\ d = x[2] /\ (g = h /\ d = i => x = <<h, i>>)
      BY <2>3
    <3>3. CASE x = <<h, i>>
      <4>1. g = h /\ d = i
        BY <3>2, <3>3
      <4>2. ~Pending(d, g)'
        BY <1>10, <1>11, <1>13, <1>14, <4>1 DEF Pending
      <4>3. QED
        BY <3>2, <3>3, <4>2
    <3>4. CASE x # <<h, i>>
      <4>1. ~(g = h /\ d = i)
        BY <3>2, <3>4
      <4>2. Pending(d, g)' <=> Pending(d, g)
        BY <1>10, <1>13, <1>14, <4>1 DEF Pending
      <4>3. QED
        BY <3>2, <3>4, <4>2
    <3>5. QED
      BY <3>3, <3>4
  <2>5. Counted(k)' = Counted(k) \cup {<<h, i>>}
    BY <2>1, <2>2, <2>4 DEF Counted
  <2>6. QED
    BY <2>2, <2>5, TableFinite, FS_AddElement
<1>18. \A l \in Kinds : Active(l)' <=> Active(l)
  BY <1>1, <1>12, SameActive
<1>19. SourceInv'
  BY <1>1, <1>6, <1>9, <1>10, <1>12, <1>13, <1>14, <1>18, ScopeKept DEF RoundInv, SourceInv
<1>20. AnswersInv'
  <2>1. \A j \in Insts : read'[<<"ss", j>>] = read[<<"ss", j>>]
    BY <1>7, <1>8
  <2>2. AnswersInv
    BY DEF RoundInv
  <2>3. \A j \in Insts, l \in Kinds :
          /\ Once(stateIn'[j], GetsOf(l)) /\ Once(stateOut'[j], GetAcksOf(l))
          /\ Asking(j, l)' => ~acked'[l] /\ count'[l] = Large /\ Keys(l)' = {} /\ ~Answering(j, l)'
          /\ Answering(j, l)' => /\ ~acked'[l] /\ count'[l] = Large /\ Cardinality(Keys(l)') < Large
                                 /\ Tells(stateOut'[j], l, Cardinality(Keys(l)'))
    BY <1>1, <1>12, <1>15, <2>2 DEF AnswersInv
  <2>4. \A j \in Insts, l \in Kinds :
          Fetched(j, l)' => /\ acked'[l] /\ count'[l] = Large /\ Cardinality(LiveKeys(l)') < Large
                            /\ read'[<<"ss", j>>].count = Cardinality(LiveKeys(l)')
    BY <1>1, <1>9, <1>15, <2>1, <2>2 DEF AnswersInv
  <2>5. \A j \in Insts, g \in StateKeys :
          Once(stateOut'[j], StatesOf(g)) /\ Followed(stateOut'[j], StatesOf(g), GetAcksOf(g.kind))
    BY <1>1, <2>2 DEF AnswersInv
  <2>6. \A l \in Kinds : acked'[l] => count'[l] = Cardinality(LiveKeys(l)') \/ \E j \in Insts : Fetched(j, l)'
    BY <1>1, <1>9, <1>15, <2>2 DEF AnswersInv
  <2>7. QED
    BY <1>6, <2>3, <2>4, <2>5, <2>6 DEF AnswersInv
<1>21. TableInv'
  BY <1>1, <1>6, <1>14, <1>18, MessageTypes DEF RoundInv, TableInv
<1>22. PutsInv'
  BY <1>1, <1>6, <1>10, <1>13, <1>14 DEF RoundInv, PutsInv
<1>23. PutAcksInv'
  <2>1. read[t].count <= Cardinality(Counted(k)) /\ Cardinality(Counted(k)) \in Nat
    BY <1>0, <1>4, <1>10, TableFinite DEF RoundInv, PutAcksInv
  <2>2. ASSUME NEW l \in Kinds, Active(l)'
        PROVE  putAcks'[l] <= Cardinality(Counted(l)')
    <3>1. CASE l = k
      BY <1>5, <1>17, <2>1, <3>1
    <3>2. CASE l # k
      BY <1>5, <1>16, <1>18, <2>2, <3>2 DEF RoundInv, PutAcksInv
    <3>3. QED
      BY <3>1, <3>2
  <2>3. ASSUME NEW d \in Insts, NEW g \in StateKeys, InHand(d, g)'
        PROVE  read'[<<"se", d>>].count <= Cardinality(Counted(g.kind)')
    <3>1. /\ d # i /\ InHand(d, g) /\ read'[<<"se", d>>] = read[<<"se", d>>] /\ g.kind \in Kinds
          /\ read[<<"se", d>>].count \in Nat
      BY <1>7, <1>8, <1>10, <2>3, MessageTypes DEF VarsType, ThreadsType
    <3>2. read[<<"se", d>>].count <= Cardinality(Counted(g.kind))
      BY <3>1 DEF RoundInv, PutAcksInv
    <3>3. CASE g.kind = k
      BY <1>17, <2>1, <3>1, <3>2, <3>3
    <3>4. CASE g.kind # k
      BY <1>16, <3>1, <3>2, <3>4
    <3>5. QED
      BY <3>3, <3>4
  <2>4. QED
    BY <1>6, <2>2, <2>3 DEF PutAcksInv
<1>24. QED
  BY <1>18, <1>19, <1>20, <1>21, <1>22, <1>23 DEF RoundInv

(* A round that is found complete is: every put has been acked.            *)
LEMMA CompleteRound ==
  ASSUME VarsType, RoundInv, Complete
  PROVE  /\ \A d \in Insts, h \in StateKeys : ~Sending(d, h) /\ ~Putting(d, h) /\ ~Acking(d, h) /\ ~InHand(d, h)
         /\ \A d \in Insts, k \in Kinds : ~Asking(d, k) /\ ~Answering(d, k) /\ ~Fetched(d, k)
         /\ tasks = <<>>
<1>1. /\ \A k \in ScopeKinds : acked[k] /\ putAcks[k] = count[k] * (args.n - 1) /\ k \in Kinds /\ Active(k)
      /\ \A k \in Kinds : putAcks[k] \in Nat /\ count[k] \in Nat
  BY ScopeType DEF Complete, Active, VarsType, SyncType
<1>2. \A d \in Insts, k \in Kinds : ~Asking(d, k) /\ ~Answering(d, k)
  BY <1>1 DEF RoundInv, SourceInv, AnswersInv, Active
<1>3. \A d \in Insts, k \in Kinds : Fetched(d, k) => k \in ScopeKinds
  BY DEF RoundInv, SourceInv, AnswersInv, Active
<1>4. \A d \in Insts, h \in StateKeys : ~Sending(d, h)
  <2>1. ASSUME NEW d \in Insts, NEW h \in StateKeys, Sending(d, h)
        PROVE  Answering(d, h.kind) /\ h.kind \in Kinds
    <3>1. Followed(stateOut[d], StatesOf(h), GetAcksOf(h.kind))
      BY DEF RoundInv, AnswersInv
    <3>2. QED
      BY <2>1, <3>1, MessageTypes DEF Sending, Answering, Has, Followed
  <2>2. QED
    BY <1>2, <2>1
<1>5. args.n \in Nat \ {0, 1} /\ IsFiniteSet(Insts) /\ Cardinality(Insts) = args.n
  BY InstancesFinite DEF VarsType
<1>6. ASSUME NEW k \in ScopeKinds, currentSource \in Insts
      PROVE  Counted(k) = Pairs(k) /\ \A d \in Insts : ~Fetched(d, k)
  <2>1. PICK l \in Nat, p \in Nat, c \in Nat, r \in Nat : /\ l = Cardinality(LiveKeys(k)) /\ p = Cardinality(Counted(k))
                                             /\ c = count[k] /\ r = args.n - 1
    BY <1>1, <1>5, TableFinite
  <2>2. /\ p <= l * r /\ (p = l * r => Counted(k) = Pairs(k)) /\ putAcks[k] = c * r /\ r > 0
    BY <1>1, <1>5, <1>6, <2>1, TableFinite
  <2>3. putAcks[k] <= p
    BY <1>1, <2>1 DEF RoundInv, PutAcksInv
  <2>4. c * r <= l * r
    <3>1. c * r \in Nat /\ l * r \in Nat
      OBVIOUS
    <3>2. QED
      BY <2>2, <2>3, <3>1
  <2>5. c <= l
    <3>1. SUFFICES ASSUME l + 1 <= c PROVE FALSE
      OBVIOUS
    <3>2. (l + 1) * r <= c * r /\ (l + 1) * r = l * r + r
      BY <3>1
    <3>3. c * r \in Nat /\ l * r \in Nat
      OBVIOUS
    <3>4. QED
      BY <2>2, <2>4, <3>2, <3>3
  <2>6. \A d \in Insts : ~Fetched(d, k)
    <3>1. ASSUME NEW d \in Insts, Fetched(d, k) PROVE c = Large /\ l < Large
      BY <1>1, <2>1, <3>1 DEF RoundInv, AnswersInv
    <3>2. QED
      BY <2>5, <3>1 DEF Large
  <2>7. c = l
    BY <1>1, <2>1, <2>6 DEF RoundInv, AnswersInv
  <2>8. p = l * r
    <3>1. l * r \in Nat
      OBVIOUS
    <3>2. QED
      BY <2>2, <2>3, <2>7, <3>1
  <2>9. QED
    BY <2>2, <2>6, <2>8
<1>7. \A d \in Insts, k \in Kinds : ~Fetched(d, k)
  BY <1>3, <1>6 DEF RoundInv, SourceInv
<1>8. \A h \in StateKeys : h.kind \in ScopeKinds
  BY MessageTypes DEF StateKinds
<1>9. ASSUME NEW d \in Insts, NEW h \in StateKeys, d # currentSource, InTable(h), currentSource \in Insts
      PROVE  ~Pending(d, h)
  <2>1. <<h, d>> \in Pairs(h.kind)
    BY <1>9 DEF Pairs, LiveKeys
  <2>2. <<h, d>> \in Counted(h.kind)
    BY <1>6, <1>8, <1>9, <2>1
  <2>3. QED
    BY <2>2 DEF Counted
<1>10. \A h \in StateKeys : InTable(h) => currentSource \in Insts
  BY MessageTypes DEF RoundInv, SourceInv, TableInv
<1>11. \A d \in Insts, h \in StateKeys : ~Putting(d, h) /\ ~Acking(d, h) /\ ~InHand(d, h)
  BY <1>9, <1>10 DEF RoundInv, SourceInv, Pending
<1>12. tasks = <<>>
  <2>1. tasks \in Seq(1 .. Len(chunks)) /\ chunks \in Seq(Chunks)
    BY DEF VarsType, ChunksType
  <2>2. SUFFICES ASSUME tasks # <<>> PROVE FALSE
    OBVIOUS
  <2>3. 1 \in 1 .. Len(tasks) /\ tasks[1] \in 1 .. Len(chunks)
    BY <2>1, <2>2, ElementOfSeq, EmptySeq, LenProperties
  <2>4. chunks[tasks[1]] \in Chunks /\ chunks[tasks[1]].live
    BY <2>1, <2>3, ElementOfSeq DEF RoundInv, TableInv
  <2>5. PICK h \in StateKeys : InTable(h) /\ Tasked(h)
    BY <2>3, <2>4 DEF Chunks, InTable, Tasked
  <2>6. PICK d \in Insts : d # currentSource
    <3>1. 1 \in Insts /\ 2 \in Insts
      BY <1>5 DEF Insts
    <3>2. QED
      BY <3>1
  <2>7. QED
    BY <1>9, <1>10, <2>5, <2>6 DEF Pending
<1>13. QED
  BY <1>2, <1>4, <1>7, <1>11, <1>12

(* checkIfInstFinished: the round goes on, or nothing of it is left.       *)
LEMMA CheckRound ==
  ASSUME VarsType, VarsType', RoundInv, NEW t \in Threads, checkIfInstFinished(t)
  PROVE  /\ RoundInv' /\ UNCHANGED <<args, stateIn, stateOut, eventOut>>
         /\ pc[t] = "check" /\ \A u \in Threads : u # t => pc'[u] = pc[u]
         /\ \/ Round /\ ~Round' /\ pc'[t] = "sync"
            \/ (Round' <=> Round) /\ pc'[t] = "idle"
<1>1. /\ args' = args /\ UNCHANGED <<tasks, chunk, read, stateIn, stateOut, eventOut>>
      /\ UNCHANGED <<count, putAcks, currentSource>>
  BY DEF checkIfInstFinished, chanVars
<1>2. /\ Insts' = Insts /\ StateKeys' = StateKeys /\ SameQueues
  BY <1>1, ArgsKept, Silent
<1>3. PICK b \in {"sync", "idle"} : Goto(t, "check", b) /\ b = IF Complete THEN "sync" ELSE "idle"
  BY DEF checkIfInstFinished
<1>4. pc[t] = "check" /\ pc'[t] = b /\ \A u \in Threads : u # t => pc'[u] = pc[u]
  <2>1. b \in Labels
    BY DEF Labels
  <2>2. QED
    BY <1>3, <2>1, GotoType
<1>5. SameThreads
  <2>1. \A j \in Insts : <<"ss", j>> \in Threads /\ <<"se", j>> \in Threads
    BY ThreadsOf
  <2>2. QED
    BY <1>1, <1>4, <2>1 DEF SameThreads
<1>6. CASE ~Complete
  <2>1. SameChunks /\ acked' = acked
    BY <1>6 DEF checkIfInstFinished, SameChunks
  <2>2. RoundInv' /\ \A k \in Kinds : Active(k)' <=> Active(k)
    BY <1>1, <1>2, <1>5, <2>1, RoundFrame
  <2>3. QED
    BY <1>1, <1>3, <1>4, <1>6, <2>2 DEF Round
<1>7. CASE Complete
  <2>1. /\ \A d \in Insts, h \in StateKeys : ~Sending(d, h) /\ ~Putting(d, h) /\ ~Acking(d, h) /\ ~InHand(d, h)
        /\ \A d \in Insts, k \in Kinds : ~Asking(d, k) /\ ~Answering(d, k) /\ ~Fetched(d, k)
        /\ tasks = <<>>
    BY <1>7, CompleteRound
  <2>2. \A k \in Kinds : ~acked'[k]
    <3>1. \A k \in Kinds : acked'[k] <=> acked[k] /\ k \notin ScopeKinds
      BY <1>7 DEF checkIfInstFinished
    <3>2. QED
      BY <3>1 DEF RoundInv, SourceInv, Active
  <2>3. /\ Len(chunks') = Len(chunks)
        /\ \A c \in 1 .. Len(chunks) : ~chunks'[c].live /\ chunks'[c].hashkey = chunks[c].hashkey
    <3>1. chunks \in Seq(Chunks) /\ chunks' \in Seq(Chunks) /\ DOMAIN chunks = 1 .. Len(chunks)
      BY <1>1, ArgsKept, LenProperties DEF VarsType, ChunksType
    <3>2. chunks' = [c \in DOMAIN chunks |-> [chunks[c] EXCEPT !.live = FALSE]]
      BY <1>7 DEF checkIfInstFinished
    <3>3. \A c \in 1 .. Len(chunks) : chunks[c] \in Chunks
      BY <3>1, ElementOfSeq
    <3>4. DOMAIN chunks' = 1 .. Len(chunks)
      BY <3>1, <3>2
    <3>5. Len(chunks') = Len(chunks)
      BY <3>1, <3>4, LenProperties
    <3>6. \A c \in 1 .. Len(chunks) : chunks'[c] = [chunks[c] EXCEPT !.live = FALSE]
      BY <3>1, <3>2
    <3>7. QED
      BY <3>3, <3>5, <3>6 DEF Chunks
  <2>4. \A d \in Insts, k \in Kinds : ~Asking(d, k)' /\ ~Answering(d, k)' /\ ~Fetched(d, k)'
    BY <1>1, <1>2, <1>5, <2>1, SameMessages DEF Fetched, SameThreads
  <2>5. \A d \in Insts, h \in StateKeys : ~Sending(d, h)' /\ ~Putting(d, h)' /\ ~Acking(d, h)'
    BY <1>1, <1>2, <2>1, SameMessages
  <2>6. \A d \in Insts, h \in StateKeys : ~InHand(d, h)'
    <3>1. \A d \in Insts : pc[<<"se", d>>] = "putAck" => chunk[<<"se", d>>] \in 1 .. Len(chunks)
      BY ThreadsOf DEF VarsType, ThreadsType
    <3>2. QED
      BY <1>1, <1>5, <2>1, <2>3, <3>1 DEF InHand, SameThreads
  <2>7. Still'
    BY <1>1, <1>2, <2>1, <2>2, <2>3, <2>4, <2>5, <2>6 DEF Still, Active, InTable
  <2>8. RoundInv' /\ ~Round'
    BY <2>7, StillRoundNext
  <2>9. Round
    <3>1. ScopeKinds # {} /\ ScopeKinds \subseteq Kinds
      <4>1. ScopeOrder # <<>>
        BY DEF ScopeOrder
      <4>2. QED
        BY <4>1, ScopeType, RangeEmpty DEF ScopeKinds
    <3>2. QED
      BY <1>7, <3>1 DEF Round, Active, Complete
  <2>10. QED
    BY <1>1, <1>3, <1>4, <1>7, <2>8, <2>9
<1>8. QED
  BY <1>6, <1>7

-----------------------------------------------------------------------------
(* An answer, a request or an event of the round is taken.                 *)
LEMMA AnswerTaken ==
  ASSUME VarsType, VarsType', RoundInv, args' = args, NEW i \in Insts, stateOut[i] # <<>>,
         stateOut' = [stateOut EXCEPT ![i] = Tail(@)], NEW m, m = Head(stateOut[i])
  PROVE  /\ m \in Answers
         /\ \A j \in Insts, k \in Kinds :
              /\ Answering(j, k)' <=> Answering(j, k) /\ ~(j = i /\ m.type = "GetAck" /\ m.kind = k)
              /\ Once(stateOut'[j], GetAcksOf(k))
              /\ \A c : Tells(stateOut[j], k, c) => Tells(stateOut'[j], k, c)
         /\ \A j \in Insts, h \in StateKeys :
              /\ Sending(j, h)' <=> Sending(j, h) /\ ~(j = i /\ m.type = "State" /\ m.hashkey = h)
              /\ Once(stateOut'[j], StatesOf(h))
              /\ Followed(stateOut'[j], StatesOf(h), GetAcksOf(h.kind))
         /\ m.type = "State" => Sending(i, m.hashkey) /\ Answering(i, m.hashkey.kind)
         /\ m.type = "GetAck" => /\ Answering(i, m.kind) /\ m.count = Cardinality(Keys(m.kind))
                                 /\ \A h \in StateKeys : h.kind = m.kind => ~Sending(i, h)
<1>1. stateOut \in [Insts -> Seq(Answers)]
  BY DEF VarsType, ChannelsType
<1>2. PICK q \in Seq(Answers) : q = stateOut[i] /\ q # <<>> /\ m = Head(q)
  BY <1>1
<1>3. stateOut'[i] = Tail(q) /\ m \in Answers /\ \A j \in Insts : j # i => stateOut'[j] = stateOut[j]
  BY <1>1, <1>2, QueueType
<1>4. \A j \in Insts : j # i => Kept(stateOut[j], stateOut'[j], RoundAnswers)
  BY <1>3 DEF Kept
<1>5. \A Q : /\ Has(q, Q) <=> m \in Q \/ Has(Tail(q), Q)
             /\ Once(q, Q) => Once(Tail(q), Q) /\ ~(m \in Q /\ Has(Tail(q), Q))
  BY <1>2, HasTail
<1>6. \A Q, R : Followed(q, Q, R) => /\ Followed(Tail(q), Q, R)
                                     /\ Has(q, Q) => Has(q, R)
                                     /\ m \in R /\ Once(q, R) => ~Has(q, Q)
  BY <1>2, FollowedTail
<1>7. /\ \A k \in Kinds : m \in GetAcksOf(k) <=> m.type = "GetAck" /\ m.kind = k
      /\ \A h \in StateKeys : (m \in StatesOf(h) <=> m.type = "State" /\ m.hashkey = h) /\ h.kind \in Kinds
  BY <1>3, Sorted, MessageTypes
<1>8. /\ \A j \in Insts, k \in Kinds : Once(stateOut[j], GetAcksOf(k))
      /\ \A j \in Insts, h \in StateKeys :
           Once(stateOut[j], StatesOf(h)) /\ Followed(stateOut[j], StatesOf(h), GetAcksOf(h.kind))
  BY DEF RoundInv, AnswersInv
<1>9. ASSUME NEW k \in Kinds
      PROVE  /\ Answering(i, k)' <=> Answering(i, k) /\ ~(m.type = "GetAck" /\ m.kind = k)
             /\ Once(stateOut'[i], GetAcksOf(k))
             /\ \A c : Tells(stateOut[i], k, c) => Tells(stateOut'[i], k, c)
  <2>1. /\ Has(q, GetAcksOf(k)) <=> m \in GetAcksOf(k) \/ Has(Tail(q), GetAcksOf(k))
        /\ Once(Tail(q), GetAcksOf(k)) /\ ~(m \in GetAcksOf(k) /\ Has(Tail(q), GetAcksOf(k)))
    BY <1>2, <1>5, <1>8
  <2>2. \A c : Has(Tail(q), {x \in GetAcksOf(k) : x.count # c}) => Has(q, {x \in GetAcksOf(k) : x.count # c})
    BY <1>5
  <2>3. QED
    BY <1>2, <1>3, <1>7, <2>1, <2>2 DEF Answering, Tells
<1>10. ASSUME NEW h \in StateKeys
       PROVE  /\ Sending(i, h)' <=> Sending(i, h) /\ ~(m.type = "State" /\ m.hashkey = h)
              /\ Once(stateOut'[i], StatesOf(h))
              /\ Followed(stateOut'[i], StatesOf(h), GetAcksOf(h.kind))
  <2>1. /\ Has(q, StatesOf(h)) <=> m \in StatesOf(h) \/ Has(Tail(q), StatesOf(h))
        /\ Once(Tail(q), StatesOf(h)) /\ ~(m \in StatesOf(h) /\ Has(Tail(q), StatesOf(h)))
        /\ Followed(Tail(q), StatesOf(h), GetAcksOf(h.kind))
    BY <1>2, <1>5, <1>6, <1>8
  <2>2. QED
    BY <1>2, <1>3, <1>7, <2>1 DEF Sending
<1>11. ASSUME m.type = "State"
       PROVE  Sending(i, m.hashkey) /\ Answering(i, m.hashkey.kind)
  <2>1. m.hashkey \in StateKeys
    BY <1>3, <1>11, MessageTypes
  <2>2. Has(q, StatesOf(m.hashkey)) /\ Has(q, GetAcksOf(m.hashkey.kind))
    BY <1>2, <1>5, <1>6, <1>7, <1>8, <1>11, <2>1
  <2>3. QED
    BY <1>2, <2>2 DEF Sending, Answering
<1>12. ASSUME m.type = "GetAck"
       PROVE  /\ Answering(i, m.kind) /\ m.count = Cardinality(Keys(m.kind))
              /\ \A h \in StateKeys : h.kind = m.kind => ~Sending(i, h)
  <2>1. m.kind \in Kinds
    BY <1>3, <1>12, MessageTypes
  <2>2. m \in GetAcksOf(m.kind) /\ Has(q, GetAcksOf(m.kind))
    BY <1>5, <1>7, <1>12, <2>1
  <2>3. Answering(i, m.kind)
    BY <1>2, <2>2 DEF Answering
  <2>4. Tells(stateOut[i], m.kind, Cardinality(Keys(m.kind)))
    BY <2>1, <2>3 DEF RoundInv, AnswersInv
  <2>5. m \notin {x \in GetAcksOf(m.kind) : x.count # Cardinality(Keys(m.kind))}
    BY <1>2, <1>5, <2>4 DEF Tells
  <2>6. \A h \in StateKeys : h.kind = m.kind => ~Sending(i, h)
    BY <1>2, <1>6, <1>8, <2>1, <2>2 DEF Sending
  <2>7. QED
    BY <2>2, <2>3, <2>5, <2>6
<1>13. ASSUME NEW j \in Insts, j # i
       PROVE  /\ \A k \in Kinds :
                   /\ Answering(j, k)' <=> Answering(j, k)
                   /\ Once(stateOut'[j], GetAcksOf(k))
                   /\ \A c : Tells(stateOut[j], k, c) => Tells(stateOut'[j], k, c)
              /\ \A h \in StateKeys :
                   /\ Sending(j, h)' <=> Sending(j, h)
                   /\ Once(stateOut'[j], StatesOf(h))
                   /\ Followed(stateOut'[j], StatesOf(h), GetAcksOf(h.kind))
  BY <1>4, <1>7, <1>8, <1>13, SameOut
<1>14. QED
  BY <1>3, <1>9, <1>10, <1>11, <1>12, <1>13

(* A request is taken from a connection ...                                *)
LEMMA RequestTaken ==
  ASSUME VarsType, VarsType', RoundInv, args' = args, NEW i \in Insts, stateIn[i] # <<>>,
         stateIn' = [stateIn EXCEPT ![i] = Tail(@)], NEW m, m = Head(stateIn[i])
  PROVE  /\ m \in Requests
         /\ \A j \in Insts, k \in Kinds :
              /\ Asking(j, k)' <=> Asking(j, k) /\ ~(j = i /\ m.type = "Get" /\ m.kind = k)
              /\ Once(stateIn'[j], GetsOf(k))
         /\ \A j \in Insts, h \in StateKeys :
              /\ Putting(j, h)' <=> Putting(j, h) /\ ~(j = i /\ m.type = "Put" /\ m.hashkey = h)
              /\ Once(stateIn'[j], PutsOf(h))
         /\ m.type = "Get" => Asking(i, m.kind)
         /\ m.type = "Put" => Putting(i, m.hashkey)
<1>1. stateIn \in [Insts -> Seq(Requests)]
  BY DEF VarsType, ChannelsType
<1>2. PICK q \in Seq(Requests) : q = stateIn[i] /\ q # <<>> /\ m = Head(q)
  BY <1>1
<1>3. stateIn'[i] = Tail(q) /\ m \in Requests /\ \A j \in Insts : j # i => stateIn'[j] = stateIn[j]
  BY <1>1, <1>2, QueueType
<1>4. \A j \in Insts : j # i => Kept(stateIn[j], stateIn'[j], RoundRequests)
  BY <1>3 DEF Kept
<1>5. \A Q : /\ Has(q, Q) <=> m \in Q \/ Has(Tail(q), Q)
             /\ Once(q, Q) => Once(Tail(q), Q) /\ ~(m \in Q /\ Has(Tail(q), Q))
  BY <1>2, HasTail
<1>6. /\ \A k \in Kinds : m \in GetsOf(k) <=> m.type = "Get" /\ m.kind = k
      /\ \A h \in StateKeys : m \in PutsOf(h) <=> m.type = "Put" /\ m.hashkey = h
      /\ m.type = "Get" => m.kind \in Kinds
      /\ m.type = "Put" => m.hashkey \in StateKeys
  BY <1>3, Sorted, MessageTypes
<1>7. /\ \A j \in Insts, k \in Kinds : Once(stateIn[j], GetsOf(k))
      /\ \A j \in Insts, h \in StateKeys : Once(stateIn[j], PutsOf(h))
  BY DEF RoundInv, AnswersInv, PutsInv
<1>8. ASSUME NEW k \in Kinds
      PROVE  /\ Asking(i, k)' <=> Asking(i, k) /\ ~(m.type = "Get" /\ m.kind = k)
             /\ Once(stateIn'[i], GetsOf(k))
             /\ m.type = "Get" /\ m.kind = k => Asking(i, k)
  <2>1. /\ Has(q, GetsOf(k)) <=> m \in GetsOf(k) \/ Has(Tail(q), GetsOf(k))
        /\ Once(Tail(q), GetsOf(k)) /\ ~(m \in GetsOf(k) /\ Has(Tail(q), GetsOf(k)))
    BY <1>2, <1>5, <1>7
  <2>2. QED
    BY <1>2, <1>3, <1>6, <2>1 DEF Asking
<1>9. ASSUME NEW h \in StateKeys
      PROVE  /\ Putting(i, h)' <=> Putting(i, h) /\ ~(m.type = "Put" /\ m.hashkey = h)
             /\ Once(stateIn'[i], PutsOf(h))
             /\ m.type = "Put" /\ m.hashkey = h => Putting(i, h)
  <2>1. /\ Has(q, PutsOf(h)) <=> m \in PutsOf(h) \/ Has(Tail(q), PutsOf(h))
        /\ Once(Tail(q), PutsOf(h)) /\ ~(m \in PutsOf(h) /\ Has(Tail(q), PutsOf(h)))
    BY <1>2, <1>5, <1>7
  <2>2. QED
    BY <1>2, <1>3, <1>6, <2>1 DEF Putting
<1>10. ASSUME NEW j \in Insts, j # i
       PROVE  /\ \A k \in Kinds : (Asking(j, k)' <=> Asking(j, k)) /\ Once(stateIn'[j], GetsOf(k))
              /\ \A h \in StateKeys : (Putting(j, h)' <=> Putting(j, h)) /\ Once(stateIn'[j], PutsOf(h))
  BY <1>4, <1>7, <1>10, SameIn
<1>11. QED
  BY <1>3, <1>6, <1>8, <1>9, <1>10

(* ... and an event.                                                       *)
LEMMA EventTaken ==
  ASSUME VarsType, VarsType', RoundInv, args' = args, NEW i \in Insts, eventOut[i] # <<>>,
         eventOut' = [eventOut EXCEPT ![i] = Tail(@)], NEW m, m = Head(eventOut[i])
  PROVE  /\ m \in Events
         /\ \A j \in Insts, h \in StateKeys :
              /\ Acking(j, h)' <=> Acking(j, h) /\ ~(j = i /\ m.type = "PutAck" /\ m.hashkey = h)
              /\ Once(eventOut'[j], PutAcksOf(h))
         /\ m.type = "PutAck" => Acking(i, m.hashkey)
<1>1. eventOut \in [Insts -> Seq(Events)]
  BY DEF VarsType, ChannelsType
<1>2. PICK q \in Seq(Events) : q = eventOut[i] /\ q # <<>> /\ m = Head(q)
  BY <1>1
<1>3. eventOut'[i] = Tail(q) /\ m \in Events /\ \A j \in Insts : j # i => eventOut'[j] = eventOut[j]
  BY <1>1, <1>2, QueueType
<1>4. \A j \in Insts : j # i => Kept(eventOut[j], eventOut'[j], RoundEvents)
  BY <1>3 DEF Kept
<1>5. \A Q : /\ Has(q, Q) <=> m \in Q \/ Has(Tail(q), Q)
             /\ Once(q, Q) => Once(Tail(q), Q) /\ ~(m \in Q /\ Has(Tail(q), Q))
  BY <1>2, HasTail
<1>6. /\ \A h \in StateKeys : m \in PutAcksOf(h) <=> m.type = "PutAck" /\ m.hashkey = h
      /\ m.type = "PutAck" => m.hashkey \in StateKeys
  BY <1>3, Sorted, MessageTypes
<1>7. \A j \in Insts, h \in StateKeys : Once(eventOut[j], PutAcksOf(h))
  BY DEF RoundInv, PutsInv
<1>8. ASSUME NEW h \in StateKeys
      PROVE  /\ Acking(i, h)' <=> Acking(i, h) /\ ~(m.type = "PutAck" /\ m.hashkey = h)
             /\ Once(eventOut'[i], PutAcksOf(h))
             /\ m.type = "PutAck" /\ m.hashkey = h => Acking(i, h)
  <2>1. /\ Has(q, PutAcksOf(h)) <=> m \in PutAcksOf(h) \/ Has(Tail(q), PutAcksOf(h))
        /\ Once(Tail(q), PutAcksOf(h)) /\ ~(m \in PutAcksOf(h) /\ Has(Tail(q), PutAcksOf(h)))
    BY <1>2, <1>5, <1>7
  <2>2. QED
    BY <1>2, <1>3, <1>6, <2>1 DEF Acking
<1>9. ASSUME NEW j \in Insts, j # i
      PROVE  \A h \in StateKeys : (Acking(j, h)' <=> Acking(j, h)) /\ Once(eventOut'[j], PutAcksOf(h))
  BY <1>4, <1>7, <1>9, SameEvents
<1>10. QED
  BY <1>3, <1>6, <1>8, <1>9

(* The source's thread reads the ack of a get.                             *)
LEMMA GetAckRound ==
  ASSUME VarsType, VarsType', RoundInv, NEW i \in Insts, receiveGetAck(i)
  PROVE  RoundInv' /\ \A k \in Kinds : Active(k)' <=> Active(k)
<1>0. PICK t \in Threads : t = <<"ss", i>>
  BY ThreadsOf
<1>1. PICK m : m = Head(stateOut[i])
  OBVIOUS
<1>2. /\ args' = args /\ UNCHANGED <<count, putAcks, currentSource, chunks, tasks, chunk>>
      /\ UNCHANGED <<stateIn, eventOut>> /\ stateOut[i] # <<>> /\ m.type = "GetAck"
      /\ stateOut' = [stateOut EXCEPT ![i] = Tail(@)]
      /\ Goto(t, "idle", "getAck") /\ acked' = [acked EXCEPT ![m.kind] = TRUE]
      /\ read' = [read EXCEPT ![t] = [kind |-> m.kind, count |-> m.count]]
  BY <1>0, <1>1 DEF receiveGetAck, FromState, chunkVars
<1>3. /\ m \in Answers
      /\ \A j \in Insts, k \in Kinds :
           /\ Answering(j, k)' <=> Answering(j, k) /\ ~(j = i /\ m.kind = k)
           /\ Once(stateOut'[j], GetAcksOf(k))
           /\ \A c : Tells(stateOut[j], k, c) => Tells(stateOut'[j], k, c)
      /\ \A j \in Insts, h \in StateKeys :
           /\ Sending(j, h)' <=> Sending(j, h)
           /\ Once(stateOut'[j], StatesOf(h))
           /\ Followed(stateOut'[j], StatesOf(h), GetAcksOf(h.kind))
      /\ Answering(i, m.kind) /\ m.count = Cardinality(Keys(m.kind))
      /\ \A h \in StateKeys : h.kind = m.kind => ~Sending(i, h)
  <2>1. m \in Answers
    BY <1>1, <1>2, AnswerTaken
  <2>2. \A j \in Insts, k \in Kinds :
          /\ Answering(j, k)' <=> Answering(j, k) /\ ~(j = i /\ m.kind = k)
          /\ Once(stateOut'[j], GetAcksOf(k))
          /\ \A c : Tells(stateOut[j], k, c) => Tells(stateOut'[j], k, c)
    BY <1>1, <1>2, AnswerTaken
  <2>3. \A j \in Insts, h \in StateKeys :
          /\ Sending(j, h)' <=> Sending(j, h)
          /\ Once(stateOut'[j], StatesOf(h))
          /\ Followed(stateOut'[j], StatesOf(h), GetAcksOf(h.kind))
    BY <1>1, <1>2, AnswerTaken
  <2>4. /\ Answering(i, m.kind) /\ m.count = Cardinality(Keys(m.kind))
        /\ \A h \in StateKeys : h.kind = m.kind => ~Sending(i, h)
    BY <1>1, <1>2, AnswerTaken
  <2>5. QED
    BY <2>1, <2>2, <2>3, <2>4
<1>4. PICK k \in Kinds : k = m.kind
  BY <1>2, <1>3, MessageTypes
<1>5. /\ acked'[k] /\ \A l \in Kinds : l # k => acked'[l] = acked[l]
      /\ ~acked[k] /\ count[k] = Large /\ i = currentSource /\ Cardinality(Keys(k)) < Large
  BY <1>2, <1>3, <1>4 DEF VarsType, SyncType, RoundInv, AnswersInv, SourceInv
<1>6. /\ Insts' = Insts /\ StateKeys' = StateKeys /\ SameChunks
      /\ \A j \in Insts : /\ Kept(stateIn[j], stateIn'[j], RoundRequests)
                          /\ Kept(eventOut[j], eventOut'[j], RoundEvents)
  BY <1>2, ArgsKept DEF SameChunks, Kept
<1>7. /\ pc[t] = "idle" /\ pc'[t] = "getAck" /\ read'[t] = [kind |-> m.kind, count |-> m.count]
      /\ \A u \in Threads : u # t => pc'[u] = pc[u] /\ read'[u] = read[u]
  <2>1. "getAck" \in Labels
    BY DEF Labels
  <2>2. QED
    BY <1>2, <2>1, GotoType DEF VarsType, ThreadsType
<1>8. \A j \in Insts : /\ <<"se", j>> \in Threads /\ <<"se", j>> # t /\ <<"ss", j>> \in Threads
                       /\ j # i => <<"ss", j>> # t
  BY <1>0, ThreadsOf
<1>9. \A j \in Insts, l \in Kinds : ~Fetched(j, l) /\ (Fetched(j, l)' <=> j = i /\ l = k)
  <2>1. \A j \in Insts, l \in Kinds : Fetched(j, l) => j = i
    BY <1>5 DEF RoundInv, SourceInv
  <2>2. \A l \in Kinds : ~Fetched(i, l) /\ (Fetched(i, l)' <=> l = k)
    BY <1>0, <1>4, <1>7 DEF Fetched
  <2>3. \A j \in Insts, l \in Kinds : j # i => (Fetched(j, l)' <=> Fetched(j, l))
    BY <1>7, <1>8 DEF Fetched
  <2>4. QED
    BY <2>1, <2>2, <2>3
<1>10. \A j \in Insts : \A h : InHand(j, h)' <=> InHand(j, h)
  BY <1>2, <1>7, <1>8 DEF InHand
<1>11. /\ \A j \in Insts, l \in Kinds : (Asking(j, l)' <=> Asking(j, l)) /\ Once(stateIn'[j], GetsOf(l))
       /\ \A j \in Insts, l \in Kinds : Asking(j, l) => l # k
  BY <1>2, <1>3, <1>4, <1>5 DEF Asking, RoundInv, AnswersInv, SourceInv
<1>12. \A j \in Insts, h \in StateKeys : (Putting(j, h)' <=> Putting(j, h)) /\ (Acking(j, h)' <=> Acking(j, h))
  BY <1>2 DEF Putting, Acking
<1>13. \A h : (InTable(h)' <=> InTable(h)) /\ (Tasked(h)' <=> Tasked(h))
  BY <1>2, <1>6, SameTable
<1>14. \A l : LiveKeys(l)' = LiveKeys(l) /\ Keys(l)' = Keys(l)
  BY <1>2, <1>3, <1>13, SameKeys, SameToCome
<1>15. Keys(k) = LiveKeys(k)
  BY <1>3, <1>4, <1>5 DEF Keys, LiveKeys, RoundInv, SourceInv
<1>16. \A l : Counted(l)' = Counted(l)
  <2>1. \A l : LiveKeys(l) \subseteq StateKeys
    BY DEF LiveKeys
  <2>2. QED
    BY <1>2, <1>10, <1>12, <1>13, <1>14, <2>1, SameCounted DEF Pending
<1>17. \A l \in Kinds : Active(l)' <=> Active(l)
  BY <1>2, <1>3, <1>4, <1>5, <1>6, <1>11 DEF Active
<1>18. SourceInv'
  BY <1>2, <1>3, <1>5, <1>6, <1>9, <1>10, <1>11, <1>12, <1>13, <1>17, ScopeKept DEF RoundInv, SourceInv
<1>19. AnswersInv'
  <2>1. /\ read'[<<"ss", i>>].count = Cardinality(LiveKeys(k)) /\ Cardinality(LiveKeys(k)) < Large
    BY <1>0, <1>3, <1>4, <1>5, <1>7, <1>15
  <2>2. ASSUME NEW j \in Insts, NEW l \in Kinds
        PROVE  /\ Asking(j, l)' => ~acked'[l] /\ count'[l] = Large /\ Keys(l)' = {} /\ ~Answering(j, l)'
               /\ Answering(j, l)' => /\ ~acked'[l] /\ count'[l] = Large /\ Cardinality(Keys(l)') < Large
                                      /\ Tells(stateOut'[j], l, Cardinality(Keys(l)'))
    <3>1. Asking(j, l) \/ Answering(j, l)' => l # k
      BY <1>3, <1>4, <1>5, <1>11 DEF RoundInv, SourceInv
    <3>2. QED
      BY <1>2, <1>3, <1>5, <1>11, <1>14, <3>1 DEF RoundInv, AnswersInv
  <2>3. \A l \in Kinds : acked'[l] => count'[l] = Cardinality(LiveKeys(l)) \/ l = k
    BY <1>2, <1>5, <1>9 DEF RoundInv, AnswersInv
  <2>4. QED
    BY <1>2, <1>3, <1>5, <1>6, <1>9, <1>11, <1>14, <2>1, <2>2, <2>3 DEF AnswersInv
<1>20. TableInv'
  BY <1>2, <1>6, <1>13, <1>17, MessageTypes DEF RoundInv, TableInv
<1>21. PutsInv'
  BY <1>2, <1>6, <1>10, <1>12, <1>13 DEF RoundInv, PutsInv
<1>22. PutAcksInv'
  <2>1. \A d \in Insts : read'[<<"se", d>>] = read[<<"se", d>>]
    BY <1>7, <1>8
  <2>2. QED
    BY <1>2, <1>6, <1>10, <1>16, <1>17, <2>1 DEF RoundInv, PutAcksInv
<1>23. QED
  BY <1>17, <1>18, <1>19, <1>20, <1>21, <1>22 DEF RoundInv

(* An instance gets state, and acks it.                                    *)
LEMMA PutRound ==
  ASSUME VarsType, VarsType', RoundInv, NEW i \in Insts, handle_put(i)
  PROVE  RoundInv' /\ \A k \in Kinds : Active(k)' <=> Active(k)
<1>1. PICK m : m = Head(stateIn[i])
  OBVIOUS
<1>2. /\ args' = args /\ UNCHANGED <<acked, count, putAcks, currentSource, chunks, tasks, pc, read, chunk>>
      /\ UNCHANGED stateOut /\ stateIn[i] # <<>> /\ m.type = "Put"
      /\ stateIn' = [stateIn EXCEPT ![i] = Tail(@)]
      /\ eventOut' = [eventOut EXCEPT ![i] = Append(@, [type |-> "PutAck", hashkey |-> m.hashkey])]
  BY <1>1 DEF handle_put, Request, chunkVars, syncVars, threads
<1>3. /\ m \in Requests /\ Putting(i, m.hashkey)
      /\ \A j \in Insts, k \in Kinds : (Asking(j, k)' <=> Asking(j, k)) /\ Once(stateIn'[j], GetsOf(k))
      /\ \A j \in Insts, h \in StateKeys :
           /\ Putting(j, h)' <=> Putting(j, h) /\ ~(j = i /\ m.hashkey = h)
           /\ Once(stateIn'[j], PutsOf(h))
  BY <1>1, <1>2, RequestTaken
<1>4. PICK h \in StateKeys : h = m.hashkey
  BY <1>2, <1>3, MessageTypes
<1>5. /\ i # currentSource /\ InTable(h) /\ ~Tasked(h) /\ ~Acking(i, h) /\ ~InHand(i, h)
  BY <1>3, <1>4 DEF RoundInv, SourceInv, PutsInv
<1>6. /\ Insts' = Insts /\ StateKeys' = StateKeys /\ SameChunks
      /\ \A j \in Insts : Kept(stateOut[j], stateOut'[j], RoundAnswers)
  BY <1>2, ArgsKept DEF SameChunks, Kept
<1>7. \A j \in Insts, g \in StateKeys : /\ Acking(j, g)' <=> Acking(j, g) \/ (j = i /\ g = h)
                                        /\ Once(eventOut'[j], PutAcksOf(g))
  <2>1. PICK a : a = [type |-> "PutAck", hashkey |-> h]
    OBVIOUS
  <2>2. a \in Events /\ a.type = "PutAck" /\ a.hashkey = h
    BY <2>1 DEF Events
  <2>3. eventOut \in [Insts -> Seq(Events)]
    BY DEF VarsType, ChannelsType
  <2>4. eventOut'[i] = Append(eventOut[i], a) /\ \A j \in Insts : j # i => eventOut'[j] = eventOut[j]
    BY <1>2, <1>4, <2>1, <2>3
  <2>5. \A Q : /\ Has(Append(eventOut[i], a), Q) <=> Has(eventOut[i], Q) \/ a \in Q
               /\ Once(Append(eventOut[i], a), Q) <=> Once(eventOut[i], Q) /\ ~(Has(eventOut[i], Q) /\ a \in Q)
    BY <2>2, <2>3, HasAppend
  <2>6. \A g \in StateKeys : a \in PutAcksOf(g) <=> g = h
    BY <2>2, Sorted
  <2>7. \A j \in Insts, g \in StateKeys : Once(eventOut[j], PutAcksOf(g))
    BY DEF RoundInv, PutsInv
  <2>8. QED
    BY <1>5, <2>4, <2>5, <2>6, <2>7 DEF Acking
<1>8. \A j \in Insts : \A k : Fetched(j, k)' <=> Fetched(j, k)
  BY <1>2 DEF Fetched
<1>9. \A j \in Insts : \A g : InHand(j, g)' <=> InHand(j, g)
  BY <1>2 DEF InHand
<1>10. /\ \A j \in Insts, k \in Kinds : Answering(j, k)' <=> Answering(j, k)
       /\ \A j \in Insts, g \in StateKeys : Sending(j, g)' <=> Sending(j, g)
  BY <1>2 DEF Answering, Sending
<1>11. \A g : (InTable(g)' <=> InTable(g)) /\ (Tasked(g)' <=> Tasked(g))
  BY <1>2, <1>6, SameTable
<1>12. \A l : LiveKeys(l)' = LiveKeys(l) /\ Keys(l)' = Keys(l)
  BY <1>2, <1>10, <1>11, SameKeys, SameToCome
<1>13. \A j \in Insts, g \in StateKeys : Pending(j, g)' <=> Pending(j, g)
  BY <1>3, <1>4, <1>7, <1>9, <1>11 DEF Pending
<1>14. \A l : Counted(l)' = Counted(l)
  <2>1. \A l : LiveKeys(l) \subseteq StateKeys
    BY DEF LiveKeys
  <2>2. QED
    BY <1>2, <1>12, <1>13, <2>1, SameCounted
<1>15. \A l \in Kinds : Active(l)' <=> Active(l)
  BY <1>2, <1>3, <1>10, SameActive
<1>16. SourceInv'
  BY <1>2, <1>3, <1>5, <1>6, <1>7, <1>8, <1>9, <1>10, <1>11, <1>15, ScopeKept DEF RoundInv, SourceInv
<1>17. AnswersInv'
  BY <1>2, <1>3, <1>6, <1>8, <1>10, <1>12 DEF RoundInv, AnswersInv
<1>18. TableInv'
  BY <1>2, <1>6, <1>11, <1>15, MessageTypes DEF RoundInv, TableInv
<1>19. PutsInv'
  BY <1>2, <1>3, <1>4, <1>5, <1>6, <1>7, <1>9, <1>11 DEF RoundInv, PutsInv
<1>20. PutAcksInv'
  BY <1>2, <1>6, <1>9, <1>14, <1>15 DEF RoundInv, PutAcksInv
<1>21. QED
  BY <1>15, <1>16, <1>17, <1>18, <1>19, <1>20 DEF RoundInv

(* A thread reads a put ack, and the count it will write.                  *)
LEMMA PutAckRound ==
  ASSUME VarsType, VarsType', RoundInv, NEW i \in Insts, receivePutAck(i)
  PROVE  RoundInv' /\ \A k \in Kinds : Active(k)' <=> Active(k)
<1>0. PICK t \in Threads : t = <<"se", i>>
  BY ThreadsOf
<1>1. PICK m : m = Head(eventOut[i])
  OBVIOUS
<1>2. /\ args' = args /\ UNCHANGED <<acked, count, putAcks, currentSource, tasks, stateIn, stateOut>>
      /\ eventOut[i] # <<>> /\ m.type = "PutAck" /\ eventOut' = [eventOut EXCEPT ![i] = Tail(@)]
      /\ Goto(t, "idle", "putAck")
  BY <1>0, <1>1 DEF receivePutAck, FromEvent, syncVars
<1>3. /\ m \in Events /\ Acking(i, m.hashkey)
      /\ \A j \in Insts, h \in StateKeys : /\ Acking(j, h)' <=> Acking(j, h) /\ ~(j = i /\ m.hashkey = h)
                                           /\ Once(eventOut'[j], PutAcksOf(h))
  BY <1>1, <1>2, EventTaken
<1>4. PICK h \in StateKeys : h = m.hashkey
  BY <1>2, <1>3, MessageTypes
<1>5. /\ i # currentSource /\ InTable(h) /\ ~Tasked(h) /\ ~Putting(i, h)
  BY <1>3, <1>4 DEF RoundInv, SourceInv, PutsInv
<1>6. chunks \in Seq(Chunks) /\ DOMAIN chunks = 1 .. Len(chunks)
  BY LenProperties DEF VarsType, ChunksType
<1>7. Live(h) # {} /\ chunks' = chunks
  <2>1. Live(h) # {}
    BY <1>5, <1>6 DEF Live, InTable
  <2>2. QED
    BY <1>1, <1>4, <2>1 DEF receivePutAck
<1>8. PICK c \in 1 .. Len(chunks) : chunk' = [chunk EXCEPT ![t] = c] /\ chunks[c].live /\ chunks[c].hashkey = h
  <2>1. PICK c : c = CHOOSE x \in DOMAIN chunks : chunks[x].live /\ chunks[x].hashkey = h
    OBVIOUS
  <2>2. c \in 1 .. Len(chunks) /\ chunks[c].live /\ chunks[c].hashkey = h
    BY <1>5, <1>6, <2>1 DEF InTable
  <2>3. chunk' = [chunk EXCEPT ![t] = c]
    BY <1>0, <1>1, <1>4, <1>7, <2>1 DEF receivePutAck
  <2>4. QED
    BY <2>2, <2>3
<1>9. PICK k \in Kinds : k = h.kind
  BY MessageTypes
<1>10. read' = [read EXCEPT ![t].count = putAcks[k]]
  BY <1>0, <1>1, <1>4, <1>9 DEF receivePutAck
<1>11. /\ pc[t] = "idle" /\ pc'[t] = "putAck" /\ chunk'[t] = c /\ read'[t].count = putAcks[k]
       /\ \A u \in Threads : u # t => pc'[u] = pc[u] /\ read'[u] = read[u] /\ chunk'[u] = chunk[u]
  <2>1. "putAck" \in Labels
    BY DEF Labels
  <2>2. QED
    BY <1>2, <1>8, <1>10, <2>1, GotoType DEF VarsType, ThreadsType
<1>12. \A j \in Insts : /\ <<"ss", j>> \in Threads /\ <<"ss", j>> # t /\ <<"se", j>> \in Threads
                        /\ j # i => <<"se", j>> # t
  BY <1>0, ThreadsOf
<1>13. \A j \in Insts : \A l : Fetched(j, l)' <=> Fetched(j, l)
  BY <1>11, <1>12 DEF Fetched
<1>14. /\ \A g : ~InHand(i, g) /\ (InHand(i, g)' <=> g = h)
       /\ \A j \in Insts : \A g : j # i => (InHand(j, g)' <=> InHand(j, g))
  BY <1>0, <1>7, <1>8, <1>11, <1>12 DEF InHand
<1>15. /\ Insts' = Insts /\ StateKeys' = StateKeys /\ SameChunks
  BY <1>2, <1>7, ArgsKept DEF SameChunks
<1>16. /\ \A j \in Insts, l \in Kinds : (Asking(j, l)' <=> Asking(j, l)) /\ (Answering(j, l)' <=> Answering(j, l))
       /\ \A j \in Insts, g \in StateKeys : (Sending(j, g)' <=> Sending(j, g)) /\ (Putting(j, g)' <=> Putting(j, g))
  BY <1>2 DEF Asking, Answering, Sending, Putting
<1>17. \A g : (InTable(g)' <=> InTable(g)) /\ (Tasked(g)' <=> Tasked(g))
  BY <1>2, <1>15, SameTable
<1>18. \A l : LiveKeys(l)' = LiveKeys(l) /\ Keys(l)' = Keys(l)
  BY <1>2, <1>16, <1>17, SameKeys, SameToCome
<1>19. \A j \in Insts, g \in StateKeys : Pending(j, g)' <=> Pending(j, g)
  BY <1>3, <1>4, <1>14, <1>16, <1>17 DEF Pending
<1>20. \A l : Counted(l)' = Counted(l)
  <2>1. \A l : LiveKeys(l) \subseteq StateKeys
    BY DEF LiveKeys
  <2>2. QED
    BY <1>2, <1>18, <1>19, <2>1, SameCounted
<1>21. \A l \in Kinds : Active(l)' <=> Active(l)
  BY <1>2, <1>16, SameActive
<1>22. SourceInv'
  BY <1>2, <1>3, <1>5, <1>13, <1>14, <1>15, <1>16, <1>17, <1>21, ScopeKept DEF RoundInv, SourceInv
<1>23. AnswersInv'
  <2>1. \A j \in Insts : read'[<<"ss", j>>] = read[<<"ss", j>>]
    BY <1>11, <1>12
  <2>2. QED
    BY <1>2, <1>13, <1>15, <1>16, <1>18, <2>1 DEF RoundInv, AnswersInv
<1>24. TableInv'
  BY <1>2, <1>7, <1>15, <1>17, <1>21, MessageTypes DEF RoundInv, TableInv
<1>25. PutsInv'
  BY <1>2, <1>3, <1>4, <1>5, <1>14, <1>15, <1>16, <1>17 DEF RoundInv, PutsInv
<1>26. PutAcksInv'
  <2>1. putAcks[k] <= Cardinality(Counted(k))
    BY <1>5, <1>9 DEF RoundInv, PutAcksInv, TableInv
  <2>2. ASSUME NEW d \in Insts, NEW g \in StateKeys, InHand(d, g)'
        PROVE  read'[<<"se", d>>].count <= Cardinality(Counted(g.kind))
    <3>1. CASE d = i
      BY <1>0, <1>9, <1>11, <1>14, <2>1, <2>2, <3>1
    <3>2. CASE d # i
      BY <1>11, <1>12, <1>14, <2>2, <3>2 DEF RoundInv, PutAcksInv
    <3>3. QED
      BY <3>1, <3>2
  <2>3. QED
    BY <1>2, <1>15, <1>20, <1>21, <2>2 DEF RoundInv, PutAcksInv
<1>27. QED
  BY <1>21, <1>22, <1>23, <1>24, <1>25, <1>26 DEF RoundInv

(* A request for state the instance does not keep: no ack will come.       *)
LEMMA UnsupportedRound ==
  ASSUME VarsType, VarsType', RoundInv, NEW i \in Insts, get_unsupported(i)
  PROVE  RoundInv' /\ \A k \in Kinds : Active(k)' => Active(k)
<1>1. PICK m : m = Head(stateIn[i])
  OBVIOUS
<1>2. /\ args' = args /\ UNCHANGED <<acked, count, putAcks, currentSource, chunks, tasks, pc, read, chunk>>
      /\ UNCHANGED <<stateOut, eventOut>> /\ stateIn[i] # <<>> /\ m.type = "Get" /\ m.kind \notin StateKinds
      /\ stateIn' = [stateIn EXCEPT ![i] = Tail(@)]
  BY <1>1 DEF get_unsupported, Request, chunkVars, syncVars, threads
<1>3. /\ m \in Requests /\ Asking(i, m.kind)
      /\ \A j \in Insts, k \in Kinds : /\ Asking(j, k)' <=> Asking(j, k) /\ ~(j = i /\ m.kind = k)
                                       /\ Once(stateIn'[j], GetsOf(k))
      /\ \A j \in Insts, h \in StateKeys : (Putting(j, h)' <=> Putting(j, h)) /\ Once(stateIn'[j], PutsOf(h))
  BY <1>1, <1>2, RequestTaken
<1>4. /\ Insts' = Insts /\ StateKeys' = StateKeys /\ SameChunks
  BY <1>2, ArgsKept DEF SameChunks
<1>5. \A j \in Insts : \A k : Fetched(j, k)' <=> Fetched(j, k)
  BY <1>2 DEF Fetched
<1>6. \A j \in Insts : \A g : InHand(j, g)' <=> InHand(j, g)
  BY <1>2 DEF InHand
<1>7. /\ \A j \in Insts, k \in Kinds : Answering(j, k)' <=> Answering(j, k)
      /\ \A j \in Insts, g \in StateKeys : (Sending(j, g)' <=> Sending(j, g)) /\ (Acking(j, g)' <=> Acking(j, g))
  BY <1>2 DEF Answering, Sending, Acking
<1>8. \A g : (InTable(g)' <=> InTable(g)) /\ (Tasked(g)' <=> Tasked(g))
  BY <1>2, <1>4, SameTable
<1>9. \A l : LiveKeys(l)' = LiveKeys(l) /\ Keys(l)' = Keys(l)
  BY <1>2, <1>7, <1>8, SameKeys, SameToCome
<1>10. \A l : Counted(l)' = Counted(l)
  <2>1. \A l : LiveKeys(l) \subseteq StateKeys
    BY DEF LiveKeys
  <2>2. QED
    BY <1>2, <1>3, <1>6, <1>7, <1>8, <1>9, <2>1, SameCounted DEF Pending
<1>11. \A l \in Kinds : /\ Active(l)' => Active(l)
                        /\ l # m.kind => (Active(l)' <=> Active(l))
  BY <1>2, <1>3, <1>4, <1>7 DEF Active
<1>12. SourceInv'
  BY <1>2, <1>3, <1>4, <1>5, <1>6, <1>7, <1>8, <1>11, ScopeKept DEF RoundInv, SourceInv
<1>13. AnswersInv'
  BY <1>2, <1>3, <1>4, <1>5, <1>7, <1>9 DEF RoundInv, AnswersInv
<1>14. TableInv'
  <2>1. \A g \in StateKeys : InTable(g)' => Active(g.kind)'
    BY <1>2, <1>8, <1>11, MessageTypes DEF RoundInv, TableInv
  <2>2. QED
    BY <1>2, <1>4, <2>1 DEF RoundInv, TableInv
<1>15. PutsInv'
  BY <1>2, <1>3, <1>4, <1>6, <1>7, <1>8 DEF RoundInv, PutsInv
<1>16. PutAcksInv'
  BY <1>2, <1>4, <1>6, <1>10, <1>11 DEF RoundInv, PutAcksInv
<1>17. QED
  BY <1>11, <1>12, <1>13, <1>14, <1>15, <1>16 DEF RoundInv

(* Puts of one chunk are sent to the instances in D.                       *)
LEMMA PutsSent ==
  ASSUME VarsType, VarsType', RoundInv, args' = args, NEW h \in StateKeys, NEW r \in Cargo, NEW D,
         stateIn' = [j \in Insts |-> IF j \in D THEN Append(stateIn[j], Puts(h, r)) ELSE stateIn[j]],
         \A j \in Insts : ~Putting(j, h)
  PROVE  /\ \A j \in Insts, k \in Kinds : (Asking(j, k)' <=> Asking(j, k)) /\ Once(stateIn'[j], GetsOf(k))
         /\ \A j \in Insts, g \in StateKeys : /\ Putting(j, g)' <=> Putting(j, g) \/ (j \in D /\ g = h)
                                              /\ Once(stateIn'[j], PutsOf(g))
<1>1. PICK p : p = Puts(h, r)
  OBVIOUS
<1>2. p \in Requests /\ p.type = "Put" /\ p.hashkey = h
  BY <1>1 DEF Puts, Requests
<1>3. /\ \A k \in Kinds : p \notin GetsOf(k)
      /\ \A g \in StateKeys : p \in PutsOf(g) <=> g = h
  BY <1>2, Sorted
<1>4. ASSUME NEW j \in Insts
      PROVE  /\ \A k \in Kinds : (Asking(j, k)' <=> Asking(j, k)) /\ Once(stateIn'[j], GetsOf(k))
             /\ \A g \in StateKeys : /\ Putting(j, g)' <=> Putting(j, g) \/ (j \in D /\ g = h)
                                     /\ Once(stateIn'[j], PutsOf(g))
  <2>1. stateIn[j] \in Seq(Requests)
    BY DEF VarsType, ChannelsType
  <2>2. stateIn'[j] = IF j \in D THEN Append(stateIn[j], p) ELSE stateIn[j]
    BY <1>1
  <2>3. \A Q : /\ Has(Append(stateIn[j], p), Q) <=> Has(stateIn[j], Q) \/ p \in Q
               /\ Once(Append(stateIn[j], p), Q) <=> Once(stateIn[j], Q) /\ ~(Has(stateIn[j], Q) /\ p \in Q)
    BY <1>2, <2>1, HasAppend
  <2>4. /\ \A k \in Kinds : Once(stateIn[j], GetsOf(k))
        /\ \A g \in StateKeys : Once(stateIn[j], PutsOf(g))
    BY DEF RoundInv, AnswersInv, PutsInv
  <2>5. ASSUME NEW k \in Kinds
        PROVE  (Asking(j, k)' <=> Asking(j, k)) /\ Once(stateIn'[j], GetsOf(k))
    BY <1>3, <2>2, <2>3, <2>4 DEF Asking
  <2>6. ASSUME NEW g \in StateKeys
        PROVE  /\ Putting(j, g)' <=> Putting(j, g) \/ (j \in D /\ g = h)
               /\ Once(stateIn'[j], PutsOf(g))
    BY <1>3, <2>2, <2>3, <2>4 DEF Putting
  <2>7. QED
    BY <2>5, <2>6
<1>5. QED
  BY <1>4

(* One element of a sequence is removed.                                   *)
LEMMA RemovedAt ==
  ASSUME NEW S, NEW s \in Seq(S), NEW n \in 1 .. Len(s), NEW r, r = RemoveAt(s, n)
  PROVE  /\ r \in Seq(S) /\ Len(r) = Len(s) - 1
         /\ \A a \in 1 .. Len(r) : r[a] = IF a < n THEN s[a] ELSE s[a + 1]
<1>2. Len(s) \in Nat /\ n \in Nat /\ n >= 1 /\ n <= Len(s)
  BY LenProperties
<1>3. PICK u \in Seq(S) : /\ u = SubSeq(s, 1, n - 1) /\ Len(u) = n - 1
                          /\ \A a \in 1 .. n - 1 : u[a] = s[a]
  <2>1. 1 \in 1 .. Len(s) + 1 /\ n - 1 \in 1 - 1 .. Len(s)
    BY <1>2
  <2>2. PICK e : e = n - 1
    OBVIOUS
  <2>3. /\ SubSeq(s, 1, e) \in Seq(S) /\ Len(SubSeq(s, 1, e)) = e - 1 + 1
        /\ \A a \in 1 .. e - 1 + 1 : SubSeq(s, 1, e)[a] = s[1 + a - 1]
    BY <2>1, <2>2, SubSeqProperties
  <2>4. \A a \in 1 .. e : 1 + a - 1 = a
    BY <1>2, <2>2
  <2>5. e - 1 + 1 = e
    BY <1>2, <2>2
  <2>6. QED
    BY <2>2, <2>3, <2>4, <2>5
<1>4. PICK v \in Seq(S) : /\ v = SubSeq(s, n + 1, Len(s)) /\ Len(v) = Len(s) - n
                          /\ \A a \in 1 .. Len(s) - n : v[a] = s[n + a]
  <2>1. n + 1 \in 1 .. Len(s) + 1 /\ Len(s) \in (n + 1) - 1 .. Len(s)
    BY <1>2
  <2>2. PICK e : e = n + 1
    OBVIOUS
  <2>3. /\ SubSeq(s, e, Len(s)) \in Seq(S) /\ Len(SubSeq(s, e, Len(s))) = Len(s) - e + 1
        /\ \A a \in 1 .. Len(s) - e + 1 : SubSeq(s, e, Len(s))[a] = s[e + a - 1]
    BY <2>1, <2>2, SubSeqProperties
  <2>4. \A a \in 1 .. Len(s) - n : e + a - 1 = n + a
    BY <1>2, <2>2
  <2>5. Len(s) - e + 1 = Len(s) - n
    BY <1>2, <2>2
  <2>6. PICK v : v = SubSeq(s, e, Len(s))
    OBVIOUS
  <2>7. v \in Seq(S) /\ Len(v) = Len(s) - n /\ v = SubSeq(s, n + 1, Len(s))
    BY <2>2, <2>3, <2>5, <2>6
  <2>8. \A a \in 1 .. Len(s) - n : v[a] = s[n + a]
    BY <2>3, <2>4, <2>5, <2>6
  <2>9. QED
    BY <2>7, <2>8
<1>5. r = u \o v
  BY <1>3, <1>4 DEF RemoveAt
<1>6. /\ r \in Seq(S) /\ Len(r) = Len(s) - 1
      /\ \A a \in 1 .. Len(r) : r[a] = IF a < n THEN s[a] ELSE s[a + 1]
  <2>1. /\ r \in Seq(S) /\ Len(r) = Len(u) + Len(v)
        /\ \A a \in 1 .. Len(r) : r[a] = IF a <= Len(u) THEN u[a] ELSE v[a - Len(u)]
    BY <1>5, ConcatProperties
  <2>2. ASSUME NEW a \in 1 .. Len(r)
        PROVE  r[a] = IF a < n THEN s[a] ELSE s[a + 1]
    <3>1. CASE a < n
      <4>1. a <= Len(u) /\ a \in 1 .. n - 1
        BY <1>2, <1>3, <3>1
      <4>2. QED
        BY <1>3, <2>1, <3>1, <4>1
    <3>2. CASE ~(a < n)
      <4>1. /\ ~(a <= Len(u)) /\ a - Len(u) \in 1 .. Len(s) - n /\ n + (a - Len(u)) = a + 1
        BY <1>2, <1>3, <1>4, <2>1, <3>2
      <4>2. QED
        BY <1>4, <2>1, <3>2, <4>1
    <3>3. QED
      BY <3>1, <3>2
  <2>3. Len(r) = Len(s) - 1
    BY <1>2, <1>3, <1>4, <2>1
  <2>4. QED
    BY <2>1, <2>2, <2>3
<1>7. QED
  BY <1>6

(* Every element that stays is one of the others ...                       *)
LEMMA RemovedFrom ==
  ASSUME NEW S, NEW s \in Seq(S), NEW n \in 1 .. Len(s), NEW r, r = RemoveAt(s, n),
         NEW a \in 1 .. Len(r)
  PROVE  \E b \in 1 .. Len(s) \ {n} : r[a] = s[b]
<1>1. Len(s) \in Nat /\ n \in Nat /\ n >= 1 /\ n <= Len(s)
  BY LenProperties
<1>2. /\ r \in Seq(S) /\ Len(r) = Len(s) - 1
      /\ \A c \in 1 .. Len(r) : r[c] = IF c < n THEN s[c] ELSE s[c + 1]
  BY RemovedAt
<1>3. CASE a < n
  <2>1. a \in 1 .. Len(s) \ {n}
    BY <1>1, <1>2, <1>3
  <2>2. QED
    BY <1>2, <1>3, <2>1
<1>4. CASE ~(a < n)
  <2>1. a + 1 \in 1 .. Len(s) \ {n}
    BY <1>1, <1>2, <1>4
  <2>2. QED
    BY <1>2, <1>4, <2>1
<1>5. QED
  BY <1>3, <1>4

(* ... each of the others stays ...                                        *)
LEMMA RemovedKeeps ==
  ASSUME NEW S, NEW s \in Seq(S), NEW n \in 1 .. Len(s), NEW r, r = RemoveAt(s, n),
         NEW b \in 1 .. Len(s) \ {n}
  PROVE  \E a \in 1 .. Len(r) : r[a] = s[b]
<1>1. Len(s) \in Nat /\ n \in Nat /\ n >= 1 /\ n <= Len(s)
  BY LenProperties
<1>2. /\ r \in Seq(S) /\ Len(r) = Len(s) - 1
      /\ \A c \in 1 .. Len(r) : r[c] = IF c < n THEN s[c] ELSE s[c + 1]
  BY RemovedAt
<1>3. CASE b < n
  BY <1>1, <1>2, <1>3, SMTT(30)
<1>4. CASE b > n
  <2>1. b - 1 \in 1 .. Len(r) /\ ~(b - 1 < n) /\ (b - 1) + 1 = b
    BY <1>1, <1>2, <1>4
  <2>2. QED
    BY <1>2, <2>1
<1>5. QED
  BY <1>1, <1>3, <1>4

(* ... and distinct elements stay distinct.                                *)
LEMMA Removed ==
  ASSUME NEW S, NEW s \in Seq(S), NEW n \in 1 .. Len(s), NEW r, r = RemoveAt(s, n)
  PROVE  /\ r \in Seq(S)
         /\ \A a \in 1 .. Len(r) : \E b \in 1 .. Len(s) \ {n} : r[a] = s[b]
         /\ \A b \in 1 .. Len(s) : b # n => \E a \in 1 .. Len(r) : r[a] = s[b]
         /\ Distinct(s, S) => Distinct(r, S)
<1>1. Len(s) \in Nat /\ n \in Nat /\ n >= 1 /\ n <= Len(s)
  BY LenProperties
<1>2. /\ r \in Seq(S) /\ Len(r) = Len(s) - 1
      /\ \A a \in 1 .. Len(r) : r[a] = IF a < n THEN s[a] ELSE s[a + 1]
  BY RemovedAt
<1>3. ASSUME NEW a \in 1 .. Len(r)
      PROVE  \E b \in 1 .. Len(s) \ {n} : r[a] = s[b]
  BY RemovedFrom
<1>4. ASSUME NEW b \in 1 .. Len(s), b # n
      PROVE  \E a \in 1 .. Len(r) : r[a] = s[b]
  BY <1>4, RemovedKeeps
<1>5. ASSUME Distinct(s, S), NEW a \in 1 .. Len(r), NEW b \in 1 .. Len(r), r[a] = r[b]
      PROVE  a = b
  <2>0. \A c, d \in 1 .. Len(s) : s[c] = s[d] => c = d
    BY <1>5, ElementOfSeq DEF Distinct
  <2>1. /\ a \in 1 .. Len(s) /\ b \in 1 .. Len(s) /\ a + 1 \in 1 .. Len(s) /\ b + 1 \in 1 .. Len(s)
    BY <1>1, <1>2
  <2>2. CASE a < n /\ b < n
    BY <1>2, <1>5, <2>0, <2>1, <2>2
  <2>3. CASE a < n /\ ~(b < n)
    <3>1. a = b + 1
      BY <1>2, <1>5, <2>0, <2>1, <2>3
    <3>2. QED
      BY <1>1, <2>3, <3>1
  <2>4. CASE ~(a < n) /\ b < n
    <3>1. a + 1 = b
      BY <1>2, <1>5, <2>0, <2>1, <2>4
    <3>2. QED
      BY <1>1, <2>4, <3>1
  <2>5. CASE ~(a < n) /\ ~(b < n)
    <3>1. a + 1 = b + 1
      BY <1>2, <1>5, <2>0, <2>1, <2>5
    <3>2. QED
      BY <3>1
  <2>6. QED
    BY <2>2, <2>3, <2>4, <2>5
<1>6. QED
  BY <1>2, <1>3, <1>4, <1>5 DEF Distinct

(* What becomes of the chunk that is sent.                                 *)
LEMMA PoolSends ==
  ASSUME VarsType, VarsType', RoundInv, args' = args, NEW n \in DOMAIN tasks, callChunk(n), NEW c, c = chunks[tasks[n]],
         NEW h, h = c.hashkey, NEW r, r = c.rec
  PROVE  /\ h \in StateKeys /\ r \in Cargo /\ tasks[n] \in 1 .. Len(chunks) /\ c.live
         /\ UNCHANGED <<acked, count, putAcks, currentSource, chunks, pc, read, chunk, stateOut, eventOut>>
         /\ InTable(h) /\ Tasked(h)
         /\ \A j \in Insts : ~Putting(j, h) /\ ~Acking(j, h) /\ ~InHand(j, h)
         /\ \A j \in Insts : stateIn'[j] \in {stateIn[j], Append(stateIn[j], Puts(h, r))}
         /\ \A j \in Insts, k \in Kinds : (Asking(j, k)' <=> Asking(j, k)) /\ Once(stateIn'[j], GetsOf(k))
         /\ \A j \in Insts, g \in StateKeys :
              /\ Putting(j, g)' <=> Putting(j, g) \/ (j # currentSource /\ g = h)
              /\ Once(stateIn'[j], PutsOf(g))
         /\ \A a \in 1 .. Len(tasks') : \E b \in 1 .. Len(tasks) \ {n} : tasks'[a] = tasks[b]
         /\ \A a, b \in 1 .. Len(tasks') : tasks'[a] = tasks'[b] => a = b
         /\ \A g : Tasked(g)' <=> Tasked(g) /\ g # h
<1>3. /\ args' = args /\ UNCHANGED <<acked, count, putAcks, currentSource, chunks, pc, read, chunk>>
      /\ UNCHANGED <<stateOut, eventOut>> /\ tasks' = RemoveAt(tasks, n)
      /\ stateIn' = [j \in Insts |-> IF j \in c.dsts THEN Append(stateIn[j], Puts(c.hashkey, c.rec))
                                     ELSE stateIn[j]]
  BY DEF callChunk, syncVars, threads
<1>4. /\ chunks \in Seq(Chunks) /\ tasks \in Seq(1 .. Len(chunks)) /\ n \in 1 .. Len(tasks)
      /\ \A a \in 1 .. Len(tasks) : tasks[a] \in 1 .. Len(chunks)
  BY LenProperties, ElementOfSeq DEF VarsType, ChunksType
<1>5. c \in Chunks /\ c.live /\ tasks[n] \in 1 .. Len(chunks) /\ c.dsts = Insts \ {currentSource}
  BY <1>4, ElementOfSeq DEF RoundInv, TableInv
<1>6. h \in StateKeys /\ r \in Cargo
  BY <1>5 DEF Chunks
<1>7. InTable(h) /\ Tasked(h)
  <2>1. chunks[tasks[n]].live /\ chunks[tasks[n]].hashkey = h
    BY <1>5
  <2>2. InTable(h)
    BY <1>5, <2>1 DEF InTable
  <2>3. Tasked(h)
    BY <1>4, <2>1 DEF Tasked
  <2>4. QED
    BY <2>2, <2>3
<1>8. \A j \in Insts : ~Putting(j, h) /\ ~Acking(j, h) /\ ~InHand(j, h)
  <2>1. h \in StateKeys /\ Tasked(h)
    BY <1>6, <1>7
  <2>2. QED
    BY <2>1, Zenon DEF RoundInv, PutsInv
<1>9. /\ \A j \in Insts, k \in Kinds : (Asking(j, k)' <=> Asking(j, k)) /\ Once(stateIn'[j], GetsOf(k))
      /\ \A j \in Insts, g \in StateKeys :
           /\ Putting(j, g)' <=> Putting(j, g) \/ (j # currentSource /\ g = h)
           /\ Once(stateIn'[j], PutsOf(g))
  <2>1. stateIn' = [j \in Insts |-> IF j \in c.dsts THEN Append(stateIn[j], Puts(h, r)) ELSE stateIn[j]]
    BY <1>3, <1>6
  <2>2. /\ \A j \in Insts, k \in Kinds : (Asking(j, k)' <=> Asking(j, k)) /\ Once(stateIn'[j], GetsOf(k))
        /\ \A j \in Insts, g \in StateKeys : /\ Putting(j, g)' <=> Putting(j, g) \/ (j \in c.dsts /\ g = h)
                                             /\ Once(stateIn'[j], PutsOf(g))
    <3>1. h \in StateKeys /\ r \in Cargo /\ \A j \in Insts : ~Putting(j, h)
      BY <1>6, <1>8
    <3>2. PICK D : D = c.dsts
      OBVIOUS
    <3>0. PICK y \in StateKeys, z \in Cargo : y = h /\ z = r
      BY <3>1
    <3>3. /\ stateIn' = [j \in Insts |-> IF j \in D THEN Append(stateIn[j], Puts(y, z)) ELSE stateIn[j]]
          /\ \A j \in Insts : ~Putting(j, y)
          /\ h = y
      BY <2>1, <3>0, <3>1, <3>2
    <3>4. /\ \A j \in Insts, k \in Kinds : (Asking(j, k)' <=> Asking(j, k)) /\ Once(stateIn'[j], GetsOf(k))
          /\ \A j \in Insts, g \in StateKeys : /\ Putting(j, g)' <=> Putting(j, g) \/ (j \in D /\ g = y)
                                               /\ Once(stateIn'[j], PutsOf(g))
      BY <3>3, PutsSent
    <3>5. QED
      BY <3>2, <3>3, <3>4
  <2>3. QED
    BY <1>5, <2>2
<1>10. /\ \A a \in 1 .. Len(tasks') : \E b \in 1 .. Len(tasks) \ {n} : tasks'[a] = tasks[b]
       /\ \A b \in 1 .. Len(tasks) \ {n} : \E a \in 1 .. Len(tasks') : tasks'[a] = tasks[b]
       /\ \A a, b \in 1 .. Len(tasks') : tasks'[a] = tasks'[b] => a = b
  <2>1. \A a, b \in 1 .. Len(tasks) : tasks[a] = tasks[b] => a = b
    BY DEF RoundInv, TableInv
  <2>2. PICK q : q = RemoveAt(tasks, n)
    OBVIOUS
  <2>3. PICK S : S = 1 .. Len(chunks)
    OBVIOUS
  <2>4. tasks \in Seq(S) /\ n \in 1 .. Len(tasks)
    BY <1>4, <2>3
  <2>5. Distinct(tasks, S)
    BY <2>1 DEF Distinct
  <2>6. PICK s \in Seq(S) : s = tasks
    BY <2>4
  <2>7. PICK l \in 1 .. Len(s) : l = n /\ q = RemoveAt(s, l)
    BY <2>2, <2>4, <2>6
  <2>8. q \in Seq(S) /\ Distinct(q, S)
    BY <2>5, <2>6, <2>7, Removed
  <2>9. \A a \in 1 .. Len(q) : \E b \in 1 .. Len(s) \ {l} : q[a] = s[b]
    <3>1. ASSUME NEW a \in 1 .. Len(q)
          PROVE  \E b \in 1 .. Len(s) \ {l} : q[a] = s[b]
      BY <2>7, RemovedFrom
    <3>2. QED
      BY <3>1
  <2>10. ASSUME NEW b \in 1 .. Len(s) \ {l}
         PROVE  \E a \in 1 .. Len(q) : q[a] = s[b]
    BY <2>7, RemovedKeeps
  <2>11. \A a, b \in 1 .. Len(q) : q[a] = q[b] => a = b
    BY <2>8, ElementOfSeq DEF Distinct
  <2>12. tasks' = q /\ s = tasks /\ l = n
    BY <1>3, <2>2, <2>6, <2>7
  <2>13. \A b \in 1 .. Len(s) \ {l} : \E a \in 1 .. Len(q) : q[a] = s[b]
    BY <2>10
  <2>14. QED
    BY <2>9, <2>11, <2>12, <2>13, Zenon
<1>11. \A b \in 1 .. Len(tasks) : chunks[tasks[b]].hashkey = h <=> b = n
  BY <1>4, <1>5, <1>6 DEF RoundInv, TableInv
<1>12. \A g : Tasked(g)' <=> Tasked(g) /\ g # h
  <2>1. \A g : Tasked(g)' => Tasked(g) /\ g # h
    BY <1>3, <1>10, <1>11 DEF Tasked
  <2>2. \A g : Tasked(g) /\ g # h => Tasked(g)'
    BY <1>3, <1>6, <1>10 DEF Tasked
  <2>3. QED
    BY <2>1, <2>2
<1>13. \A j \in Insts : stateIn'[j] \in {stateIn[j], Append(stateIn[j], Puts(h, r))}
  BY <1>3
<1>14. QED
  BY <1>3, <1>5, <1>6, <1>7, <1>8, <1>9, <1>10, <1>12, <1>13

(* The pool sends the puts of a chunk.                                     *)
LEMMA PoolRound ==
  ASSUME VarsType, VarsType', RoundInv, Pool
  PROVE  RoundInv' /\ \A k \in Kinds : Active(k)' <=> Active(k)
<1>1. PICK n \in DOMAIN tasks : callChunk(n)
  BY DEF Pool
<1>2. PICK c, h, r : c = chunks[tasks[n]] /\ h = c.hashkey /\ r = c.rec
  OBVIOUS
<1>0. args' = args
  BY <1>1 DEF callChunk
<1>4. /\ h \in StateKeys /\ r \in Cargo /\ tasks[n] \in 1 .. Len(chunks) /\ c.live
      /\ UNCHANGED <<acked, count, putAcks, currentSource, chunks, pc, read, chunk, stateOut, eventOut>>
      /\ InTable(h) /\ Tasked(h)
      /\ \A j \in Insts : ~Putting(j, h) /\ ~Acking(j, h) /\ ~InHand(j, h)
      /\ \A j \in Insts : stateIn'[j] \in {stateIn[j], Append(stateIn[j], Puts(h, r))}
      /\ \A j \in Insts, k \in Kinds : (Asking(j, k)' <=> Asking(j, k)) /\ Once(stateIn'[j], GetsOf(k))
      /\ \A j \in Insts, g \in StateKeys :
           /\ Putting(j, g)' <=> Putting(j, g) \/ (j # currentSource /\ g = h)
           /\ Once(stateIn'[j], PutsOf(g))
      /\ \A a \in 1 .. Len(tasks') : \E b \in 1 .. Len(tasks) \ {n} : tasks'[a] = tasks[b]
      /\ \A a, b \in 1 .. Len(tasks') : tasks'[a] = tasks'[b] => a = b
      /\ \A g : Tasked(g)' <=> Tasked(g) /\ g # h
  BY <1>0, <1>1, <1>2, PoolSends
<1>3. args' = args /\ UNCHANGED <<acked, count, putAcks, currentSource, chunks, pc, read, chunk, stateOut, eventOut>>
  BY <1>0, <1>4
<1>7. h \in StateKeys /\ InTable(h) /\ Tasked(h)
  BY <1>4
<1>8. \A j \in Insts : ~Putting(j, h) /\ ~Acking(j, h) /\ ~InHand(j, h)
  BY <1>4
<1>9. /\ \A j \in Insts, k \in Kinds : (Asking(j, k)' <=> Asking(j, k)) /\ Once(stateIn'[j], GetsOf(k))
      /\ \A j \in Insts, g \in StateKeys :
           /\ Putting(j, g)' <=> Putting(j, g) \/ (j # currentSource /\ g = h)
           /\ Once(stateIn'[j], PutsOf(g))
  BY <1>4, Zenon
<1>10. /\ \A a \in 1 .. Len(tasks') : \E b \in 1 .. Len(tasks) \ {n} : tasks'[a] = tasks[b]
       /\ \A a, b \in 1 .. Len(tasks') : tasks'[a] = tasks'[b] => a = b
  BY <1>4, Zenon
<1>12. \A g : Tasked(g)' <=> Tasked(g) /\ g # h
  BY <1>4, Zenon
<1>13. /\ Insts' = Insts /\ StateKeys' = StateKeys
  BY <1>3, ArgsKept
<1>14. \A j \in Insts : \A k : Fetched(j, k)' <=> Fetched(j, k)
  BY <1>3 DEF Fetched
<1>15. \A j \in Insts : \A g : InHand(j, g)' <=> InHand(j, g)
  BY <1>3 DEF InHand
<1>16. /\ \A j \in Insts, k \in Kinds : Answering(j, k)' <=> Answering(j, k)
       /\ \A j \in Insts, g \in StateKeys : (Sending(j, g)' <=> Sending(j, g)) /\ (Acking(j, g)' <=> Acking(j, g))
       /\ \A g : InTable(g)' <=> InTable(g)
  BY <1>3 DEF Answering, Sending, Acking, InTable
<1>17. \A l : LiveKeys(l)' = LiveKeys(l) /\ Keys(l)' = Keys(l)
  BY <1>3, <1>16, SameKeys, SameToCome
<1>18. \A d \in Insts \ {currentSource}, g \in StateKeys : Pending(d, g)' <=> Pending(d, g)
  BY <1>7, <1>9, <1>12, <1>15, <1>16 DEF Pending
<1>19. \A l : Counted(l)' = Counted(l)
  <2>1. \A l : LiveKeys(l) \subseteq StateKeys
    BY DEF LiveKeys
  <2>2. QED
    BY <1>3, <1>17, <1>18, <2>1, SameCounted
<1>20. \A l \in Kinds : Active(l)' <=> Active(l)
  BY <1>3, <1>9, <1>16, SameActive
<1>21. SourceInv'
  BY <1>3, <1>7, <1>9, <1>13, <1>14, <1>15, <1>16, <1>20, ScopeKept DEF RoundInv, SourceInv
<1>22. AnswersInv'
  BY <1>3, <1>9, <1>13, <1>14, <1>16, <1>17 DEF RoundInv, AnswersInv
<1>23. TableInv'
  <2>1. \A g \in StateKeys : InTable(g)' => Active(g.kind)'
    BY <1>16, <1>20, MessageTypes DEF RoundInv, TableInv
  <2>2. \A a \in 1 .. Len(tasks') : chunks[tasks'[a]].live
    BY <1>10 DEF RoundInv, TableInv
  <2>3. QED
    BY <1>3, <1>10, <1>13, <2>1, <2>2 DEF RoundInv, TableInv
<1>24. PutsInv'
  BY <1>3, <1>8, <1>9, <1>12, <1>13, <1>15, <1>16 DEF RoundInv, PutsInv
<1>25. PutAcksInv'
  BY <1>3, <1>13, <1>15, <1>19, <1>20 DEF RoundInv, PutAcksInv
<1>26. QED
  BY <1>20, <1>21, <1>22, <1>23, <1>24, <1>25 DEF RoundInv

(* What becomes of a record that arrives: a chunk that is new, and one     *)
(* task, or the puts.                                                      *)
LEMMA StateArrives ==
  ASSUME VarsType, VarsType', RoundInv, NEW i \in Insts, receiveState(i), NEW m, m = Head(stateOut[i]),
         NEW h, h = m.hashkey, NEW r, r = m.rec, NEW k, k = h.kind, NEW e, e = Len(chunks) + 1, NEW f, f = Len(tasks) + 1
  PROVE  /\ h \in StateKeys /\ r \in Cargo /\ k \in Kinds
         /\ i = currentSource /\ ~InTable(h) /\ ~Tasked(h) /\ ~acked[k] /\ Active(k)
         /\ \A j \in Insts : ~Fetched(j, k) /\ ~Sending(j, h)'
         /\ \A j \in Insts : ~Putting(j, h) /\ ~Acking(j, h) /\ ~InHand(j, h)
         /\ \E d \in Chunks : /\ d.hashkey = h /\ d.rec = r /\ d.live /\ d.dsts = Insts \ {currentSource}
                               /\ chunks'[e] = d
         /\ Len(chunks) \in Nat /\ Len(chunks') = e /\ e \notin 1 .. Len(chunks)
         /\ 1 .. Len(chunks') = 1 .. Len(chunks) \cup {e}
         /\ \A c \in 1 .. Len(chunks) : chunks'[c] = chunks[c]
         /\ \A n \in 1 .. Len(tasks) : tasks[n] \in 1 .. Len(chunks)
         /\ \A g : InTable(g)' <=> InTable(g) \/ g = h
         /\ \A j \in Insts : stateIn'[j] \in {stateIn[j], Append(stateIn[j], Puts(h, r))}
         /\ \A j \in Insts, l \in Kinds : (Asking(j, l)' <=> Asking(j, l)) /\ Once(stateIn'[j], GetsOf(l))
         /\ \A j \in Insts, g \in StateKeys :
              /\ Putting(j, g)' <=> Putting(j, g) \/ (args.strict /\ j # currentSource /\ g = h)
              /\ Once(stateIn'[j], PutsOf(g))
         /\ \A n \in 1 .. Len(tasks') : \/ n \in 1 .. Len(tasks) /\ tasks'[n] = tasks[n]
                                        \/ ~args.strict /\ n = f /\ tasks'[n] = e
         /\ \A g : Tasked(g)' <=> Tasked(g) \/ (~args.strict /\ g = h)
<1>2. /\ args' = args /\ UNCHANGED <<acked, count, putAcks, currentSource, pc, read, chunk, eventOut>>
      /\ stateOut[i] # <<>> /\ m.type = "State" /\ stateOut' = [stateOut EXCEPT ![i] = Tail(@)]
  BY DEF receiveState, FromState, syncVars, threads
<1>3. /\ m \in Answers /\ Sending(i, m.hashkey) /\ Answering(i, m.hashkey.kind)
      /\ \A j \in Insts, q \in Kinds :
           /\ Answering(j, q)' <=> Answering(j, q)
           /\ Once(stateOut'[j], GetAcksOf(q))
           /\ \A c : Tells(stateOut[j], q, c) => Tells(stateOut'[j], q, c)
      /\ \A j \in Insts, g \in StateKeys :
           /\ Sending(j, g)' <=> Sending(j, g) /\ ~(j = i /\ m.hashkey = g)
           /\ Once(stateOut'[j], StatesOf(g))
           /\ Followed(stateOut'[j], StatesOf(g), GetAcksOf(g.kind))
  BY <1>2, AnswerTaken
<1>4. h \in StateKeys /\ r \in Cargo
  BY <1>2, <1>3, MessageTypes
<1>5. k \in Kinds
  BY <1>4, MessageTypes
<1>6. /\ i = currentSource /\ ~InTable(h) /\ ~acked[k] /\ Active(k)
      /\ \A j \in Insts : ~Fetched(j, k) /\ ~Sending(j, h)'
      /\ \A j \in Insts : ~Putting(j, h) /\ ~Acking(j, h) /\ ~InHand(j, h)
  <2>1. i = currentSource /\ ~InTable(h) /\ \A j \in Insts : ~Putting(j, h) /\ ~Acking(j, h) /\ ~InHand(j, h)
    BY <1>3, <1>4 DEF RoundInv, SourceInv
  <2>2. ~acked[k]
    BY <1>3, <1>4, <1>5 DEF RoundInv, AnswersInv
  <2>3. \A j \in Insts : ~Fetched(j, k)
    BY <1>5, <2>2 DEF RoundInv, AnswersInv
  <2>4. \A j \in Insts : ~Sending(j, h)'
    BY <1>3, <1>4, <2>1 DEF RoundInv, SourceInv
  <2>5. Active(k)
    BY <1>3, <1>4, <1>5 DEF Active
  <2>6. QED
    BY <2>1, <2>2, <2>3, <2>4, <2>5
<1>7. /\ chunks \in Seq(Chunks) /\ DOMAIN chunks = 1 .. Len(chunks) /\ Len(chunks) \in Nat
      /\ tasks \in Seq(1 .. Len(chunks)) /\ \A n \in 1 .. Len(tasks) : tasks[n] \in 1 .. Len(chunks)
  BY LenProperties, ElementOfSeq DEF VarsType, ChunksType
<1>8. ~Tasked(h)
  BY <1>6, <1>7 DEF Tasked, InTable, RoundInv, TableInv
<1>9. PICK d \in Chunks : /\ d.hashkey = h /\ d.rec = r /\ d.live /\ d.dsts = Insts \ {currentSource}
                          /\ chunks' = Append(chunks, d)
  <2>1. Live(h) = {}
    BY <1>6, <1>7 DEF Live, InTable
  <2>2. PICK d : d = [hashkey |-> h, rec |-> r, dsts |-> Insts \ {currentSource}, acks |-> 0, live |-> TRUE]
    OBVIOUS
  <2>3. d \in Chunks /\ d.hashkey = h /\ d.rec = r /\ d.live /\ d.dsts = Insts \ {currentSource}
    BY <1>4, <2>2 DEF Chunks
  <2>4. chunks' = Append(chunks, d)
    BY <1>4, <2>1, <2>2 DEF receiveState, Obtain
  <2>5. QED
    BY <2>3, <2>4
<1>11. /\ Len(chunks') = e /\ chunks'[e] = d /\ e \notin 1 .. Len(chunks)
       /\ 1 .. Len(chunks') = 1 .. Len(chunks) \cup {e}
       /\ \A c \in 1 .. Len(chunks) : chunks'[c] = chunks[c]
  <2>1. /\ Len(chunks') = Len(chunks) + 1 /\ chunks'[Len(chunks) + 1] = d
        /\ \A c \in 1 .. Len(chunks) : chunks'[c] = chunks[c]
    BY <1>7, <1>9, AppendProperties
  <2>2. QED
    BY <1>7, <2>1
<1>12. \A g : InTable(g)' <=> InTable(g) \/ g = h
  BY <1>9, <1>11 DEF InTable
<1>13. /\ \A j \in Insts, l \in Kinds : (Asking(j, l)' <=> Asking(j, l)) /\ Once(stateIn'[j], GetsOf(l))
       /\ \A j \in Insts, g \in StateKeys :
            /\ Putting(j, g)' <=> Putting(j, g) \/ (args.strict /\ j # currentSource /\ g = h)
            /\ Once(stateIn'[j], PutsOf(g))
  <2>1. CASE args.strict
    <3>1. PICK D : D = Insts \ {currentSource}
      OBVIOUS
    <3>2. PICK y \in StateKeys, z \in Cargo : y = h /\ z = r
      BY <1>4
    <3>3. /\ stateIn' = [j \in Insts |-> IF j \in D THEN Append(stateIn[j], Puts(y, z)) ELSE stateIn[j]]
          /\ args' = args /\ \A j \in Insts : ~Putting(j, y)
      BY <1>2, <1>6, <2>1, <3>1, <3>2 DEF receiveState
    <3>4. /\ \A j \in Insts, l \in Kinds : (Asking(j, l)' <=> Asking(j, l)) /\ Once(stateIn'[j], GetsOf(l))
          /\ \A j \in Insts, g \in StateKeys : /\ Putting(j, g)' <=> Putting(j, g) \/ (j \in D /\ g = y)
                                               /\ Once(stateIn'[j], PutsOf(g))
      BY <3>3, PutsSent
    <3>5. QED
      BY <2>1, <3>1, <3>2, <3>4
  <2>2. CASE ~args.strict
    <3>1. stateIn' = stateIn
      BY <2>2 DEF receiveState
    <3>2. QED
      BY <2>2, <3>1 DEF Asking, Putting, RoundInv, AnswersInv, PutsInv
  <2>3. QED
    BY <2>1, <2>2
<1>14. \/ args.strict /\ tasks' = tasks
       \/ ~args.strict /\ tasks' = Append(tasks, e)
  <2>1. CASE args.strict
    BY <2>1 DEF receiveState
  <2>2. CASE ~args.strict
    <3>1. PICK c : c = CHOOSE x \in DOMAIN chunks' : chunks'[x].live /\ chunks'[x].hashkey = h
      OBVIOUS
    <3>2. DOMAIN chunks' = 1 .. Len(chunks')
      BY LenProperties DEF VarsType, ChunksType
    <3>3. e \in DOMAIN chunks' /\ chunks'[e].live /\ chunks'[e].hashkey = h
      BY <1>9, <1>11, <3>2
    <3>4. c \in 1 .. Len(chunks') /\ chunks'[c].live /\ chunks'[c].hashkey = h
      BY <3>1, <3>2, <3>3
    <3>5. c = e
      BY <1>6, <1>11, <3>4 DEF InTable
    <3>6. tasks' = Append(tasks, c)
      BY <1>4, <2>2, <3>1 DEF receiveState
    <3>7. QED
      BY <2>2, <3>5, <3>6
  <2>3. QED
    BY <2>1, <2>2
<1>15. /\ \A n \in 1 .. Len(tasks') : \/ n \in 1 .. Len(tasks) /\ tasks'[n] = tasks[n]
                                      \/ ~args.strict /\ n = Len(tasks) + 1 /\ tasks'[n] = e
       /\ \A n \in 1 .. Len(tasks) : n \in 1 .. Len(tasks') /\ tasks'[n] = tasks[n]
       /\ ~args.strict => Len(tasks) + 1 \in 1 .. Len(tasks') /\ tasks'[Len(tasks) + 1] = e
  <2>1. CASE args.strict
    BY <1>14, <2>1
  <2>2. CASE ~args.strict
    <3>1. tasks \in Seq(Nat) /\ e \in Nat /\ Len(tasks) \in Nat
      <4>1. 1 .. Len(chunks) \subseteq Nat
        BY <1>7
      <4>2. QED
        BY <1>7, <4>1, SeqMonotonic, LenProperties
    <3>2. /\ Len(tasks') = Len(tasks) + 1 /\ tasks'[Len(tasks) + 1] = e
          /\ \A n \in 1 .. Len(tasks) : tasks'[n] = tasks[n]
      <4>1. tasks' = Append(tasks, e)
        BY <1>14, <2>2
      <4>2. QED
        BY <3>1, <4>1, AppendProperties
    <3>3. QED
      BY <2>2, <3>1, <3>2
  <2>3. QED
    BY <2>1, <2>2
<1>16. \A g : Tasked(g)' <=> Tasked(g) \/ (~args.strict /\ g = h)
  <2>1. \A g : Tasked(g)' => Tasked(g) \/ (~args.strict /\ g = h)
    BY <1>7, <1>9, <1>11, <1>15, SMTT(30) DEF Tasked
  <2>2. \A g : Tasked(g) => Tasked(g)'
    BY <1>7, <1>11, <1>15 DEF Tasked
  <2>3. ~args.strict => Tasked(h)'
    BY <1>9, <1>11, <1>15 DEF Tasked
  <2>4. QED
    BY <2>1, <2>2, <2>3
<1>17. \A j \in Insts : stateIn'[j] \in {stateIn[j], Append(stateIn[j], Puts(h, r))}
  <2>1. CASE args.strict
    <3>1. stateIn' = [j \in Insts |-> IF j = currentSource THEN stateIn[j] ELSE Append(stateIn[j], Puts(h, r))]
      BY <2>1 DEF receiveState
    <3>2. QED
      BY <3>1
  <2>2. CASE ~args.strict
    BY <2>2 DEF receiveState
  <2>3. QED
    BY <2>1, <2>2
<1>18. \A n \in 1 .. Len(tasks') : \/ n \in 1 .. Len(tasks) /\ tasks'[n] = tasks[n]
                                   \/ ~args.strict /\ n = f /\ tasks'[n] = e
  BY <1>15
<1>19. QED
  BY <1>4, <1>5, <1>6, <1>7, <1>8, <1>9, <1>11, <1>12, <1>13, <1>16, <1>17, <1>18

(* State of the source arrives: a new chunk, and its puts are to be sent   *)
(* or are sent.                                                            *)
LEMMA StateRound ==
  ASSUME VarsType, VarsType', RoundInv, NEW i \in Insts, receiveState(i)
  PROVE  RoundInv' /\ \A k \in Kinds : Active(k)' <=> Active(k)
<1>1. PICK m : m = Head(stateOut[i])
  OBVIOUS
<1>2. /\ args' = args /\ UNCHANGED <<acked, count, putAcks, currentSource, pc, read, chunk, eventOut>>
      /\ stateOut[i] # <<>> /\ m.type = "State" /\ stateOut' = [stateOut EXCEPT ![i] = Tail(@)]
  BY <1>1 DEF receiveState, FromState, syncVars, threads
<1>3. /\ m \in Answers /\ Sending(i, m.hashkey) /\ Answering(i, m.hashkey.kind)
      /\ \A j \in Insts, k \in Kinds :
           /\ Answering(j, k)' <=> Answering(j, k)
           /\ Once(stateOut'[j], GetAcksOf(k))
           /\ \A c : Tells(stateOut[j], k, c) => Tells(stateOut'[j], k, c)
      /\ \A j \in Insts, g \in StateKeys :
           /\ Sending(j, g)' <=> Sending(j, g) /\ ~(j = i /\ m.hashkey = g)
           /\ Once(stateOut'[j], StatesOf(g))
           /\ Followed(stateOut'[j], StatesOf(g), GetAcksOf(g.kind))
  BY <1>1, <1>2, AnswerTaken
<1>4. PICK h \in StateKeys, r \in Cargo : h = m.hashkey /\ r = m.rec
  BY <1>2, <1>3, MessageTypes
<1>5. PICK k, e, f : k = h.kind /\ e = Len(chunks) + 1 /\ f = Len(tasks) + 1
  OBVIOUS
<1>0. /\ k \in Kinds
      /\ i = currentSource /\ ~InTable(h) /\ ~Tasked(h) /\ ~acked[k] /\ Active(k)
      /\ \A j \in Insts : ~Fetched(j, k) /\ ~Sending(j, h)'
      /\ \A j \in Insts : ~Putting(j, h) /\ ~Acking(j, h) /\ ~InHand(j, h)
      /\ \E d \in Chunks : /\ d.hashkey = h /\ d.rec = r /\ d.live /\ d.dsts = Insts \ {currentSource}
                            /\ chunks'[e] = d
      /\ Len(chunks) \in Nat /\ Len(chunks') = e /\ e \notin 1 .. Len(chunks)
      /\ 1 .. Len(chunks') = 1 .. Len(chunks) \cup {e}
      /\ \A c \in 1 .. Len(chunks) : chunks'[c] = chunks[c]
      /\ \A n \in 1 .. Len(tasks) : tasks[n] \in 1 .. Len(chunks)
      /\ \A g : InTable(g)' <=> InTable(g) \/ g = h
      /\ \A j \in Insts, l \in Kinds : (Asking(j, l)' <=> Asking(j, l)) /\ Once(stateIn'[j], GetsOf(l))
      /\ \A j \in Insts, g \in StateKeys :
           /\ Putting(j, g)' <=> Putting(j, g) \/ (args.strict /\ j # currentSource /\ g = h)
           /\ Once(stateIn'[j], PutsOf(g))
      /\ \A n \in 1 .. Len(tasks') : \/ n \in 1 .. Len(tasks) /\ tasks'[n] = tasks[n]
                                     \/ ~args.strict /\ n = f /\ tasks'[n] = e
      /\ \A g : Tasked(g)' <=> Tasked(g) \/ (~args.strict /\ g = h)
  BY <1>1, <1>4, <1>5, StateArrives
<1>6. /\ k \in Kinds /\ i = currentSource /\ ~InTable(h) /\ ~acked[k] /\ Active(k)
      /\ \A j \in Insts : ~Fetched(j, k) /\ ~Sending(j, h)'
      /\ \A j \in Insts : ~Putting(j, h) /\ ~Acking(j, h) /\ ~InHand(j, h)
  BY <1>0, Zenon
<1>7. Len(chunks) \in Nat /\ \A n \in 1 .. Len(tasks) : tasks[n] \in 1 .. Len(chunks)
  BY <1>0, Zenon
<1>8. ~Tasked(h)
  BY <1>0, Zenon
<1>9. PICK d \in Chunks : /\ d.hashkey = h /\ d.rec = r /\ d.live /\ d.dsts = Insts \ {currentSource}
                          /\ chunks'[e] = d
  BY <1>0, Zenon
<1>11. /\ Len(chunks') = e /\ chunks'[e] = d /\ e \notin 1 .. Len(chunks)
       /\ 1 .. Len(chunks') = 1 .. Len(chunks) \cup {e}
       /\ \A c \in 1 .. Len(chunks) : chunks'[c] = chunks[c]
  BY <1>0, <1>9, Zenon
<1>12. \A g : InTable(g)' <=> InTable(g) \/ g = h
  BY <1>0, Zenon
<1>13. /\ \A j \in Insts, l \in Kinds : (Asking(j, l)' <=> Asking(j, l)) /\ Once(stateIn'[j], GetsOf(l))
       /\ \A j \in Insts, g \in StateKeys :
            /\ Putting(j, g)' <=> Putting(j, g) \/ (args.strict /\ j # currentSource /\ g = h)
            /\ Once(stateIn'[j], PutsOf(g))
  BY <1>0, Zenon
<1>15. \A n \in 1 .. Len(tasks') : \/ n \in 1 .. Len(tasks) /\ tasks'[n] = tasks[n]
                                   \/ ~args.strict /\ n = f /\ tasks'[n] = e
  BY <1>0, Zenon
<1>16. \A g : Tasked(g)' <=> Tasked(g) \/ (~args.strict /\ g = h)
  BY <1>0, Zenon
<1>17. /\ Insts' = Insts /\ StateKeys' = StateKeys
  BY <1>2, ArgsKept
<1>18. \A j \in Insts : \A l : Fetched(j, l)' <=> Fetched(j, l)
  BY <1>2 DEF Fetched
<1>19. \A j \in Insts : \A g : InHand(j, g)' <=> InHand(j, g)
  <2>1. \A j \in Insts : pc[<<"se", j>>] = "putAck" => chunk[<<"se", j>>] \in 1 .. Len(chunks)
    BY ThreadsOf DEF VarsType, ThreadsType
  <2>2. QED
    BY <1>2, <1>11, <2>1 DEF InHand
<1>20. \A j \in Insts, g \in StateKeys : Acking(j, g)' <=> Acking(j, g)
  BY <1>2 DEF Acking
<1>21. \A l : Keys(l)' = Keys(l)
  BY <1>3, <1>4, <1>12, <1>17 DEF Keys
<1>22. \A l : /\ l # k => LiveKeys(l)' = LiveKeys(l)
              /\ LiveKeys(l) \subseteq LiveKeys(l)' /\ \A g \in LiveKeys(l)' : g # h => g \in LiveKeys(l)
  BY <1>5, <1>12, <1>17 DEF LiveKeys
<1>23. \A j \in Insts \ {currentSource}, g \in StateKeys : Pending(j, g)' <=> Pending(j, g) \/ g = h
  BY <1>13, <1>16, <1>19, <1>20 DEF Pending
<1>24. \A l : Counted(l)' = Counted(l)
  <2>1. ASSUME NEW l PROVE Counted(l)' = Counted(l)
    <3>1. LiveKeys(l) \subseteq StateKeys /\ h \notin LiveKeys(l) /\ LiveKeys(l)' \subseteq StateKeys
      BY <1>6, <1>17 DEF LiveKeys
    <3>2. Pairs(l)' = LiveKeys(l)' \X (Insts \ {currentSource})
      BY <1>2, <1>17 DEF Pairs
    <3>3. Counted(l)' = {x \in Pairs(l)' : ~Pending(x[2], x[1])'}
      BY DEF Counted
    <3>4. ASSUME NEW x, x \in Counted(l)' PROVE x \in Counted(l)
      <4>1. x \in Pairs(l)' /\ ~Pending(x[2], x[1])'
        BY <3>3, <3>4
      <4>2. x[1] \in LiveKeys(l)' /\ x[2] \in Insts \ {currentSource} /\ x = <<x[1], x[2]>>
        BY <3>2, <4>1
      <4>3. x[1] \in LiveKeys(l) /\ ~Pending(x[2], x[1])
        BY <1>22, <1>23, <3>1, <4>1, <4>2
      <4>4. QED
        BY <4>2, <4>3 DEF Counted, Pairs
    <3>5. ASSUME NEW x, x \in Counted(l) PROVE x \in Counted(l)'
      <4>1. x \in Pairs(l) /\ ~Pending(x[2], x[1])
        BY <3>5 DEF Counted
      <4>2. x[1] \in LiveKeys(l) /\ x[2] \in Insts \ {currentSource} /\ x = <<x[1], x[2]>>
        BY <4>1 DEF Pairs
      <4>3. x \in Pairs(l)' /\ ~Pending(x[2], x[1])'
        BY <1>22, <1>23, <3>1, <3>2, <4>1, <4>2
      <4>4. QED
        BY <3>3, <4>3
    <3>6. QED
      BY <3>4, <3>5
  <2>2. QED
    BY <2>1
<1>25. \A l \in Kinds : Active(l)' <=> Active(l)
  BY <1>2, <1>3, <1>13, SameActive
<1>26. SourceInv'
  BY <1>2, <1>3, <1>6, <1>12, <1>13, <1>17, <1>18, <1>19, <1>20, <1>25, ScopeKept DEF RoundInv, SourceInv
<1>27. AnswersInv'
  <2>1. \A l \in Kinds : acked[l] => LiveKeys(l)' = LiveKeys(l)
    BY <1>6, <1>22
  <2>2. QED
    BY <1>2, <1>3, <1>13, <1>17, <1>18, <1>21, <2>1, SMTT(30) DEF RoundInv, AnswersInv
<1>28. TableInv'
  <2>1. \A g \in StateKeys : InTable(g)' => Active(g.kind)'
    BY <1>5, <1>6, <1>12, <1>25, MessageTypes DEF RoundInv, TableInv
  <2>2. \A a, b \in 1 .. Len(chunks') :
          chunks'[a].live /\ chunks'[b].live /\ chunks'[a].hashkey = chunks'[b].hashkey => a = b
    BY <1>6, <1>9, <1>11 DEF InTable, RoundInv, TableInv
  <2>3. \A a \in 1 .. Len(chunks') : chunks'[a].live => chunks'[a].dsts = Insts \ {currentSource}
    BY <1>9, <1>11 DEF RoundInv, TableInv
  <2>4. \A n \in 1 .. Len(tasks') : chunks'[tasks'[n]].live
    BY <1>7, <1>9, <1>11, <1>15, SMTT(30) DEF RoundInv, TableInv
  <2>5. \A n, l \in 1 .. Len(tasks') : tasks'[n] = tasks'[l] => n = l
    <3>1. \A n, l \in 1 .. Len(tasks) : tasks[n] = tasks[l] => n = l
      BY DEF RoundInv, TableInv
    <3>2. \A n \in 1 .. Len(tasks) : tasks[n] # e
      BY <1>7, <1>11
    <3>3. QED
      BY <1>15, <3>1, <3>2
  <2>6. QED
    BY <1>2, <1>17, <2>1, <2>2, <2>3, <2>4, <2>5 DEF TableInv
<1>29. PutsInv'
  BY <1>2, <1>6, <1>8, <1>13, <1>16, <1>17, <1>19, <1>20 DEF RoundInv, PutsInv
<1>30. PutAcksInv'
  BY <1>2, <1>17, <1>19, <1>24, <1>25 DEF RoundInv, PutAcksInv
<1>31. QED
  BY <1>25, <1>26, <1>27, <1>28, <1>29, <1>30 DEF RoundInv

(* Messages are sent of which none is of Q.                                *)
LEMMA FollowedConcat ==
  ASSUME NEW S, NEW s \in Seq(S), NEW t \in Seq(S), NEW Q, NEW R, ~Has(t, Q), Followed(s, Q, R)
  PROVE  Followed(s \o t, Q, R)
<1> DEFINE a == s \o t
<1>1. /\ Len(a) = Len(s) + Len(t) /\ Len(s) \in Nat /\ Len(t) \in Nat
      /\ \A i \in 1 .. Len(a) : a[i] = IF i <= Len(s) THEN s[i] ELSE t[i - Len(s)]
  BY ConcatProperties, LenProperties
<1> HIDE DEF a
<1>2. ASSUME NEW i \in 1 .. Len(a), a[i] \in Q
      PROVE  \E j \in i + 1 .. Len(a) : a[j] \in R
  <2>1. i \in 1 .. Len(s) /\ s[i] \in Q
    <3>1. CASE i <= Len(s)
      BY <1>1, <1>2, <3>1
    <3>2. CASE ~(i <= Len(s))
      <4>1. i - Len(s) \in 1 .. Len(t) /\ t[i - Len(s)] \in Q
        BY <1>1, <1>2, <3>2
      <4>2. QED
        BY <4>1 DEF Has
    <3>3. QED
      BY <3>1, <3>2
  <2>2. PICK j \in i + 1 .. Len(s) : s[j] \in R
    BY <2>1 DEF Followed
  <2>3. j \in 1 .. Len(a) /\ j <= Len(s) /\ j \in i + 1 .. Len(a)
    BY <1>1, <2>1, <2>2
  <2>4. QED
    BY <1>1, <2>2, <2>3
<1>3. QED
  BY <1>2 DEF Followed, a

(* A record is exported under a hashkey of its own.                        *)
LEMMA ExportedKeys ==
  ASSUME VarsType, NEW i \in Insts, NEW m, m.kind \in StateKinds, m.units \subseteq Units,
         NEW x \in ExportedMsgs(i, m), NEW y \in ExportedMsgs(i, m)
  PROVE  x.hashkey.kind = m.kind /\ (x.hashkey = y.hashkey => x = y)
<1>1. PICK u \in m.units : x \in Exported(i, m.kind, u)
  BY DEF ExportedMsgs
<1>2. PICK v \in m.units : y \in Exported(i, m.kind, v)
  BY DEF ExportedMsgs
<1>3. /\ state[i][m.kind][u] \in Seq(Records) /\ state[i][m.kind][v] \in Seq(Records)
  BY DEF VarsType, InstancesType
<1>4. PICK l, k : l = state[i][m.kind][u] /\ k = state[i][m.kind][v]
  OBVIOUS
<1>5. /\ l \in Seq(Records) /\ k \in Seq(Records) /\ Len(l) \in Nat /\ Len(k) \in Nat
      /\ DOMAIN l = 1 .. Len(l) /\ DOMAIN k = 1 .. Len(k)
  BY <1>3, <1>4, LenProperties
<1> DEFINE G(n) == [kind |-> m.kind, unit |-> u, pos |-> Len(l) - n]
           H(p) == [kind |-> m.kind, unit |-> v, pos |-> Len(k) - p]
<1>a. PICK n \in 1 .. Len(l) : x = [type |-> "State", rec |-> Copied(l[n], AssetOf(i, G(n))), hashkey |-> G(n)]
  BY <1>1, <1>4, <1>5, Zenon DEF Exported
<1>b. PICK p \in 1 .. Len(k) : y = [type |-> "State", rec |-> Copied(k[p], AssetOf(i, H(p))), hashkey |-> H(p)]
  BY <1>2, <1>4, <1>5, Zenon DEF Exported
<1>6. PICK g : /\ g = [kind |-> m.kind, unit |-> u, pos |-> Len(l) - n]
               /\ x = [type |-> "State", rec |-> Copied(l[n], AssetOf(i, g)), hashkey |-> g]
  BY <1>a
<1>7. PICK f : /\ f = [kind |-> m.kind, unit |-> v, pos |-> Len(k) - p]
               /\ y = [type |-> "State", rec |-> Copied(k[p], AssetOf(i, f)), hashkey |-> f]
  BY <1>b
<1> HIDE DEF G, H
<1>8. x.hashkey = g /\ g.kind = m.kind /\ g.unit = u /\ g.pos = Len(l) - n
  BY <1>6
<1>9. y.hashkey = f /\ f.unit = v /\ f.pos = Len(k) - p
  BY <1>7
<1>10. ASSUME x.hashkey = y.hashkey
       PROVE  x = y
  <2>1. f = g /\ u = v /\ l = k /\ Len(l) - n = Len(l) - p
    BY <1>4, <1>8, <1>9, <1>10
  <2>2. n = p
    BY <1>5, <2>1
  <2>3. QED
    BY <1>6, <1>7, <2>1, <2>2
<1>11. QED
  BY <1>8, <1>10

(* So is it listed, once.                                                  *)
LEMMA ListedKeys ==
  ASSUME VarsType, NEW i \in Insts, NEW m, m.kind \in StateKinds, m.units \subseteq Units,
         NEW ex \in Listings(ExportedMsgs(i, m))
  PROVE  /\ ex \in Seq(StateMsgs) /\ Len(ex) \in Nat /\ Len(ex) = Cardinality(ExportedMsgs(i, m))
         /\ \A n \in 1 .. Len(ex) : ex[n] \in StateMsgs /\ ex[n].hashkey.kind = m.kind
         /\ \A n, p \in 1 .. Len(ex) : ex[n].hashkey = ex[p].hashkey => n = p
<1>1. PICK M : M = ExportedMsgs(i, m)
  OBVIOUS
<1>2. M \subseteq StateMsgs /\ IsFiniteSet(M)
  BY <1>1, ExportedType DEF ExportedMsgs
<1>3. Cardinality(M) \in Nat
  BY <1>2, FS_CardinalityType
<1>4. /\ ex \in [1 .. Cardinality(M) -> M]
      /\ \A n, p \in 1 .. Cardinality(M) : n # p => ex[n] # ex[p]
  BY <1>1 DEF Listings, SetToSeqs
<1>5. Len(ex) = Cardinality(M) /\ ex \in Seq(M)
  BY <1>3, <1>4
<1>6. ex \in Seq(StateMsgs)
  BY <1>2, <1>5, SeqMonotonic
<1>7. \A n \in 1 .. Len(ex) : ex[n] \in M
  BY <1>4, <1>5
<1>8. \A x, y \in M : x.hashkey.kind = m.kind /\ (x.hashkey = y.hashkey => x = y)
  BY <1>1, ExportedKeys
<1>9. QED
  BY <1>1, <1>2, <1>3, <1>4, <1>5, <1>6, <1>7, <1>8

(* The state of an instance, and the ack, go out.                          *)
LEMMA AnswerSent ==
  ASSUME VarsType, VarsType', RoundInv, args' = args, NEW i \in Insts, NEW k \in StateKinds, NEW ex \in Seq(StateMsgs),
         stateOut' = [stateOut EXCEPT ![i] = @ \o ex \o <<[type |-> "GetAck", kind |-> k, count |-> Len(ex)]>>],
         \A n \in 1 .. Len(ex) : ex[n] \in StateMsgs /\ ex[n].hashkey.kind = k,
         \A n, p \in 1 .. Len(ex) : ex[n].hashkey = ex[p].hashkey => n = p,
         \A j \in Insts : ~Answering(j, k),
         \A j \in Insts, h \in StateKeys : h.kind = k => ~Sending(j, h)
  PROVE  /\ \A j \in Insts, l \in Kinds :
              /\ Answering(j, l)' <=> Answering(j, l) \/ (j = i /\ l = k)
              /\ Once(stateOut'[j], GetAcksOf(l))
              /\ l # k => \A c : Tells(stateOut[j], l, c) => Tells(stateOut'[j], l, c)
         /\ Tells(stateOut'[i], k, Len(ex))
         /\ \A j \in Insts, h \in StateKeys :
              /\ Sending(j, h)' <=> Sending(j, h) \/ (j = i /\ Has(ex, StatesOf(h)))
              /\ Once(stateOut'[j], StatesOf(h))
              /\ Followed(stateOut'[j], StatesOf(h), GetAcksOf(h.kind))
<1>1. PICK s \in Seq(Answers) : s = stateOut[i] /\ stateOut \in [Insts -> Seq(Answers)]
  BY DEF VarsType, ChannelsType
<1>2. PICK a : a = [type |-> "GetAck", kind |-> k, count |-> Len(ex)]
  OBVIOUS
<1>3. k \in Kinds /\ Len(ex) \in Nat
  BY ScopeType, LenProperties DEF Kinds
<1>4. a \in Answers /\ a.type = "GetAck" /\ a.kind = k /\ a.count = Len(ex)
  BY <1>2, <1>3 DEF Answers
<1>5. ex \in Seq(Answers)
  BY SeqMonotonic DEF Answers
<1>6. PICK b \in Seq(Answers) : b = s \o ex
  BY <1>5, ConcatProperties
<1>7. /\ stateOut'[i] = Append(b, a) /\ \A j \in Insts : j # i => stateOut'[j] = stateOut[j]
  <2>1. Append(b, a) = b \o <<a>>
    BY <1>4, AppendIsConcat
  <2>2. stateOut' = [stateOut EXCEPT ![i] = b \o <<a>>]
    BY <1>1, <1>2, <1>6
  <2>3. QED
    BY <1>1, <2>1, <2>2
<1>8. \A Q : /\ Has(b, Q) <=> Has(s, Q) \/ Has(ex, Q)
             /\ Once(s, Q) /\ Once(ex, Q) /\ ~(Has(s, Q) /\ Has(ex, Q)) => Once(b, Q)
  BY <1>5, <1>6, HasConcat
<1>9. \A Q : /\ Has(Append(b, a), Q) <=> Has(b, Q) \/ a \in Q
             /\ Once(Append(b, a), Q) <=> Once(b, Q) /\ ~(Has(b, Q) /\ a \in Q)
  BY <1>4, HasAppend
<1>10. /\ \A n \in 1 .. Len(ex) : /\ ex[n] \in Answers /\ ex[n].type = "State"
                                  /\ ex[n].hashkey \in StateKeys /\ ex[n].hashkey.kind = k
  BY DEF Answers, StateMsgs
<1>11. /\ \A l \in Kinds : a \in GetAcksOf(l) <=> l = k
       /\ \A h \in StateKeys : a \notin StatesOf(h)
       /\ \A l \in Kinds : \A n \in 1 .. Len(ex) : ex[n] \notin GetAcksOf(l)
       /\ \A h \in StateKeys : \A n \in 1 .. Len(ex) : ex[n] \in StatesOf(h) <=> ex[n].hashkey = h
  BY <1>4, <1>10, Sorted
<1>12. /\ \A l \in Kinds : ~Has(ex, GetAcksOf(l)) /\ Once(ex, GetAcksOf(l))
       /\ \A h \in StateKeys : Once(ex, StatesOf(h)) /\ (h.kind # k => ~Has(ex, StatesOf(h)))
  <2>1. ASSUME NEW l \in Kinds
        PROVE  ~Has(ex, GetAcksOf(l))
    BY <1>11, Zenon DEF Has
  <2>2. ASSUME NEW l \in Kinds
        PROVE  Once(ex, GetAcksOf(l))
    BY <2>1, HasNot
  <2>3. ASSUME NEW h \in StateKeys
        PROVE  Once(ex, StatesOf(h))
    <3>1. \A n \in 1 .. Len(ex) : ex[n] \in StatesOf(h) => ex[n].hashkey = h
      BY <1>11
    <3>2. QED
      BY <3>1, Zenon DEF Once
  <2>4. ASSUME NEW h \in StateKeys, h.kind # k
        PROVE  ~Has(ex, StatesOf(h))
    <3>1. \A n \in 1 .. Len(ex) : ex[n] \in StatesOf(h) => ex[n].hashkey = h
      BY <1>11
    <3>2. QED
      BY <1>10, <2>4, <3>1, Zenon DEF Has
  <2>5. QED
    BY <2>1, <2>2, <2>3, <2>4
<1>13. /\ \A j \in Insts, l \in Kinds : Once(stateOut[j], GetAcksOf(l))
       /\ \A j \in Insts, h \in StateKeys :
            Once(stateOut[j], StatesOf(h)) /\ Followed(stateOut[j], StatesOf(h), GetAcksOf(h.kind))
  BY DEF RoundInv, AnswersInv
<1>14. ASSUME NEW l \in Kinds
       PROVE  /\ Answering(i, l)' <=> Answering(i, l) \/ l = k
              /\ Once(stateOut'[i], GetAcksOf(l))
              /\ l # k => \A c : Tells(stateOut[i], l, c) => Tells(stateOut'[i], l, c)
  <2>1. Has(Append(b, a), GetAcksOf(l)) <=> Has(s, GetAcksOf(l)) \/ l = k
    BY <1>8, <1>9, <1>11, <1>12
  <2>2. l = k => ~Has(s, GetAcksOf(l))
    BY <1>1 DEF Answering
  <2>3. Once(b, GetAcksOf(l)) /\ (Has(b, GetAcksOf(l)) <=> Has(s, GetAcksOf(l)))
    BY <1>1, <1>8, <1>12, <1>13
  <2>4. Once(Append(b, a), GetAcksOf(l))
    BY <1>9, <1>11, <2>2, <2>3
  <2>5. ASSUME l # k, NEW c, Tells(s, l, c)
        PROVE  Tells(Append(b, a), l, c)
    <3>1. PICK Q : Q = {x \in GetAcksOf(l) : x.count # c}
      OBVIOUS
    <3>2. a \notin Q /\ ~Has(ex, Q)
      BY <1>11, <2>5, <3>1 DEF Has
    <3>3. ~Has(Append(b, a), Q)
      BY <1>8, <1>9, <2>5, <3>1, <3>2 DEF Tells
    <3>4. QED
      BY <3>1, <3>3 DEF Tells
  <2>6. QED
    BY <1>1, <1>7, <2>1, <2>4, <2>5 DEF Answering
<1>15. Tells(stateOut'[i], k, Len(ex))
  <2>1. PICK Q : Q = {x \in GetAcksOf(k) : x.count # Len(ex)}
    OBVIOUS
  <2>2. a \notin Q /\ ~Has(ex, Q) /\ ~Has(s, Q)
    <3>1. ~Has(s, GetAcksOf(k))
      BY <1>1 DEF Answering
    <3>2. QED
      BY <1>3, <1>4, <1>11, <2>1, <3>1 DEF Has
  <2>3. ~Has(Append(b, a), Q)
    BY <1>8, <1>9, <2>2
  <2>4. QED
    BY <1>7, <2>1, <2>3 DEF Tells
<1>16. ASSUME NEW h \in StateKeys
       PROVE  /\ Sending(i, h)' <=> Sending(i, h) \/ Has(ex, StatesOf(h))
              /\ Once(stateOut'[i], StatesOf(h))
              /\ Followed(stateOut'[i], StatesOf(h), GetAcksOf(h.kind))
  <2>1. h.kind = k => ~Has(s, StatesOf(h))
    BY <1>1 DEF Sending
  <2>2. Once(b, StatesOf(h))
    BY <1>1, <1>8, <1>12, <1>13, <2>1
  <2>3. Has(Append(b, a), StatesOf(h)) <=> Has(s, StatesOf(h)) \/ Has(ex, StatesOf(h))
    BY <1>8, <1>9, <1>11
  <2>4. Once(Append(b, a), StatesOf(h))
    BY <1>9, <1>11, <2>2
  <2>5. Followed(Append(b, a), StatesOf(h), GetAcksOf(h.kind))
    <3>1. CASE h.kind = k
      <4>1. a \in GetAcksOf(h.kind) /\ a \notin StatesOf(h)
        BY <1>3, <1>11, <3>1
      <4>2. QED
        BY <1>4, <4>1, FollowedAppend
    <3>2. CASE h.kind # k
      <4>1. ~Has(ex, StatesOf(h)) /\ Followed(s, StatesOf(h), GetAcksOf(h.kind)) /\ a \notin StatesOf(h)
        BY <1>1, <1>11, <1>12, <1>13, <3>2
      <4>2. Followed(b, StatesOf(h), GetAcksOf(h.kind))
        BY <1>5, <1>6, <4>1, FollowedConcat
      <4>3. QED
        BY <1>4, <4>1, <4>2, FollowedAppend
    <3>3. QED
      BY <3>1, <3>2
  <2>6. QED
    BY <1>1, <1>7, <2>3, <2>4, <2>5 DEF Sending
<1>17. ASSUME NEW j \in Insts, j # i
       PROVE  /\ \A l \in Kinds : /\ Answering(j, l)' <=> Answering(j, l)
                                  /\ Once(stateOut'[j], GetAcksOf(l))
                                  /\ \A c : Tells(stateOut[j], l, c) => Tells(stateOut'[j], l, c)
              /\ \A h \in StateKeys : /\ Sending(j, h)' <=> Sending(j, h)
                                      /\ Once(stateOut'[j], StatesOf(h))
                                      /\ Followed(stateOut'[j], StatesOf(h), GetAcksOf(h.kind))
  BY <1>7, <1>13, <1>17 DEF Answering, Sending
<1>18. QED
  BY <1>14, <1>15, <1>16, <1>17

(* What a get finds: none of its state has been sent or has arrived.       *)
LEMMA GetFound ==
  ASSUME VarsType, VarsType', RoundInv, NEW i \in Insts, handle_get(i), NEW m, m = Head(stateIn[i])
  PROVE  /\ m.kind \in StateKinds /\ i = currentSource /\ ~acked[m.kind] /\ count[m.kind] = Large
         /\ Keys(m.kind) = {}
         /\ \A j \in Insts : ~Answering(j, m.kind) /\ ~Fetched(j, m.kind)
         /\ \A h \in StateKeys : h.kind = m.kind => ~InTable(h) /\ \A j \in Insts : ~Sending(j, h)
<1>1. stateIn[i] # <<>> /\ m.type = "Get" /\ m.kind \in StateKinds /\ stateIn' = [stateIn EXCEPT ![i] = Tail(@)]
  BY DEF handle_get, Request
<1>2. m \in Requests
  BY <1>1, ReceivedType
<1>3. Asking(i, m.kind)
  <2>1. args' = args
    BY DEF handle_get
  <2>2. QED
    BY <1>1, <2>1, RequestTaken
<1>4. m.kind \in Kinds
  BY <1>1, <1>2, MessageTypes
<1>5. PICK k \in StateKinds : k = m.kind
  BY <1>1
<1>9. /\ i = currentSource /\ ~acked[k] /\ count[k] = Large /\ Keys(k) = {}
      /\ \A j \in Insts : ~Answering(j, k) /\ ~Fetched(j, k)
      /\ \A h \in StateKeys : h.kind = k => ~InTable(h) /\ \A j \in Insts : ~Sending(j, h)
  <2>1. i = currentSource
    BY <1>3, <1>4 DEF RoundInv, SourceInv
  <2>2. ~acked[k] /\ count[k] = Large /\ Keys(k) = {} /\ ~Answering(i, k)
    BY <1>3, <1>4, <1>5 DEF RoundInv, AnswersInv
  <2>3. \A j \in Insts : ~Answering(j, k)
    BY <1>4, <1>5, <2>1, <2>2 DEF RoundInv, SourceInv
  <2>4. \A j \in Insts : ~Fetched(j, k)
    BY <1>4, <1>5, <2>2 DEF RoundInv, AnswersInv
  <2>5. \A h \in StateKeys : h.kind = k => ~InTable(h) /\ \A j \in Insts : ~Sending(j, h)
    BY <2>2 DEF Keys
  <2>6. QED
    BY <2>1, <2>2, <2>3, <2>4, <2>5
<1>10. QED
  BY <1>5, <1>9

(* The instance is asked for its state: what it sends, and the number of   *)
(* records the ack tells.                                                  *)
LEMMA GetRound ==
  ASSUME VarsType, VarsType', RoundInv, FewRecords, NEW i \in Insts, handle_get(i)
  PROVE  RoundInv' /\ \A k \in Kinds : Active(k)' <=> Active(k)
<1>1. PICK m : m = Head(stateIn[i])
  OBVIOUS
<1>2. /\ args' = args /\ UNCHANGED <<acked, count, putAcks, currentSource, chunks, tasks, pc, read, chunk>>
      /\ UNCHANGED eventOut /\ stateIn[i] # <<>> /\ m.type = "Get" /\ m.kind \in StateKinds
      /\ stateIn' = [stateIn EXCEPT ![i] = Tail(@)]
  BY <1>1 DEF handle_get, Request, syncVars, chunkVars, threads
<1>3. /\ m \in Requests /\ Asking(i, m.kind)
      /\ \A j \in Insts, l \in Kinds :
           /\ Asking(j, l)' <=> Asking(j, l) /\ ~(j = i /\ m.kind = l)
           /\ Once(stateIn'[j], GetsOf(l))
      /\ \A j \in Insts, h \in StateKeys :
           /\ Putting(j, h)' <=> Putting(j, h)
           /\ Once(stateIn'[j], PutsOf(h))
  BY <1>1, <1>2, RequestTaken
<1>4. m.units \subseteq Units /\ m.kind \in Kinds
  BY <1>2, <1>3, MessageTypes
<1>5. PICK k \in StateKinds : k = m.kind
  BY <1>2
<1>6. PICK ex \in Listings(ExportedMsgs(i, m)) : stateOut' = AnswerTo(i, m, ex)
  BY <1>1, GetAnswered
<1>7. /\ ex \in Seq(StateMsgs) /\ Len(ex) \in Nat /\ Len(ex) = Cardinality(ExportedMsgs(i, m))
      /\ \A n \in 1 .. Len(ex) : ex[n] \in StateMsgs /\ ex[n].hashkey.kind = k
      /\ \A n, p \in 1 .. Len(ex) : ex[n].hashkey = ex[p].hashkey => n = p
  BY <1>2, <1>4, <1>5, ListedKeys
<1>8. Len(ex) < Large
  <2>1. PICK A : A = UNION {Exported(i, k, u) : u \in Units}
    OBVIOUS
  <2>2. IsFiniteSet(A) /\ Cardinality(A) < Large
    BY <2>1, ExportedType DEF FewRecords
  <2>3. ExportedMsgs(i, m) \in SUBSET A
    BY <1>4, <1>5, <2>1 DEF ExportedMsgs
  <2>4. Cardinality(A) \in Nat /\ Cardinality(ExportedMsgs(i, m)) <= Cardinality(A) /\ Large \in Nat
    BY <2>2, <2>3, FS_Subset, FS_CardinalityType DEF Large
  <2>5. QED
    BY <1>7, <2>2, <2>4
<1>9. /\ i = currentSource /\ ~acked[k] /\ count[k] = Large /\ Keys(k) = {}
      /\ \A j \in Insts : ~Answering(j, k) /\ ~Fetched(j, k)
      /\ \A h \in StateKeys : h.kind = k => ~InTable(h) /\ \A j \in Insts : ~Sending(j, h)
  BY <1>1, <1>5, GetFound
<1>10. stateOut' = [stateOut EXCEPT ![i] = @ \o ex \o <<[type |-> "GetAck", kind |-> k, count |-> Len(ex)]>>]
  BY <1>5, <1>6 DEF AnswerTo
<1>11. /\ \A j \in Insts, l \in Kinds :
            /\ Answering(j, l)' <=> Answering(j, l) \/ (j = i /\ l = k)
            /\ Once(stateOut'[j], GetAcksOf(l))
            /\ l # k => \A c : Tells(stateOut[j], l, c) => Tells(stateOut'[j], l, c)
       /\ Tells(stateOut'[i], k, Len(ex))
       /\ \A j \in Insts, h \in StateKeys :
            /\ Sending(j, h)' <=> Sending(j, h) \/ (j = i /\ Has(ex, StatesOf(h)))
            /\ Once(stateOut'[j], StatesOf(h))
            /\ Followed(stateOut'[j], StatesOf(h), GetAcksOf(h.kind))
  <2>1. ex \in Seq(StateMsgs) /\ args' = args
    BY <1>2, <1>7, Zenon
  <2>2. \A n \in 1 .. Len(ex) : ex[n] \in StateMsgs /\ ex[n].hashkey.kind = k
    BY <1>7, Zenon
  <2>3. \A n, p \in 1 .. Len(ex) : ex[n].hashkey = ex[p].hashkey => n = p
    BY <1>7, Zenon
  <2>4. \A j \in Insts : ~Answering(j, k)
    BY <1>9, Zenon
  <2>5. \A j \in Insts, h \in StateKeys : h.kind = k => ~Sending(j, h)
    BY <1>9, Zenon
  <2>6. QED
    BY <1>10, <2>1, <2>2, <2>3, <2>4, <2>5, AnswerSent, Zenon
<1>12. \A h \in StateKeys : Has(ex, StatesOf(h)) <=> \E n \in 1 .. Len(ex) : ex[n].hashkey = h
  <2>1. \A n \in 1 .. Len(ex) : ex[n] \in Answers /\ ex[n].type = "State"
    BY <1>7 DEF Answers, StateMsgs
  <2>2. QED
    BY <2>1, Sorted DEF Has
<1>13. /\ Insts' = Insts /\ StateKeys' = StateKeys
  BY <1>2, ArgsKept
<1>14. /\ \A j \in Insts : \A l : Fetched(j, l)' <=> Fetched(j, l)
       /\ \A j \in Insts : \A g : InHand(j, g)' <=> InHand(j, g)
       /\ \A g : (InTable(g)' <=> InTable(g)) /\ (Tasked(g)' <=> Tasked(g))
       /\ \A j \in Insts : \A g : Acking(j, g)' <=> Acking(j, g)
  BY <1>2 DEF Fetched, InHand, InTable, Tasked, Acking
<1>15. \A l \in Kinds : l # k => Keys(l)' = Keys(l)
  <2>1. \A h \in StateKeys : h.kind # k => \A j \in Insts : Sending(j, h)' <=> Sending(j, h)
    BY <1>7, <1>11, <1>12
  <2>2. QED
    BY <1>13, <1>14, <2>1 DEF Keys
<1>16. Cardinality(Keys(k)') = Len(ex)
  <2>1. Keys(k)' = {h \in StateKeys : \E n \in 1 .. Len(ex) : ex[n].hashkey = h}
    <3>1. ASSUME NEW h \in StateKeys
          PROVE  h.kind = k /\ (InTable(h)' \/ \E j \in Insts : Sending(j, h)')
                   <=> \E n \in 1 .. Len(ex) : ex[n].hashkey = h
      BY <1>7, <1>9, <1>11, <1>12, <1>14
    <3>2. QED
      BY <1>13, <3>1 DEF Keys
  <2>2. PICK f : f = [n \in 1 .. Len(ex) |-> ex[n].hashkey]
    OBVIOUS
  <2>3. PICK K : K = Keys(k)'
    OBVIOUS
  <2>4. \A n \in 1 .. Len(ex) : ex[n].hashkey \in StateKeys
    BY <1>7 DEF StateMsgs
  <2>5. /\ f \in [1 .. Len(ex) -> K]
        /\ \A n, p \in 1 .. Len(ex) : f[n] = f[p] => n = p
        /\ \A h \in K : \E n \in 1 .. Len(ex) : f[n] = h
    BY <1>7, <2>1, <2>2, <2>3, <2>4
  <2>6. f \in Bijection(1 .. Len(ex), K)
    <3>1. f \in Injection(1 .. Len(ex), K)
      BY <2>5 DEF Injection, IsInjective
    <3>2. f \in Surjection(1 .. Len(ex), K)
      BY <2>5, Zenon DEF Surjection
    <3>3. QED
      BY <3>1, <3>2 DEF Bijection
  <2>7. ExistsBijection(1 .. Len(ex), K)
    BY <2>6 DEF ExistsBijection
  <2>8. IsFiniteSet(1 .. Len(ex)) /\ Cardinality(1 .. Len(ex)) = Len(ex)
    BY <1>7, FS_Interval
  <2>9. QED
    BY <2>3, <2>7, <2>8, FS_Bijection
<1>17. \A l : LiveKeys(l)' = LiveKeys(l)
  BY <1>2, <1>14, SameKeys
<1>18. \A l : Counted(l)' = Counted(l)
  <2>1. \A l : LiveKeys(l) \subseteq StateKeys
    BY DEF LiveKeys
  <2>2. \A j \in Insts, g \in StateKeys : Pending(j, g)' <=> Pending(j, g)
    BY <1>3, <1>14 DEF Pending
  <2>3. QED
    BY <1>2, <1>17, <2>1, <2>2, SameCounted
<1>19. \A l \in Kinds : Active(l)' <=> Active(l)
  <2>1. Active(k) /\ Active(k)'
    BY <1>3, <1>4, <1>5, <1>11, <1>13 DEF Active
  <2>2. QED
    BY <1>2, <1>3, <1>5, <1>11, <1>13, <2>1 DEF Active
<1>20. SourceInv'
  <2>1. \A j \in Insts, h \in StateKeys : Sending(j, h)' => j = currentSource /\ ~InTable(h)
    BY <1>7, <1>9, <1>11, <1>12 DEF RoundInv, SourceInv
  <2>2. QED
    BY <1>2, <1>3, <1>9, <1>11, <1>13, <1>14, <1>19, <2>1, ScopeKept DEF RoundInv, SourceInv
<1>21. AnswersInv'
  <2>1. ASSUME NEW j \in Insts, NEW l \in Kinds
        PROVE  /\ Asking(j, l)' => ~acked[l] /\ count[l] = Large /\ Keys(l)' = {} /\ ~Answering(j, l)'
               /\ Answering(j, l)' => /\ ~acked[l] /\ count[l] = Large /\ Cardinality(Keys(l)') < Large
                                      /\ Tells(stateOut'[j], l, Cardinality(Keys(l)'))
    <3>1. CASE l # k
      BY <1>3, <1>11, <1>15, <3>1 DEF RoundInv, AnswersInv
    <3>2. CASE l = k
      <4>1. ~Asking(j, l)'
        BY <1>3, <1>4, <1>5, <1>9, <3>2 DEF RoundInv, SourceInv
      <4>2. QED
        BY <1>8, <1>9, <1>11, <1>16, <3>2, <4>1
    <3>3. QED
      BY <3>1, <3>2
  <2>2. QED
    BY <1>2, <1>3, <1>11, <1>13, <1>14, <1>17, <2>1 DEF RoundInv, AnswersInv
<1>22. TableInv'
  BY <1>2, <1>13, <1>14, <1>19, MessageTypes DEF RoundInv, TableInv
<1>23. PutsInv'
  BY <1>2, <1>3, <1>13, <1>14 DEF RoundInv, PutsInv
<1>24. PutAcksInv'
  BY <1>2, <1>13, <1>14, <1>18, <1>19 DEF RoundInv, PutAcksInv
<1>25. QED
  BY <1>19, <1>20, <1>21, <1>22, <1>23, <1>24 DEF RoundInv

(* Each kind of the scope is asked for once.                               *)
LEMMA ScopeOnce ==
  ASSUME VarsType, NEW a \in 1 .. Len(ScopeOrder), NEW b \in 1 .. Len(ScopeOrder), ScopeOrder[a] = ScopeOrder[b]
  PROVE  a = b
<1>1. CASE ScopeOrder = <<"pf">> \/ ScopeOrder = <<"mf">> \/ ScopeOrder = <<"af">>
  BY <1>1
<1>2. CASE ScopeOrder = <<"pf", "mf">> \/ ScopeOrder = <<"pf", "af">> \/ ScopeOrder = <<"mf", "af">>
  BY <1>2
<1>3. CASE ScopeOrder = <<"pf", "mf", "af">>
  BY <1>3
<1>4. QED
  BY <1>1, <1>2, <1>3 DEF ScopeOrder

(* The requests of syncFromInstance.                                       *)
LEMMA GetsSent ==
  ASSUME VarsType, NEW us, us \subseteq Units
  PROVE  /\ \A k \in Kinds : Once(Gets(us), GetsOf(k)) /\ (Has(Gets(us), GetsOf(k)) => k \in ScopeKinds)
         /\ \A h \in StateKeys : ~Has(Gets(us), PutsOf(h))
<1>1. PICK g : g = Gets(us)
  OBVIOUS
<1>2. ScopeOrder \in Seq(Kinds) /\ Len(ScopeOrder) \in Nat /\ DOMAIN ScopeOrder = 1 .. Len(ScopeOrder)
  BY ScopeType, LenProperties
<1>3. Len(g) = Len(ScopeOrder) /\ \A n \in 1 .. Len(g) : g[n] = [type |-> "Get", kind |-> ScopeOrder[n], units |-> us]
  BY <1>1, <1>2 DEF Gets
<1>4. \A n \in 1 .. Len(g) : g[n] \in Requests /\ g[n].type = "Get" /\ g[n].kind = ScopeOrder[n]
  <2>1. g \in Seq(Requests)
    BY <1>1, GetsType
  <2>2. \A n \in 1 .. Len(g) : g[n] \in Requests
    BY <2>1, ElementOfSeq
  <2>3. ASSUME NEW n \in 1 .. Len(g)
        PROVE  g[n].type = "Get" /\ g[n].kind = ScopeOrder[n]
    <3>1. PICK r : r = [type |-> "Get", kind |-> ScopeOrder[n], units |-> us]
      OBVIOUS
    <3>2. g[n] = r /\ r.type = "Get" /\ r.kind = ScopeOrder[n]
      BY <1>3, <3>1
    <3>3. QED
      BY <3>2
  <2>4. QED
    BY <2>2, <2>3
<1>5. /\ \A k \in Kinds : \A n \in 1 .. Len(g) : g[n] \in GetsOf(k) <=> ScopeOrder[n] = k
      /\ \A h \in StateKeys : \A n \in 1 .. Len(g) : g[n] \notin PutsOf(h)
  BY <1>4, Sorted
<1>6. \A n, p \in 1 .. Len(g) : ScopeOrder[n] = ScopeOrder[p] => n = p
  BY <1>3, ScopeOnce
<1>7. \A n \in 1 .. Len(g) : ScopeOrder[n] \in ScopeKinds
  BY <1>2, <1>3 DEF ScopeKinds, Range
<1>8. \A k \in Kinds : Once(g, GetsOf(k)) /\ (Has(g, GetsOf(k)) => k \in ScopeKinds)
  BY <1>5, <1>6, <1>7 DEF Once, Has
<1>9. \A h \in StateKeys : ~Has(g, PutsOf(h))
  BY <1>5 DEF Has
<1>10. QED
  BY <1>1, <1>8, <1>9

(* A round starts when nothing of another is under way.                    *)
LEMMA StartRound ==
  ASSUME VarsType, VarsType', Still, args' = args, NEW i \in Insts, NEW us, us \subseteq Units,
         syncFromInstance(i, us), UNCHANGED <<stateOut, chunks, tasks>>, SameThreads,
         \A j \in Insts : Kept(eventOut[j], eventOut'[j], RoundEvents)
  PROVE  RoundInv'
<1>1. Insts' = Insts /\ StateKeys' = StateKeys /\ SameChunks /\ ScopeKinds' = ScopeKinds
  BY ArgsKept, ScopeKept DEF SameChunks
<1>2. /\ acked' = [k \in Kinds |-> FALSE] /\ count' = [k \in Kinds |-> Large]
      /\ putAcks' = [k \in Kinds |-> 0] /\ currentSource' = i
      /\ stateIn' = [stateIn EXCEPT ![i] = @ \o Gets(us)]
  BY DEF syncFromInstance, ResetSync
<1>3. /\ stateIn \in [Insts -> Seq(Requests)] /\ Gets(us) \in Seq(Requests)
      /\ stateIn'[i] = stateIn[i] \o Gets(us) /\ \A j \in Insts : j # i => stateIn'[j] = stateIn[j]
  BY <1>2, GetsType DEF VarsType, ChannelsType
<1>4. /\ \A j \in Insts, k \in Kinds : ~Asking(j, k) /\ ~Answering(j, k) /\ ~acked[k] /\ ~Fetched(j, k)
      /\ \A j \in Insts, h \in StateKeys : ~Sending(j, h) /\ ~Putting(j, h) /\ ~Acking(j, h) /\ ~InHand(j, h)
      /\ \A h \in StateKeys : ~InTable(h)
      /\ tasks = <<>>
  BY DEF Still, Active
<1>5. /\ \A Q : /\ Has(stateIn'[i], Q) <=> Has(stateIn[i], Q) \/ Has(Gets(us), Q)
                /\ ~Has(stateIn[i], Q) /\ Once(Gets(us), Q) => Once(stateIn'[i], Q)
  <2>1. PICK s \in Seq(Requests), g \in Seq(Requests) : s = stateIn[i] /\ g = Gets(us)
    BY <1>3
  <2>2. \A Q : /\ Has(s \o g, Q) <=> Has(s, Q) \/ Has(g, Q)
               /\ Once(s, Q) /\ Once(g, Q) /\ ~(Has(s, Q) /\ Has(g, Q)) => Once(s \o g, Q)
    BY HasConcat
  <2>3. \A Q : ~Has(s, Q) => Once(s, Q)
    BY HasNot
  <2>4. QED
    BY <1>3, <2>1, <2>2, <2>3
<1>6. ASSUME NEW j \in Insts, NEW k \in Kinds
      PROVE  (Asking(j, k)' => j = i /\ k \in ScopeKinds) /\ Once(stateIn'[j], GetsOf(k))
  <2>1. CASE j = i
    BY <1>4, <1>5, <2>1, GetsSent DEF Asking
  <2>2. CASE j # i
    BY <1>3, <1>4, <2>2, HasNot DEF Asking
  <2>3. QED
    BY <2>1, <2>2
<1>7. ASSUME NEW j \in Insts, NEW h \in StateKeys
      PROVE  ~Putting(j, h)' /\ Once(stateIn'[j], PutsOf(h))
  <2>1. ~Has(stateIn'[j], PutsOf(h))
    <3>1. CASE j = i
      BY <1>4, <1>5, <3>1, GetsSent DEF Putting
    <3>2. CASE j # i
      BY <1>3, <1>4, <3>2 DEF Putting
    <3>3. QED
      BY <3>1, <3>2
  <2>2. QED
    BY <2>1, HasNot DEF Putting
<1>8. /\ \A j \in Insts, k \in Kinds : ~Answering(j, k)' /\ Once(stateOut'[j], GetAcksOf(k))
      /\ \A j \in Insts, h \in StateKeys : /\ ~Sending(j, h)' /\ Once(stateOut'[j], StatesOf(h))
                                           /\ Followed(stateOut'[j], StatesOf(h), GetAcksOf(h.kind))
  BY <1>4, HasNot DEF Answering, Sending
<1>9. \A j \in Insts, h \in StateKeys : ~Acking(j, h)' /\ Once(eventOut'[j], PutAcksOf(h))
  <2>1. \A j \in Insts, h \in StateKeys : ~Acking(j, h)'
    BY <1>4, SameEvents
  <2>2. QED
    BY <2>1, HasNot DEF Acking
<1>10. /\ \A h \in StateKeys : ~InTable(h)' /\ ~Tasked(h)'
       /\ \A j \in Insts, h \in StateKeys : ~InHand(j, h)'
       /\ \A j \in Insts, k \in Kinds : ~Fetched(j, k)'
  <2>1. 1 .. Len(tasks) = {}
    BY <1>4
  <2>2. \A h : ~Tasked(h)
    BY <2>1 DEF Tasked
  <2>3. QED
    BY <1>1, <1>4, <2>2, SameTable, SameHands
<1>11. \A k : LiveKeys(k)' = {} /\ Keys(k)' = {}
  BY <1>1, <1>8, <1>10 DEF LiveKeys, Keys
<1>12. \A k \in Kinds : Counted(k)' = {} /\ Cardinality(Counted(k)') = 0
  BY <1>11, FS_EmptySet DEF Counted, Pairs
<1>13. \A k \in Kinds : Active(k)' => k \in ScopeKinds
  BY <1>1, <1>2, <1>6, <1>8 DEF Active
<1>14. SourceInv'
  BY <1>1, <1>2, <1>6, <1>7, <1>8, <1>9, <1>10, <1>13 DEF SourceInv
<1>15. AnswersInv'
  BY <1>1, <1>2, <1>6, <1>8, <1>10, <1>11 DEF AnswersInv
<1>16. TableInv'
  <2>1. \A c \in 1 .. Len(chunks) : chunks[c].hashkey \in StateKeys
    <3>1. \A c \in 1 .. Len(chunks) : chunks[c] \in Chunks
      BY ElementOfSeq DEF VarsType, ChunksType
    <3>2. QED
      BY <3>1 DEF Chunks
  <2>2. \A c \in 1 .. Len(chunks) : ~chunks[c].live
    BY <1>4, <2>1 DEF InTable
  <2>3. 1 .. Len(tasks) = {}
    BY <1>4
  <2>4. QED
    BY <1>1, <1>10, <2>2, <2>3 DEF TableInv
<1>17. PutsInv'
  BY <1>1, <1>7, <1>9, <1>10 DEF PutsInv
<1>18. PutAcksInv'
  <2>1. \A k \in Kinds : putAcks'[k] <= Cardinality(Counted(k)')
    BY <1>2, <1>12
  <2>2. QED
    BY <1>1, <1>10, <2>1 DEF PutAcksInv
<1>19. QED
  BY <1>14, <1>15, <1>16, <1>17, <1>18 DEF RoundInv
=============================================================================
