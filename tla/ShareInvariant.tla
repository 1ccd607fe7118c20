--------------------------- MODULE ShareInvariant ---------------------------
(***************************************************************************)
(* Why a share returns one packet at a time and keeps the instances equal: *)
(* the inductive invariants behind TypeOK, OneAtATime, StrongConsistency   *)
(* and LearnedByAll.                                                       *)
(***************************************************************************)
EXTENDS Share, QueueTheorems

(* What travels: hashkeys and records of state the instances keep, the     *)
(* requests to an instance, its answers and its events.                    *)
StateKeys == [kind : StateKinds, unit : Units, pos : Nat]
StateMsgs == [type : {"State"}, rec : Cargo, hashkey : StateKeys]
Requests  == [type : {"EnableEvents"}] \cup [type : {"Get"}, kind : Kinds, units : SUBSET Units]
               \cup [type : {"Put"}, hashkey : StateKeys, rec : Cargo]
Answers   == [type : {"EventsAck"}] \cup StateMsgs \cup [type : {"GetAck"}, kind : Kinds, count : Nat]
Events    == [type : {"PutAck"}, hashkey : StateKeys] \cup [type : {"Reprocess"}, pkt : Packets]
Chunks    == [hashkey : StateKeys, rec : Cargo, dsts : SUBSET Insts, acks : Nat, live : BOOLEAN]
Held      == [text : Packets, from : Insts]
PacketOuts == [to : Insts, pkt : Packets]
Labels    == {"idle", "eventAck", "eventCheck", "getAck", "putAck", "chunkAck", "compare", "check",
              "sync", "dequeue"}

(* Every variable has its type, and what is on its way has it too.         *)
FieldsType ==
  /\ executed \in BOOLEAN
  /\ nextInstIndex \in 0 .. args.n /\ isSyncFinished \in BOOLEAN /\ callFromReprocess \in BOOLEAN
  /\ lastPacket \in Packets \cup {NoPacket} /\ originalEvents \in Seq(Held)
CountersType == eventAckCount \in Nat /\ starts \in Nat
SyncType ==
  /\ acked \in [Kinds -> BOOLEAN] /\ count \in [Kinds -> Nat] /\ putAcks \in [Kinds -> Nat]
  /\ currentSource \in Insts \cup {0} /\ key \subseteq Units
ChunksType == chunks \in Seq(Chunks) /\ tasks \in Seq(1 .. Len(chunks))
ThreadsType ==
  /\ pc \in [Threads -> Labels] /\ read \in [Threads -> [kind : Kinds, count : Nat]]
  /\ chunk \in [Threads -> Nat]
  /\ \A t \in Threads : pc[t] \in {"putAck", "chunkAck", "compare"} => chunk[t] \in 1 .. Len(chunks)
ChannelsType ==
  /\ stateIn \in [Insts -> Seq(Requests)] /\ stateOut \in [Insts -> Seq(Answers)]
  /\ eventOut \in [Insts -> Seq(Events)] /\ ofq \in Seq(PacketOuts)
InstancesType ==
  /\ filter \in [Insts -> BOOLEAN]
  /\ hand \in [Insts -> [pkt : Packets \cup {NoPacket}, event : BOOLEAN]]
  /\ state \in [Insts -> [StateKinds -> [Units -> Seq(Records)]]]
  /\ assets \in [Insts -> SUBSET Hashkeys] /\ sent \in [Insts -> SUBSET Units]
  /\ now \in 0 .. MaxTime /\ strays \subseteq [pkt : Packets, late : BOOLEAN]
  /\ processed \in Seq(Packets) /\ arrived \in 0 .. Len(args.traffic)
VarsType ==
  /\ args \in Configs /\ FieldsType /\ CountersType /\ SyncType /\ ChunksType /\ ThreadsType /\ ChannelsType
  /\ InstancesType

(* Before the operation is executed nobody hears of it.                    *)
IdleInv ==
  ~executed =>
    /\ \A t \in Threads : pc[t] = "idle"
    /\ \A i \in Insts : /\ stateIn[i] = <<>> /\ stateOut[i] = <<>>
                        /\ \A n \in 1 .. Len(eventOut[i]) : eventOut[i][n].type # "PutAck"
    /\ tasks = <<>> /\ ~isSyncFinished

(* The first request asks an instance for events, and no other; its first  *)
(* answer tells that it reports them; the ack is counted once.             *)
Counting(i) == pc[<<"ss", i>>] \in {"eventAck", "eventCheck"}
FirstInv ==
  \A i \in Insts :
    /\ \A n \in 1 .. Len(stateIn[i]) : stateIn[i][n].type = "EnableEvents" =>
         n = 1 /\ stateOut[i] = <<>> /\ ~Counting(i)
    /\ \A n \in 1 .. Len(stateOut[i]) : stateOut[i][n].type = "EventsAck" => n = 1 /\ ~Counting(i)

(* The instances whose ack has not been counted, and those whose thread    *)
(* has not yet compared the count.                                         *)
Asked(i)   == \E n \in 1 .. Len(stateIn[i]) : stateIn[i][n].type = "EnableEvents"
Answered(i) == \E n \in 1 .. Len(stateOut[i]) : stateOut[i][n].type = "EventsAck"
Unacked    == {i \in Insts : ~executed \/ Asked(i) \/ Answered(i) \/ pc[<<"ss", i>>] = "eventAck"}
Unchecked  == Unacked \cup {i \in Insts : pc[<<"ss", i>>] = "eventCheck"}

(* Whatever increments are lost, no more acks are counted than came, and   *)
(* no more threads start the synchronization than compared the count.      *)
AckCountInv ==
  /\ eventAckCount \in 0 .. Cardinality(Insts \ Unacked)
  /\ \A i \in Insts : pc[<<"ss", i>>] = "eventAck" =>
       read[<<"ss", i>>].count <= Cardinality(Insts \ Unacked)
  /\ starts \in 0 .. Cardinality(Insts \ Unchecked)

ShareInv == VarsType /\ IdleInv /\ FirstInv /\ AckCountInv

-----------------------------------------------------------------------------
(* The scope of the properties: packets that are different texts, no       *)
(* strict share of per-flow state, whose marks make an instance report a   *)
(* packet twice, and fewer records than the number that stands for "not    *)
(* known yet".                                                             *)
DistinctTraffic ==
  \A a, b \in 1 .. Len(args.traffic) : Text[args.traffic[a]] = Text[args.traffic[b]] => a = b
Unmarked   == ~(args.strict /\ "pf" \in ScopeKinds)
FewRecords == \A i \in Insts, k \in StateKinds :
                Cardinality(UNION {Exported(i, k, u) : u \in Units}) < Large
Ordinary   == DistinctTraffic /\ Unmarked /\ FewRecords

-----------------------------------------------------------------------------
(* Messages of one kind, hashkey or text, on their way.                    *)
GetsOf(k)    == [type : {"Get"}, kind : {k}, units : SUBSET Units]
GetAcksOf(k) == [type : {"GetAck"}, kind : {k}, count : Nat]
StatesOf(h)  == [type : {"State"}, rec : Cargo, hashkey : {h}]
PutsOf(h)    == [type : {"Put"}, hashkey : {h}, rec : Cargo]
PutAcksOf(h) == [type : {"PutAck"}, hashkey : {h}]
ReportsOf(x) == {m \in [type : {"Reprocess"}, pkt : Packets] : Text[m.pkt] = x}

Asking(i, k)    == Has(stateIn[i], GetsOf(k))
Answering(i, k) == Has(stateOut[i], GetAcksOf(k))
Sending(i, h)   == Has(stateOut[i], StatesOf(h))
Putting(d, h)   == Has(stateIn[d], PutsOf(h))
Acking(d, h)    == Has(eventOut[d], PutAcksOf(h))
Reported(i, x)  == Has(eventOut[i], ReportsOf(x))

(* A queue tells of c records of kind k.                                   *)
Tells(q, k, c) == ~Has(q, {m \in GetAcksOf(k) : m.count # c})

-----------------------------------------------------------------------------
(* A round: the state of one instance, currentSource, is fetched and put   *)
(* to all others. A kind takes part from its request on until the round is *)
(* found to be complete.                                                   *)
Active(k) == acked[k] \/ \E i \in Insts : Asking(i, k) \/ Answering(i, k)

(* The thread that has read the ack of a get and not set the count yet.    *)
Fetched(i, k) == pc[<<"ss", i>>] = "getAck" /\ read[<<"ss", i>>].kind = k

(* Hashkeys of state that has arrived, and of state that is to arrive.     *)
InTable(h)  == \E c \in 1 .. Len(chunks) : chunks[c].live /\ chunks[c].hashkey = h
LiveKeys(k) == {h \in StateKeys : h.kind = k /\ InTable(h)}
Keys(k)     == {h \in StateKeys : h.kind = k /\ (InTable(h) \/ \E i \in Insts : Sending(i, h))}

(* The put of h to instance d that has not been counted: it is to be sent, *)
(* on its way, its ack is, or a thread has it.                             *)
Tasked(h)     == \E n \in 1 .. Len(tasks) : chunks[tasks[n]].hashkey = h
InHand(d, h)  == pc[<<"se", d>>] = "putAck" /\ chunks[chunk[<<"se", d>>]].hashkey = h
Pending(d, h) == Tasked(h) \/ Putting(d, h) \/ Acking(d, h) \/ InHand(d, h)
Pairs(k)      == LiveKeys(k) \X (Insts \ {currentSource})
Counted(k)    == {x \in Pairs(k) : ~Pending(x[2], x[1])}

(* Kinds of the scope take part. Requests and answers are the source's,    *)
(* puts go to the others.                                                  *)
SourceInv ==
  /\ \A k \in Kinds : Active(k) => k \in ScopeKinds /\ currentSource \in Insts
  /\ \A i \in Insts, k \in Kinds : Asking(i, k) \/ Answering(i, k) \/ Fetched(i, k) => i = currentSource
  /\ \A i \in Insts, h \in StateKeys :
       /\ Sending(i, h) => i = currentSource /\ ~InTable(h)
       /\ Putting(i, h) \/ Acking(i, h) \/ InHand(i, h) => i # currentSource /\ InTable(h)

(* Each kind is asked for once, its ack comes behind its state and tells   *)
(* how much that was, and the flag is set before the count.                *)
AnswersInv ==
  /\ \A i \in Insts, k \in Kinds :
       /\ Once(stateIn[i], GetsOf(k)) /\ Once(stateOut[i], GetAcksOf(k))
       /\ Asking(i, k) => ~acked[k] /\ count[k] = Large /\ Keys(k) = {} /\ ~Answering(i, k)
       /\ Answering(i, k) => /\ ~acked[k] /\ count[k] = Large /\ Cardinality(Keys(k)) < Large
                             /\ Tells(stateOut[i], k, Cardinality(Keys(k)))
       /\ Fetched(i, k) => /\ acked[k] /\ count[k] = Large /\ Cardinality(LiveKeys(k)) < Large
                           /\ read[<<"ss", i>>].count = Cardinality(LiveKeys(k))
  /\ \A i \in Insts, h \in StateKeys :
       Once(stateOut[i], StatesOf(h)) /\ Followed(stateOut[i], StatesOf(h), GetAcksOf(h.kind))
  /\ \A k \in Kinds : acked[k] => count[k] = Cardinality(LiveKeys(k)) \/ \E i \in Insts : Fetched(i, k)

(* The table has one chunk for a hashkey, of a kind that takes part.       *)
TableInv ==
  /\ \A c, d \in 1 .. Len(chunks) :
       chunks[c].live /\ chunks[d].live /\ chunks[c].hashkey = chunks[d].hashkey => c = d
  /\ \A c \in 1 .. Len(chunks) : chunks[c].live => chunks[c].dsts = Insts \ {currentSource}
  /\ \A h \in StateKeys : InTable(h) => Active(h.kind)
  /\ \A n \in 1 .. Len(tasks) : chunks[tasks[n]].live
  /\ \A n, m \in 1 .. Len(tasks) : tasks[n] = tasks[m] => n = m

(* A put is in one place until it is counted.                              *)
PutsInv ==
  \A d \in Insts, h \in StateKeys :
    /\ Once(stateIn[d], PutsOf(h)) /\ Once(eventOut[d], PutAcksOf(h))
    /\ Tasked(h) => ~Putting(d, h) /\ ~Acking(d, h) /\ ~InHand(d, h)
    /\ Putting(d, h) => ~Acking(d, h) /\ ~InHand(d, h)
    /\ Acking(d, h) => ~InHand(d, h)

(* Whatever increments are lost, no more put acks are counted than came.   *)
PutAcksInv ==
  /\ \A k \in Kinds : Active(k) => putAcks[k] <= Cardinality(Counted(k))
  /\ \A d \in Insts, h \in StateKeys : InHand(d, h) =>
       read[<<"se", d>>].count <= Cardinality(Counted(h.kind))

RoundInv == SourceInv /\ AnswersInv /\ TableInv /\ PutsInv /\ PutAcksInv

-----------------------------------------------------------------------------
(* The turn: at most one of a round, a thread that goes on to the next,    *)
(* a packet returned, and a flag that lets the next report go out.         *)
Round   == \E k \in Kinds : Active(k)
Turn(t) == pc[t] \in {"sync", "dequeue"}
Echo(i) == Has(eventOut[i], {Reprocess(lastPacket)})
Out     == ofq # <<>> \/ \E i \in Insts : hand[i].event \/ Echo(i)

TurnInv ==
  /\ \A t, u \in Threads : Turn(t) /\ Turn(u) => t = u
  /\ \A t \in Threads : Turn(t) => ~Round /\ ~Out /\ ~callFromReprocess
  /\ Round => ~Out /\ ~callFromReprocess
  /\ Out => ~callFromReprocess
  /\ Out \/ callFromReprocess => isSyncFinished
  /\ \A t \in Threads : pc[t] = "dequeue" => isSyncFinished
  /\ starts = 0 => ~Round /\ ~isSyncFinished /\ \A t \in Threads : ~Turn(t)
  /\ ~isSyncFinished => lastPacket = NoPacket

(* One packet is out, in one place.                                        *)
OutInv ==
  /\ Len(ofq) <= 1 /\ \A n \in 1 .. Len(ofq) : ofq[n].pkt = lastPacket
  /\ \A i \in Insts : hand[i].event =>
       /\ hand[i].pkt = lastPacket /\ ofq = <<>>
       /\ \A j \in Insts : hand[j].event => i = j
  /\ \A i \in Insts : Echo(i) => ofq = <<>> /\ \A j \in Insts : ~hand[j].event

(* Texts of the packets that have come, and of those the operation holds.  *)
Texts      == {Text[args.traffic[a]] : a \in 1 .. arrived}
EventTexts == {originalEvents[n].text : n \in 1 .. Len(originalEvents)}

(* A report is of a packet of its own; only the echo is of one that the    *)
(* operation holds or has returned.                                        *)
ReportsInv ==
  /\ lastPacket \in Texts \cup {NoPacket} /\ EventTexts \subseteq Texts
  /\ \A i \in Insts, x \in Packets :
       /\ Once(eventOut[i], ReportsOf(x))
       /\ Reported(i, x) => /\ x \in Texts
                            /\ x \in EventTexts \cup {lastPacket} => x = lastPacket /\ Echo(i)
                            /\ \A j \in Insts : Reported(j, x) => i = j

(* Nothing is marked.                                                      *)
MarksInv == \A i \in Insts, k \in StateKinds, u \in Units : \A n \in 1 .. Len(state[i][k][u]) :
              ~state[i][k][u][n].gotten

(* Acks of gets arrive at the threads of the state connections, acks of    *)
(* puts at those of the event connections.                                 *)
RolesInv == \A i \in Insts : pc[<<"ss", i>>] # "putAck" /\ pc[<<"se", i>>] # "getAck"

(* All of it holds of a synchronization that was started at most once.     *)
OneTurn  == RoundInv /\ TurnInv /\ OutInv /\ ReportsInv /\ MarksInv
TurnsInv == Single => OneTurn

-----------------------------------------------------------------------------
(* What a round copies: records of the source, as it holds them, and with  *)
(* one of a flow perhaps that of its host.                                 *)
SourceList(h) == state[currentSource][h.kind][h.unit]
OfSource(h)   == h.pos < Len(SourceList(h))
SourceRec(h)  == SourceList(h)[Len(SourceList(h)) - h.pos]
OfHost(h)     == IF h.kind = "pf" /\ "mf" \in StateKinds THEN {<<>>, state[currentSource]["mf"][h.unit]}
                                                         ELSE {<<>>}
Carry(m)      == /\ OfSource(m.hashkey) /\ Stored(m.rec) = Stored(SourceRec(m.hashkey))
                 /\ m.rec.asset \in OfHost(m.hashkey)

(* Nothing else is on its way: no request for other units than those of    *)
(* the round, no put and no state that is not the source's.                *)
WrongRequests == {m \in Requests : \/ m.type = "Get" /\ m.units # key
                                   \/ m.type = "Put" /\ ~Carry(m)}
WrongAnswers  == {m \in Answers : m.type = "State" /\ ~Carry(m)}
CarryInv ==
  /\ \A i \in Insts : ~Has(stateIn[i], WrongRequests) /\ ~Has(stateOut[i], WrongAnswers)
  /\ \A c \in 1 .. Len(chunks) : chunks[c].live => Carry(chunks[c])

(* State the instances keep is being copied.                               *)
Busy == \E k \in StateKinds : Active(k)

(* Multi-flow state has one record of a unit at most: what it tells, of    *)
(* when it is, and that another one is as new and tells as much. It tells  *)
(* as much if nothing is lost to the rule that older records are ignored.  *)
Facts(l)    == IF l = <<>> THEN {} ELSE l[1].facts
Seen(l)     == IF l = <<>> THEN 0 ELSE l[1].seen
Tell(l, m)  == InOrder => Facts(l) \subseteq Facts(m)
Below(l, m) == Tell(l, m) /\ Seen(l) <= Seen(m)

(* A record has yet to be put to instance d, or d has got it: it knows of  *)
(* the packets that have been processed.                                   *)
Waits(d, h) == Asking(currentSource, h.kind) \/ Sending(currentSource, h) \/ Tasked(h) \/ Putting(d, h)
Got(d, h)   == /\ h.kind = "pf" \/ isSyncFinished => SourceRec(h).facts \subseteq Known(d, h.kind, h.unit)
               /\ h.kind = "mf" => Below(SourceList(h), state[d]["mf"][h.unit])
CopiedInv ==
  Busy => \A d \in Insts \ {currentSource}, h \in StateKeys :
            h.unit \in key /\ OfSource(h) => Waits(d, h) \/ Got(d, h)

FormInv == \A i \in Insts, u \in Units :
             /\ Len(state[i]["mf"][u]) <= 1 /\ Seen(state[i]["mf"][u]) <= now
             /\ state[i]["mf"][u] # <<>> => Facts(state[i]["mf"][u]) # {}

(* The first synchronization: what an instance will hold of a unit when    *)
(* the round is over. Those that have been copied are below all others,    *)
(* and none is later than one before it without telling as much.           *)
Merged(l, m) == IF m = <<>> THEN l ELSE put_asset_per_sip(l, m[1])
Final(j, u)  == IF Busy THEN Merged(state[j]["mf"][u], state[currentSource]["mf"][u])
                        ELSE state[j]["mf"][u]
FirstSync == /\ key = Units /\ (Busy => currentSource = nextInstIndex)
             /\ \A i, j \in Insts, u \in Units :
                  /\ i <= nextInstIndex => Below(Final(i, u), Final(j, u))
                  /\ i < j => Tell(Final(i, u), Final(j, u)) \/ Seen(Final(j, u)) <= Seen(Final(i, u))

(* Afterwards: instance i is ahead of the others in the units us, and      *)
(* nowhere else. It is the one that has processed the last packet, until   *)
(* it has been copied; then nobody is.                                     *)
Ahead(i, us) ==
  \A j \in Insts, u \in Units : /\ Below(state[j]["mf"][u], state[i]["mf"][u])
                                /\ u \notin us => Below(state[i]["mf"][u], state[j]["mf"][u])
LaterSync == /\ Busy => Ahead(currentSource, key)
             /\ \A i \in Insts : Echo(i) => Ahead(i, {UnitOf[lastPacket]})
             /\ (~Busy /\ \A i \in Insts : ~Echo(i)) => \A i \in Insts : Ahead(i, {})
OrderInv == "mf" \in StateKinds => /\ FormInv
                                   /\ ~isSyncFinished => FirstSync
                                   /\ isSyncFinished => LaterSync

(* All instances know of the packets that have been processed, and of the  *)
(* last one when the source has been copied.                               *)
AtHead(i) == \A k \in StateKinds : lastPacket \in Facts(state[i][k][UnitOf[lastPacket]])
LearnedInv ==
  /\ ~isSyncFinished => processed = <<>>
  /\ isSyncFinished => nextInstIndex = args.n
  /\ Busy /\ isSyncFinished => key = {UnitOf[lastPacket]} /\ AtHead(currentSource)
  /\ \A i \in Insts : Echo(i) => AtHead(i)
  /\ \A p \in Range(processed), j \in Insts, k \in StateKinds :
       p \in Known(j, k, UnitOf[p]) \/ (p = lastPacket /\ (Busy \/ \E i \in Insts : Echo(i)))

(* All of it holds while no instance has processed a packet on its own.    *)
Copies    == CarryInv /\ CopiedInv /\ OrderInv /\ LearnedInv
CopiesInv == Single /\ strays = {} => Copies
=============================================================================
