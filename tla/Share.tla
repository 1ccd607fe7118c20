------------------------------- MODULE Share --------------------------------
(***************************************************************************)
(* One share operation of the controller: ShareStrongOperation.java and    *)
(* ShareStrictOperation.java, with core/StateChunk.java, the instances     *)
(* that share state (shared/state.c, shared/event.c, the PRADS callbacks   *)
(* of prads.patch) and the switch.                                         *)
(*                                                                         *)
(* Every instance reports and drops the packets it receives. The           *)
(* operation first copies the state of each instance to all others, then   *)
(* returns the reported packets one at a time to the instance they came    *)
(* from; the instance processes the packet and reports it again, whereupon *)
(* its state is copied to all others and the next packet is sent.          *)
(*                                                                         *)
(* Instance i has a state connection, served by thread <<"ss", i>> of the  *)
(* controller, and an event connection, served by <<"se", i>>.             *)
(***************************************************************************)
EXTENDS Integers, FiniteSets, SequencesExt

CONSTANTS
  Units,      \* the flows; a host, the unit of multi-flow state, has one flow
  Packets,    \* packets, by content
  UnitOf,     \* the flow of each packet
  Text,       \* what a packet becomes as a String and back again
  Configs,    \* the arguments share() is called with, the state at hand, the traffic
  MaxTime     \* bound: seconds that may pass

NoPacket == "none"

Kinds  == {"pf", "mf", "af"}
Scopes == {"PERFLOW", "MULTIFLOW", "ALLFLOWS", "PF_MF", "PF_AF", "MF_AF", "PF_MF_AF"}

Records == [facts : SUBSET Packets, seen : 0 .. MaxTime, gotten : BOOLEAN]

(* What is sent: a record, and with that of a flow the asset of its host,  *)
(* in which it is the multi-flow record that the flow's two ends have.     *)
Cargo == [facts : SUBSET Packets, seen : 0 .. MaxTime, gotten : BOOLEAN, asset : Seq(Records)]

ASSUME ShareAssumption ==
  /\ IsFiniteSet(Units) /\ UnitOf \in [Packets -> Units] /\ NoPacket \notin Packets
  /\ Text \in [Packets -> Packets] /\ \A p \in Packets : Text[Text[p]] = Text[p]
  /\ MaxTime \in Nat
  /\ \A a \in Configs :
       /\ a.n \in Nat \ {0, 1} /\ a.scope \in Scopes /\ a.strict \in BOOLEAN
       /\ a.traffic \in Seq(Packets)     \* bound: the packets that come, in order
       /\ a.knows \in [1 .. a.n -> [Units -> SUBSET Packets]]
       /\ a.seen \in [1 .. a.n -> [Units -> 0 .. MaxTime]]

VARIABLES
  args,               \* n instances, the scope, strict or strong; what the instances know, and
                      \* since when; traffic
  executed,           \* whether execute() has run
  \* fields of the operation and its StateChunks
  eventAckCount, nextInstIndex, isSyncFinished, callFromReprocess, lastPacket,
  acked,              \* getPerflowAcked, getMultiflowAcked, getAllflowsAcked
  count, putAcks,     \* the counts and put acks, by kind of state
  currentSource, key, originalEvents,
  chunks,             \* every StateChunk made; the table holds the live ones
  tasks,              \* StateChunks submitted to the thread pool
  \* threads of the controller: where each is, what it has read, its chunk
  pc, read, chunk,
  \* connections
  stateIn, stateOut, eventOut, ofq,
  \* instances
  filter, hand, state, now,
  assets,             \* the connections that point to the asset of their host
  sent,               \* the hosts whose asset has left with a connection (sdmbn_msgid)
  \* traffic, and what the properties remember
  arrived, starts, strays, processed

opVars    == <<nextInstIndex, isSyncFinished, callFromReprocess, lastPacket, originalEvents>>
syncVars  == <<acked, count, putAcks, currentSource, key>>
chunkVars == <<chunks, tasks>>
threads   == <<pc, read, chunk>>
chanVars  == <<stateIn, stateOut, eventOut, ofq>>
nfVars    == <<filter, hand, state, now, assets, sent, processed, strays>>
vars      == <<args, executed, eventAckCount, starts, opVars, syncVars, chunkVars, threads,
               chanVars, nfVars, arrived>>

Insts     == 1 .. args.n
Threads   == {"ss", "se"} \X Insts
NoRead    == [kind |-> "pf", count |-> 0]
Large     == 100000              \* "a large number"

(* The kinds of state in the scope, in the order they are asked for.       *)
ScopeOrder ==
  CASE args.scope = "PERFLOW"   -> <<"pf">>
    [] args.scope = "MULTIFLOW" -> <<"mf">>
    [] args.scope = "ALLFLOWS"  -> <<"af">>
    [] args.scope = "PF_MF"     -> <<"pf", "mf">>
    [] args.scope = "PF_AF"     -> <<"pf", "af">>
    [] args.scope = "MF_AF"     -> <<"mf", "af">>
    [] OTHER                    -> <<"pf", "mf", "af">>

ScopeKinds == Range(ScopeOrder)

(* PRADS keeps per-flow and multi-flow state, and offers no all-flows      *)
(* state. Kinds outside the scope are of no interest.                      *)
StateKinds == ScopeKinds \ {"af"}

Hashkeys == [kind : Kinds, unit : Units, pos : Nat]

TypeOK ==
  /\ args \in Configs /\ executed \in BOOLEAN
  /\ eventAckCount \in 0 .. args.n /\ nextInstIndex \in 0 .. args.n
  /\ isSyncFinished \in BOOLEAN /\ callFromReprocess \in BOOLEAN
  /\ lastPacket \in Packets \cup {NoPacket}
  /\ acked \in [Kinds -> BOOLEAN] /\ count \in [Kinds -> Nat] /\ putAcks \in [Kinds -> Nat]
  /\ currentSource \in Insts \cup {0} /\ key \subseteq Units
  /\ originalEvents \in Seq([text : Packets, from : Insts])
  /\ chunks \in Seq([hashkey : Hashkeys, rec : Cargo, dsts : SUBSET Insts, acks : Nat,
                     live : BOOLEAN])
  /\ tasks \in Seq(DOMAIN chunks)
  /\ pc \in [Threads -> {"idle", "eventAck", "eventCheck", "getAck", "putAck", "chunkAck",
                         "compare", "check", "sync", "dequeue"}]
  /\ read \in [Threads -> [kind : Kinds, count : Nat]]
  /\ \A t \in Threads : pc[t] \in {"putAck", "chunkAck", "compare"} => chunk[t] \in DOMAIN chunks
  /\ DOMAIN stateIn = Insts /\ DOMAIN stateOut = Insts /\ DOMAIN eventOut = Insts
  /\ ofq \in Seq([to : Insts, pkt : Packets])
  /\ filter \in [Insts -> BOOLEAN]
  /\ hand \in [Insts -> [pkt : Packets \cup {NoPacket}, event : BOOLEAN]]
  /\ state \in [Insts -> [StateKinds -> [Units -> Seq(Records)]]]
  /\ now \in 0 .. MaxTime
  /\ assets \in [Insts -> SUBSET Hashkeys] /\ sent \in [Insts -> SUBSET Units]
  /\ arrived \in 0 .. Len(args.traffic) /\ starts \in 0 .. args.n /\ strays \subseteq [pkt : Packets, late : BOOLEAN]
  /\ processed \in Seq(Packets)

EmptyHand == [pkt |-> NoPacket, event |-> FALSE]

(* Each instance starts with one record for every unit it knows, of the    *)
(* second in which it has last seen it.                                    *)
InitialState(i, u) ==
  IF args.knows[i][u] = {} THEN <<>>
  ELSE <<[facts |-> args.knows[i][u], seen |-> args.seen[i][u], gotten |-> FALSE]>>

Init ==
  /\ args \in Configs
  /\ executed = FALSE
  /\ eventAckCount = 0 /\ nextInstIndex = 0 /\ isSyncFinished = FALSE
  /\ callFromReprocess = FALSE /\ lastPacket = NoPacket
  /\ acked = [k \in Kinds |-> FALSE]
  /\ count = [k \in Kinds |-> 0] /\ putAcks = [k \in Kinds |-> 0]
  /\ currentSource = 0 /\ key = Units /\ originalEvents = <<>>
  /\ chunks = <<>> /\ tasks = <<>>
  /\ pc = [t \in Threads |-> "idle"] /\ read = [t \in Threads |-> NoRead]
  /\ chunk = [t \in Threads |-> 0]
  /\ stateIn = [i \in Insts |-> <<>>] /\ stateOut = [i \in Insts |-> <<>>]
  /\ eventOut = [i \in Insts |-> <<>>] /\ ofq = <<>>
  /\ filter = [i \in Insts |-> FALSE] /\ hand = [i \in Insts |-> EmptyHand]
  /\ state = [i \in Insts |-> [k \in StateKinds |-> [u \in Units |-> InitialState(i, u)]]]
  /\ now \in {t \in 0 .. MaxTime : \A i \in Insts, u \in Units : args.seen[i][u] <= t}
  /\ assets = [i \in Insts |-> {[kind |-> "pf", unit |-> u, pos |-> 0] :
                               u \in {v \in Units : args.knows[i][v] # {}}}]
  /\ sent = [i \in Insts |-> {}]
  /\ arrived = 0 /\ starts = 0 /\ strays = {} /\ processed = <<>>

Goto(t, from, to) ==
  /\ pc[t] = from
  /\ pc' = [pc EXCEPT ![t] = to]

-----------------------------------------------------------------------------
(* The application starts the operation: enableEvents.                     *)
execute ==
  /\ ~executed
  /\ executed' = TRUE
  /\ stateIn' = [i \in Insts |-> Append(stateIn[i], [type |-> "EnableEvents"])]
  /\ UNCHANGED <<args, eventAckCount, starts, opVars, syncVars, chunkVars, threads, stateOut,
                 eventOut, ofq, nfVars, arrived>>

FromState(i, type) ==
  /\ stateOut[i] # <<>>
  /\ Head(stateOut[i]).type = type
  /\ stateOut' = [stateOut EXCEPT ![i] = Tail(@)]

(* receiveEventsAck: eventAckCount++, on a field that is shared by the     *)
(* threads of all instances and neither volatile nor locked: a read ...    *)
receiveEventsAck(i) ==
  /\ Goto(<<"ss", i>>, "idle", "eventAck")
  /\ FromState(i, "EventsAck")
  /\ read' = [read EXCEPT ![<<"ss", i>>].count = eventAckCount]
  /\ UNCHANGED <<args, executed, eventAckCount, starts, opVars, syncVars, chunkVars, chunk,
                 stateIn, eventOut, ofq, nfVars, arrived>>

(* ... and a write.                                                        *)
incrementEventAckCount(i) ==
  /\ Goto(<<"ss", i>>, "eventAck", "eventCheck")
  /\ eventAckCount' = read[<<"ss", i>>].count + 1
  /\ read' = [read EXCEPT ![<<"ss", i>>] = NoRead]
  /\ UNCHANGED <<args, executed, starts, opVars, syncVars, chunkVars, chunk, chanVars,
                 nfVars, arrived>>

(* The last one starts the synchronization; or all who find the count full. *)
checkEventAckCount(i) ==
  /\ Goto(<<"ss", i>>, "eventCheck", IF eventAckCount = args.n THEN "sync" ELSE "idle")
  /\ starts' = IF eventAckCount = args.n THEN starts + 1 ELSE starts
  /\ UNCHANGED <<args, executed, eventAckCount, opVars, syncVars, chunkVars, read, chunk,
                 chanVars, nfVars, arrived>>

-----------------------------------------------------------------------------
(* Mutant: the counts keep what the last instance reported.                *)
ResetSync_counts(i) ==
  /\ acked' = [k \in Kinds |-> FALSE]
  /\ UNCHANGED count
  /\ putAcks' = [k \in Kinds |-> 0]
  /\ currentSource' = i

ResetSync(i) ==
  /\ acked' = [k \in Kinds |-> FALSE]
  /\ count' = [k \in Kinds |-> Large]
  /\ putAcks' = [k \in Kinds |-> 0]
  /\ currentSource' = i

(* syncFromInstance: reset the counts, ask the instance for its state.     *)
Gets(us) == [j \in 1 .. Len(ScopeOrder) |-> [type |-> "Get", kind |-> ScopeOrder[j], units |-> us]]

syncFromInstance(i, us) ==
  /\ ResetSync(i)
  /\ key' = us
  /\ stateIn' = [stateIn EXCEPT ![i] = @ \o Gets(us)]

(* Mutant: one past the last.                                              *)
AllSynced_past == nextInstIndex > args.n

AllSynced == nextInstIndex = args.n

(* syncAllInstances, one thread at a time: the next instance, or done. The *)
(* caller that finds all done goes on to dequeueEvent.                     *)
syncAllInstances(t) ==
  /\ \A u \in Threads : pc[u] # "dequeue"
  /\ IF AllSynced
       THEN /\ Goto(t, "sync", "dequeue")
            /\ isSyncFinished' = TRUE
            /\ UNCHANGED <<nextInstIndex, syncVars, stateIn>>
       ELSE /\ Goto(t, "sync", "idle")
            /\ syncFromInstance(nextInstIndex + 1, key)
            /\ nextInstIndex' = nextInstIndex + 1
            /\ UNCHANGED isSyncFinished
  /\ UNCHANGED <<args, executed, eventAckCount, starts, callFromReprocess, lastPacket,
                 originalEvents, chunkVars, read, chunk, stateOut, eventOut, ofq, nfVars, arrived>>

(* Mutant: with no packet to return, nobody is asked to return the next.   *)
dequeueEvent_forget(events, flag) ==
  /\ callFromReprocess' = flag
  /\ IF events = <<>>
       THEN UNCHANGED <<lastPacket, currentSource, ofq>>
       ELSE /\ lastPacket' = Head(events).text
            /\ ofq' = Append(ofq, [to |-> Head(events).from, pkt |-> Head(events).text])
            /\ currentSource' = Head(events).from

(* dequeueEvent, under the monitor of originalEvents: return the oldest    *)
(* packet, which stays in the map, to where it came from. With none, the   *)
(* next event is to do so; otherwise the flag stays as the caller left it. *)
dequeueEvent(events, flag) ==
  /\ callFromReprocess' = (flag \/ events = <<>>)
  /\ IF events = <<>>
       THEN UNCHANGED <<lastPacket, currentSource, ofq>>
       ELSE /\ lastPacket' = Head(events).text
            /\ ofq' = Append(ofq, [to |-> Head(events).from, pkt |-> Head(events).text])
            /\ currentSource' = Head(events).from

dequeueAfterSync(t) ==
  /\ Goto(t, "dequeue", "idle")
  /\ dequeueEvent(originalEvents, callFromReprocess)
  /\ UNCHANGED <<args, executed, eventAckCount, starts, nextInstIndex, isSyncFinished,
                 originalEvents, acked, count, putAcks, key, chunkVars, read, chunk, stateIn,
                 stateOut, eventOut, nfVars, arrived>>

-----------------------------------------------------------------------------
(* State and acks of a get arrive at the thread of the source.             *)

Live(h) == {c \in DOMAIN chunks : chunks[c].live /\ chunks[c].hashkey = h}

(* obtainStateChunk: the chunk of that hashkey in the table, or a new one. *)
Obtain(h, r) ==
  IF Live(h) # {} THEN [chunks EXCEPT ![CHOOSE c \in Live(h) : TRUE] =
                          [@ EXCEPT !.rec = r, !.dsts = Insts \ {currentSource}]]
  ELSE Append(chunks, [hashkey |-> h, rec |-> r, dsts |-> Insts \ {currentSource}, acks |-> 0,
                       live |-> TRUE])

Puts(h, r) == [type |-> "Put", hashkey |-> h, rec |-> r]

(* Strong submits the chunk to the pool, Strict sends the puts itself.     *)
receiveState(i) ==
  LET m  == Head(stateOut[i])
      cs == Obtain(m.hashkey, m.rec)
  IN  /\ pc[<<"ss", i>>] = "idle"
      /\ FromState(i, "State")
      /\ chunks' = cs
      /\ IF args.strict
           THEN /\ stateIn' = [j \in Insts |-> IF j = currentSource THEN stateIn[j]
                                               ELSE Append(stateIn[j], Puts(m.hashkey, m.rec))]
                /\ UNCHANGED tasks
           ELSE /\ tasks' = Append(tasks, CHOOSE c \in DOMAIN cs :
                                            cs[c].live /\ cs[c].hashkey = m.hashkey)
                /\ UNCHANGED stateIn
      /\ UNCHANGED <<args, executed, eventAckCount, starts, opVars, syncVars, threads, eventOut,
                     ofq, nfVars, arrived>>

(* StateChunk.call, in any order: send what the chunk holds by now.        *)
callChunk(n) ==
  LET c == chunks[tasks[n]]
  IN  /\ tasks' = RemoveAt(tasks, n)
      /\ stateIn' = [j \in Insts |-> IF j \in c.dsts THEN Append(stateIn[j], Puts(c.hashkey, c.rec))
                                     ELSE stateIn[j]]
      /\ UNCHANGED <<args, executed, eventAckCount, starts, opVars, syncVars, chunks, threads,
                     stateOut, eventOut, ofq, nfVars, arrived>>

(* The flag first, then the count, then checkIfInstFinished.               *)
receiveGetAck(i) ==
  /\ Goto(<<"ss", i>>, "idle", "getAck")
  /\ FromState(i, "GetAck")
  /\ acked' = [acked EXCEPT ![Head(stateOut[i]).kind] = TRUE]
  /\ read' = [read EXCEPT ![<<"ss", i>>] = [kind |-> Head(stateOut[i]).kind,
                                            count |-> Head(stateOut[i]).count]]
  /\ UNCHANGED <<args, executed, eventAckCount, starts, opVars, count, putAcks, currentSource, key,
                 chunkVars, chunk, stateIn, eventOut, ofq, nfVars, arrived>>

setGetCount(i) ==
  LET r == read[<<"ss", i>>]
  IN  /\ Goto(<<"ss", i>>, "getAck", "check")
      /\ count' = [count EXCEPT ![r.kind] = r.count]
      /\ read' = [read EXCEPT ![<<"ss", i>>] = NoRead]
      /\ UNCHANGED <<args, executed, eventAckCount, starts, opVars, acked, putAcks, currentSource,
                     key, chunkVars, chunk, chanVars, nfVars, arrived>>

-----------------------------------------------------------------------------
(* Put acks arrive at the threads of all other instances. putPerflowAcks++ *)
(* and numAckedInstances++ are reads and writes of shared fields.          *)

FromEvent(i, type) ==
  /\ eventOut[i] # <<>>
  /\ Head(eventOut[i]).type = type
  /\ eventOut' = [eventOut EXCEPT ![i] = Tail(@)]

NoRecord == [facts |-> {}, seen |-> 0, gotten |-> FALSE, asset |-> <<>>]

receivePutAck(i) ==
  LET h  == Head(eventOut[i]).hashkey
      t  == <<"se", i>>
      cs == IF Live(h) # {} THEN chunks
            ELSE Append(chunks, [hashkey |-> h, rec |-> NoRecord, dsts |-> {}, acks |-> 0, live |-> TRUE])
  IN  /\ Goto(t, "idle", "putAck")
      /\ FromEvent(i, "PutAck")
      /\ chunks' = cs
      /\ chunk' = [chunk EXCEPT ![t] = CHOOSE c \in DOMAIN cs : cs[c].live /\ cs[c].hashkey = h]
      /\ read' = [read EXCEPT ![t].count = putAcks[h.kind]]
      /\ UNCHANGED <<args, executed, eventAckCount, starts, opVars, syncVars, tasks, stateIn,
                     stateOut, ofq, nfVars, arrived>>

incrementPutAcks(i) ==
  LET t == <<"se", i>>
  IN  /\ Goto(t, "putAck", "chunkAck")
      /\ putAcks' = [putAcks EXCEPT ![chunks[chunk[t]].hashkey.kind] = read[t].count + 1]
      /\ read' = [read EXCEPT ![t].count = chunks[chunk[t]].acks]
      /\ UNCHANGED <<args, executed, eventAckCount, starts, opVars, acked, count, currentSource,
                     key, chunkVars, chunk, chanVars, nfVars, arrived>>

incrementAcked(i) ==
  LET t == <<"se", i>>
  IN  /\ Goto(t, "chunkAck", "compare")
      /\ chunks' = [chunks EXCEPT ![chunk[t]] = [@ EXCEPT !.acks = read[t].count + 1]]
      /\ read' = [read EXCEPT ![t] = NoRead]
      /\ UNCHANGED <<args, executed, eventAckCount, starts, opVars, syncVars, tasks, chunk,
                     chanVars, nfVars, arrived>>

compareAcked(i) ==
  LET t == <<"se", i>>
  IN  /\ Goto(t, "compare", IF chunks[chunk[t]].acks = args.n - 1 THEN "check" ELSE "idle")
      /\ chunk' = [chunk EXCEPT ![t] = 0]
      /\ UNCHANGED <<args, executed, eventAckCount, starts, opVars, syncVars, chunkVars, read,
                     chanVars, nfVars, arrived>>

(* Mutant: no put acks are needed.                                         *)
Complete_unput == \A k \in ScopeKinds : acked[k]

Complete == \A k \in ScopeKinds : acked[k] /\ putAcks[k] = count[k] * (args.n - 1)

(* checkIfInstFinished: under finishCheckLock, so that one caller only     *)
(* goes on; it flushes the table of chunks.                                *)
checkIfInstFinished(t) ==
  /\ Goto(t, "check", IF Complete THEN "sync" ELSE "idle")
  /\ IF Complete
       THEN /\ acked' = [k \in Kinds |-> acked[k] /\ k \notin ScopeKinds]
            /\ chunks' = [c \in DOMAIN chunks |-> [chunks[c] EXCEPT !.live = FALSE]]
       ELSE UNCHANGED <<acked, chunks>>
  /\ UNCHANGED <<args, executed, eventAckCount, starts, opVars, count, putAcks, currentSource, key,
                 tasks, read, chunk, chanVars, nfVars, arrived>>

-----------------------------------------------------------------------------
(* LinkedHashMap.put: a key that is there keeps its place.                 *)
PutEvent(text, i) ==
  LET e == [text |-> text, from |-> i]
  IN  IF \E n \in DOMAIN originalEvents : originalEvents[n].text = text
        THEN [n \in DOMAIN originalEvents |->
                IF originalEvents[n].text = text THEN e ELSE originalEvents[n]]
        ELSE Append(originalEvents, e)

RemoveEvent(text) ==
  LET held == {n \in DOMAIN originalEvents : originalEvents[n].text = text}
  IN  IF held = {} THEN originalEvents ELSE RemoveAt(originalEvents, CHOOSE n \in held : TRUE)

(* receiveReprocess, under the monitor of originalEvents. A packet equal   *)
(* to the one returned last is taken for the report that it has been       *)
(* processed. The comparison is of bytes, the map goes by the String.      *)
receiveReprocess(i) ==
  LET p    == Head(eventOut[i]).pkt
      text == Text[p]
  IN  /\ pc[<<"se", i>>] = "idle"
      /\ FromEvent(i, "Reprocess")
      /\ \/ /\ ~isSyncFinished
            /\ originalEvents' = PutEvent(text, i)
            /\ UNCHANGED <<callFromReprocess, lastPacket, syncVars, stateIn, ofq>>
         \/ /\ isSyncFinished /\ lastPacket = p
            /\ originalEvents' = RemoveEvent(text)
            /\ syncFromInstance(i, {UnitOf[p]})
            /\ UNCHANGED <<callFromReprocess, lastPacket, ofq>>
         \/ /\ isSyncFinished /\ lastPacket # p
            /\ originalEvents' = PutEvent(text, i)
            /\ IF callFromReprocess
                 THEN dequeueEvent(PutEvent(text, i), FALSE)
                 ELSE UNCHANGED <<callFromReprocess, lastPacket, currentSource, ofq>>
            /\ UNCHANGED <<acked, count, putAcks, key, stateIn>>
      /\ UNCHANGED <<args, executed, eventAckCount, starts, nextInstIndex, isSyncFinished, chunkVars,
                     threads, stateOut, nfVars, arrived>>

-----------------------------------------------------------------------------
(* An instance: its state thread.                                          *)

Request(i, type) ==
  /\ stateIn[i] # <<>>
  /\ Head(stateIn[i]).type = type
  /\ stateIn' = [stateIn EXCEPT ![i] = Tail(@)]

handle_enable_events(i) ==
  /\ Request(i, "EnableEvents")
  /\ filter' = [filter EXCEPT ![i] = TRUE]
  /\ stateOut' = [stateOut EXCEPT ![i] = Append(@, [type |-> "EventsAck"])]
  /\ UNCHANGED <<args, executed, eventAckCount, starts, opVars, syncVars, chunkVars, threads,
                 eventOut, ofq, hand, state, now, assets, sent, processed, strays, arrived>>

(* Connections of a unit that point to the asset of its host.              *)
Pointing(i, u) == {h \in assets[i] : h.unit = u}

(* serialize_conn_asset: the first connection that points to an asset      *)
(* takes it along, once in an operation, whose id all its gets have.       *)
AssetOf(i, h) ==
  IF /\ h.kind = "pf" /\ "mf" \in StateKinds
     /\ h \in assets[i] /\ h.unit \notin sent[i] /\ \A g \in Pointing(i, h.unit) : g.pos <= h.pos
    THEN state[i]["mf"][h.unit]
    ELSE <<>>

Copied(r, as) == [facts |-> r.facts, seen |-> r.seen, gotten |-> r.gotten, asset |-> as]

(* The records of a unit; the connection id, the hashkey of a per-flow     *)
(* chunk, counts the connections made.                                     *)
Exported(i, k, u) ==
  LET l      == state[i][k][u]
      Key(n) == [kind |-> k, unit |-> u, pos |-> Len(l) - n]
  IN  {[type |-> "State", rec |-> Copied(l[n], AssetOf(i, Key(n))), hashkey |-> Key(n)] : n \in DOMAIN l}

(* The order in which they are met: the units as the hash table has them,  *)
(* the records of a unit from the head of its list.                        *)
Listings(ms) ==
  {s \in SetToSeqs(ms) : \A a, b \in DOMAIN s :
     a < b /\ s[a].hashkey.unit = s[b].hashkey.unit => s[a].hashkey.pos > s[b].hashkey.pos}

(* local_get_perflow and local_get_multiflow; per-flow records are marked, *)
(* for Strict so that packets that touch them are reported. The records of *)
(* one request leave in one step: meanwhile packets are held off by locks  *)
(* or by the filter.                                                       *)
handle_get(i) ==
  LET k  == Head(stateIn[i]).kind
      us == Head(stateIn[i]).units
  IN  /\ Request(i, "Get")
      /\ k \in StateKinds
      /\ \E ex \in Listings(UNION {Exported(i, k, u) : u \in us}) :
           stateOut' = [stateOut EXCEPT ![i] =
                          @ \o ex \o <<[type |-> "GetAck", kind |-> k, count |-> Len(ex)]>>]
      /\ state' = [state EXCEPT ![i][k] = [u \in Units |->
                     IF u \in us /\ k = "pf" /\ args.strict
                       THEN [n \in DOMAIN @[u] |-> [@[u][n] EXCEPT !.gotten = TRUE]]
                       ELSE @[u]]]
      /\ sent' = [sent EXCEPT ![i] =
                    @ \cup {u \in us : k = "pf" /\ Pointing(i, u) # {}}]
      /\ UNCHANGED <<args, executed, eventAckCount, starts, opVars, syncVars, chunkVars, threads,
                     eventOut, ofq, filter, hand, now, assets, processed, strays, arrived>>

(* A get that is not supported: an error takes the place of the ack.       *)
get_unsupported(i) ==
  /\ Request(i, "Get")
  /\ Head(stateIn[i]).kind \notin StateKinds
  /\ UNCHANGED <<args, executed, eventAckCount, starts, opVars, syncVars, chunkVars, threads,
                 stateOut, eventOut, ofq, nfVars, arrived>>

(* A record that is put is not marked, and what was sent with it is not    *)
(* part of it.                                                             *)
Stored(r) == [facts |-> r.facts, seen |-> r.seen, gotten |-> FALSE]

(* put_asset_per_sip: an older record is ignored, any other is merged.     *)
put_asset_per_sip(l, r) ==
  IF l = <<>> THEN <<Stored(r)>>
  ELSE IF l[1].seen > r.seen THEN l
  ELSE <<[l[1] EXCEPT !.facts = @ \cup r.facts, !.seen = r.seen]>>

(* local_put_perflow: a new connection at the head of the list, which      *)
(* points to no asset until a packet comes; the asset that came with it is *)
(* put as one that comes on its own.                                       *)
local_put_perflow(l, r) == <<Stored(r)>> \o l

(* What becomes of the records of kind k of the unit.                      *)
Installed(k, l, m) ==
  CASE m.hashkey.kind = "mf" /\ k = "mf"                   -> put_asset_per_sip(l, m.rec)
    [] m.hashkey.kind = "pf" /\ k = "pf"                   -> local_put_perflow(l, m.rec)
    [] m.hashkey.kind = "pf" /\ k = "mf" /\ m.rec.asset # <<>> -> put_asset_per_sip(l, m.rec.asset[1])
    [] OTHER                                               -> l

handle_put(i) ==
  LET m == Head(stateIn[i])
  IN  /\ Request(i, "Put")
      /\ state' = [state EXCEPT ![i] = [k \in StateKinds |->
                     [state[i][k] EXCEPT ![m.hashkey.unit] = Installed(k, @, m)]]]
      /\ eventOut' = [eventOut EXCEPT ![i] = Append(@, [type |-> "PutAck", hashkey |-> m.hashkey])]
      /\ UNCHANGED <<args, executed, eventAckCount, starts, opVars, syncVars, chunkVars, threads,
                     stateOut, ofq, filter, hand, now, assets, sent, processed, strays, arrived>>

-----------------------------------------------------------------------------
(* An instance: its packet thread.                                         *)

Reprocess(p) == [type |-> "Reprocess", pkt |-> p]

(* A packet from the network meets the filter, or is in hand.              *)
sdmbn_preprocess_packet(i) ==
  LET p == args.traffic[arrived + 1]
  IN  /\ arrived < Len(args.traffic)
      /\ hand[i] = EmptyHand
      /\ arrived' = arrived + 1
      /\ IF filter[i]
           THEN /\ eventOut' = [eventOut EXCEPT ![i] = Append(@, Reprocess(p))]
                /\ UNCHANGED hand
           ELSE /\ hand' = [hand EXCEPT ![i] = [pkt |-> p, event |-> FALSE]]
                /\ UNCHANGED eventOut
      /\ UNCHANGED <<args, executed, eventAckCount, starts, opVars, syncVars, chunkVars, threads,
                     stateIn, stateOut, ofq, filter, state, now, assets, sent, processed, strays>>

(* A returned packet carries the flag that exempts it from the filter, and *)
(* is to be reported when it has been processed.                           *)
packetOut ==
  /\ ofq # <<>>
  /\ hand[Head(ofq).to] = EmptyHand
  /\ ofq' = Tail(ofq)
  /\ hand' = [hand EXCEPT ![Head(ofq).to] = [pkt |-> Head(ofq).pkt, event |-> filter[Head(ofq).to]]]
  /\ UNCHANGED <<args, executed, eventAckCount, starts, opVars, syncVars, chunkVars, threads,
                 stateIn, stateOut, eventOut, filter, state, now, assets, sent, processed, strays,
                 arrived>>

Updated(l, k, p, t) ==
  IF l = <<>> THEN <<[facts |-> {p}, seen |-> t, gotten |-> FALSE]>>
  ELSE IF k = "pf" /\ l[1].gotten THEN l
  ELSE <<[l[1] EXCEPT !.facts = @ \cup {p}, !.seen = t]>> \o Tail(l)

(* The packet updates the first connection of its flow, unless that one is *)
(* marked: then it is reported; and it updates the asset of its host, to   *)
(* which that connection points from then on. The clocks of the instances  *)
(* are taken to agree.                                                     *)
process_packet(i) ==
  LET p      == hand[i].pkt
      u      == UnitOf[p]
      marked == /\ "pf" \in StateKinds
                /\ state[i]["pf"][u] # <<>> /\ state[i]["pf"][u][1].gotten
  IN  /\ p # NoPacket
      /\ hand' = [hand EXCEPT ![i] = EmptyHand]
      /\ now' \in now .. MaxTime
      /\ state' = [state EXCEPT ![i] = [k \in StateKinds |->
                     [state[i][k] EXCEPT ![u] = Updated(state[i][k][u], k, p, now')]]]
      /\ assets' = [assets EXCEPT ![i] = @ \cup {[kind |-> k, unit |-> u, pos |-> Len(state'[i][k][u]) - 1] :
                                                  k \in StateKinds \cap {"pf"}}]
      /\ eventOut' = [eventOut EXCEPT ![i] =
                        @ \o (IF marked THEN <<Reprocess(p)>> ELSE <<>>)
                          \o (IF hand[i].event THEN <<Reprocess(p)>> ELSE <<>>)]
      /\ processed' = Append(processed, p)
      /\ strays' = IF hand[i].event THEN strays ELSE strays \cup {[pkt |-> p, late |-> filter[i]]}
      /\ UNCHANGED <<args, executed, eventAckCount, starts, opVars, syncVars, chunkVars, threads,
                     stateIn, stateOut, ofq, filter, sent, arrived>>

-----------------------------------------------------------------------------
Thread(t) == syncAllInstances(t) \/ dequeueAfterSync(t) \/ checkIfInstFinished(t)

StateThread(i) ==
  \/ receiveEventsAck(i) \/ incrementEventAckCount(i) \/ checkEventAckCount(i)
  \/ receiveState(i) \/ receiveGetAck(i) \/ setGetCount(i)
  \/ Thread(<<"ss", i>>)

EventThread(i) ==
  \/ receivePutAck(i) \/ incrementPutAcks(i) \/ incrementAcked(i) \/ compareAcked(i)
  \/ receiveReprocess(i)
  \/ Thread(<<"se", i>>)

Pool == \E n \in DOMAIN tasks : callChunk(n)

InstanceState(i) == handle_enable_events(i) \/ handle_get(i) \/ get_unsupported(i) \/ handle_put(i)

Next ==
  \/ execute
  \/ \E i \in Insts : \/ StateThread(i) \/ EventThread(i) \/ InstanceState(i)
                      \/ process_packet(i) \/ sdmbn_preprocess_packet(i)
  \/ Pool
  \/ packetOut

Spec == Init /\ [][Next]_vars

(* Threads and network functions keep running and the switch serves its    *)
(* control channel; the traffic need not come.                             *)
Fairness ==
  /\ WF_vars(execute) /\ WF_vars(Pool) /\ WF_vars(packetOut)
  /\ \A i \in 1 .. Max({a.n : a \in Configs}) :
                       /\ WF_vars(i \in Insts /\ StateThread(i))
                       /\ WF_vars(i \in Insts /\ EventThread(i))
                       /\ WF_vars(i \in Insts /\ InstanceState(i))
                       /\ WF_vars(i \in Insts /\ process_packet(i))

FairSpec == Spec /\ Fairness

-----------------------------------------------------------------------------
(* The synchronization has been started at most once.                      *)
Single == starts <= 1

(* Returned packets that have not been processed yet.                      *)
Waiting == Range(ofq) \cup {[to |-> i, pkt |-> hand[i].pkt] : i \in {j \in Insts : hand[j].event}}

(* Returned packets on their way: sent out, in hand, or reported again.    *)
Returned ==
  {<<"sent", n>> : n \in DOMAIN ofq}
  \cup {<<"in hand", i>> : i \in {j \in Insts : hand[j].event}}
  \cup UNION {{<<"reported", i, n>> : n \in {m \in DOMAIN eventOut[i] :
                                            eventOut[i][m] = Reprocess(lastPacket)}} : i \in Insts}

HasType(q, types) == \E n \in DOMAIN q : q[n].type \in types

(* State of some instance is being fetched or copied.                      *)
Syncing ==
  \/ tasks # <<>>
  \/ \E i \in Insts : \/ HasType(stateIn[i], {"Get", "Put"})
                       \/ HasType(stateOut[i], {"State", "GetAck"})
                       \/ HasType(eventOut[i], {"PutAck"})
  \/ \E t \in Threads : pc[t] \in {"getAck", "putAck", "sync", "dequeue"}

(* "Once we receive and event after processing this packet, we send the    *)
(* next one out": one packet at a time is on its way to its instance and   *)
(* back, and none while state is being copied. Needs packets that differ,  *)
(* and a synchronization that was started once.                            *)
OneAtATime == Single => /\ Cardinality(Returned) <= 1
                        /\ Returned # {} => ~Syncing

(* What instance i knows from state of kind k.                             *)
Known(i, k, u) == UNION {r.facts : r \in Range(state[i][k][u])}

(* What the instances know when the operation starts: no instance has seen *)
(* a host later than one that is copied before it, without knowing all     *)
(* that one knows of the host. put_asset_per_sip ignores a record that is  *)
(* older than the one at hand, with all that only the older one tells.     *)
InOrder ==
  \A i, j \in Insts, u \in Units : i < j =>
    \/ args.knows[i][u] \subseteq args.knows[j][u]
    \/ args.knows[j][u] = {}
    \/ args.seen[j][u] <= args.seen[i][u]

(* Strong consistency of multi-flow state: whenever a returned packet is   *)
(* about to be processed, all instances hold the same records, whatever    *)
(* the order in which puts, acks, events and seconds came after the start. *)
(* Needs that no instance has processed a packet the operation has not     *)
(* been told of, and that no older record with facts of its own is put to  *)
(* an instance at the start: without InOrder the instances may differ.     *)
StrongConsistency ==
  (Single /\ strays = {} /\ InOrder /\ Waiting # {} /\ "mf" \in StateKinds) =>
    \A i, j \in Insts : state[i]["mf"] = state[j]["mf"]

(* "Bring all NFs to a synchronized state" (receiveEventsAck): when the    *)
(* state of every instance has been copied to all others, they agree, also *)
(* if several had processed packets of a host before their filters were in *)
(* place.                                                                  *)
BroughtInSync ==
  (/\ Single /\ "mf" \in StateKinds
   /\ \A s \in strays : ~s.late
   /\ \E t \in Threads : pc[t] = "dequeue")
    => \A i, j \in Insts : state[i]["mf"] = state[j]["mf"]

(* What one instance has learned from a packet, all of them have got, in   *)
(* some record, before the next packet is processed: for per-flow state    *)
(* too, of which every copy makes a record of its own.                     *)
LearnedByAll ==
  (Single /\ strays = {} /\ Waiting # {}) =>
    \A p \in Range(processed), i \in Insts, k \in StateKinds : p \in Known(i, k, UnitOf[p])

(* The acks of all instances are counted, and the synchronization starts.  *)
SyncStarts == executed ~> starts >= 1

(* Two instances, a scope their network functions support.                 *)
Supported == args.n = 2 /\ "af" \notin ScopeKinds

(* Every packet reported to an operation whose synchronization started     *)
(* once is returned and processed in the end, the map drains: the wake-up  *)
(* of dequeueEvent by the next event is never lost, and no ack missed.     *)
EveryReportReturns ==
  (Supported /\ starts = 1 /\ originalEvents # <<>>) ~> (originalEvents = <<>> \/ starts # 1)
=============================================================================
