--------------------------- MODULE RegistryProofs ---------------------------
(***************************************************************************)
(* Module Registry for every set of network functions, every number of     *)
(* instances the application waits for and every loss of frames.           *)
(***************************************************************************)
EXTENDS Registry, FiniteSetTheorems, SequenceTheorems, TLAPS

Labels == {"idle", "connect", "connected", "located", "add"}
Object == [nf : NFs, channels : SUBSET ChannelKinds, located : BOOLEAN]

(* Every variable has its type, without the bounds that TypeOK adds.       *)
ProcessType ==
  /\ nf \in [NFs -> {"state_init", "events_init", "discovery", "stopped"}]
  /\ syns \subseteq Channels /\ frames \subseteq NFs
TableType ==
  /\ objects \in Seq(Object)
  /\ middleboxes \in [NFs -> Nat]
ThreadsType ==
  /\ pc \in [Threads -> Labels] /\ box \in [Threads -> Nat]
  /\ announced \in [NFs -> Nat]
ApplicationType ==
  /\ slots \in Seq(Nat) /\ tasks \in [Steps -> Nat] /\ runs \in Nat
  /\ sched \in {"idle", "put", "execute"}
  /\ nextOperationId \in Nat \ {0} /\ opId \in Nat
FieldsType == ProcessType /\ TableType /\ ThreadsType /\ ApplicationType

(* The table and the objects name each other: a network function has at    *)
(* most one object, so that there are no more objects than processes.      *)
ObjectsInv ==
  /\ \A i \in 1 .. Len(objects) : middleboxes[objects[i].nf] = i
  /\ \A n \in NFs : middleboxes[n] # 0 =>
       middleboxes[n] \in 1 .. Len(objects) /\ objects[middleboxes[n]].nf = n

(* A thread works on an object that exists, a channel's thread on the one  *)
(* of its network function.                                                *)
BoxInv ==
  /\ \A t \in Threads : box[t] \in 0 .. Len(objects) /\ (pc[t] # "idle" => box[t] # 0)
  /\ \A n \in NFs, c \in ChannelKinds : pc[<<n, c>>] # "idle" => box[<<n, c>>] = middleboxes[n]

(* The channels that channelConnected has set for network function n.      *)
Connected(n) == IF middleboxes[n] = 0 THEN {} ELSE objects[middleboxes[n]].channels

(* Nothing has been heard of channel c of network function n.              *)
Fresh(n, c) == <<n, c>> \notin syns /\ pc[<<n, c>>] = "idle" /\ c \notin Connected(n)

(* A SYN is sent and handled once for each channel; the one thread that    *)
(* completes the pair is about to announce the network function, or has.   *)
ChannelInv(n) ==
  /\ \A c \in ChannelKinds :
       /\ <<n, c>> \in syns => pc[<<n, c>>] = "idle" /\ c \notin Connected(n)
       /\ pc[<<n, c>>] = "connect" => c \notin Connected(n)
       /\ pc[<<n, c>>] \in {"connected", "add"} => Connected(n) = ChannelKinds
       /\ pc[<<n, c>>] = "connected" => announced[n] = 0
       /\ nf[n] = "state_init" => Fresh(n, c)
       /\ nf[n] = "discovery" => ~Fresh(n, c)
       /\ pc[<<n, c>>] # "located"
  /\ nf[n] = "events_init" => Fresh(n, "event") /\ ~Fresh(n, "state")
  /\ ~(pc[<<n, "state">>] = "connected" /\ pc[<<n, "event">>] = "connected")
  /\ announced[n] <= 1
  /\ announced[n] = 1 => Connected(n) = ChannelKinds
  /\ Connected(n) = ChannelKinds =>
       announced[n] = 1 \/ \E c \in ChannelKinds : pc[<<n, c>>] = "connected"
ChannelsInv == \A n \in NFs : ChannelInv(n)

(* The slots hold different objects, and the steps of the application are  *)
(* started when the last slot is taken.                                    *)
SlotsInv ==
  /\ Len(slots) <= numInstances
  /\ \A i \in 1 .. Len(slots) : slots[i] \in 1 .. Len(objects)
  /\ \A i, j \in 1 .. Len(slots) : slots[i] = slots[j] => i = j
  /\ Len(slots) < numInstances => runs = 0
  /\ Cardinality(NFs) <= numInstances => runs <= 1

(* Each start of the application has at most one step scheduled, and the   *)
(* scheduler thread holds on to the step it executes.                      *)
Scheduled(f) == f[1] + f[2] + f[3] + f[4]
TasksInv ==
  /\ Scheduled(tasks) <= runs
  /\ sched # "idle" => tasks[2] > 0

(* An id is in the operation table before the network function learns it.  *)
OperationsInv ==
  /\ operations \subseteq 1 .. nextOperationId
  /\ sched # "idle" => opId \in 1 .. nextOperationId
  /\ sched = "execute" => opId \in operations
  /\ \A n \in NFs, id \in Nat : <<n, id>> \in requests \cup replies => id \in operations
  /\ unknown = {}

RegistryInv ==
  FieldsType /\ ObjectsInv /\ BoxInv /\ ChannelsInv /\ SlotsInv /\ TasksInv /\ OperationsInv

-----------------------------------------------------------------------------
(* Objects and the table. *)

(* The switch's thread is no thread of a channel.                          *)
LEMMA SwitchApart ==
  /\ Switch \in Threads /\ Channels \subseteq Threads
  /\ \A n \in NFs, c \in ChannelKinds : <<n, c>> \in Channels /\ <<n, c>> # Switch
BY DEF Switch, Threads, Channels, ChannelKinds

(* What obtainMiddlebox returns: the object of n, a new one at the end if  *)
(* there was none; all other objects stay.                                 *)
LEMMA ObtainedObject ==
  ASSUME TableType, ObjectsInv, NEW n \in NFs
  PROVE  /\ ObjectsWith(n) \in Seq(Object) /\ Obtained(n) \in Nat \ {0}
         /\ Obtained(n) \in 1 .. Len(ObjectsWith(n)) /\ ObjectsWith(n)[Obtained(n)].nf = n
         /\ Len(objects) <= Len(ObjectsWith(n)) /\ Len(objects) \in Nat
         /\ Len(ObjectsWith(n)) \in Nat
         /\ \A i \in 1 .. Len(objects) : ObjectsWith(n)[i] = objects[i]
         /\ middleboxes[n] # 0 => ObjectsWith(n) = objects /\ Obtained(n) = middleboxes[n]
         /\ middleboxes[n] = 0 => /\ Len(ObjectsWith(n)) = Len(objects) + 1
                                  /\ Obtained(n) = Len(objects) + 1
                                  /\ ObjectsWith(n)[Obtained(n)] = NewObject(n)
<1>0. Len(objects) \in Nat
  BY LenProperties DEF TableType
<1>1. CASE middleboxes[n] # 0
  <2>1. Obtained(n) = middleboxes[n] /\ Obtained(n) \in 1 .. Len(objects)
    BY <1>1 DEF Obtained, ObjectsInv
  <2>2. ObjectsWith(n) = objects
    BY <1>0, <2>1 DEF ObjectsWith
  <2>3. QED
    BY <1>0, <1>1, <2>1, <2>2 DEF TableType, ObjectsInv
<1>2. CASE middleboxes[n] = 0
  <2>1. Obtained(n) = Len(objects) + 1
    BY <1>2 DEF Obtained
  <2>2. ObjectsWith(n) = Append(objects, NewObject(n))
    BY <1>0, <2>1 DEF ObjectsWith
  <2>3. NewObject(n) \in Object /\ NewObject(n).nf = n
    BY DEF NewObject, Object
  <2>4. QED
    BY <1>0, <1>2, <2>1, <2>2, <2>3, AppendProperties DEF TableType
<1>3. QED
  BY <1>1, <1>2

(* An object's channels and location change, its network function never.   *)
LEMMA ChangedObject ==
  ASSUME NEW s \in Seq(Object), NEW i \in 1 .. Len(s), NEW e \in Object
  PROVE  /\ [s EXCEPT ![i] = e] \in Seq(Object)
         /\ Len([s EXCEPT ![i] = e]) = Len(s) /\ Len(s) \in Nat
         /\ [s EXCEPT ![i] = e][i] = e
         /\ \A j \in 1 .. Len(s) : j # i => [s EXCEPT ![i] = e][j] = s[j]
BY ExceptSeq, LenProperties

(* What the table says after a step that obtains the object of n and keeps *)
(* or changes the objects that were there: still one object each.          *)
LEMMA ObjectsKept ==
  ASSUME TableType, ObjectsInv, NEW n \in NFs,
         objects' \in Seq(Object), Len(objects') = Len(ObjectsWith(n)),
         \A i \in 1 .. Len(ObjectsWith(n)) : objects'[i].nf = ObjectsWith(n)[i].nf,
         middleboxes' = [middleboxes EXCEPT ![n] = Obtained(n)]
  PROVE  /\ ObjectsInv' /\ middleboxes' \in [NFs -> Nat]
         /\ Len(objects) <= Len(objects')
         /\ \A m \in NFs : middleboxes[m] # 0 => middleboxes'[m] = middleboxes[m]
<1>1. /\ Obtained(n) \in Nat \ {0} /\ Obtained(n) \in 1 .. Len(ObjectsWith(n))
      /\ ObjectsWith(n)[Obtained(n)].nf = n
      /\ Len(objects) <= Len(ObjectsWith(n)) /\ Len(objects) \in Nat
      /\ Len(ObjectsWith(n)) \in Nat
      /\ \A i \in 1 .. Len(objects) : ObjectsWith(n)[i] = objects[i]
      /\ middleboxes[n] # 0 => ObjectsWith(n) = objects /\ Obtained(n) = middleboxes[n]
      /\ middleboxes[n] = 0 => /\ Len(ObjectsWith(n)) = Len(objects) + 1
                               /\ Obtained(n) = Len(objects) + 1
  BY ObtainedObject
<1>2. middleboxes' \in [NFs -> Nat] /\ middleboxes'[n] = Obtained(n)
      /\ \A m \in NFs : m # n => middleboxes'[m] = middleboxes[m]
  BY <1>1 DEF TableType
<1>3. ASSUME NEW i \in 1 .. Len(objects')
      PROVE  middleboxes'[objects'[i].nf] = i
  <2>1. CASE i \in 1 .. Len(objects)
    <3>1. objects[i] \in Object
      BY <2>1, ElementOfSeq DEF TableType
    <3>2. objects[i].nf \in NFs /\ middleboxes[objects[i].nf] = i
      BY <2>1, <3>1 DEF ObjectsInv, Object
    <3>3. objects'[i].nf = objects[i].nf
      BY <1>1, <2>1
    <3>4. QED
      BY <1>1, <1>2, <2>1, <3>2, <3>3
  <2>2. CASE i \notin 1 .. Len(objects)
    BY <1>1, <1>2, <2>2
  <2>3. QED
    BY <2>1, <2>2
<1>4. ASSUME NEW m \in NFs, middleboxes'[m] # 0
      PROVE  middleboxes'[m] \in 1 .. Len(objects') /\ objects'[middleboxes'[m]].nf = m
  <2>1. CASE m = n
    BY <1>1, <1>2, <2>1
  <2>2. CASE m # n
    <3>1. middleboxes[m] \in 1 .. Len(objects) /\ objects[middleboxes[m]].nf = m
      BY <1>2, <1>4, <2>2 DEF ObjectsInv
    <3>2. QED
      BY <1>1, <1>2, <2>2, <3>1
  <2>3. QED
    BY <2>1, <2>2
<1>5. QED
  BY <1>1, <1>2, <1>3, <1>4 DEF ObjectsInv

(* A step after which the table is still right and knows what it knew.     *)
TableKept ==
  /\ objects' \in Seq(Object) /\ middleboxes' \in [NFs -> Nat] /\ ObjectsInv'
  /\ Len(objects) \in Nat /\ Len(objects') \in Nat /\ Len(objects) <= Len(objects')
  /\ \A m \in NFs : middleboxes[m] # 0 => middleboxes'[m] = middleboxes[m]

(* The channels of a network function only change when its object does.    *)
LEMMA ConnectedKept ==
  ASSUME TableType, ObjectsInv, TableKept, NEW m \in NFs,
         \A i \in 1 .. Len(objects) : objects'[i].channels = objects[i].channels,
         middleboxes[m] = 0 /\ middleboxes'[m] # 0 => objects'[middleboxes'[m]].channels = {}
  PROVE  Connected(m)' = Connected(m)
<1>1. CASE middleboxes[m] # 0
  <2>1. middleboxes[m] \in 1 .. Len(objects) /\ middleboxes'[m] = middleboxes[m]
    BY <1>1 DEF ObjectsInv, TableKept
  <2>2. QED
    BY <1>1, <2>1 DEF Connected
<1>2. CASE middleboxes[m] = 0
  BY <1>2 DEF Connected
<1>3. QED
  BY <1>1, <1>2

(* A SYN creates the object if it is the first word of the network         *)
(* function, and connects nothing yet.                                     *)
LEMMA SynTable ==
  ASSUME TableType, ObjectsInv, NEW n \in NFs, NEW c \in ChannelKinds, receiveSyn(n, c)
  PROVE  /\ TableKept /\ \A m \in NFs : Connected(m)' = Connected(m)
         /\ middleboxes'[n] = Obtained(n) /\ Obtained(n) \in 1 .. Len(objects')
         /\ Obtained(n) \in Nat \ {0}
<1>1. /\ objects' = ObjectsWith(n)
      /\ middleboxes' = [middleboxes EXCEPT ![n] = Obtained(n)]
  BY DEF receiveSyn, obtainMiddlebox
<1>2. TableKept
  BY <1>1, ObtainedObject, ObjectsKept DEF TableKept
<1>3. ASSUME NEW m \in NFs
      PROVE  Connected(m)' = Connected(m)
  <2>1. \A i \in 1 .. Len(objects) : objects'[i].channels = objects[i].channels
    BY <1>1, ObtainedObject
  <2>2. middleboxes[m] = 0 /\ middleboxes'[m] # 0 => objects'[middleboxes'[m]].channels = {}
    <3>1. SUFFICES ASSUME middleboxes[m] = 0, middleboxes'[m] # 0
                   PROVE  objects'[middleboxes'[m]].channels = {}
      OBVIOUS
    <3>2. m = n
      BY <1>1, <3>1 DEF TableType
    <3>3. middleboxes'[m] = Obtained(n) /\ objects'[Obtained(n)] = NewObject(n)
      BY <1>1, <3>1, <3>2, ObtainedObject DEF TableType
    <3>4. QED
      BY <3>3 DEF NewObject
  <2>3. QED
    BY <1>2, <2>1, <2>2, ConnectedKept
<1>4. QED
  BY <1>1, <1>2, <1>3, ObtainedObject DEF TableType

(* A discovery frame sets a location and connects nothing.                 *)
LEMMA DiscoveredTable ==
  ASSUME TableType, ObjectsInv, NEW n \in NFs, middleboxDiscovered(n)
  PROVE  /\ TableKept /\ \A m \in NFs : Connected(m)' = Connected(m)
         /\ \/ UNCHANGED <<pc, box>>
            \/ /\ pc' = [pc EXCEPT ![Switch] = "located"]
               /\ box' = [box EXCEPT ![Switch] = Obtained(n)]
               /\ Obtained(n) \in 1 .. Len(objects') /\ Obtained(n) \in Nat \ {0}
<1> DEFINE o == Obtained(n)
           os == ObjectsWith(n)
           e == [os[o] EXCEPT !.located = TRUE]
<1>0. /\ os \in Seq(Object) /\ o \in Nat \ {0} /\ o \in 1 .. Len(os) /\ os[o].nf = n
      /\ Len(objects) <= Len(os) /\ Len(objects) \in Nat /\ Len(os) \in Nat
      /\ \A i \in 1 .. Len(objects) : os[i] = objects[i]
      /\ middleboxes[n] = 0 => os[o] = NewObject(n)
  BY ObtainedObject
<1>1. CASE UNCHANGED <<mbVars, pc, box>>
  <2>1. UNCHANGED <<objects, middleboxes>>
    BY <1>1 DEF mbVars
  <2>2. TableKept
    BY <1>0, <2>1 DEF TableKept, TableType, ObjectsInv
  <2>3. QED
    BY <1>1, <2>1, <2>2 DEF Connected
<1>2. CASE /\ objects' = [os EXCEPT ![o].located = TRUE]
           /\ middleboxes' = [middleboxes EXCEPT ![n] = o]
           /\ pc' = [pc EXCEPT ![Switch] = "located"]
           /\ box' = [box EXCEPT ![Switch] = o]
  <2>1. os[o] \in Object
    BY <1>0, ElementOfSeq
  <2>2. e \in Object /\ e.nf = os[o].nf /\ e.channels = os[o].channels
    BY <2>1 DEF Object
  <2>3. objects' = [os EXCEPT ![o] = e]
    BY <1>2
  <2> HIDE DEF o, os, e
  <2>4. /\ objects' \in Seq(Object) /\ Len(objects') = Len(os) /\ objects'[o] = e
        /\ \A j \in 1 .. Len(os) : j # o => objects'[j] = os[j]
    BY <1>0, <2>2, <2>3, ChangedObject
  <2>5. \A i \in 1 .. Len(os) : /\ objects'[i].nf = os[i].nf
                                /\ objects'[i].channels = os[i].channels
    BY <2>2, <2>4
  <2>6. TableKept
    BY <1>0, <1>2, <2>4, <2>5, ObjectsKept DEF TableKept, o, os
  <2>7. ASSUME NEW m \in NFs
        PROVE  Connected(m)' = Connected(m)
    <3>1. \A i \in 1 .. Len(objects) : objects'[i].channels = objects[i].channels
      BY <1>0, <2>5
    <3>2. middleboxes[m] = 0 /\ middleboxes'[m] # 0 => objects'[middleboxes'[m]].channels = {}
      <4>1. SUFFICES ASSUME middleboxes[m] = 0, middleboxes'[m] # 0
                     PROVE  objects'[middleboxes'[m]].channels = {}
        OBVIOUS
      <4>2. m = n /\ middleboxes'[m] = o
        BY <1>2, <4>1 DEF TableType
      <4>3. QED
        BY <1>0, <2>2, <2>4, <4>1, <4>2 DEF NewObject
    <3>3. QED
      BY <2>6, <3>1, <3>2, ConnectedKept
  <2>8. QED
    BY <1>0, <1>2, <2>4, <2>6, <2>7 DEF o
<1>3. QED
  BY <1>1, <1>2 DEF middleboxDiscovered

(* channelConnected adds its channel to its network function's object.     *)
LEMMA ConnectTable ==
  ASSUME TableType, ObjectsInv, BoxInv, NEW n \in NFs, NEW c \in ChannelKinds,
         channelConnected(n, c)
  PROVE  /\ TableKept /\ UNCHANGED middleboxes /\ Len(objects') = Len(objects)
         /\ Connected(n)' = Connected(n) \cup {c}
         /\ \A m \in NFs : m # n => Connected(m)' = Connected(m)
         /\ Both(box[<<n, c>>], c) <=> Connected(n) \cup {c} = ChannelKinds
<1> DEFINE b == middleboxes[n]
           e == [objects[b] EXCEPT !.channels = objects[b].channels \cup {c}]
<1>1. pc[<<n, c>>] = "connect" /\ <<n, c>> \in Threads
  BY SwitchApart DEF channelConnected, Goto
<1>2. box[<<n, c>>] = b /\ b # 0
  BY <1>1 DEF BoxInv
<1>3. b \in 1 .. Len(objects) /\ objects[b].nf = n
  BY <1>2 DEF ObjectsInv
<1>4. objects[b] \in Object
  BY <1>3, ElementOfSeq DEF TableType
<1>5. e \in Object /\ e.nf = n /\ e.channels = objects[b].channels \cup {c}
  BY <1>3, <1>4 DEF Object
<1>6. objects' = [objects EXCEPT ![b] = e] /\ UNCHANGED middleboxes
  BY <1>2 DEF channelConnected
<1> HIDE DEF e
<1>7. /\ objects' \in Seq(Object) /\ Len(objects') = Len(objects) /\ Len(objects) \in Nat
      /\ objects'[b] = e
      /\ \A j \in 1 .. Len(objects) : j # b => objects'[j] = objects[j]
  BY <1>3, <1>5, <1>6, ChangedObject DEF TableType
<1>8. \A i \in 1 .. Len(objects) : objects'[i].nf = objects[i].nf
  BY <1>3, <1>5, <1>7
<1>9. TableKept
  BY <1>6, <1>7, <1>8 DEF TableKept, TableType, ObjectsInv
<1>10. Connected(n)' = Connected(n) \cup {c}
  BY <1>2, <1>5, <1>6, <1>7 DEF Connected
<1>11. ASSUME NEW m \in NFs, m # n
       PROVE  Connected(m)' = Connected(m)
  <2>1. CASE middleboxes[m] = 0
    BY <1>6, <2>1 DEF Connected
  <2>2. CASE middleboxes[m] # 0
    <3>1. middleboxes[m] \in 1 .. Len(objects) /\ middleboxes[m] # b
      BY <1>3, <1>11, <2>2 DEF ObjectsInv
    <3>2. QED
      BY <1>6, <1>7, <2>2, <3>1 DEF Connected
  <2>3. QED
    BY <2>1, <2>2
<1>12. QED
  BY <1>2, <1>6, <1>7, <1>9, <1>10, <1>11 DEF Both, Connected

(* A step that does not touch the table keeps it.                          *)
LEMMA QuietTable ==
  ASSUME TableType, ObjectsInv, UNCHANGED mbVars
  PROVE  TableKept /\ \A m \in NFs : Connected(m)' = Connected(m)
<1>1. UNCHANGED <<objects, middleboxes>> /\ Len(objects) \in Nat
  BY LenProperties DEF mbVars, TableType
<1>2. QED
  BY <1>1 DEF TableKept, TableType, ObjectsInv, Connected

-----------------------------------------------------------------------------
(* The threads and the objects they work on. *)

(* A thread that moves on keeps or takes an object, unless it returns.     *)
LEMMA BoxKept ==
  ASSUME ThreadsType, TableKept, BoxInv, NEW t \in Threads, NEW l \in Labels,
         NEW b \in 0 .. Len(objects'), l # "idle" => b # 0,
         pc' = [pc EXCEPT ![t] = l], box' = [box EXCEPT ![t] = b],
         \A n \in NFs, c \in ChannelKinds : t = <<n, c>> /\ l # "idle" => b = middleboxes'[n]
  PROVE  BoxInv' /\ pc' \in [Threads -> Labels] /\ box' \in [Threads -> Nat]
<1>1. pc' \in [Threads -> Labels] /\ box' \in [Threads -> Nat]
  BY DEF ThreadsType, TableKept
<1>2. ASSUME NEW u \in Threads
      PROVE  box'[u] \in 0 .. Len(objects') /\ (pc'[u] # "idle" => box'[u] # 0)
  BY <1>2 DEF ThreadsType, TableKept, BoxInv
<1>3. ASSUME NEW n \in NFs, NEW c \in ChannelKinds, pc'[<<n, c>>] # "idle"
      PROVE  box'[<<n, c>>] = middleboxes'[n]
  <2>1. <<n, c>> \in Threads
    BY SwitchApart
  <2>2. CASE t = <<n, c>>
    BY <1>3, <2>1, <2>2 DEF ThreadsType
  <2>3. CASE t # <<n, c>>
    <3>1. pc[<<n, c>>] # "idle" /\ box'[<<n, c>>] = box[<<n, c>>]
      BY <1>3, <2>1, <2>3 DEF ThreadsType
    <3>2. box[<<n, c>>] = middleboxes[n] /\ middleboxes[n] # 0
      BY <2>1, <3>1 DEF BoxInv
    <3>3. QED
      BY <3>1, <3>2 DEF TableKept
  <2>4. QED
    BY <2>2, <2>3
<1>4. QED
  BY <1>1, <1>2, <1>3 DEF BoxInv

(* The same for a thread that keeps its object until it returns.           *)
LEMMA GotoKeepsBox ==
  ASSUME ThreadsType, TableKept, BoxInv, NEW t \in Threads, NEW from \in Labels \ {"idle"},
         NEW to \in Labels, Goto(t, from, to), UNCHANGED middleboxes
  PROVE  BoxInv' /\ pc' \in [Threads -> Labels] /\ box' \in [Threads -> Nat]
<1>1. \E b \in 0 .. Len(objects') :
        /\ box' = [box EXCEPT ![t] = b] /\ (to # "idle" => b # 0)
        /\ \A n \in NFs, c \in ChannelKinds : t = <<n, c>> /\ to # "idle" => b = middleboxes'[n]
  <2>1. CASE to = "idle"
    <3>1. 0 \in 0 .. Len(objects') /\ box' = [box EXCEPT ![t] = 0]
      BY <2>1 DEF TableKept, Goto
    <3>2. QED
      BY <2>1, <3>1
  <2>2. CASE to # "idle"
    <3>1. box' = [box EXCEPT ![t] = box[t]]
      BY <2>2 DEF Goto, ThreadsType
    <3>2. box[t] \in 0 .. Len(objects') /\ box[t] # 0
      BY DEF BoxInv, TableKept, Goto
    <3>3. \A n \in NFs, c \in ChannelKinds : t = <<n, c>> => box[t] = middleboxes'[n]
      BY DEF BoxInv, Goto
    <3>4. QED
      BY <3>1, <3>2, <3>3
  <2>3. QED
    BY <2>1, <2>2
<1>2. PICK b \in 0 .. Len(objects') :
        /\ box' = [box EXCEPT ![t] = b] /\ (to # "idle" => b # 0)
        /\ \A n \in NFs, c \in ChannelKinds : t = <<n, c>> /\ to # "idle" => b = middleboxes'[n]
  BY <1>1
<1>3. pc' = [pc EXCEPT ![t] = to]
  BY DEF Goto
<1>4. QED
  BY <1>2, <1>3, BoxKept, Zenon

(* A step that moves no thread.                                            *)
LEMMA QuietBox ==
  ASSUME ThreadsType, TableKept, BoxInv, UNCHANGED <<pc, box>>
  PROVE  BoxInv' /\ pc' \in [Threads -> Labels] /\ box' \in [Threads -> Nat]
<1>1. \A t \in Threads : box'[t] \in 0 .. Len(objects') /\ (pc'[t] # "idle" => box'[t] # 0)
  BY DEF BoxInv, TableKept
<1>2. ASSUME NEW n \in NFs, NEW c \in ChannelKinds, pc'[<<n, c>>] # "idle"
      PROVE  box'[<<n, c>>] = middleboxes'[n]
  <2>1. <<n, c>> \in Threads
    BY SwitchApart
  <2>2. QED
    BY <1>2, <2>1 DEF BoxInv, TableKept
<1>3. QED
  BY <1>1, <1>2 DEF BoxInv, ThreadsType

-----------------------------------------------------------------------------
(* The two channels of a network function. *)

(* A step that is not about network function m.                            *)
LEMMA ChannelKept ==
  ASSUME NEW m \in NFs, ChannelInv(m), Connected(m)' = Connected(m),
         nf'[m] = nf[m], announced'[m] = announced[m],
         \A c \in ChannelKinds : /\ pc'[<<m, c>>] = pc[<<m, c>>]
                                 /\ <<m, c>> \in syns' <=> <<m, c>> \in syns
  PROVE  ChannelInv(m)'
BY DEF ChannelInv, Fresh, ChannelKinds

(* The start of a network function sends one SYN for each channel.         *)
LEMMA StartChannels ==
  ASSUME FieldsType, ChannelsInv, \A m \in NFs : Connected(m)' = Connected(m),
         NEW n \in NFs, Start(n) \/ stop(n)
  PROVE  ChannelsInv'
<1> SUFFICES ASSUME NEW m \in NFs
             PROVE  ChannelInv(m)'
  BY DEF ChannelsInv
<1>0. UNCHANGED <<pc, announced>>
  BY DEF Start, state_init, events_init, stop
<1>1. CASE m # n
  <2>1. nf'[m] = nf[m]
    BY <1>1 DEF Start, state_init, events_init, stop, FieldsType, ProcessType
  <2>2. \A c \in ChannelKinds : <<m, c>> \in syns' <=> <<m, c>> \in syns
    BY <1>1 DEF Start, state_init, events_init, stop
  <2>3. QED
    BY <1>0, <2>1, <2>2, ChannelKept DEF ChannelsInv
<1>2. CASE m = n
  <2>1. CASE state_init(n)
    <3>1. nf[n] = "state_init" /\ nf'[n] = "events_init" /\ syns' = syns \cup {<<n, "state">>}
      BY <2>1 DEF state_init, FieldsType, ProcessType
    <3>2. QED
      BY <1>0, <1>2, <3>1 DEF ChannelsInv, ChannelInv, Fresh, ChannelKinds
  <2>2. CASE events_init(n)
    <3>1. nf[n] = "events_init" /\ nf'[n] = "discovery" /\ syns' = syns \cup {<<n, "event">>}
      BY <2>2 DEF events_init, FieldsType, ProcessType
    <3>2. QED
      BY <1>0, <1>2, <3>1 DEF ChannelsInv, ChannelInv, Fresh, ChannelKinds
  <2>3. CASE stop(n)
    <3>1. nf'[n] = "stopped" /\ UNCHANGED syns
      BY <2>3 DEF stop, FieldsType, ProcessType
    <3>2. QED
      BY <1>0, <1>2, <3>1 DEF ChannelsInv, ChannelInv, Fresh, ChannelKinds
  <2>4. QED
    BY <2>1, <2>2, <2>3 DEF Start
<1>3. QED
  BY <1>1, <1>2

(* A step of the thread of channel c: what it means for the other threads. *)
LEMMA OtherThreads ==
  ASSUME ThreadsType, NEW n \in NFs, NEW c \in ChannelKinds, NEW l,
         pc' = [pc EXCEPT ![<<n, c>>] = l]
  PROVE  /\ pc'[<<n, c>>] = l
         /\ \A m \in NFs, d \in ChannelKinds : m # n \/ d # c => pc'[<<m, d>>] = pc[<<m, d>>]
BY SwitchApart DEF ThreadsType

(* A received SYN starts a connection of the channel it names.             *)
LEMMA SynChannels ==
  ASSUME FieldsType, ObjectsInv, ChannelsInv, NEW n \in NFs, NEW c \in ChannelKinds,
         receiveSyn(n, c)
  PROVE  ChannelsInv'
<1> SUFFICES ASSUME NEW m \in NFs
             PROVE  ChannelInv(m)'
  BY DEF ChannelsInv
<1>0. /\ Connected(m)' = Connected(m) /\ UNCHANGED <<nf, announced>>
      /\ syns' = syns \ {<<n, c>>} /\ <<n, c>> \in syns /\ pc[<<n, c>>] = "idle"
      /\ pc' = [pc EXCEPT ![<<n, c>>] = "connect"]
  BY SynTable DEF receiveSyn, FieldsType
<1>1. /\ pc'[<<n, c>>] = "connect"
      /\ \A k \in NFs, d \in ChannelKinds : k # n \/ d # c => pc'[<<k, d>>] = pc[<<k, d>>]
  BY <1>0, OtherThreads DEF FieldsType
<1>2. CASE m # n
  BY <1>0, <1>1, <1>2, ChannelKept DEF ChannelsInv
<1>3. CASE m = n
  BY <1>0, <1>1, <1>3 DEF ChannelsInv, ChannelInv, Fresh, ChannelKinds
<1>4. QED
  BY <1>2, <1>3

(* Of the two channels of an NF, the one that connects last, and no other, *)
(* goes on to announce it.                                                 *)
LEMMA ConnectChannels ==
  ASSUME FieldsType, ObjectsInv, BoxInv, ChannelsInv, NEW n \in NFs, NEW c \in ChannelKinds,
         channelConnected(n, c)
  PROVE  ChannelsInv'
<1> SUFFICES ASSUME NEW m \in NFs
             PROVE  ChannelInv(m)'
  BY DEF ChannelsInv
<1> DEFINE l == IF Connected(n) \cup {c} = ChannelKinds THEN "connected" ELSE "idle"
<1>0. /\ Connected(n)' = Connected(n) \cup {c} /\ (m # n => Connected(m)' = Connected(m))
      /\ UNCHANGED <<nf, announced, syns>>
      /\ pc[<<n, c>>] = "connect" /\ pc' = [pc EXCEPT ![<<n, c>>] = l]
  BY ConnectTable DEF channelConnected, Goto, nfVars, FieldsType
<1>1. /\ pc'[<<n, c>>] = l
      /\ \A k \in NFs, d \in ChannelKinds : k # n \/ d # c => pc'[<<k, d>>] = pc[<<k, d>>]
  BY <1>0, OtherThreads DEF FieldsType
<1>2. CASE m # n
  BY <1>0, <1>1, <1>2, ChannelKept DEF ChannelsInv
<1>3. CASE m = n
  <2>1. ChannelInv(n) /\ c \notin Connected(n)
    BY <1>0 DEF ChannelsInv, ChannelInv
  <2>2. announced[n] = 0 /\ \A d \in ChannelKinds : pc[<<n, d>>] \notin {"connected", "add"}
    <3>1. Connected(n) # ChannelKinds
      BY <2>1
    <3>2. QED
      BY <2>1, <3>1 DEF ChannelInv, FieldsType, ThreadsType
  <2>3. QED
    BY <1>0, <1>1, <1>3, <2>1, <2>2 DEF ChannelInv, Fresh, ChannelKinds
<1>4. QED
  BY <1>2, <1>3

(* The announcement counts once, and the thread then adds the NF or is     *)
(* done.                                                                   *)
LEMMA AnnounceChannels ==
  ASSUME FieldsType, ObjectsInv, BoxInv, ChannelsInv, NEW n \in NFs, NEW c \in ChannelKinds,
         middleboxConnected(<<n, c>>)
  PROVE  ChannelsInv' /\ announced' \in [NFs -> Nat]
<1> DEFINE l == IF InSlots(box[<<n, c>>]) THEN "idle" ELSE "add"
<1>0. /\ \A k \in NFs : Connected(k)' = Connected(k)
      /\ UNCHANGED <<nf, syns>> /\ pc[<<n, c>>] = "connected"
      /\ pc' = [pc EXCEPT ![<<n, c>>] = l] /\ l \in {"idle", "add"}
  BY QuietTable DEF middleboxConnected, Goto, nfVars, FieldsType
<1> HIDE DEF l
<1>1. /\ pc'[<<n, c>>] \in {"idle", "add"}
      /\ \A k \in NFs, d \in ChannelKinds : k # n \/ d # c => pc'[<<k, d>>] = pc[<<k, d>>]
  BY <1>0, OtherThreads DEF FieldsType
<1>2. objects[box[<<n, c>>]].nf = n
  BY <1>0, SwitchApart DEF BoxInv, ObjectsInv
<1>3. /\ announced' \in [NFs -> Nat] /\ announced'[n] = announced[n] + 1
      /\ \A k \in NFs : k # n => announced'[k] = announced[k]
  BY <1>2 DEF middleboxConnected, FieldsType, ThreadsType
<1>4. ASSUME NEW m \in NFs
      PROVE  ChannelInv(m)'
  <2>1. CASE m # n
    BY <1>0, <1>1, <1>3, <2>1, ChannelKept DEF ChannelsInv
  <2>2. CASE m = n
    <3>1. ChannelInv(n) /\ announced'[n] = 1 /\ Connected(n) = ChannelKinds
      BY <1>0, <1>3 DEF ChannelsInv, ChannelInv
    <3>2. QED
      BY <1>0, <1>1, <2>2, <3>1 DEF ChannelInv, Fresh, ChannelKinds
  <2>3. QED
    BY <2>1, <2>2
<1>5. QED
  BY <1>3, <1>4 DEF ChannelsInv

(* A thread that has added its object returns.                             *)
LEMMA AddChannels ==
  ASSUME FieldsType, ObjectsInv, ChannelsInv, NEW t \in Threads, addMiddlebox(t)
  PROVE  ChannelsInv'
<1> SUFFICES ASSUME NEW m \in NFs
             PROVE  ChannelInv(m)'
  BY DEF ChannelsInv
<1>0. /\ Connected(m)' = Connected(m) /\ UNCHANGED <<nf, syns, announced>> /\ pc[t] = "add"
      /\ pc' = [pc EXCEPT ![t] = "idle"]
  BY QuietTable DEF addMiddlebox, Goto, nfVars, FieldsType
<1>1. ASSUME NEW c \in ChannelKinds
      PROVE  /\ <<m, c>> = t => pc[<<m, c>>] = "add" /\ pc'[<<m, c>>] = "idle"
             /\ <<m, c>> # t => pc'[<<m, c>>] = pc[<<m, c>>]
  BY <1>0, SwitchApart DEF FieldsType, ThreadsType
<1>2. QED
  BY <1>0, <1>1 DEF ChannelsInv, ChannelInv, Fresh, ChannelKinds

(* A step of the switch's thread moves no thread of a channel.             *)
LEMMA SwitchChannels ==
  ASSUME FieldsType, ChannelsInv, \A m \in NFs : Connected(m)' = Connected(m),
         UNCHANGED <<nf, syns, announced>>, NEW l,
         pc' = pc \/ pc' = [pc EXCEPT ![Switch] = l]
  PROVE  ChannelsInv'
<1>1. \A m \in NFs, c \in ChannelKinds : pc'[<<m, c>>] = pc[<<m, c>>]
  BY SwitchApart DEF FieldsType, ThreadsType
<1>2. QED
  BY <1>1, ChannelKept DEF ChannelsInv

-----------------------------------------------------------------------------
(* The application. *)

(* Counting the positions of a sequence.                                   *)
LEMMA Positions ==
  ASSUME NEW k \in Nat
  PROVE  IsFiniteSet(1 .. k) /\ Cardinality(1 .. k) = k
<1>1. IsFiniteSet(1 .. k) /\ Cardinality(1 .. k) = IF 1 > k THEN 0 ELSE k - 1 + 1
  BY FS_Interval
<1>2. QED
  BY <1>1

(* There are no more objects than network functions.                       *)
LEMMA ObjectsBound ==
  ASSUME TableType, ObjectsInv
  PROVE  /\ Len(objects) \in Nat /\ Cardinality(NFs) \in Nat
         /\ Len(objects) <= Cardinality(NFs)
<1> DEFINE I == 1 .. Len(objects)
           f == [i \in I |-> objects[i].nf]
<1>1. Len(objects) \in Nat /\ IsFiniteSet(NFs) /\ Cardinality(NFs) \in Nat
  BY LenProperties, RegistryAssumption, FS_CardinalityType DEF TableType
<1>2. IsFiniteSet(I) /\ Cardinality(I) = Len(objects)
  BY <1>1, Positions
<1>3. \A i \in I : objects[i] \in Object
  BY ElementOfSeq DEF TableType
<1>4. f \in [I -> NFs]
  BY <1>3 DEF Object
<1>5. \A i, j \in I : f[i] = f[j] => i = j
  BY DEF ObjectsInv
<1> HIDE DEF I, f
<1>6. ~(Cardinality(NFs) < Cardinality(I))
  BY <1>1, <1>2, <1>4, <1>5, FS_PigeonHole
<1>7. QED
  BY <1>1, <1>2, <1>6

(* An object that is not in the slots leaves fewer slots taken than there  *)
(* are objects.                                                            *)
LEMMA SlotsBound ==
  ASSUME ApplicationType, TableType, SlotsInv, NEW b \in 1 .. Len(objects), ~InSlots(b)
  PROVE  Len(slots) \in Nat /\ Len(slots) < Len(objects)
<1> DEFINE I == 1 .. Len(slots) + 1
           J == 1 .. Len(objects)
           f == [i \in I |-> IF i = Len(slots) + 1 THEN b ELSE slots[i]]
<1>1. Len(slots) \in Nat /\ DOMAIN slots = 1 .. Len(slots) /\ Len(objects) \in Nat
  BY LenProperties DEF ApplicationType, TableType
<1>2. /\ IsFiniteSet(I) /\ Cardinality(I) = Len(slots) + 1
      /\ IsFiniteSet(J) /\ Cardinality(J) = Len(objects)
  <2>1. Len(slots) + 1 \in Nat
    BY <1>1
  <2>2. QED
    BY <1>1, <2>1, Positions
<1>3. f \in [I -> J]
  BY <1>1 DEF SlotsInv
<1>4. \A i, j \in I : f[i] = f[j] => i = j
  BY <1>1 DEF SlotsInv, InSlots
<1> HIDE DEF I, J, f
<1>5. ~(Cardinality(J) < Cardinality(I))
  BY <1>1, <1>2, <1>3, <1>4, FS_PigeonHole
<1>6. QED
  BY <1>1, <1>2, <1>5

(* addMiddlebox: a new object takes the next slot, the last one starts the *)
(* application.                                                            *)
LEMMA AddSlots ==
  ASSUME FieldsType, ObjectsInv, BoxInv, SlotsInv, TasksInv, NEW t \in Threads, addMiddlebox(t)
  PROVE  ApplicationType' /\ SlotsInv' /\ TasksInv'
<1>0. /\ UNCHANGED <<objects, sched, nextOperationId, opId>> /\ box[t] \in 1 .. Len(objects)
      /\ Len(slots) \in Nat /\ box[t] \in Nat /\ numInstances \in Nat \ {0, 1}
  BY LenProperties, RegistryAssumption
     DEF addMiddlebox, Goto, mbVars, schedVars, opVars, BoxInv, FieldsType, ApplicationType, ThreadsType
<1>1. CASE UNCHANGED appVars
  <2>1. UNCHANGED <<slots, tasks, runs>>
    BY <1>1 DEF appVars
  <2>2. QED
    BY <1>0, <2>1 DEF FieldsType, ApplicationType, SlotsInv, TasksInv
<1>2. CASE ~InSlots(box[t])
  <2>1. Len(slots) < Len(objects) /\ Len(objects) \in Nat
        /\ Len(objects) <= Cardinality(NFs) /\ Cardinality(NFs) \in Nat
    BY <1>0, <1>2, SlotsBound, ObjectsBound DEF FieldsType
  <2>2. slots' = (IF Len(slots) < numInstances THEN Append(slots, box[t]) ELSE slots)
        /\ (IF Len(slots') = numInstances
              THEN tasks' = [tasks EXCEPT ![1] = @ + 1] /\ runs' = runs + 1
              ELSE UNCHANGED <<tasks, runs>>)
    BY <1>2 DEF addMiddlebox, Known, Schedule
  <2>3. CASE Len(slots) < numInstances
    <3>1. /\ slots' \in Seq(Nat) /\ Len(slots') = Len(slots) + 1 /\ slots'[Len(slots) + 1] = box[t]
          /\ \A i \in 1 .. Len(slots) : slots'[i] = slots[i]
      BY <1>0, <2>2, <2>3, AppendProperties DEF FieldsType, ApplicationType
    <3>2. \A i \in 1 .. Len(slots) : slots[i] # box[t]
      BY <1>2, LenProperties DEF InSlots, FieldsType, ApplicationType
    <3>3. runs = 0
      BY <2>3 DEF SlotsInv
    <3>4. /\ Len(slots') <= numInstances
          /\ \A i \in 1 .. Len(slots') : slots'[i] \in 1 .. Len(objects')
          /\ \A i, j \in 1 .. Len(slots') : slots'[i] = slots'[j] => i = j
      <4>1. Len(slots') <= numInstances
        BY <1>0, <2>3, <3>1
      <4>2. \A i \in 1 .. Len(slots') : slots'[i] \in 1 .. Len(objects')
        BY <1>0, <3>1 DEF SlotsInv
      <4>3. \A i, j \in 1 .. Len(slots') : slots'[i] = slots'[j] => i = j
        BY <1>0, <3>1, <3>2 DEF SlotsInv
      <4>4. QED
        BY <4>1, <4>2, <4>3
    <3>5. CASE Len(slots') = numInstances
      <4>1. tasks' = [tasks EXCEPT ![1] = @ + 1] /\ runs' = 1
        BY <2>2, <3>3, <3>5
      <4>2. tasks' \in [Steps -> Nat] /\ tasks'[1] = tasks[1] + 1
            /\ \A s \in {2, 3, 4} : tasks'[s] = tasks[s]
        BY <4>1 DEF FieldsType, ApplicationType, Steps
      <4>3. TasksInv'
        BY <1>0, <3>3, <4>1, <4>2, SMTT(30) DEF TasksInv, Scheduled, FieldsType, ApplicationType, Steps
      <4>4. QED
        BY <1>0, <3>1, <3>4, <3>5, <4>1, <4>2, <4>3 DEF SlotsInv, FieldsType, ApplicationType
    <3>6. CASE Len(slots') # numInstances
      <4>1. UNCHANGED <<tasks, runs>>
        BY <2>2, <3>6
      <4>2. QED
        BY <1>0, <3>1, <3>3, <3>4, <4>1 DEF SlotsInv, TasksInv, FieldsType, ApplicationType
    <3>7. QED
      BY <3>5, <3>6
  <2>4. CASE ~(Len(slots) < numInstances)
    <3>1. slots' = slots /\ Len(slots) = numInstances
      BY <1>0, <2>2, <2>4 DEF SlotsInv
    <3>2. ~(Cardinality(NFs) <= numInstances)
      BY <1>0, <2>1, <3>1
    <3>3. tasks' = [tasks EXCEPT ![1] = @ + 1] /\ runs' = runs + 1
      BY <2>2, <3>1
    <3>4. tasks' \in [Steps -> Nat] /\ tasks'[1] = tasks[1] + 1
          /\ \A s \in {2, 3, 4} : tasks'[s] = tasks[s]
      BY <3>3 DEF FieldsType, ApplicationType, Steps
    <3>5. TasksInv'
      <4>1. \A s \in Steps : tasks[s] \in Nat
        BY DEF FieldsType, ApplicationType
      <4>2. tasks[1] \in Nat /\ tasks[2] \in Nat /\ tasks[3] \in Nat /\ tasks[4] \in Nat /\ runs \in Nat
        BY <4>1 DEF Steps, FieldsType, ApplicationType
      <4>3. /\ tasks'[1] = tasks[1] + 1 /\ tasks'[2] = tasks[2] /\ tasks'[3] = tasks[3]
            /\ tasks'[4] = tasks[4] /\ runs' = runs + 1 /\ sched' = sched
        BY <1>0, <3>3, <3>4
      <4>4. Scheduled(tasks') = Scheduled(tasks) + 1 /\ Scheduled(tasks) \in Nat
        BY <4>2, <4>3 DEF Scheduled
      <4>5. QED
        BY <4>2, <4>3, <4>4 DEF TasksInv
    <3>6. QED
      BY <1>0, <3>1, <3>2, <3>3, <3>4, <3>5 DEF SlotsInv, FieldsType, ApplicationType
  <2>5. QED
    BY <2>3, <2>4
<1>3. QED
  BY <1>1, <1>2 DEF addMiddlebox, Known

(* Running a step, with and without scheduling the next one.               *)
LEMMA RunSteps ==
  ASSUME ApplicationType, NEW s \in Steps, tasks[s] > 0
  PROVE  /\ Scheduled(tasks) \in Nat
         /\ Run(s) \in [Steps -> Nat]
         /\ Scheduled(Run(s)) \in Nat /\ Scheduled(Run(s)) <= Scheduled(tasks)
         /\ s # 4 /\ RunAndSchedule(s) =>
              tasks' \in [Steps -> Nat] /\ Scheduled(tasks') = Scheduled(tasks)
<1>1. /\ Run(s) \in [Steps -> Nat] /\ Run(s)[s] = tasks[s] - 1
      /\ \A r \in Steps : r # s => Run(s)[r] = tasks[r]
  BY DEF ApplicationType, Steps, Run
<1>2. \A r \in Steps : tasks[r] \in Nat
  BY DEF ApplicationType
<1>3. ASSUME s # 4, RunAndSchedule(s)
      PROVE  /\ tasks' \in [Steps -> Nat] /\ tasks'[s] = tasks[s] - 1
             /\ tasks'[s + 1] = tasks[s + 1] + 1
             /\ \A r \in Steps : r # s /\ r # s + 1 => tasks'[r] = tasks[r]
  <2>1. s + 1 \in Steps /\ s + 1 # s
    BY <1>3 DEF Steps
  <2>2. QED
    BY <1>1, <1>2, <1>3, <2>1 DEF RunAndSchedule
<1>4. s = 1 \/ s = 2 \/ s = 3 \/ s = 4
  BY DEF Steps
<1>5. 1 \in Steps /\ 2 \in Steps /\ 3 \in Steps /\ 4 \in Steps
  BY DEF Steps
<1>6. QED
  BY <1>1, <1>2, <1>3, <1>4, <1>5 DEF Scheduled

(* A step of the scheduler thread runs a step of the application, and may  *)
(* schedule the next.                                                      *)
LEMMA SchedulerTasks ==
  ASSUME FieldsType, TasksInv, Scheduler
  PROVE  ApplicationType' /\ TasksInv' /\ UNCHANGED <<slots, runs>>
<1> USE DEF FieldsType
<1>1. CASE initialRuleSetup
  <2>1. /\ sched = "idle" /\ tasks[1] > 0 /\ UNCHANGED <<slots, runs, sched, opId, nextOperationId>>
        /\ RunAndSchedule(1) \/ tasks' = Run(1)
    BY <1>1 DEF initialRuleSetup, opVars
  <2>2. 1 \in Steps
    BY DEF Steps
  <2>3. QED
    BY <2>1, <2>2, RunSteps DEF ApplicationType, TasksInv
<1>2. CASE initiateOperation
  BY <1>2 DEF initiateOperation, ApplicationType, TasksInv, appVars
<1>3. CASE move
  BY <1>3 DEF move, putOperation, ApplicationType, TasksInv, appVars
<1>4. CASE execute
  <2>1. /\ UNCHANGED <<slots, runs, nextOperationId, opId>>
        /\ sched = "execute" /\ sched' = "idle"
        /\ RunAndSchedule(2) \/ tasks' = Run(2)
    BY <1>4 DEF execute
  <2>2. 2 \in Steps /\ tasks[2] > 0
    BY <2>1 DEF Steps, TasksInv
  <2>3. QED
    BY <2>1, <2>2, RunSteps DEF ApplicationType, TasksInv
<1>5. CASE \E s \in Steps : stopTrace(s)
  <2>1. PICK s \in Steps : stopTrace(s)
    BY <1>5
  <2>2. /\ UNCHANGED <<slots, runs, nextOperationId, opId, sched>> /\ sched = "idle" /\ tasks[s] > 0
        /\ (s # 4 /\ RunAndSchedule(s)) \/ tasks' = Run(s)
    BY <2>1 DEF stopTrace, schedVars, opVars
  <2>3. QED
    BY <2>2, RunSteps DEF ApplicationType, TasksInv
<1>6. QED
  BY <1>1, <1>2, <1>3, <1>4, <1>5 DEF Scheduler

(* More objects leave the slots as they are.                               *)
LEMMA QuietSlots ==
  ASSUME TableKept, ApplicationType, SlotsInv, UNCHANGED <<slots, runs>>
  PROVE  SlotsInv'
BY LenProperties DEF SlotsInv, TableKept, ApplicationType

-----------------------------------------------------------------------------
(* The operation table. *)

(* A step of the scheduler thread.                                         *)
LEMMA SchedulerOperations ==
  ASSUME FieldsType, SlotsInv, TasksInv, OperationsInv, Scheduler
  PROVE  OperationsInv'
<1>1. CASE initialRuleSetup \/ \E s \in Steps : stopTrace(s)
  BY <1>1 DEF initialRuleSetup, stopTrace, opVars, schedVars, OperationsInv
<1>2. CASE initiateOperation
  <2>1. /\ UNCHANGED <<operations, requests, replies, unknown>> /\ sched' = "put"
        /\ opId' = nextOperationId /\ nextOperationId' = nextOperationId + 1
    BY <1>2 DEF initiateOperation
  <2>2. nextOperationId \in Nat \ {0}
    BY DEF FieldsType, ApplicationType
  <2>3. QED
    BY <2>1, <2>2 DEF OperationsInv
<1>3. CASE move
  <2>1. /\ UNCHANGED <<requests, replies, unknown, opId, nextOperationId>>
        /\ sched = "put" /\ sched' = "execute" /\ operations' = operations \cup {opId}
    BY <1>3 DEF move, putOperation
  <2>2. QED
    BY <2>1 DEF OperationsInv
<1>4. CASE execute
  <2>1. /\ UNCHANGED <<operations, replies, unknown, opId, nextOperationId>>
        /\ sched = "execute" /\ sched' = "idle"
        /\ \/ requests' = requests \cup {<<objects[slots[1]].nf, opId>>}
           \/ UNCHANGED requests
    BY <1>4 DEF execute
  <2>2. QED
    BY <2>1 DEF OperationsInv
<1>5. QED
  BY <1>1, <1>2, <1>3, <1>4 DEF Scheduler

(* A step of a network function or of the manager with an operation's id.  *)
LEMMA ReplyOperations ==
  ASSUME OperationsInv, Operations, nextOperationId \in Nat
  PROVE  OperationsInv'
<1>1. PICK n \in NFs, id \in 1 .. nextOperationId : answer(n, id) \/ receiveReply(n, id)
  BY DEF Operations
<1>2. id \in Nat
  BY <1>1
<1>3. CASE answer(n, id)
  <2>1. /\ UNCHANGED <<operations, nextOperationId, unknown, sched, opId>>
        /\ <<n, id>> \in requests
        /\ requests' = requests \ {<<n, id>>} /\ replies' = replies \cup {<<n, id>>}
    BY <1>3 DEF answer, schedVars
  <2>2. QED
    BY <1>2, <2>1 DEF OperationsInv
<1>4. CASE receiveReply(n, id)
  <2>1. /\ UNCHANGED <<operations, nextOperationId, requests, sched, opId>>
        /\ <<n, id>> \in replies /\ replies' = replies \ {<<n, id>>}
    BY <1>4 DEF receiveReply, schedVars
  <2>2. id \in operations
    BY <1>2, <2>1 DEF OperationsInv
  <2>3. UNCHANGED unknown
    BY <1>4, <2>2 DEF receiveReply
  <2>4. QED
    BY <2>1, <2>3 DEF OperationsInv
<1>5. QED
  BY <1>1, <1>3, <1>4

-----------------------------------------------------------------------------
(* The invariant holds at the start and after every step. *)

(* Nobody is registered at first.                                          *)
LEMMA RegistryInit ==
  Init => RegistryInv
<1> SUFFICES ASSUME Init
             PROVE  RegistryInv
  OBVIOUS
<1>1. objects = <<>> /\ objects \in Seq(Object) /\ Len(objects) = 0
      /\ slots = <<>> /\ slots \in Seq(Nat) /\ Len(slots) = 0
  BY EmptySeq DEF Init
<1>2. FieldsType
  BY <1>1 DEF Init, FieldsType, ProcessType, TableType, ThreadsType, ApplicationType, Labels
<1>3. ObjectsInv /\ BoxInv
  BY <1>1, SwitchApart DEF Init, ObjectsInv, BoxInv
<1>4. ASSUME NEW n \in NFs
      PROVE  ChannelInv(n)
  <2>1. /\ nf[n] = "state_init" /\ syns = {} /\ Connected(n) = {} /\ announced[n] = 0
        /\ \A c \in ChannelKinds : pc[<<n, c>>] = "idle"
    BY SwitchApart DEF Init, Connected
  <2>2. QED
    BY <2>1 DEF ChannelInv, Fresh, ChannelKinds
<1>5. SlotsInv /\ TasksInv /\ OperationsInv
  BY <1>1, RegistryAssumption DEF Init, SlotsInv, TasksInv, Scheduled, OperationsInv, Steps
<1>6. QED
  BY <1>2, <1>3, <1>4, <1>5 DEF RegistryInv, ChannelsInv

(* A step of a process that sends a SYN or a frame, loses one, or stops.   *)
LEMMA ProcessStep ==
  ASSUME RegistryInv, NEW n \in NFs, Start(n) \/ discovery_send(n) \/ loseFrame(n) \/ stop(n)
  PROVE  RegistryInv'
<1> USE DEF RegistryInv
<1>1. UNCHANGED <<mbVars, opVars, announced, pc, box, appVars, schedVars>>
  BY DEF Start, state_init, events_init, discovery_send, loseFrame, stop
<1>2. ProcessType'
  <2>1. "state" \in ChannelKinds /\ "event" \in ChannelKinds
    BY DEF ChannelKinds
  <2>2. QED
    BY <2>1 DEF Start, state_init, events_init, discovery_send, loseFrame, stop, FieldsType, ProcessType,
       Channels
<1>3. TableKept /\ \A m \in NFs : Connected(m)' = Connected(m)
  BY <1>1, QuietTable DEF FieldsType
<1>4. BoxInv' /\ ThreadsType'
  BY <1>1, <1>3, QuietBox DEF FieldsType, ThreadsType
<1>5. ChannelsInv'
  <2>1. CASE Start(n) \/ stop(n)
    BY <1>3, <2>1, StartChannels
  <2>2. CASE discovery_send(n) \/ loseFrame(n)
    <3>1. UNCHANGED <<nf, syns, announced, pc>>
      BY <2>2 DEF discovery_send, loseFrame
    <3>2. QED
      BY <1>3, <3>1, SwitchChannels
  <2>3. QED
    BY <2>1, <2>2
<1>6. ApplicationType' /\ SlotsInv' /\ TasksInv' /\ OperationsInv'
  <2>1. UNCHANGED <<slots, tasks, runs, sched, opId, nextOperationId, operations, requests, replies,
                    unknown>>
    BY <1>1 DEF appVars, schedVars, opVars
  <2>2. QED
    BY <1>3, <2>1, QuietSlots DEF FieldsType, ApplicationType, TasksInv, OperationsInv
<1>7. QED
  BY <1>2, <1>3, <1>4, <1>5, <1>6 DEF FieldsType, TableKept, TableType

(* A thread of a channel or of the switch that registers a network         *)
(* function: the table, the threads and the channels.                      *)
LEMMA RegisterTable ==
  ASSUME RegistryInv,
         \/ \E n \in NFs : middleboxDiscovered(n) \/ \E c \in ChannelKinds : Channel(n, c)
         \/ Register
  PROVE  TableKept /\ ProcessType' /\ ThreadsType' /\ BoxInv' /\ ChannelsInv'
<1> USE DEF RegistryInv, FieldsType
<1>0. \A l \in {"idle", "connect", "connected", "located", "add"} : l \in Labels
  BY DEF Labels
<1>1. ASSUME NEW n \in NFs, NEW c \in ChannelKinds, receiveSyn(n, c)
      PROVE  TableKept /\ ProcessType' /\ ThreadsType' /\ BoxInv' /\ ChannelsInv'
  <2>1. TableKept /\ middleboxes'[n] = Obtained(n) /\ Obtained(n) \in 1 .. Len(objects')
        /\ Obtained(n) \in 0 .. Len(objects') /\ Obtained(n) # 0
    BY <1>1, SynTable DEF TableKept
  <2>2. /\ pc' = [pc EXCEPT ![<<n, c>>] = "connect"] /\ box' = [box EXCEPT ![<<n, c>>] = Obtained(n)]
        /\ UNCHANGED <<nf, frames, announced>> /\ syns' \subseteq syns
    BY <1>1 DEF receiveSyn, obtainMiddlebox
  <2>3. <<n, c>> \in Threads /\ "connect" \in Labels
        /\ \A m \in NFs, d \in ChannelKinds : <<n, c>> = <<m, d>> => Obtained(n) = middleboxes'[m]
    BY <1>0, <2>1, SwitchApart
  <2>4. BoxInv' /\ pc' \in [Threads -> Labels] /\ box' \in [Threads -> Nat]
    BY <2>1, <2>2, <2>3, BoxKept, Zenon
  <2>5. ChannelsInv'
    BY <1>1, SynChannels
  <2>6. QED
    BY <2>1, <2>2, <2>4, <2>5 DEF ProcessType, ThreadsType
<1>2. ASSUME NEW n \in NFs, NEW c \in ChannelKinds, channelConnected(n, c)
      PROVE  TableKept /\ ProcessType' /\ ThreadsType' /\ BoxInv' /\ ChannelsInv'
  <2>1. TableKept /\ UNCHANGED middleboxes
    BY <1>2, ConnectTable
  <2> DEFINE l == IF Both(box[<<n, c>>], c) THEN "connected" ELSE "idle"
  <2>2. Goto(<<n, c>>, "connect", l) /\ UNCHANGED <<nfVars, announced>>
    BY <1>2 DEF channelConnected
  <2>3. l \in Labels /\ "connect" \in Labels \ {"idle"} /\ <<n, c>> \in Threads
    BY <1>0, SwitchApart
  <2> HIDE DEF l
  <2>4. BoxInv' /\ pc' \in [Threads -> Labels] /\ box' \in [Threads -> Nat]
    BY <2>1, <2>2, <2>3, GotoKeepsBox
  <2>5. ChannelsInv'
    BY <1>2, ConnectChannels
  <2>6. QED
    BY <2>1, <2>2, <2>4, <2>5 DEF ProcessType, ThreadsType, nfVars
<1>3. ASSUME NEW n \in NFs, NEW c \in ChannelKinds, middleboxConnected(<<n, c>>)
      PROVE  TableKept /\ ProcessType' /\ ThreadsType' /\ BoxInv' /\ ChannelsInv'
  <2> DEFINE l == IF InSlots(box[<<n, c>>]) THEN "idle" ELSE "add"
  <2>1. Goto(<<n, c>>, "connected", l) /\ UNCHANGED <<nfVars, mbVars>>
    BY <1>3 DEF middleboxConnected
  <2>2. TableKept /\ UNCHANGED middleboxes
    BY <2>1, QuietTable DEF mbVars
  <2>3. l \in Labels /\ "connected" \in Labels \ {"idle"} /\ <<n, c>> \in Threads
    BY <1>0, SwitchApart
  <2> HIDE DEF l
  <2>4. BoxInv' /\ pc' \in [Threads -> Labels] /\ box' \in [Threads -> Nat]
    BY <2>1, <2>2, <2>3, GotoKeepsBox
  <2>5. ChannelsInv' /\ announced' \in [NFs -> Nat]
    BY <1>3, AnnounceChannels
  <2>6. QED
    BY <2>1, <2>2, <2>4, <2>5 DEF ProcessType, ThreadsType, nfVars
<1>4. ASSUME NEW t \in Threads, addMiddlebox(t)
      PROVE  TableKept /\ ProcessType' /\ ThreadsType' /\ BoxInv' /\ ChannelsInv'
  <2>1. Goto(t, "add", "idle") /\ UNCHANGED <<nfVars, mbVars, announced>>
    BY <1>4 DEF addMiddlebox
  <2>2. TableKept /\ UNCHANGED middleboxes
    BY <2>1, QuietTable DEF mbVars
  <2>3. "idle" \in Labels /\ "add" \in Labels \ {"idle"}
    BY <1>0
  <2>4. BoxInv' /\ pc' \in [Threads -> Labels] /\ box' \in [Threads -> Nat]
    BY <2>1, <2>2, <2>3, GotoKeepsBox
  <2>5. ChannelsInv'
    BY <1>4, AddChannels
  <2>6. QED
    BY <2>1, <2>2, <2>4, <2>5 DEF ProcessType, ThreadsType, nfVars
<1>5. ASSUME NEW n \in NFs, middleboxDiscovered(n)
      PROVE  TableKept /\ ProcessType' /\ ThreadsType' /\ BoxInv' /\ ChannelsInv'
  <2>1. TableKept /\ \A m \in NFs : Connected(m)' = Connected(m)
    BY <1>5, DiscoveredTable
  <2>2. UNCHANGED <<nf, syns, announced>> /\ frames' \subseteq frames
    BY <1>5 DEF middleboxDiscovered
  <2>3. CASE UNCHANGED <<pc, box>>
    <3>1. BoxInv' /\ pc' \in [Threads -> Labels] /\ box' \in [Threads -> Nat]
      BY <2>1, <2>3, QuietBox
    <3>2. ChannelsInv'
      BY <2>1, <2>2, <2>3, SwitchChannels
    <3>3. QED
      BY <2>1, <2>2, <3>1, <3>2 DEF ProcessType, ThreadsType
  <2>4. CASE /\ pc' = [pc EXCEPT ![Switch] = "located"]
             /\ box' = [box EXCEPT ![Switch] = Obtained(n)]
             /\ Obtained(n) \in 1 .. Len(objects') /\ Obtained(n) \in Nat \ {0}
    <3>1. Obtained(n) \in 0 .. Len(objects') /\ Obtained(n) # 0 /\ Switch \in Threads
          /\ "located" \in Labels
          /\ \A m \in NFs, d \in ChannelKinds :
               Switch = <<m, d>> /\ "located" # "idle" => Obtained(n) = middleboxes'[m]
      BY <1>0, <2>1, <2>4, SwitchApart DEF TableKept
    <3>2. BoxInv' /\ pc' \in [Threads -> Labels] /\ box' \in [Threads -> Nat]
      <4> DEFINE b == Obtained(n)
                 l == "located"
      <4>1. /\ b \in 0 .. Len(objects') /\ Switch \in Threads /\ l \in Labels /\ (l # "idle" => b # 0)
            /\ pc' = [pc EXCEPT ![Switch] = l] /\ box' = [box EXCEPT ![Switch] = b]
            /\ \A m \in NFs, d \in ChannelKinds : Switch = <<m, d>> /\ l # "idle" => b = middleboxes'[m]
        BY <2>4, <3>1
      <4> HIDE DEF b, l
      <4>2. QED
        BY <2>1, <4>1, BoxKept, Zenon
    <3>3. ChannelsInv'
      BY <2>1, <2>2, <2>4, SwitchChannels
    <3>4. QED
      BY <2>1, <2>2, <3>2, <3>3 DEF ProcessType, ThreadsType
  <2>5. QED
    BY <1>5, <2>3, <2>4, DiscoveredTable
<1>6. ASSUME middleboxLocationUpdated
      PROVE  TableKept /\ ProcessType' /\ ThreadsType' /\ BoxInv' /\ ChannelsInv'
  <2> DEFINE l == IF InSlots(box[Switch]) THEN "idle" ELSE "add"
  <2>1. Goto(Switch, "located", l) /\ UNCHANGED <<nfVars, mbVars, announced>>
    BY <1>6 DEF middleboxLocationUpdated
  <2>2. TableKept /\ UNCHANGED middleboxes /\ \A m \in NFs : Connected(m)' = Connected(m)
    BY <2>1, QuietTable DEF mbVars
  <2>3. l \in Labels /\ "located" \in Labels \ {"idle"} /\ Switch \in Threads
    BY <1>0, SwitchApart
  <2> HIDE DEF l
  <2>4. BoxInv' /\ pc' \in [Threads -> Labels] /\ box' \in [Threads -> Nat]
    BY <2>1, <2>2, <2>3, GotoKeepsBox
  <2>5. ChannelsInv'
    BY <2>1, <2>2, SwitchChannels DEF nfVars, Goto
  <2>6. QED
    BY <2>1, <2>2, <2>4, <2>5 DEF ProcessType, ThreadsType, nfVars
<1>7. \A n \in NFs, c \in ChannelKinds : <<n, c>> \in Threads
  BY SwitchApart
<1>8. Switch \in Threads
  BY SwitchApart
<1>9. QED
  BY <1>1, <1>2, <1>3, <1>4, <1>5, <1>6, <1>7, <1>8 DEF Channel, Register

(* The invariant holds after every step of the registration.               *)
LEMMA RegisterStep ==
  ASSUME RegistryInv,
         \/ \E n \in NFs : middleboxDiscovered(n) \/ \E c \in ChannelKinds : Channel(n, c)
         \/ Register
  PROVE  RegistryInv'
<1> USE DEF RegistryInv, FieldsType
<1>1. TableKept /\ ProcessType' /\ ThreadsType' /\ BoxInv' /\ ChannelsInv'
  BY RegisterTable
<1>2. ApplicationType' /\ SlotsInv' /\ TasksInv'
  <2>1. CASE \E t \in Threads : addMiddlebox(t)
    BY <2>1, AddSlots
  <2>2. CASE UNCHANGED <<slots, tasks, runs, sched, opId, nextOperationId>>
    BY <1>1, <2>2, QuietSlots DEF ApplicationType, TasksInv
  <2>3. QED
    BY <2>1, <2>2, SwitchApart DEF Channel, Register, receiveSyn, channelConnected, middleboxConnected,
       middleboxDiscovered, middleboxLocationUpdated, appVars, schedVars, opVars
<1>3. UNCHANGED <<operations, nextOperationId, requests, replies, unknown, sched, opId>>
  BY DEF Channel, Register, receiveSyn, channelConnected, middleboxConnected, addMiddlebox,
     middleboxDiscovered, middleboxLocationUpdated, schedVars, opVars
<1>4. OperationsInv'
  BY <1>3 DEF OperationsInv
<1>5. QED
  BY <1>1, <1>2, <1>4 DEF TableKept, TableType

(* The invariant holds after every step of the scheduler and of the        *)
(* operation.                                                              *)
LEMMA ApplicationStep ==
  ASSUME RegistryInv, Scheduler \/ Operations \/ UNCHANGED vars
  PROVE  RegistryInv'
<1> USE DEF RegistryInv, FieldsType
<1>1. UNCHANGED <<nfVars, mbVars, announced, pc, box, slots, runs>>
  BY DEF Scheduler, initialRuleSetup, initiateOperation, move, execute, stopTrace, Operations, answer,
     receiveReply, vars, appVars
<1>2. TableKept /\ \A m \in NFs : Connected(m)' = Connected(m)
  BY <1>1, QuietTable
<1>3. BoxInv' /\ ThreadsType' /\ ProcessType'
  BY <1>1, <1>2, QuietBox DEF ThreadsType, ProcessType, nfVars
<1>4. ChannelsInv'
  BY <1>1, <1>2, SwitchChannels DEF nfVars
<1>5. SlotsInv'
  BY <1>1, <1>2, QuietSlots
<1>6. ApplicationType' /\ TasksInv' /\ OperationsInv'
  <2>1. CASE Scheduler
    BY <2>1, SchedulerTasks, SchedulerOperations
  <2>2. CASE Operations
    <3>1. UNCHANGED <<slots, tasks, runs, sched, opId, nextOperationId>>
      BY <2>2 DEF Operations, answer, receiveReply, appVars, schedVars
    <3>2. OperationsInv'
      BY <2>2, ReplyOperations DEF ApplicationType
    <3>3. QED
      BY <3>1, <3>2 DEF ApplicationType, TasksInv
  <2>3. CASE UNCHANGED vars
    BY <2>3 DEF vars, appVars, schedVars, opVars, ApplicationType, TasksInv, OperationsInv
  <2>4. QED
    BY <2>1, <2>2, <2>3
<1>7. QED
  BY <1>2, <1>3, <1>4, <1>5, <1>6 DEF TableKept, TableType

(* The invariant, by one case for each group of threads.                   *)
LEMMA RegistryInvariant ==
  Spec => []RegistryInv
<1>1. RegistryInv /\ [Next]_vars => RegistryInv'
  BY ProcessStep, RegisterStep, ApplicationStep DEF Next
<1>2. QED
  BY RegistryInit, <1>1, PTL DEF Spec

-----------------------------------------------------------------------------
(* TypeOK, for every set of network functions: there is never an object    *)
(* too many, every thread works on an object that exists, and a task is    *)
(* scheduled for a start of the application only.                          *)
THEOREM TypeCorrect ==
  Spec => []TypeOK
<1>1. RegistryInv => TypeOK
  <2> SUFFICES ASSUME RegistryInv
               PROVE  TypeOK
    OBVIOUS
  <2> USE DEF RegistryInv, FieldsType
  <2>1. Len(objects) \in Nat /\ Cardinality(NFs) \in Nat /\ Len(objects) <= Cardinality(NFs)
        /\ DOMAIN objects = 1 .. Len(objects)
    BY ObjectsBound, LenProperties DEF TableType
  <2>2. middleboxes \in [NFs -> 0 .. Cardinality(NFs)]
    BY <2>1 DEF TableType, ObjectsInv
  <2>3. /\ box \in [Threads -> 0 .. Cardinality(NFs)]
        /\ \A t \in Threads : pc[t] # "idle" => box[t] \in DOMAIN objects
    BY <2>1 DEF ThreadsType, BoxInv
  <2>4. slots \in Seq(DOMAIN objects)
    <3>1. Len(slots) \in Nat /\ slots \in [1 .. Len(slots) -> Nat]
      BY LenProperties DEF ApplicationType
    <3>2. slots \in [1 .. Len(slots) -> DOMAIN objects]
      BY <2>1, <3>1 DEF SlotsInv
    <3>3. QED
      BY <3>1, <3>2, SeqDef
  <2>5. ASSUME NEW s \in Steps
        PROVE  tasks[s] \in 0 .. runs
    <3>1. \A r \in Steps : tasks[r] \in Nat
      BY DEF ApplicationType
    <3>2. tasks[1] \in Nat /\ tasks[2] \in Nat /\ tasks[3] \in Nat /\ tasks[4] \in Nat /\ runs \in Nat
      BY <3>1 DEF Steps, ApplicationType
    <3>3. s = 1 \/ s = 2 \/ s = 3 \/ s = 4
      BY DEF Steps
    <3>4. QED
      BY <3>2, <3>3 DEF TasksInv, Scheduled
  <2>6. QED
    BY <2>2, <2>3, <2>4, <2>5 DEF TypeOK, ProcessType, TableType, Object, SlotsInv, OperationsInv
<1>2. QED
  BY <1>1, RegistryInvariant, PTL

(* ConnectedOnce, for every set of network functions: whichever of the two *)
(* threads sets its channel last announces the network function, and only  *)
(* that one does, however frames and the other network functions come in   *)
(* between.                                                                *)
THEOREM AnnouncedExactlyOnce ==
  Spec => []ConnectedOnce
<1>1. RegistryInv => ConnectedOnce
  <2> SUFFICES ASSUME RegistryInv, NEW n \in NFs
               PROVE  /\ announced[n] <= 1
                      /\ announced[n] = 1 => objects[middleboxes[n]].channels = ChannelKinds
                      /\ (/\ nf[n] = "discovery"
                          /\ \A c \in ChannelKinds : <<n, c>> \notin syns /\ pc[<<n, c>>] = "idle")
                           => announced[n] = 1
    BY DEF ConnectedOnce
  <2>1. ChannelInv(n)
    BY DEF RegistryInv, ChannelsInv
  <2>2. announced[n] <= 1
    BY <2>1 DEF ChannelInv
  <2>3. announced[n] = 1 => objects[middleboxes[n]].channels = ChannelKinds
    <3>1. ChannelKinds # {}
      BY DEF ChannelKinds
    <3>2. QED
      BY <2>1, <3>1 DEF ChannelInv, Connected
  <2>4. ASSUME nf[n] = "discovery",
               \A c \in ChannelKinds : <<n, c>> \notin syns /\ pc[<<n, c>>] = "idle"
        PROVE  announced[n] = 1
    <3>1. \A c \in ChannelKinds : c \in Connected(n)
      BY <2>1, <2>4 DEF ChannelInv, Fresh
    <3>2. Connected(n) \subseteq ChannelKinds
      <4>1. middleboxes[n] # 0 => objects[middleboxes[n]] \in Object
        BY ElementOfSeq DEF RegistryInv, FieldsType, TableType, ObjectsInv
      <4>2. QED
        BY <4>1 DEF Connected, Object
    <3>3. Connected(n) = ChannelKinds
      BY <3>1, <3>2
    <3>4. QED
      BY <2>1, <2>4, <3>3 DEF ChannelInv
  <2>5. QED
    BY <2>2, <2>3, <2>4
<1>2. QED
  BY <1>1, RegistryInvariant, PTL

(* StartsOnceOnDifferentInstances, for every number of instances and of    *)
(* network functions: the three threads that may call the application for  *)
(* one network function never make it two instances or two starts.         *)
THEOREM StartsOnce ==
  Spec => []StartsOnceOnDifferentInstances
<1>1. RegistryInv => StartsOnceOnDifferentInstances
  <2> SUFFICES ASSUME RegistryInv
               PROVE  StartsOnceOnDifferentInstances
    OBVIOUS
  <2>1. DOMAIN slots = 1 .. Len(slots)
    BY LenProperties DEF RegistryInv, FieldsType, ApplicationType
  <2>2. ASSUME NEW i \in DOMAIN slots, NEW j \in DOMAIN slots, i # j,
               objects[slots[i]].nf = objects[slots[j]].nf
        PROVE  FALSE
    <3>1. slots[i] \in 1 .. Len(objects) /\ slots[j] \in 1 .. Len(objects) /\ slots[i] # slots[j]
      BY <2>1, <2>2 DEF RegistryInv, SlotsInv
    <3>2. middleboxes[objects[slots[i]].nf] = slots[i] /\ middleboxes[objects[slots[j]].nf] = slots[j]
      BY <3>1 DEF RegistryInv, ObjectsInv
    <3>3. QED
      BY <2>2, <3>1, <3>2
  <2>3. QED
    BY <2>2 DEF StartsOnceOnDifferentInstances, RegistryInv, SlotsInv
<1>2. QED
  BY <1>1, RegistryInvariant, PTL

(* NoUnknownOperation: the table of operations is written before the first *)
(* message with the id leaves, so no answer is thrown away.                *)
THEOREM AnswersAreKnown ==
  Spec => []NoUnknownOperation
<1>1. RegistryInv => NoUnknownOperation
  BY DEF RegistryInv, OperationsInv, NoUnknownOperation
<1>2. QED
  BY <1>1, RegistryInvariant, PTL
=============================================================================
