------------------------------ MODULE Registry ------------------------------
(***************************************************************************)
(* How network functions become known to the controller and a test         *)
(* application starts its operation on them: the start of a network        *)
(* function (shared/SDMBNCore.c, state.c, event.c, discovery.c), the       *)
(* registry and the operation table of core/SdmbnManager.java, and the     *)
(* application apps/testing/TestTimed.java with TestTimedMoveAll.java.     *)
(*                                                                         *)
(* A network function sends a SYN on each of its two connections and a     *)
(* discovery frame through the switch. The controller handles them in the  *)
(* threads of the two connections and of the switch; each of them creates  *)
(* the Middlebox object if it is the first, and calls the application,     *)
(* whose steps run in one scheduler thread.                                *)
(***************************************************************************)
EXTENDS Naturals, Sequences, FiniteSets

CONSTANTS
  NFs,            \* network function processes (host and pid)
  numInstances,   \* the network functions the application waits for
  MaxLost,        \* bound: discovery frames the network loses
  Unreliable      \* bound: network functions that may stop

ASSUME RegistryAssumption ==
  /\ IsFiniteSet(NFs) /\ NFs # {}
  /\ numInstances \in Nat \ {0, 1}
  /\ MaxLost \in Nat /\ Unreliable \subseteq NFs

ChannelKinds == {"state", "event"}
Channels == NFs \X ChannelKinds
Switch   == <<0, "switch">>
Threads  == Channels \cup {Switch}
Steps    == 1 .. 4

VARIABLES
  \* network functions and what they have sent
  nf,             \* how far sdmbn_init has come
  syns,           \* connections with a SYN to be handled
  frames,         \* discovery frames on their way
  requests,       \* gets to a network function, by operation
  replies,        \* its answers
  lost,
  \* the manager
  objects,        \* every Middlebox object: its channels and location
  middleboxes,    \* the object of each network function, 0 if none
  operations,     \* ids in the operation table
  nextOperationId,
  announced,      \* how often middleboxConnected was called for an object
  finished,       \* operations announced to be finished
  unknown,        \* answers thrown away: Unknown operation
  pc, box,        \* threads, and the Middlebox each works on
  \* the application
  slots,          \* its map "mb1", "mb2", ... of Middlebox objects
  tasks,          \* how often each step is scheduled
  sched, opId,    \* the scheduler thread
  rules,          \* the object the initial rules send the traffic to
  runs            \* how often executeStep(0) was called

nfVars  == <<nf, syns, frames, lost>>
mbVars  == <<objects, middleboxes>>
opVars  == <<operations, nextOperationId, requests, replies, finished, unknown>>
appVars == <<slots, tasks, runs>>
schedVars == <<sched, opId, rules>>
vars == <<nfVars, mbVars, opVars, announced, pc, box, appVars, schedVars>>

Init ==
  /\ nf = [n \in NFs |-> "state_init"]
  /\ syns = {} /\ frames = {} /\ requests = {} /\ replies = {}
  /\ lost = 0
  /\ objects = <<>>
  /\ middleboxes = [n \in NFs |-> 0]
  /\ operations = {} /\ nextOperationId = 1
  /\ announced = [n \in NFs |-> 0]
  /\ finished = {} /\ unknown = {}
  /\ pc = [t \in Threads |-> "idle"]
  /\ box = [t \in Threads |-> 0]
  /\ slots = <<>>
  /\ tasks = [s \in Steps |-> 0]
  /\ sched = "idle" /\ opId = 0 /\ rules = 0 /\ runs = 0

(* A thread that has returned holds no object.                             *)
Goto(t, from, to) ==
  /\ pc[t] = from
  /\ pc' = [pc EXCEPT ![t] = to]
  /\ box' = IF to = "idle" THEN [box EXCEPT ![t] = 0] ELSE box

-----------------------------------------------------------------------------
(* A network function. *)

state_init(n) ==
  /\ nf[n] = "state_init"
  /\ nf' = [nf EXCEPT ![n] = "events_init"]
  /\ syns' = syns \cup {<<n, "state">>}
  /\ UNCHANGED <<frames, lost, mbVars, opVars, announced, pc, box, appVars, schedVars>>

events_init(n) ==
  /\ nf[n] = "events_init"
  /\ nf' = [nf EXCEPT ![n] = "discovery"]
  /\ syns' = syns \cup {<<n, "event">>}
  /\ UNCHANGED <<frames, lost, mbVars, opVars, announced, pc, box, appVars, schedVars>>

(* Mutant: the frame is sent once.                                         *)
discovery_send_once(n) ==
  /\ nf[n] = "discovery"
  /\ nf' = [nf EXCEPT ![n] = "up"]
  /\ frames' = frames \cup {n}
  /\ UNCHANGED <<syns, lost, mbVars, opVars, announced, pc, box, appVars, schedVars>>

(* A frame now, and another after DISCOVERY_FREQUENCY seconds.             *)
discovery_send(n) ==
  /\ nf[n] = "discovery" /\ n \notin frames
  /\ frames' = frames \cup {n}
  /\ UNCHANGED <<nf, syns, lost, mbVars, opVars, announced, pc, box, appVars, schedVars>>

(* The Ethernet frame, or the packet-in that carries it, is lost.          *)
loseFrame(n) ==
  /\ n \in frames /\ lost < MaxLost
  /\ frames' = frames \ {n}
  /\ lost' = lost + 1
  /\ UNCHANGED <<nf, syns, mbVars, opVars, announced, pc, box, appVars, schedVars>>

(* A connection cannot be opened, or the process ends. Nothing calls       *)
(* channelDisconnected: the controller does not notice.                    *)
stop(n) ==
  /\ n \in Unreliable /\ nf[n] # "stopped"
  /\ nf' = [nf EXCEPT ![n] = "stopped"]
  /\ UNCHANGED <<syns, frames, lost, mbVars, opVars, announced, pc, box, appVars, schedVars>>

(* The state handler answers a request.                                    *)
answer(n, id) ==
  /\ nf[n] # "stopped"
  /\ <<n, id>> \in requests
  /\ requests' = requests \ {<<n, id>>}
  /\ replies' = replies \cup {<<n, id>>}
  /\ UNCHANGED <<nfVars, mbVars, operations, nextOperationId, finished, unknown, announced, pc,
                 box, appVars, schedVars>>

-----------------------------------------------------------------------------
(* SdmbnManager. *)

NewObject(n) == [nf |-> n, channels |-> {}, located |-> FALSE]

(* obtainMiddlebox, one step under the lock of the table: the number of    *)
(* the object, and the objects there are then.                             *)
(* Mutant: the lookup and the put are not one step.                        *)
Obtained_new(n) == Len(objects) + 1

Obtained(n) == IF middleboxes[n] # 0 THEN middleboxes[n] ELSE Len(objects) + 1
ObjectsWith(n) == IF Obtained(n) > Len(objects) THEN Append(objects, NewObject(n)) ELSE objects

obtainMiddlebox(t, n) ==
  /\ objects' = ObjectsWith(n)
  /\ middleboxes' = [middleboxes EXCEPT ![n] = Obtained(n)]
  /\ box' = [box EXCEPT ![t] = Obtained(n)]

(* processMessage: a SYN; channelConnected up to the lock of the object.   *)
receiveSyn(n, c) ==
  /\ <<n, c>> \in syns
  /\ syns' = syns \ {<<n, c>>}
  /\ pc[<<n, c>>] = "idle" /\ pc' = [pc EXCEPT ![<<n, c>>] = "connect"]
  /\ obtainMiddlebox(<<n, c>>, n)
  /\ UNCHANGED <<nf, frames, lost, opVars, announced, appVars, schedVars>>

(* Mutant: the channels are looked at before this one is set.              *)
Both_before(o, c) == objects[o].channels = ChannelKinds
Both(o, c) == objects[o].channels \cup {c} = ChannelKinds

(* channelConnected, under the lock of the object.                         *)
channelConnected(n, c) ==
  LET t == <<n, c>>
  IN  /\ Goto(t, "connect", IF Both(box[t], c) THEN "connected" ELSE "idle")
      /\ objects' = [objects EXCEPT ![box[t]].channels = @ \cup {c}]
      /\ UNCHANGED <<nfVars, middleboxes, opVars, announced, appVars, schedVars>>

(* MiddleboxDiscovery.receive and middleboxDiscovered. Only the switch     *)
(* thread sets a location: obtaining the object and setting it are one     *)
(* step. A frame from a known location changes nothing.                    *)
middleboxDiscovered(n) ==
  /\ n \in frames
  /\ frames' = frames \ {n}
  /\ pc[Switch] = "idle"
  /\ IF ObjectsWith(n)[Obtained(n)].located
       THEN UNCHANGED <<mbVars, pc, box>>
       ELSE /\ objects' = [ObjectsWith(n) EXCEPT ![Obtained(n)].located = TRUE]
            /\ middleboxes' = [middleboxes EXCEPT ![n] = Obtained(n)]
            /\ pc' = [pc EXCEPT ![Switch] = "located"]
            /\ box' = [box EXCEPT ![Switch] = Obtained(n)]
  /\ UNCHANGED <<nf, syns, lost, opVars, announced, appVars, schedVars>>

(* processMessage: any message with an id.                                 *)
receiveReply(n, id) ==
  /\ <<n, id>> \in replies
  /\ pc[<<n, "state">>] = "idle"
  /\ replies' = replies \ {<<n, id>>}
  /\ IF id \in operations
       THEN finished' = finished \cup {id} /\ UNCHANGED unknown
       ELSE unknown' = unknown \cup {id} /\ UNCHANGED finished
  /\ UNCHANGED <<nfVars, mbVars, operations, nextOperationId, requests, announced, pc, box,
                 appVars, schedVars>>

-----------------------------------------------------------------------------
(* The application. *)

InSlots(o) == \E i \in DOMAIN slots : slots[i] = o

(* middleboxConnected and middleboxLocationUpdated look without a lock.    *)
middleboxConnected(t) ==
  /\ Goto(t, "connected", IF InSlots(box[t]) THEN "idle" ELSE "add")
  /\ announced' = [announced EXCEPT ![objects[box[t]].nf] = @ + 1]
  /\ UNCHANGED <<nfVars, mbVars, opVars, appVars, schedVars>>

middleboxLocationUpdated ==
  /\ Goto(Switch, "located", IF InSlots(box[Switch]) THEN "idle" ELSE "add")
  /\ UNCHANGED <<nfVars, mbVars, opVars, announced, appVars, schedVars>>

Schedule(s) == tasks' = [tasks EXCEPT ![s] = @ + 1]

(* Mutant: not looked up again under the lock.                             *)
Known_unchecked(o) == FALSE
Known(o) == InSlots(o)

(* addMiddlebox. The slots fill in order. An object beyond the last slot   *)
(* is not kept, but the test of the size comes out true for it as well.    *)
addMiddlebox(t) ==
  /\ Goto(t, "add", "idle")
  /\ IF Known(box[t])
       THEN UNCHANGED appVars
       ELSE /\ slots' = IF Len(slots) < numInstances THEN Append(slots, box[t]) ELSE slots
            /\ IF Len(slots') = numInstances
                 THEN Schedule(1) /\ runs' = runs + 1
                 ELSE UNCHANGED <<tasks, runs>>
  /\ UNCHANGED <<nfVars, mbVars, opVars, announced, schedVars>>

Run(s) == [tasks EXCEPT ![s] = @ - 1]
RunAndSchedule(s) == tasks' = [Run(s) EXCEPT ![s + 1] = @ + 1]

(* executeStep(1): initialRuleSetup. Without a switch the task ends with   *)
(* an exception, and no further step is scheduled.                         *)
initialRuleSetup ==
  /\ sched = "idle" /\ tasks[1] > 0
  /\ IF objects[slots[1]].located
       THEN RunAndSchedule(1) /\ rules' = slots[1]
       ELSE tasks' = Run(1) /\ UNCHANGED rules
  /\ UNCHANGED <<nfVars, mbVars, opVars, announced, pc, box, slots, runs, sched, opId>>

(* executeStep(2): initiateOperation calls move, which creates the         *)
(* operation, puts it into the table and executes it.                      *)
initiateOperation ==
  /\ sched = "idle" /\ tasks[2] > 0
  /\ sched' = "put"
  /\ opId' = nextOperationId
  /\ nextOperationId' = nextOperationId + 1
  /\ UNCHANGED <<nfVars, mbVars, operations, requests, replies, finished, unknown, announced, pc,
                 box, appVars, rules>>

(* Mutant: only operations already on their way are entered.               *)
putOperation_late ==
  /\ sched = "put" /\ sched' = "execute"
  /\ operations' = operations \cup {id \in 1 .. opId : \E n \in NFs : <<n, id>> \in requests}

putOperation ==
  /\ sched = "put" /\ sched' = "execute"
  /\ operations' = operations \cup {opId}

move ==
  /\ putOperation
  /\ UNCHANGED <<nfVars, mbVars, nextOperationId, requests, replies, finished, unknown, announced,
                 pc, box, appVars, opId, rules>>

(* execute: the first request to the source. Without a state channel the   *)
(* task ends with an exception.                                            *)
execute ==
  /\ sched = "execute" /\ sched' = "idle"
  /\ LET src == objects[slots[1]]
     IN  IF "state" \in src.channels
           THEN requests' = requests \cup {<<src.nf, opId>>} /\ RunAndSchedule(2)
           ELSE tasks' = Run(2) /\ UNCHANGED requests
  /\ UNCHANGED <<nfVars, mbVars, operations, nextOperationId, replies, finished, unknown, announced,
                 pc, box, slots, runs, opId, rules>>

(* executeStep(3) stops the trace, executeStep(4) does nothing.            *)
stopTrace(s) ==
  /\ sched = "idle" /\ s \in {3, 4} /\ tasks[s] > 0
  /\ IF s = 3 THEN RunAndSchedule(3) ELSE tasks' = Run(4)
  /\ UNCHANGED <<nfVars, mbVars, opVars, announced, pc, box, slots, runs, schedVars>>

-----------------------------------------------------------------------------
Start(n)   == state_init(n) \/ events_init(n)
Channel(n, c) == \/ receiveSyn(n, c)
                 \/ channelConnected(n, c)
                 \/ middleboxConnected(<<n, c>>)
                 \/ addMiddlebox(<<n, c>>)
Register   == middleboxLocationUpdated \/ addMiddlebox(Switch)
Scheduler  == initialRuleSetup \/ initiateOperation \/ move \/ execute \/ \E s \in Steps : stopTrace(s)
Operations == \E n \in NFs, id \in 1 .. nextOperationId : answer(n, id) \/ receiveReply(n, id)

Next ==
  \/ \E n \in NFs :
       \/ Start(n) \/ discovery_send(n) \/ loseFrame(n) \/ stop(n)
       \/ middleboxDiscovered(n)
       \/ \E c \in ChannelKinds : Channel(n, c)
  \/ Register
  \/ Scheduler
  \/ Operations

Spec == Init /\ [][Next]_vars

(* Every thread goes on, and a network function that does not stop keeps   *)
(* sending frames.                                                         *)
Fairness ==
  /\ \A n \in NFs : WF_vars(Start(n)) /\ WF_vars(discovery_send(n)) /\ WF_vars(middleboxDiscovered(n))
  /\ \A n \in NFs, c \in ChannelKinds : WF_vars(Channel(n, c))
  /\ WF_vars(Register) /\ WF_vars(Scheduler) /\ WF_vars(Operations)

FairSpec == Spec /\ Fairness

-----------------------------------------------------------------------------
(* Properties. *)

(* Every object, thread and table has a value of its type.                 *)
TypeOK ==
  /\ nf \in [NFs -> {"state_init", "events_init", "discovery", "stopped"}]
  /\ syns \subseteq Channels /\ frames \subseteq NFs
  /\ objects \in Seq([nf : NFs, channels : SUBSET ChannelKinds, located : BOOLEAN])
  /\ middleboxes \in [NFs -> 0 .. Cardinality(NFs)]
  /\ box \in [Threads -> 0 .. Cardinality(NFs)]
  /\ \A t \in Threads : pc[t] # "idle" => box[t] \in DOMAIN objects
  /\ slots \in Seq(DOMAIN objects) /\ Len(slots) <= numInstances
  /\ \A s \in Steps : tasks[s] \in 0 .. runs
  /\ operations \subseteq 1 .. nextOperationId

(* The instances the application works on are different network functions, *)
(* and its steps are started once, whichever of the three threads of a     *)
(* network function calls it first, unless there are more network          *)
(* functions than it waits for.                                            *)
StartsOnceOnDifferentInstances ==
  /\ \A i, j \in DOMAIN slots : i # j => objects[slots[i]].nf # objects[slots[j]].nf
  /\ Cardinality(NFs) <= numInstances => runs <= 1

(* A network function is announced to be connected exactly once, when both *)
(* of its channels are, although each channel has a thread of its own.     *)
ConnectedOnce ==
  \A n \in NFs :
    /\ announced[n] <= 1
    /\ announced[n] = 1 => objects[middleboxes[n]].channels = ChannelKinds
    /\ (/\ nf[n] = "discovery"
        /\ \A c \in ChannelKinds : <<n, c>> \notin syns /\ pc[<<n, c>>] = "idle")
         => announced[n] = 1

(* No answer meets an operation table without its operation, however fast  *)
(* the network function is.                                                *)
NoUnknownOperation == unknown = {}

FullyConnected(n) ==
  /\ middleboxes[n] # 0
  /\ objects[middleboxes[n]].channels = ChannelKinds /\ objects[middleboxes[n]].located

(* Every network function that does not stop is registered in full, also   *)
(* if discovery frames are lost: the retries make up for them.             *)
EveryoneRegisters == \A n \in NFs : <>(nf[n] = "stopped" \/ FullyConnected(n))
=============================================================================
