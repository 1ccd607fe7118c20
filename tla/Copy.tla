-------------------------------- MODULE Copy --------------------------------
(***************************************************************************)
(* One CopyOperation (operation/CopyOperation.java), or one                *)
(* MoveConfigOperation, which is the same protocol for configuration state *)
(* without the thread pool, between a source and a destination network     *)
(* function (shared/state.c).                                              *)
(*                                                                         *)
(* Two threads of the controller run the handlers concurrently and without *)
(* a lock:                                                                 *)
(*   ss  source state channel        state chunks and get acks             *)
(*   de  destination event channel   put acks                              *)
(* The manager keeps one StateChunk for each hash key; a task of the pool  *)
(* sends whatever message its StateChunk holds when the task runs.         *)
(***************************************************************************)
EXTENDS Naturals, Sequences, FiniteSets, Functions

CONSTANTS
  Perflow, Multiflow, Allflows, Config,   \* state chunks of the source
  CopyScopes,     \* the scopes copies are started with
  HashKeys,       \* the hash keys a source may give to its pooled chunks
  MaxFaults       \* bound: local get and put functions that fail

Kinds  == {"pf", "mf", "af", "cf"}
Chunks == Perflow \cup Multiflow \cup Allflows \cup Config
Pooled == Perflow \cup Multiflow       \* chunks sent by a task of the pool

(* The requests execute sends for a scope, in this order. CONFIG stands    *)
(* for a MoveConfigOperation.                                              *)
Requests ==
  [PERFLOW   |-> <<"pf">>,        MULTIFLOW |-> <<"mf">>,
   ALLFLOWS  |-> <<"af">>,        CONFIG    |-> <<"cf">>,
   PF_MF     |-> <<"pf", "mf">>,  PF_AF     |-> <<"pf", "af">>,
   MF_AF     |-> <<"mf", "af">>,  PF_MF_AF  |-> <<"pf", "mf", "af">>]

ASSUME CopyChunksAssumption ==
  /\ \A s \in {Perflow, Multiflow, Allflows, Config} : IsFiniteSet(s)
  /\ Perflow \cap (Multiflow \cup Allflows \cup Config) = {}
  /\ Multiflow \cap (Allflows \cup Config) = {}
  /\ Allflows \cap Config = {}

ASSUME CopyBoundsAssumption ==
  /\ CopyScopes \subseteq DOMAIN Requests
  /\ HashKeys \subseteq [Pooled -> Nat]
  /\ MaxFaults \in Nat

ChunksOf(k) ==
  CASE k = "pf" -> Perflow [] k = "mf" -> Multiflow [] k = "af" -> Allflows [] k = "cf" -> Config

KindOf(c) ==
  IF c \in Perflow THEN "pf" ELSE IF c \in Multiflow THEN "mf"
  ELSE IF c \in Allflows THEN "af" ELSE "cf"

-----------------------------------------------------------------------------
VARIABLES
  scope,            \* the scope of the operation
  hash,             \* the hash key of each pooled chunk
  \* fields of the operation and of its StateChunks
  acked,            \* getPerflowAcked, getMultiflowAcked, ...
  count,            \* getPerflowCount, ...
  putAcks,          \* putPerflowAcks, ...
  stored,           \* StateChunk.msg, for each chunk the object it shares
  chunkAck,         \* chunks whose put was acknowledged (StateChunk.ack)
  finishes,         \* how often operationFinished was announced
  \* threads of the controller
  pc, ssMsg,
  putTasks,         \* the chunks whose arrival submitted a task
  \* connections
  toSrc, fromSrc, toDst, dstAcks,
  \* network functions
  srcGet, exported, getDone, imported, faults

conf     == <<scope, hash>>
getVars  == <<acked, count>>
putVars  == <<putAcks, chunkAck>>
poolVars == <<stored, putTasks>>
srcVars  == <<srcGet, exported, getDone>>
vars     == <<conf, getVars, putVars, poolVars, finishes, pc, ssMsg, toSrc, fromSrc, toDst,
              dstAcks, srcVars, imported, faults>>

Threads == {"app", "ss", "de"}
Labels  == {"start", "idle", "count", "check"}

StateMsgs  == [type : {"State"}, chunk : Chunks]
GetAckMsgs == [type : {"GetAck"}, kind : Kinds, count : Nat]

ScopeKinds == Range(Requests[scope])
LastKind   == Requests[scope][Len(Requests[scope])]

(* Every field, connection and network function has a value of its type,   *)
(* and the counters stay within what the source has sent.                  *)
TypeOK ==
  /\ scope \in CopyScopes /\ hash \in HashKeys
  /\ acked \in [Kinds -> BOOLEAN]
  /\ count \in [Kinds -> Nat]
  /\ putAcks \in [Kinds -> Nat]
  /\ stored \in [Pooled -> Pooled]
  /\ chunkAck \subseteq Chunks
  /\ finishes \in Nat
  /\ pc \in [Threads -> Labels]
  /\ ssMsg \in GetAckMsgs
  /\ putTasks \subseteq Pooled
  /\ toSrc \in Seq(Kinds)
  /\ fromSrc \in Seq(StateMsgs \cup GetAckMsgs)
  /\ toDst \in Seq(Chunks)
  /\ dstAcks \in Seq(Chunks)
  /\ srcGet \in Kinds \cup {"none"}
  /\ exported \subseteq Chunks
  /\ getDone \subseteq Kinds
  /\ imported \subseteq Chunks
  /\ faults \in 0 .. MaxFaults

Init ==
  /\ scope \in CopyScopes /\ hash \in HashKeys
  /\ acked = [k \in Kinds |-> FALSE]
  /\ count = [k \in Kinds |-> 0]
  /\ putAcks = [k \in Kinds |-> 0]
  /\ stored = [c \in Pooled |-> c]
  /\ chunkAck = {}
  /\ finishes = 0
  /\ pc = [t \in Threads |-> IF t = "app" THEN "start" ELSE "idle"]
  /\ ssMsg = [type |-> "GetAck", kind |-> "pf", count |-> 0]
  /\ putTasks = {}
  /\ toSrc = <<>> /\ fromSrc = <<>> /\ toDst = <<>> /\ dstAcks = <<>>
  /\ srcGet = "none" /\ exported = {} /\ getDone = {}
  /\ imported = {} /\ faults = 0

Goto(t, from, to) ==
  /\ pc[t] = from
  /\ pc' = [pc EXCEPT ![t] = to]

-----------------------------------------------------------------------------
(* The operation. *)

execute ==
  /\ Goto("app", "start", "idle")
  /\ toSrc' = toSrc \o Requests[scope]
  /\ UNCHANGED <<conf, getVars, putVars, poolVars, finishes, ssMsg, fromSrc, toDst, dstAcks,
                 srcVars, imported, faults>>

SameObject(c, d) == c \in Pooled /\ d \in Pooled /\ hash[c] = hash[d]

(* Thread ss: receiveStatePerflow and receiveStateMultiflow store the      *)
(* message in the chunk's StateChunk, over an earlier one with the same    *)
(* hash key, and submit the StateChunk. receiveStateConfig sends the put   *)
(* itself. All-flows state has no case in StateChannel.processMessage: the *)
(* exception it throws is logged and the chunk is gone.                    *)
receiveState ==
  /\ pc["ss"] = "idle"
  /\ fromSrc # <<>>
  /\ Head(fromSrc).type = "State"
  /\ fromSrc' = Tail(fromSrc)
  /\ LET c == Head(fromSrc).chunk
     IN  /\ stored' = [d \in Pooled |-> IF SameObject(c, d) THEN c ELSE stored[d]]
         /\ putTasks' = putTasks \cup ({c} \cap Pooled)
         /\ toDst' = IF c \in Config THEN Append(toDst, c) ELSE toDst
  /\ UNCHANGED <<conf, getVars, putVars, finishes, pc, ssMsg, toSrc, dstAcks, srcVars, imported,
                 faults>>

(* The handlers of the get acks set the flag first and the count after it, *)
(* and then look whether the copy is complete.                             *)
receiveGetAck ==
  /\ Goto("ss", "idle", "count")
  /\ fromSrc # <<>>
  /\ Head(fromSrc).type = "GetAck"
  /\ fromSrc' = Tail(fromSrc)
  /\ ssMsg' = Head(fromSrc)
  /\ acked' = [acked EXCEPT ![Head(fromSrc).kind] = TRUE]
  /\ UNCHANGED <<conf, count, putVars, poolVars, finishes, toSrc, toDst, dstAcks, srcVars,
                 imported, faults>>

(* Mutants: the count is one less than reported; nobody looks after it.    *)
setGetCount_less ==
  /\ Goto("ss", "count", "check")
  /\ count' = [count EXCEPT ![ssMsg.kind] = ssMsg.count - 1]
  /\ UNCHANGED <<conf, acked, putVars, poolVars, finishes, ssMsg, toSrc, fromSrc, toDst, dstAcks,
                 srcVars, imported, faults>>
setGetCount_idle ==
  /\ Goto("ss", "count", "idle")
  /\ count' = [count EXCEPT ![ssMsg.kind] = ssMsg.count]
  /\ UNCHANGED <<conf, acked, putVars, poolVars, finishes, ssMsg, toSrc, fromSrc, toDst, dstAcks,
                 srcVars, imported, faults>>

setGetCount ==
  /\ Goto("ss", "count", "check")
  /\ count' = [count EXCEPT ![ssMsg.kind] = ssMsg.count]
  /\ UNCHANGED <<conf, acked, putVars, poolVars, finishes, ssMsg, toSrc, fromSrc, toDst, dstAcks,
                 srcVars, imported, faults>>

(* Thread de: receivePutPerflowAck and its siblings. The events a          *)
(* StateChunk releases with its ack are none: a copy raises no events.     *)
receivePutAck ==
  /\ Goto("de", "idle", "check")
  /\ dstAcks # <<>>
  /\ dstAcks' = Tail(dstAcks)
  /\ chunkAck' = chunkAck \cup {Head(dstAcks)}
  /\ putAcks' = [putAcks EXCEPT ![KindOf(Head(dstAcks))] = @ + 1]
  /\ UNCHANGED <<conf, getVars, poolVars, finishes, ssMsg, toSrc, fromSrc, toDst, srcVars,
                 imported, faults>>

(* Mutants: one kind is enough; one ack early; acks alone.                 *)
Completed_any   == \E k \in ScopeKinds : acked[k] /\ putAcks[k] = count[k]
Completed_early == \A k \in ScopeKinds : acked[k] /\ putAcks[k] + 1 >= count[k]
Completed_acks  == \A k \in ScopeKinds : acked[k] /\ putAcks[k] <= count[k]

Completed == \A k \in ScopeKinds : acked[k] /\ putAcks[k] = count[k]

(* checkIfFinished, by thread ss or de. Nothing remembers that the end has *)
(* been announced. Flags and counts are written by ss alone, in the order  *)
(* in which the check reads them, and acks by de alone, so that reading    *)
(* them one after the other finds what one look at the last read finds.    *)
checkIfFinished(t) ==
  /\ Goto(t, "check", "idle")
  /\ finishes' = IF Completed THEN finishes + 1 ELSE finishes
  /\ UNCHANGED <<conf, getVars, putVars, poolVars, ssMsg, toSrc, fromSrc, toDst, dstAcks, srcVars,
                 imported, faults>>

(* A task of the pool: StateChunk.call.                                    *)
callChunk(c) ==
  /\ c \in putTasks
  /\ putTasks' = putTasks \ {c}
  /\ toDst' = Append(toDst, stored[c])
  /\ UNCHANGED <<conf, getVars, putVars, stored, finishes, pc, ssMsg, toSrc, fromSrc, dstAcks,
                 srcVars, imported, faults>>

-----------------------------------------------------------------------------
(* The network functions: the state thread of each. *)

handle_get ==
  /\ srcGet = "none"
  /\ toSrc # <<>>
  /\ toSrc' = Tail(toSrc)
  /\ srcGet' = Head(toSrc)
  /\ UNCHANGED <<conf, getVars, putVars, poolVars, finishes, pc, ssMsg, fromSrc, toDst, dstAcks,
                 exported, getDone, imported, faults>>

(* The local get function sends one chunk that matches the key.            *)
send_state(c) ==
  /\ srcGet # "none"
  /\ c \in ChunksOf(srcGet) \ exported
  /\ exported' = exported \cup {c}
  /\ fromSrc' = Append(fromSrc, [type |-> "State", chunk |-> c])
  /\ UNCHANGED <<conf, getVars, putVars, poolVars, finishes, pc, ssMsg, toSrc, toDst, dstAcks,
                 srcGet, getDone, imported, faults>>

(* The local get function returns how many chunks it has sent.             *)
send_get_ack ==
  /\ srcGet # "none"
  /\ srcGet' = "none"
  /\ getDone' = getDone \cup {srcGet}
  /\ fromSrc' = Append(fromSrc, [type |-> "GetAck", kind |-> srcGet,
                                 count |-> Cardinality(exported \cap ChunksOf(srcGet))])
  /\ UNCHANGED <<conf, getVars, putVars, poolVars, finishes, pc, ssMsg, toSrc, toDst, dstAcks,
                 exported, imported, faults>>

(* The network function has no such local get function, or it fails: an    *)
(* error message, which the controller logs, takes the place of the ack.   *)
get_fails ==
  /\ srcGet # "none"
  /\ faults < MaxFaults
  /\ faults' = faults + 1
  /\ srcGet' = "none"
  /\ UNCHANGED <<conf, getVars, putVars, poolVars, finishes, pc, ssMsg, toSrc, fromSrc, toDst,
                 dstAcks, exported, getDone, imported>>

handle_put ==
  /\ toDst # <<>>
  /\ toDst' = Tail(toDst)
  /\ imported' = imported \cup {Head(toDst)}
  /\ dstAcks' = Append(dstAcks, Head(toDst))
  /\ UNCHANGED <<conf, getVars, putVars, poolVars, finishes, pc, ssMsg, toSrc, fromSrc, srcVars,
                 faults>>

(* The local put function is missing or fails: an error message, no ack.   *)
put_fails ==
  /\ toDst # <<>>
  /\ faults < MaxFaults
  /\ faults' = faults + 1
  /\ toDst' = Tail(toDst)
  /\ UNCHANGED <<conf, getVars, putVars, poolVars, finishes, pc, ssMsg, toSrc, fromSrc, dstAcks,
                 srcVars, imported>>

-----------------------------------------------------------------------------
Controller ==
  \/ receiveState
  \/ receiveGetAck
  \/ setGetCount
  \/ receivePutAck
  \/ \E t \in {"ss", "de"} : checkIfFinished(t)
  \/ \E c \in Pooled : callChunk(c)

SrcNF == handle_get \/ (\E c \in Chunks : send_state(c)) \/ send_get_ack \/ get_fails

DstNF == handle_put \/ put_fails

Next == execute \/ Controller \/ SrcNF \/ DstNF

Spec == Init /\ [][Next]_vars

(* The application starts the copy and every thread keeps running; a local *)
(* function returns, so that a get cannot stay open for ever.              *)
Fairness ==
  /\ WF_vars(execute)
  /\ WF_vars(receiveState \/ receiveGetAck \/ setGetCount \/ checkIfFinished("ss"))
  /\ WF_vars(receivePutAck \/ checkIfFinished("de"))
  /\ \A c \in Pooled : WF_vars(callChunk(c))
  /\ WF_vars(handle_get \/ send_get_ack)
  /\ WF_vars(handle_put)

FairSpec == Spec /\ Fairness

-----------------------------------------------------------------------------
(* Properties. *)

SingleKind == ScopeKinds = {LastKind}
OwnObject  == \A c, d \in Pooled : SameObject(c, d) => c = d

(* What the end of a copy tells the application, whichever thread finds it *)
(* and however often: every get has ended, and of each kind but the last   *)
(* requested every chunk that was exported is installed; of the last       *)
(* kind too when it is the only one. With several kinds, thread de may     *)
(* look between the flag and the count of the last. A chunk may stand in   *)
(* for another of its kind with the same hash key.                         *)
EndMeansInstalled ==
  finishes > 0 =>
    /\ ScopeKinds \subseteq getDone
    /\ \A c \in exported :
         KindOf(c) # LastKind \/ SingleKind =>
           \E d \in imported : c = d \/ (SameObject(c, d) /\ KindOf(c) = KindOf(d))

(* checkIfFinished keeps no record of the announcement, yet the end of a   *)
(* copy of one kind is announced at most twice (by each thread once), and  *)
(* that of any other copy at most three times.                             *)
FewAnnouncements == finishes <= IF SingleKind THEN 2 ELSE 3

(* A copy of one kind whose chunks have hash keys of their own implements  *)
(* the abstract transfer; of the others only the movement of the chunks is *)
(* claimed.                                                                *)
T == INSTANCE Transfer WITH
       left     <- exported,
       closed   <- ScopeKinds \subseteq getDone,
       arrived  <- imported,
       reported <- finishes > 0 /\ SingleKind /\ OwnObject

ImplementsTransfer == T!Spec

(* Chunks of different kinds have different hash keys.                     *)
KindsApart == \A c, d \in Pooled : SameObject(c, d) => KindOf(c) = KindOf(d)

(* A copy ends, even when chunks of one kind share a hash key, unless a    *)
(* local function failed, all-flows state was exported, or a multi-flow    *)
(* chunk took the StateChunk of a per-flow chunk, whose ack never comes.   *)
CopyEnds ==
  (pc["app"] = "start" /\ KindsApart)
    ~> (finishes > 0 \/ faults > 0 \/ exported \cap Allflows # {})

(* The message of execute: "Scope needs to be 'PERFLOW', 'MULTIFLOW',      *)
(* 'ALLFLOWS', ...": a copy of all-flows state is one that can end.        *)
AllflowsCopyEnds == (scope = "ALLFLOWS") ~> (finishes > 0 \/ faults > 0)
=============================================================================
