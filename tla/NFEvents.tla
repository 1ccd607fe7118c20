------------------------------ MODULE NFEvents ------------------------------
(***************************************************************************)
(* The event filters of a network function (shared/event.c). The packet    *)
(* thread runs every packet it captures past the filters; the state thread *)
(* adds filters and removes them as the controller asks, and on a removal  *)
(* puts the packets the filter has buffered through the same code. Packets *)
(* are handled under lock_processing_pkt; the list of filters has no lock  *)
(* (the calls are commented out), and a filter's buffer has its own.       *)
(***************************************************************************)
EXTENDS Integers, Sequences, FiniteSets, Functions

CONSTANTS
  Keys,           \* keys of filters
  NumPackets,     \* bound: packets that arrive from the network
  KeysOf,         \* the keys that match each packet
  FlagsOf,        \* the exemption flags set in each packet
  Ids,            \* ids of the operations that ask for filters
  MaxRequests     \* bound: requests to add or remove a filter

Actions == {"DROP", "BUFFER", "PROCESS"}
Flags   == {"DO_NOT_BUFFER", "DO_NOT_DROP"}
Packets == 1 .. NumPackets

ASSUME NFEventsAssumption ==
  /\ KeysOf \in [Packets -> SUBSET Keys]
  /\ FlagsOf \in [Packets -> SUBSET Flags]
  /\ Ids \subseteq Nat \ {0}
  /\ MaxRequests \in Nat /\ NumPackets \in Nat

VARIABLES
  arrived,      \* number of packets captured so far
  requests,     \* requests received so far
  acks,         \* events acks sent
  filter,       \* every filter ever added, in the order of the requests
  list,         \* sdmbn_event_filters, head first: indices into filter
  buffer,       \* the buffered packets of each filter
  freed,        \* filters whose memory has been freed
  lock,         \* the thread that holds lock_processing_pkt
  pc, hand,     \* per thread: where it is, and the packet it handles
  match,        \* per thread: the filter its packet has matched
  event,        \* per thread: ProcessContext.event
  removing,     \* the filter the state thread is removing
  processed,    \* packets processed, in order
  dropped,      \* packets dropped by a filter
  raised        \* reprocess events raised: operation and packet

pktVars  == <<lock, hand, match, event>>
listVars == <<filter, list, freed, removing, requests, acks>>
outVars  == <<processed, dropped, raised>>
vars     == <<arrived, listVars, buffer, pc, pktVars, outVars>>

Threads  == {"packet", "state"}
NoThread == "none"
NoFilter == 0
NoPacket == 0
Index    == 1 .. MaxRequests

TypeOK ==
  /\ arrived \in 0 .. NumPackets
  /\ requests \in 0 .. MaxRequests
  /\ acks \in 0 .. MaxRequests
  /\ filter \in Seq([key : Keys, action : Actions, id : Ids])
  /\ list \in Seq(Index)
  /\ buffer \in [Index -> Seq(Packets)]
  /\ freed \subseteq Index
  /\ lock \in Threads \cup {NoThread}
  /\ pc \in [Threads -> {"idle", "lock", "filter", "process", "pop", "unlink", "free"}]
  /\ hand \in [Threads -> Packets \cup {NoPacket}]
  /\ match \in [Threads -> Index \cup {NoFilter}]
  /\ event \in [Threads -> -128 .. 127]
  /\ removing \in Index \cup {NoFilter}
  /\ processed \in Seq(Packets)
  /\ dropped \subseteq Packets
  /\ raised \subseteq Nat \X Packets

Init ==
  /\ arrived = 0 /\ requests = 0 /\ acks = 0
  /\ filter = <<>> /\ list = <<>> /\ freed = {} /\ removing = NoFilter
  /\ buffer = [f \in Index |-> <<>>]
  /\ lock = NoThread
  /\ pc = [t \in Threads |-> "idle"]
  /\ hand = [t \in Threads |-> NoPacket]
  /\ match = [t \in Threads |-> NoFilter]
  /\ event = [t \in Threads |-> 0]
  /\ processed = <<>> /\ dropped = {} /\ raised = {}

Goto(t, from, to) ==
  /\ pc[t] = from
  /\ pc' = [pc EXCEPT ![t] = to]

(* Where a thread goes on when the packet in its hand has been handled.    *)
Done(t) == IF t = "state" THEN "pop" ELSE "idle"

-----------------------------------------------------------------------------
(* got_packet, the way of a packet through the network function.           *)

(* The packet thread captures the next packet.                             *)
capture ==
  /\ arrived < NumPackets
  /\ Goto("packet", "idle", "lock")
  /\ arrived' = arrived + 1
  /\ hand' = [hand EXCEPT !["packet"] = arrived + 1]
  /\ UNCHANGED <<listVars, buffer, lock, match, event, outVars>>

(* The filter a walk down the list stops at: the first of the positions.   *)
First(I)  == CHOOSE i \in I : \A j \in I : i <= j
Stop(I)   == IF I = {} THEN NoFilter ELSE list[First(I)]

(* The first filter of the list whose key matches.                         *)
matches_filter(p) == Stop({i \in DOMAIN list : filter[list[i]].key \in KeysOf[p]})

(* sdmbn_preprocess_packet: take the lock, look for a filter ...           *)
lookup(t) ==
  /\ lock = NoThread
  /\ Goto(t, "lock", "filter")
  /\ lock' = t
  /\ match' = [match EXCEPT ![t] = matches_filter(hand[t])]
  /\ UNCHANGED <<arrived, listVars, buffer, hand, event, outVars>>

(* Mutant: an int.                                                         *)
Char_int(id) == id

(* ProcessContext.event is a char.                                         *)
Char(id) == IF id % 256 > 127 THEN (id % 256) - 256 ELSE id % 256

(* Mutant: the event of an earlier packet is not reset.                    *)
pass_stale(t, e) ==
  /\ Goto(t, "filter", "process")
  /\ event' = [event EXCEPT ![t] = IF e = 0 THEN @ ELSE e]
  /\ UNCHANGED <<arrived, listVars, buffer, lock, hand, match, outVars>>

(* ... then let the packet pass, remembering what to report after it ...   *)
pass(t, e) ==
  /\ Goto(t, "filter", "process")
  /\ event' = [event EXCEPT ![t] = e]
  /\ UNCHANGED <<arrived, listVars, buffer, lock, hand, match, outVars>>

(* Mutant: the lock is kept.                                               *)
buffer_packet_locked(t) ==
  /\ Goto(t, "filter", Done(t))
  /\ buffer' = [buffer EXCEPT ![match[t]] = Append(@, hand[t])]
  /\ UNCHANGED <<arrived, listVars, lock, hand, match, event, outVars>>

(* ... or buffer it ...                                                    *)
buffer_packet(t) ==
  /\ Goto(t, "filter", Done(t))
  /\ buffer' = [buffer EXCEPT ![match[t]] = Append(@, hand[t])]
  /\ lock' = NoThread
  /\ UNCHANGED <<arrived, listVars, hand, match, event, outVars>>

(* ... or report and drop it.                                              *)
drop_packet(t) ==
  /\ Goto(t, "filter", Done(t))
  /\ raised' = raised \cup {<<filter[match[t]].id, hand[t]>>}
  /\ dropped' = dropped \cup {hand[t]}
  /\ lock' = NoThread
  /\ UNCHANGED <<arrived, listVars, buffer, hand, match, event, processed>>

Exempt(t, flag) == flag \in FlagsOf[hand[t]]

(* The member `injected' that exempts a packet taken from the buffer is    *)
(* never set: what it holds is arbitrary. The filter may have been freed   *)
(* since it was looked up; its memory is taken to hold what it held.       *)
apply_filter(t) ==
  LET f == filter[match[t]]
  IN  \/ match[t] = NoFilter /\ pass(t, 0)
      \/ /\ match[t] # NoFilter
         /\ \/ f.action = "BUFFER" /\ Exempt(t, "DO_NOT_BUFFER") /\ pass(t, Char(f.id))
            \/ /\ f.action = "BUFFER" /\ ~Exempt(t, "DO_NOT_BUFFER")
               /\ pass(t, 0) \/ buffer_packet(t)
            \/ f.action = "DROP" /\ Exempt(t, "DO_NOT_DROP") /\ pass(t, Char(f.id))
            \/ f.action = "DROP" /\ ~Exempt(t, "DO_NOT_DROP") /\ drop_packet(t)
            \/ f.action = "PROCESS" /\ pass(t, Char(f.id))

(* The packet is processed; sdmbn_postprocess_packet reports it if asked   *)
(* to, with what is left of the operation's id, and releases the lock.     *)
sdmbn_postprocess_packet(t) ==
  /\ Goto(t, "process", Done(t))
  /\ processed' = Append(processed, hand[t])
  /\ raised' = IF event[t] > 0 THEN raised \cup {<<event[t], hand[t]>>} ELSE raised
  /\ lock' = NoThread
  /\ UNCHANGED <<arrived, listVars, buffer, hand, match, event, dropped>>

-----------------------------------------------------------------------------
(* The state thread: requests of the controller.                           *)

handle_enable_events ==
  /\ pc["state"] = "idle"
  /\ requests < MaxRequests
  /\ requests' = requests + 1
  /\ \E k \in Keys, a \in Actions, id \in Ids :
       filter' = Append(filter, [key |-> k, action |-> a, id |-> id])
  /\ list' = <<Len(filter) + 1>> \o list
  /\ acks' = acks + 1
  /\ UNCHANGED <<arrived, freed, removing, buffer, pc, pktVars, outVars>>

(* The first filter of the list with that very key, whoever added it.      *)
find_filter(k) == Stop({i \in DOMAIN list : filter[list[i]].key = k})

(* Put the next packet of the buffer through got_packet, or go on.         *)
release(b) ==
  IF b # <<>>
    THEN /\ pc' = [pc EXCEPT !["state"] = "lock"]
         /\ hand' = [hand EXCEPT !["state"] = Head(b)]
    ELSE /\ pc' = [pc EXCEPT !["state"] = "unlink"]
         /\ UNCHANGED hand

handle_disable_events ==
  /\ pc["state"] = "idle"
  /\ requests < MaxRequests
  /\ requests' = requests + 1
  /\ \E k \in Keys :
       IF find_filter(k) = NoFilter
         THEN /\ acks' = acks + 1
              /\ UNCHANGED <<removing, pc, hand>>
         ELSE /\ removing' = find_filter(k)
              /\ release(buffer[find_filter(k)])
              /\ UNCHANGED acks
  /\ UNCHANGED <<arrived, filter, list, freed, buffer, lock, match, event, outVars>>

(* Mutant: the whole buffer is discarded after one packet.                 *)
pop_buffer_all ==
  /\ pc["state"] = "pop"
  /\ buffer' = [buffer EXCEPT ![removing] = <<>>]
  /\ release(<<>>)
  /\ UNCHANGED <<arrived, listVars, lock, match, event, outVars>>

pop_buffer ==
  /\ pc["state"] = "pop"
  /\ buffer' = [buffer EXCEPT ![removing] = Tail(@)]
  /\ release(Tail(buffer[removing]))
  /\ UNCHANGED <<arrived, listVars, lock, match, event, outVars>>

(* Mutant: only the head of the list is taken off.                         *)
unlink_filter_head ==
  /\ Goto("state", "unlink", "free")
  /\ list' = IF list # <<>> /\ Head(list) = removing THEN Tail(list) ELSE list
  /\ UNCHANGED <<arrived, filter, freed, removing, requests, acks, buffer, pktVars, outVars>>

(* The sequence without its i-th element.                                  *)
Without(s, i) == [j \in 1 .. Len(s) - 1 |-> IF j < i THEN s[j] ELSE s[j + 1]]

(* The buffer was empty a moment ago: take the filter off the list ...     *)
unlink_filter ==
  /\ Goto("state", "unlink", "free")
  /\ LET at == {i \in DOMAIN list : list[i] = removing}
     IN  list' = IF at = {} THEN list ELSE Without(list, First(at))
  /\ UNCHANGED <<arrived, filter, freed, removing, requests, acks, buffer, pktVars, outVars>>

(* ... free it, and acknowledge.                                           *)
free_filter ==
  /\ Goto("state", "free", "idle")
  /\ freed' = freed \cup {removing}
  /\ removing' = NoFilter
  /\ acks' = acks + 1
  /\ UNCHANGED <<arrived, filter, list, requests, buffer, pktVars, outVars>>

-----------------------------------------------------------------------------
HandlePacket(t) == lookup(t) \/ apply_filter(t) \/ sdmbn_postprocess_packet(t)

StateThread == pop_buffer \/ unlink_filter \/ free_filter

Next ==
  \/ capture
  \/ \E t \in Threads : HandlePacket(t)
  \/ handle_enable_events
  \/ handle_disable_events
  \/ StateThread

Spec == Init /\ [][Next]_vars

(* Both threads keep running and the lock is given to someone who asks;    *)
(* traffic and requests need not come.                                     *)
Fairness ==
  /\ \A t \in Threads : WF_vars(HandlePacket(t))
  /\ WF_vars(StateThread)

FairSpec == Spec /\ Fairness

-----------------------------------------------------------------------------
(* A packet the state thread has taken from a buffer stays at its head     *)
(* until it has been handled.                                              *)
Taken(f) == removing = f /\ pc["state"] \in {"lock", "filter", "process", "pop"}
Held(f)  == IF Taken(f) THEN Tail(buffer[f]) ELSE buffer[f]

(* The places packet p is in.                                              *)
InHand(t, p) == pc[t] \in {"lock", "filter", "process"} /\ hand[t] = p

Fates(p) ==
  (UNION {{<<"waits", f, i>> : i \in {j \in DOMAIN Held(f) : Held(f)[j] = p}} : f \in Index})
  \cup {<<"in hand", t>> : t \in {u \in Threads : InHand(u, p)}}
  \cup {<<"processed", i>> : i \in {j \in DOMAIN processed : processed[j] = p}}
  \cup {<<"dropped", q>> : q \in dropped \cap {p}}

(* A packet that has arrived has one fate: it is in one thread's hands,    *)
(* waits in one buffer, or was dropped or processed once. Holds however    *)
(* lookups, removals and the arbitrary `injected' interleave; a packet     *)
(* left behind in the buffer of a freed filter counts as waiting there.    *)
ExactlyOneFate == \A p \in 1 .. arrived : Cardinality(Fates(p)) = 1

(* The list never holds a filter whose memory has been freed, and holds a  *)
(* filter once: a lookup that starts now finds live memory.                *)
NoDanglingFilter ==
  /\ Range(list) \cap freed = {}
  /\ \A i, j \in DOMAIN list : list[i] = list[j] => i = j

(* "Release bufferred events" (events_remove_filter): when a filter is     *)
(* gone, no packet is left in its buffer.                                  *)
ReleasedBeforeFreed == \A f \in freed : buffer[f] = <<>>

(* A reprocess event names an operation that asked for a filter with a key *)
(* of that packet, also when the filter was removed between the lookup and *)
(* the report: what a thread reports never stems from an earlier packet.   *)
EventsNameAMatchingFilter ==
  \A r \in raised : \E f \in Range(filter) : f.id = r[1] /\ f.key \in KeysOf[r[2]]

(* Every path gives the packet lock back: once no removal is in progress   *)
(* the packet thread comes back for the next packet, for ever.             *)
PacketThreadReturns == <>[](removing = NoFilter) => []<>(pc["packet"] = "idle")
=============================================================================
