--------------------------- MODULE NFEventsProofs ---------------------------
(***************************************************************************)
(* Module NFEvents for every traffic, every set of keys and ids and any    *)
(* number of requests.                                                     *)
(***************************************************************************)
EXTENDS NFEvents, FiniteSetTheorems, SequenceTheorems, WellFoundedInduction, TLAPS

Filter == [key : Keys, action : Actions, id : Ids]
Busy   == {"lock", "filter", "process"}

(* Every request adds at most one filter, and is acknowledged once, except *)
(* for a removal that is still in progress.                                *)
CountInv ==
  /\ Len(filter) <= requests
  /\ acks + (IF removing = NoFilter THEN 0 ELSE 1) = requests

(* What the threads hold where. The packet the state thread handles is the *)
(* head of the buffer it empties.                                          *)
ThreadInv ==
  /\ pc["packet"] \in Busy \cup {"idle"}
  /\ pc["state"] = "idle" <=> removing = NoFilter
  /\ pc["packet"] \in Busy => hand["packet"] \in Packets
  /\ pc["state"] \in Busy \cup {"pop"} =>
       buffer[removing] # <<>> /\ hand["state"] = Head(buffer[removing])

(* The list holds filters that exist, each once and none that is freed; a  *)
(* filter is off the list before it is freed.                              *)
ListInv ==
  /\ \A i \in 1 .. Len(list) : list[i] \in 1 .. Len(filter) /\ list[i] \notin freed
  /\ \A i, j \in 1 .. Len(list) : list[i] = list[j] => i = j
  /\ freed \subseteq 1 .. Len(filter)
  /\ removing # NoFilter => removing \in 1 .. Len(filter) /\ removing \notin freed
  /\ pc["state"] = "free" => \A i \in 1 .. Len(list) : list[i] # removing

(* The filter a thread has looked up has a key of the packet in its hand;  *)
(* it may be off the list by now, or freed.                                *)
MatchInv ==
  \A t \in Threads : pc[t] = "filter" /\ match[t] # NoFilter =>
    match[t] \in 1 .. Len(filter) /\ filter[match[t]].key \in KeysOf[hand[t]]

NFInv == TypeOK /\ CountInv /\ ThreadInv /\ ListInv /\ MatchInv

-----------------------------------------------------------------------------
(* The operators of the model. *)

(* A walk that can stop somewhere stops at the first such position.        *)
LEMMA FirstIsLeast ==
  ASSUME NEW I, I \subseteq Nat, I # {}
  PROVE  First(I) \in I /\ \A j \in I : First(I) <= j
<1> DEFINE R == OpToRel(<, Nat)
<1>1. IsWellFoundedOn(R, Nat)
  BY NatLessThanWellFounded
<1>2. \E x \in I : \A y \in I : ~(<<y, x>> \in R)
  <2> HIDE DEF R
  <2>1. QED
    BY <1>1, WFMin, Zenon
<1>3. PICK x \in I : \A y \in I : ~(<<y, x>> \in R)
  BY <1>2
<1>4. \A y \in I : x <= y
  <2> TAKE y \in I
  <2>1. <<y, x>> \notin R
    BY <1>3
  <2>2. ~(y < x)
    BY <2>1 DEF OpToRel
  <2>3. QED
    BY <2>2
<1>5. QED
  BY <1>4 DEF First

(* A walk down the list stops at a filter on the list, or finds none.      *)
LEMMA StopIsOnList ==
  ASSUME NEW I \in SUBSET (1 .. Len(list)), Len(list) \in Nat, Stop(I) # NoFilter
  PROVE  \E i \in I : Stop(I) = list[i]
<1>1. I # {} /\ I \subseteq Nat
  BY DEF Stop
<1>2. First(I) \in I
  BY <1>1, FirstIsLeast, Zenon
<1>3. QED
  BY <1>1, <1>2 DEF Stop

(* The filter a packet matches exists and has a key of the packet.         *)
LEMMA MatchFound ==
  ASSUME TypeOK, ListInv, NEW p \in Packets, matches_filter(p) # NoFilter
  PROVE  /\ matches_filter(p) \in 1 .. Len(filter)
         /\ filter[matches_filter(p)].key \in KeysOf[p]
<1> DEFINE I == {i \in DOMAIN list : filter[list[i]].key \in KeysOf[p]}
<1>1. Len(list) \in Nat /\ DOMAIN list = 1 .. Len(list)
  BY LenProperties DEF TypeOK
<1>2. I \in SUBSET (1 .. Len(list)) /\ Stop(I) # NoFilter
  BY <1>1 DEF matches_filter
<1>3. \E i \in I : Stop(I) = list[i]
  <2> HIDE DEF I
  <2>1. QED
    BY <1>1, <1>2, StopIsOnList
<1>4. PICK i \in I : matches_filter(p) = list[i]
  BY <1>3 DEF matches_filter
<1>5. QED
  BY <1>1, <1>4 DEF ListInv

(* The filter that is to be removed is on the list.                        *)
LEMMA RemovalFound ==
  ASSUME TypeOK, ListInv, NEW k \in Keys, find_filter(k) # NoFilter
  PROVE  /\ \E i \in 1 .. Len(list) : find_filter(k) = list[i]
         /\ find_filter(k) \in 1 .. Len(filter) /\ find_filter(k) \notin freed
         /\ find_filter(k) \in Index
<1> DEFINE I == {i \in DOMAIN list : filter[list[i]].key = k}
<1>1. Len(list) \in Nat /\ DOMAIN list = 1 .. Len(list)
  BY LenProperties DEF TypeOK
<1>2. I \in SUBSET (1 .. Len(list)) /\ Stop(I) # NoFilter
  BY <1>1 DEF find_filter
<1>3. \E i \in I : Stop(I) = list[i]
  <2> HIDE DEF I
  <2>1. QED
    BY <1>1, <1>2, StopIsOnList
<1>4. PICK i \in 1 .. Len(list) : find_filter(k) = list[i]
  BY <1>1, <1>3 DEF find_filter
<1>5. list[i] \in Index
  BY ElementOfSeq DEF TypeOK
<1>6. QED
  BY <1>1, <1>4, <1>5 DEF ListInv

(* Taking one element out of a sequence.                                   *)
LEMMA WithoutProperties ==
  ASSUME NEW S, NEW s \in Seq(S), NEW i \in 1 .. Len(s)
  PROVE  /\ Without(s, i) \in Seq(S)
         /\ Len(Without(s, i)) = Len(s) - 1
         /\ \A j \in 1 .. Len(s) - 1 : Without(s, i)[j] = IF j < i THEN s[j] ELSE s[j + 1]
<1>1. Len(s) \in Nat /\ Len(s) - 1 \in Nat /\ \A j \in 1 .. Len(s) : s[j] \in S
  BY LenProperties, ElementOfSeq
<1>2. Without(s, i) \in [1 .. Len(s) - 1 -> S]
  BY <1>1 DEF Without
<1>3. Without(s, i) \in Seq(S)
  BY <1>1, <1>2
<1>4. QED
  BY <1>1, <1>2, <1>3 DEF Without

(* What a char keeps of an id: a number in a char's range, and the id      *)
(* itself for ids up to 256, if it is positive at all.                     *)
LEMMA CharRange ==
  ASSUME NEW id \in Nat
  PROVE  /\ Char(id) \in -128 .. 127
         /\ id \in 1 .. 256 /\ Char(id) > 0 => Char(id) = id
BY DEF Char

-----------------------------------------------------------------------------
(* The bookkeeping of requests, threads and the list. *)

(* No filter, no packet, nobody at work.                                   *)
LEMMA NFInit == Init => NFInv
<1> SUFFICES ASSUME Init
             PROVE  NFInv
  OBVIOUS
<1> USE NFEventsAssumption
<1>1. /\ <<>> \in Seq(Filter) /\ <<>> \in Seq(Index) /\ <<>> \in Seq(Packets)
      /\ Len(<<>>) = 0
  BY EmptySeq
<1>2. TypeOK
  BY <1>1 DEF Init, TypeOK, Threads, NoFilter, NoPacket, NoThread, Filter
<1>3. QED
  BY <1>1, <1>2 DEF Init, NFInv, CountInv, ThreadInv, ListInv, MatchInv, Threads, NoFilter, Busy

(* A packet is captured.                                                   *)
LEMMA CaptureStep == NFInv /\ capture => NFInv'
<1> SUFFICES ASSUME NFInv, capture
             PROVE  NFInv'
  OBVIOUS
<1> USE NFEventsAssumption DEF NFInv
<1>1. arrived + 1 \in Packets /\ arrived' \in 0 .. NumPackets
  BY DEF capture, TypeOK, Packets
<1>2. TypeOK'
  BY <1>1 DEF TypeOK, capture, Goto, listVars, outVars, Threads
<1>3. CountInv' /\ ListInv'
  BY DEF CountInv, ListInv, TypeOK, capture, Goto, listVars, outVars, Threads
<1>4. ThreadInv'
  BY <1>1 DEF ThreadInv, TypeOK, capture, Goto, listVars, outVars, Threads, Busy
<1>5. MatchInv'
  BY DEF MatchInv, TypeOK, capture, Goto, listVars, Threads
<1>6. QED
  BY <1>2, <1>3, <1>4, <1>5

(* A thread that handles a packet holds one.                               *)
LEMMA HandsFull ==
  ASSUME NFInv, NEW t \in Threads, pc[t] \in Busy
  PROVE  hand[t] \in Packets
<1>1. CASE t = "packet"
  BY <1>1 DEF NFInv, ThreadInv
<1>2. CASE t = "state"
  <2>1. removing \in Index
    BY <1>2 DEF NFInv, ThreadInv, TypeOK, Busy
  <2>2. buffer[removing] \in Seq(Packets) /\ buffer[removing] # <<>>
    BY <1>2, <2>1 DEF NFInv, ThreadInv, TypeOK
  <2>3. QED
    BY <1>2, <2>2, HeadTailProperties DEF NFInv, ThreadInv
<1>3. QED
  BY <1>1, <1>2 DEF Threads

(* The lookup of a filter.                                                 *)
LEMMA LookupStep ==
  ASSUME NFInv, NEW t \in Threads, lookup(t)
  PROVE  NFInv'
<1> USE NFEventsAssumption DEF NFInv
<1>1. hand[t] \in Packets
  BY HandsFull DEF lookup, Goto, Busy
<1>2. matches_filter(hand[t]) \in Index \cup {NoFilter}
  <2>1. CASE matches_filter(hand[t]) = NoFilter
    BY <2>1
  <2>2. CASE matches_filter(hand[t]) # NoFilter
    <3>1. matches_filter(hand[t]) \in 1 .. Len(filter)
      BY <1>1, <2>2, MatchFound
    <3>2. Len(filter) \in Nat /\ Len(filter) <= MaxRequests
      BY LenProperties DEF TypeOK, CountInv
    <3>3. QED
      BY <3>1, <3>2 DEF Index
  <2>3. QED
    BY <2>1, <2>2
<1>3. TypeOK'
  BY <1>1, <1>2 DEF TypeOK, lookup, Goto, listVars, outVars, Threads
<1>4. CountInv' /\ ListInv'
  BY DEF CountInv, ListInv, TypeOK, lookup, Goto, listVars, outVars, Threads
<1>5. ThreadInv'
  BY DEF ThreadInv, TypeOK, lookup, Goto, listVars, outVars, Threads, Busy
<1>6. MatchInv'
  <2>1. matches_filter(hand[t]) # NoFilter =>
          /\ matches_filter(hand[t]) \in 1 .. Len(filter)
          /\ filter[matches_filter(hand[t])].key \in KeysOf[hand[t]]
    BY <1>1, MatchFound
  <2>2. QED
    BY <2>1 DEF MatchInv, TypeOK, lookup, Goto, listVars, Threads
<1>7. QED
  BY <1>3, <1>4, <1>5, <1>6

(* A packet passes the filters.                                            *)
LEMMA PassStep ==
  ASSUME NFInv, NEW t \in Threads, NEW e \in -128 .. 127, pass(t, e)
  PROVE  NFInv'
<1> USE DEF NFInv
<1>1. TypeOK'
  BY DEF TypeOK, pass, Goto, listVars, outVars, Threads
<1>2. CountInv' /\ ListInv'
  BY DEF CountInv, ListInv, TypeOK, pass, Goto, listVars, outVars, Threads
<1>3. ThreadInv'
  BY DEF ThreadInv, TypeOK, pass, Goto, listVars, outVars, Threads, Busy
<1>4. MatchInv'
  BY DEF MatchInv, TypeOK, pass, Goto, listVars, Threads
<1>5. QED
  BY <1>1, <1>2, <1>3, <1>4

(* A buffer grows at its end: what is not empty keeps its head.            *)
LEMMA BufferStep ==
  ASSUME NFInv, NEW t \in Threads, match[t] # NoFilter, buffer_packet(t)
  PROVE  NFInv'
<1> USE DEF NFInv
<1>1. hand[t] \in Packets /\ match[t] \in Index
  BY HandsFull DEF buffer_packet, Goto, Busy, TypeOK
<1>2. \A f \in Index : buffer[f] \in Seq(Packets) /\ buffer'[f] \in Seq(Packets)
        /\ (buffer[f] # <<>> => buffer'[f] # <<>> /\ Head(buffer'[f]) = Head(buffer[f]))
  <2> TAKE f \in Index
  <2>1. buffer[f] \in Seq(Packets)
    BY DEF TypeOK
  <2>2. CASE f = match[t]
    <3>1. buffer'[f] = Append(buffer[f], hand[t])
      BY <1>1, <2>2 DEF buffer_packet, TypeOK
    <3>2. QED
      BY <1>1, <2>1, <3>1, AppendProperties, HeadTailAppend
  <2>3. CASE f # match[t]
    BY <1>1, <2>1, <2>3 DEF buffer_packet, TypeOK
  <2>4. QED
    BY <2>2, <2>3
<1>3. buffer' \in [Index -> Seq(Packets)]
  BY <1>2 DEF TypeOK, buffer_packet
<1>4. pc' \in [Threads -> {"idle", "lock", "filter", "process", "pop", "unlink", "free"}]
  BY DEF TypeOK, buffer_packet, Goto, Done, Threads
<1>5. TypeOK'
  BY <1>3, <1>4 DEF TypeOK, buffer_packet, listVars, outVars, NoThread
<1>6. CountInv' /\ ListInv'
  BY DEF CountInv, ListInv, TypeOK, buffer_packet, Goto, Done, listVars, outVars, Threads
<1>7. ThreadInv'
  <2>1. pc["state"] \in Busy \cup {"pop"} => removing \in Index
    BY DEF ThreadInv, TypeOK, Busy
  <2>2. QED
    BY <1>2, <2>1
       DEF ThreadInv, TypeOK, buffer_packet, Goto, Done, listVars, outVars, Threads, Busy
<1>8. MatchInv'
  BY DEF MatchInv, TypeOK, buffer_packet, Goto, Done, listVars, Threads
<1>9. QED
  BY <1>5, <1>6, <1>7, <1>8

(* A packet is reported and dropped.                                       *)
LEMMA DropStep ==
  ASSUME NFInv, NEW t \in Threads, match[t] # NoFilter, drop_packet(t)
  PROVE  NFInv'
<1> USE NFEventsAssumption DEF NFInv
<1>1. hand[t] \in Packets
  BY HandsFull DEF drop_packet, Goto, Busy
<1>2. filter[match[t]].id \in Nat
  <2>1. match[t] \in 1 .. Len(filter)
    BY DEF MatchInv, drop_packet, Goto
  <2>2. filter[match[t]] \in Filter
    BY <2>1, ElementOfSeq DEF TypeOK, Filter
  <2>3. QED
    BY <2>2 DEF Filter
<1>3. pc' \in [Threads -> {"idle", "lock", "filter", "process", "pop", "unlink", "free"}]
  BY DEF TypeOK, drop_packet, Goto, Done, Threads
<1>4. TypeOK'
  <2>1. raised' \subseteq Nat \X Packets /\ dropped' \subseteq Packets
    BY <1>1, <1>2 DEF TypeOK, drop_packet
  <2>2. QED
    BY <1>3, <2>1 DEF TypeOK, drop_packet, listVars, NoThread
<1>5. CountInv' /\ ListInv'
  BY DEF CountInv, ListInv, TypeOK, drop_packet, Goto, Done, listVars, Threads
<1>6. ThreadInv'
  BY DEF ThreadInv, TypeOK, drop_packet, Goto, Done, listVars, Threads, Busy
<1>7. MatchInv'
  BY DEF MatchInv, TypeOK, drop_packet, Goto, Done, listVars, Threads
<1>8. QED
  BY <1>4, <1>5, <1>6, <1>7

(* A packet has been processed and, if asked for, reported.                *)
LEMMA PostprocessStep ==
  ASSUME NFInv, NEW t \in Threads, sdmbn_postprocess_packet(t)
  PROVE  NFInv'
<1> USE DEF NFInv
<1>1. hand[t] \in Packets
  BY HandsFull DEF sdmbn_postprocess_packet, Goto, Busy
<1>2. event[t] > 0 => event[t] \in Nat
  <2>1. event[t] \in -128 .. 127
    BY DEF TypeOK
  <2>2. QED
    BY <2>1
<1>3. pc' \in [Threads -> {"idle", "lock", "filter", "process", "pop", "unlink", "free"}]
  BY DEF TypeOK, sdmbn_postprocess_packet, Goto, Done, Threads
<1>4. processed' \in Seq(Packets)
  BY <1>1, AppendProperties DEF TypeOK, sdmbn_postprocess_packet
<1>5. raised' \subseteq Nat \X Packets
  BY <1>1, <1>2 DEF TypeOK, sdmbn_postprocess_packet
<1>6. TypeOK'
  BY <1>3, <1>4, <1>5 DEF TypeOK, sdmbn_postprocess_packet, listVars, NoThread
<1>7. CountInv' /\ ListInv'
  BY DEF CountInv, ListInv, TypeOK, sdmbn_postprocess_packet, Goto, Done, listVars, Threads
<1>8. ThreadInv'
  BY DEF ThreadInv, TypeOK, sdmbn_postprocess_packet, Goto, Done, listVars, Threads, Busy
<1>9. MatchInv'
  BY DEF MatchInv, TypeOK, sdmbn_postprocess_packet, Goto, Done, listVars, Threads
<1>10. QED
  BY <1>6, <1>7, <1>8, <1>9

(* Whatever the filter says is one of the three.                           *)
LEMMA ApplyFilterStep ==
  ASSUME NFInv, NEW t \in Threads, apply_filter(t)
  PROVE  NFInv'
<1> USE NFEventsAssumption
<1>1. CASE pass(t, 0)
  BY <1>1, PassStep
<1>2. CASE match[t] # NoFilter /\ pass(t, Char(filter[match[t]].id))
  <2>1. match[t] \in 1 .. Len(filter)
    BY <1>2 DEF NFInv, MatchInv, pass, Goto
  <2>2. filter[match[t]] \in Filter
    BY <2>1, ElementOfSeq DEF NFInv, TypeOK, Filter
  <2>3. filter[match[t]].id \in Nat
    BY <2>2 DEF Filter
  <2>4. Char(filter[match[t]].id) \in -128 .. 127
    BY <2>3, CharRange
  <2>5. QED
    BY <1>2, <2>4, PassStep
<1>3. CASE match[t] # NoFilter /\ buffer_packet(t)
  BY <1>3, BufferStep
<1>4. CASE match[t] # NoFilter /\ drop_packet(t)
  BY <1>4, DropStep
<1>5. QED
  BY <1>1, <1>2, <1>3, <1>4 DEF apply_filter

(* A new filter goes to the head of the list.                              *)
LEMMA EnableStep ==
  ASSUME NFInv, handle_enable_events
  PROVE  NFInv'
<1> USE NFEventsAssumption DEF NFInv
<1>1. PICK new \in Filter : filter' = Append(filter, new)
  BY DEF handle_enable_events, Filter
<1> DEFINE n == Len(filter) + 1
<1>2. /\ filter \in Seq(Filter) /\ Len(filter) \in Nat /\ list \in Seq(Index) /\ Len(list) \in Nat
      /\ requests \in Nat /\ acks \in Nat
  BY LenProperties DEF TypeOK, Filter
<1>3. /\ filter' \in Seq(Filter) /\ Len(filter') = n /\ n \in Index
      /\ \A i \in 1 .. Len(filter) : filter'[i] = filter[i]
  BY <1>1, <1>2, AppendProperties DEF CountInv, handle_enable_events, Index
<1>4. /\ list' = <<n>> \o list /\ <<n>> \in Seq(Index) /\ Len(<<n>>) = 1 /\ <<n>>[1] = n
  BY <1>3 DEF handle_enable_events
<1>5. /\ list' \in Seq(Index) /\ Len(list') = Len(list) + 1 /\ list'[1] = n
      /\ \A i \in 1 .. Len(list) + 1 : list'[i] = IF i = 1 THEN n ELSE list[i - 1]
  BY <1>2, <1>4, ConcatProperties
<1> HIDE DEF n
<1>6. /\ removing = NoFilter /\ requests' \in 0 .. MaxRequests /\ acks' \in 0 .. MaxRequests
      /\ CountInv'
  BY <1>2, <1>3 DEF CountInv, ThreadInv, TypeOK, handle_enable_events, n
<1>7. TypeOK'
  BY <1>3, <1>5, <1>6 DEF TypeOK, handle_enable_events, pktVars, outVars, Filter
<1>8. ThreadInv'
  BY DEF ThreadInv, TypeOK, handle_enable_events, pktVars, outVars
<1>9. ListInv'
  <2>1. /\ n = Len(filter) + 1 /\ n \notin freed
        /\ \A i \in 1 .. Len(list) : list[i] \in 1 .. Len(filter) /\ list[i] # n
    BY <1>2 DEF ListInv, n
  <2>2. freed' = freed /\ pc' = pc /\ removing' = NoFilter /\ pc["state"] # "free"
    BY <1>6 DEF handle_enable_events
  <2>3. \A i \in 1 .. Len(list') : list'[i] \in 1 .. Len(filter') /\ list'[i] \notin freed'
    BY <1>2, <1>3, <1>5, <2>1, <2>2 DEF ListInv
  <2>4. \A i, j \in 1 .. Len(list') : list'[i] = list'[j] => i = j
    <3> TAKE i, j \in 1 .. Len(list')
    <3>0. \A x \in 1 .. Len(list') : x # 1 => list'[x] # n
      <4> TAKE x \in 1 .. Len(list')
      <4>1. x # 1 => x - 1 \in 1 .. Len(list) /\ list'[x] = list[x - 1]
        BY <1>2, <1>5
      <4>2. QED
        BY <2>1, <4>1
    <3>1. CASE i = 1 \/ j = 1
      BY <1>5, <3>0, <3>1
    <3>2. CASE i # 1 /\ j # 1
      <4>1. i - 1 \in 1 .. Len(list) /\ j - 1 \in 1 .. Len(list)
        BY <1>2, <1>5, <3>2
      <4>2. list[i - 1] = list[j - 1] => i - 1 = j - 1
        BY <4>1 DEF ListInv
      <4>3. QED
        BY <1>2, <1>5, <3>2, <4>1, <4>2
    <3>3. QED
      BY <3>1, <3>2
  <2>5. freed' \subseteq 1 .. Len(filter')
    BY <1>2, <1>3, <2>1, <2>2 DEF ListInv
  <2>6. QED
    BY <2>2, <2>3, <2>4, <2>5 DEF ListInv
<1>10. MatchInv'
  BY <1>2, <1>3 DEF MatchInv, handle_enable_events, pktVars, n
<1>11. QED
  BY <1>6, <1>7, <1>8, <1>9, <1>10

(* A removal starts, or there is nothing to remove.                        *)
LEMMA DisableStep ==
  ASSUME NFInv, handle_disable_events
  PROVE  NFInv'
<1> USE NFEventsAssumption DEF NFInv
<1>0. /\ removing = NoFilter /\ pc["state"] = "idle"
      /\ requests' = requests + 1 /\ requests' \in 0 .. MaxRequests
      /\ acks = requests /\ acks \in Nat /\ requests \in Nat /\ Len(filter) \in Nat
  BY LenProperties DEF handle_disable_events, ThreadInv, CountInv, TypeOK
<1>1. PICK k \in Keys :
        IF find_filter(k) = NoFilter
          THEN /\ acks' = acks + 1
               /\ UNCHANGED <<removing, pc, hand>>
          ELSE /\ removing' = find_filter(k)
               /\ release(buffer[find_filter(k)])
               /\ UNCHANGED acks
  BY DEF handle_disable_events
<1>2. CASE find_filter(k) = NoFilter
  <2>1. acks' = acks + 1 /\ removing' = removing /\ pc' = pc /\ hand' = hand
    BY <1>1, <1>2
  <2>2. TypeOK' /\ CountInv'
    <3>1. acks' \in 0 .. MaxRequests
      BY <1>0, <2>1 DEF TypeOK
    <3>2. TypeOK'
      BY <1>0, <2>1, <3>1 DEF TypeOK, handle_disable_events, outVars
    <3>3. CountInv'
      BY <1>0, <2>1 DEF CountInv, handle_disable_events
    <3>4. QED
      BY <3>2, <3>3
  <2>3. ThreadInv' /\ ListInv' /\ MatchInv'
    BY <2>1 DEF ThreadInv, ListInv, MatchInv, handle_disable_events, outVars
  <2>4. QED
    BY <2>2, <2>3
<1>3. CASE find_filter(k) # NoFilter
  <2> DEFINE f == find_filter(k)
  <2>1. f \in Index /\ f \in 1 .. Len(filter) /\ f \notin freed /\ f # NoFilter
    BY <1>3, RemovalFound
  <2>2. removing' = f /\ acks' = acks /\ release(buffer[f])
    BY <1>1, <1>3
  <2> HIDE DEF f
  <2>3. buffer[f] \in Seq(Packets)
    BY <2>1 DEF TypeOK
  <2>4. /\ pc' \in [Threads -> {"idle", "lock", "filter", "process", "pop", "unlink", "free"}]
        /\ hand' \in [Threads -> Packets \cup {NoPacket}]
    BY <2>2, <2>3, HeadTailProperties, SMTT(30) DEF TypeOK, release, Threads
  <2>5. TypeOK' /\ CountInv'
    <3>1. TypeOK'
      BY <1>0, <2>1, <2>2, <2>4 DEF TypeOK, handle_disable_events, outVars
    <3>2. CountInv'
      BY <1>0, <2>1, <2>2 DEF CountInv, handle_disable_events
    <3>3. QED
      BY <3>1, <3>2
  <2>6. ThreadInv'
    BY <1>0, <2>1, <2>2, <2>3 DEF ThreadInv, TypeOK, handle_disable_events, release, Threads, NoFilter, Busy
  <2>7. ListInv'
    BY <2>1, <2>2 DEF ListInv, TypeOK, handle_disable_events, release, Threads
  <2>8. MatchInv'
    BY <2>2 DEF MatchInv, TypeOK, handle_disable_events, release, Threads
  <2>9. QED
    BY <2>5, <2>6, <2>7, <2>8
<1>4. QED
  BY <1>2, <1>3

(* The released packet leaves the buffer, and the next one is taken.       *)
LEMMA PopStep ==
  ASSUME NFInv, pop_buffer
  PROVE  NFInv'
<1> USE DEF NFInv
<1> DEFINE b == buffer[removing]
<1>1. /\ removing \in Index /\ b \in Seq(Packets) /\ b # <<>>
  BY DEF pop_buffer, ThreadInv, TypeOK, Busy
<1>2. Tail(b) \in Seq(Packets)
  BY <1>1, HeadTailProperties
<1>3. buffer' \in [Index -> Seq(Packets)] /\ buffer'[removing] = Tail(b)
  BY <1>1, <1>2 DEF pop_buffer, TypeOK
<1>4. release(Tail(b)) /\ removing' = removing
  BY DEF pop_buffer, listVars
<1> HIDE DEF b
<1>5. /\ pc' \in [Threads -> {"idle", "lock", "filter", "process", "pop", "unlink", "free"}]
      /\ hand' \in [Threads -> Packets \cup {NoPacket}]
  BY <1>2, <1>4, HeadTailProperties DEF TypeOK, release, Threads
<1>6. TypeOK'
  BY <1>3, <1>5 DEF TypeOK, pop_buffer, listVars, outVars
<1>7. CountInv' /\ ListInv' /\ MatchInv'
  <2>1. CountInv'
    BY DEF CountInv, pop_buffer, listVars
  <2>2. ListInv'
    BY <1>4 DEF ListInv, TypeOK, pop_buffer, release, listVars, Threads
  <2>3. MatchInv'
    BY <1>4, SMTT(30) DEF MatchInv, TypeOK, pop_buffer, release, listVars, Threads
  <2>4. QED
    BY <2>1, <2>2, <2>3
<1>8. ThreadInv'
  <2>1. /\ pc'["packet"] = pc["packet"] /\ hand'["packet"] = hand["packet"]
        /\ pc["state"] = "pop" /\ pc'["state"] \in {"lock", "unlink"}
        /\ pc'["state"] = "lock" => Tail(b) # <<>> /\ hand'["state"] = Head(Tail(b))
    BY <1>4 DEF TypeOK, pop_buffer, release, Threads
  <2>2. removing # NoFilter
    BY <2>1 DEF ThreadInv
  <2>3. QED
    BY <1>3, <1>4, <2>1, <2>2 DEF ThreadInv, Busy
<1>9. QED
  BY <1>6, <1>7, <1>8

(* The filter, which is on the list once at most, is off it.               *)
LEMMA UnlinkStep ==
  ASSUME NFInv, unlink_filter
  PROVE  NFInv'
<1> USE DEF NFInv
<1> DEFINE at == {i \in DOMAIN list : list[i] = removing}
<1>1. /\ list \in Seq(Index) /\ Len(list) \in Nat /\ DOMAIN list = 1 .. Len(list)
      /\ \A i \in 1 .. Len(list) : list[i] \in Index
  BY LenProperties, ElementOfSeq DEF TypeOK
<1>2. /\ list' \in Seq(Index) /\ Len(list') \in Nat
      /\ \A i \in 1 .. Len(list') : \E j \in 1 .. Len(list) : list'[i] = list[j] /\ list[j] # removing
      /\ \A i, j \in 1 .. Len(list') : list'[i] = list'[j] => i = j
  <2>1. CASE at = {}
    <3>1. list' = list
      BY <2>1 DEF unlink_filter
    <3>2. QED
      BY <1>1, <2>1, <3>1 DEF ListInv
  <2>2. CASE at # {}
    <3> DEFINE a == First(at)
    <3>0. at \subseteq Nat
      BY <1>1
    <3>1. a \in at
      <4> HIDE DEF at
      <4>1. QED
        BY <2>2, <3>0, FirstIsLeast, Zenon
    <3>2. list' = Without(list, a)
      BY <2>2 DEF unlink_filter
    <3>3. a \in 1 .. Len(list) /\ list[a] = removing
      BY <1>1, <3>1
    <3> HIDE DEF a
    <3>4. /\ list' \in Seq(Index) /\ Len(list') = Len(list) - 1
          /\ \A i \in 1 .. Len(list) - 1 : list'[i] = IF i < a THEN list[i] ELSE list[i + 1]
      BY <1>1, <3>2, <3>3, WithoutProperties
    <3>5. \A i \in 1 .. Len(list) : list[i] = removing => i = a
      BY <3>3 DEF ListInv
    <3>6. ASSUME NEW i \in 1 .. Len(list')
          PROVE  \E j \in 1 .. Len(list) : list'[i] = list[j] /\ list[j] # removing
      <4>1. CASE i < a
        BY <1>1, <3>3, <3>4, <3>5, <4>1
      <4>2. CASE ~(i < a)
        <5>1. i + 1 \in 1 .. Len(list) /\ list'[i] = list[i + 1] /\ i + 1 # a
          BY <1>1, <3>3, <3>4, <4>2
        <5>2. QED
          BY <3>5, <5>1
      <4>3. QED
        BY <4>1, <4>2
    <3>7. ASSUME NEW i \in 1 .. Len(list'), NEW j \in 1 .. Len(list'), list'[i] = list'[j]
          PROVE  i = j
      <4> DEFINE up(x) == IF x < a THEN x ELSE x + 1
      <4>1. up(i) \in 1 .. Len(list) /\ up(j) \in 1 .. Len(list)
        BY <1>1, <3>3, <3>4
      <4>2. list'[i] = list[up(i)] /\ list'[j] = list[up(j)]
        BY <1>1, <3>4
      <4>3. list[up(i)] = list[up(j)]
        BY <3>7, <4>2
      <4>4. up(i) = up(j)
        <5> HIDE DEF up
        <5>1. QED
          BY <4>1, <4>3 DEF ListInv
      <4>5. QED
        BY <1>1, <3>3, <3>4, <4>4
    <3>8. QED
      BY <1>1, <3>3, <3>4, <3>6, <3>7
  <2>3. QED
    BY <2>1, <2>2
<1> HIDE DEF at
<1>3. TypeOK' /\ CountInv'
  BY <1>2 DEF TypeOK, CountInv, unlink_filter, Goto, pktVars, outVars, Threads
<1>4. ThreadInv' /\ MatchInv'
  BY DEF ThreadInv, MatchInv, TypeOK, unlink_filter, Goto, pktVars, Threads, Busy
<1>5. ListInv'
  <2>1. filter' = filter /\ freed' = freed /\ removing' = removing
    BY DEF unlink_filter
  <2>2. \A i \in 1 .. Len(list') : list'[i] \in 1 .. Len(filter') /\ list'[i] \notin freed' /\ list'[i] # removing'
    BY <1>2, <2>1 DEF ListInv
  <2>3. QED
    BY <1>2, <2>1, <2>2 DEF ListInv
<1>6. QED
  BY <1>3, <1>4, <1>5

(* What is freed was off the list.                                         *)
LEMMA FreeStep ==
  ASSUME NFInv, free_filter
  PROVE  NFInv'
<1> USE DEF NFInv
<1>1. removing \in Index /\ removing # NoFilter /\ pc["state"] = "free"
  BY DEF free_filter, Goto, ThreadInv, TypeOK
<1>2. acks' \in 0 .. MaxRequests /\ CountInv'
  BY <1>1, LenProperties DEF free_filter, TypeOK, CountInv
<1>3. TypeOK'
  BY <1>1, <1>2 DEF TypeOK, free_filter, Goto, pktVars, outVars, Threads, NoFilter
<1>4. ThreadInv' /\ MatchInv'
  BY DEF ThreadInv, MatchInv, TypeOK, free_filter, Goto, pktVars, Threads, Busy
<1>5. ListInv'
  BY <1>1 DEF ListInv, TypeOK, free_filter, Goto, Threads
<1>6. QED
  BY <1>2, <1>3, <1>4, <1>5

(* All steps, the stuttering one included.                                 *)
LEMMA NFStep == NFInv /\ [Next]_vars => NFInv'
<1> SUFFICES ASSUME NFInv, [Next]_vars
             PROVE  NFInv'
  OBVIOUS
<1>1. CASE capture
  BY <1>1, CaptureStep
<1>2. ASSUME NEW t \in Threads, HandlePacket(t)
      PROVE  NFInv'
  BY <1>2, LookupStep, ApplyFilterStep, PostprocessStep DEF HandlePacket
<1>3. CASE handle_enable_events
  BY <1>3, EnableStep
<1>4. CASE handle_disable_events
  BY <1>4, DisableStep
<1>5. CASE StateThread
  BY <1>5, PopStep, UnlinkStep, FreeStep DEF StateThread
<1>6. CASE UNCHANGED vars
  BY <1>6 DEF vars, listVars, pktVars, outVars, NFInv, TypeOK, CountInv, ThreadInv, ListInv, MatchInv
<1>7. QED
  BY <1>1, <1>2, <1>3, <1>4, <1>5, <1>6 DEF Next

(* The invariant holds throughout.                                         *)
LEMMA NFInvariant == Spec => []NFInv
BY NFInit, NFStep, PTL DEF Spec

(* Every variable of event.c keeps its type: no lookup, removal or release *)
(* reaches for a filter or a packet that is not there.                     *)
THEOREM TypeCorrect == Spec => []TypeOK
<1>1. NFInv => TypeOK
  BY DEF NFInv
<1>2. QED
  BY <1>1, NFInvariant, PTL

(* The list of filters, which no lock protects, never holds freed memory,  *)
(* and holds each filter once.                                             *)
THEOREM ListIsLive == Spec => []NoDanglingFilter
<1>1. NFInv => NoDanglingFilter
  <2> SUFFICES ASSUME NFInv
               PROVE  NoDanglingFilter
    OBVIOUS
  <2>1. list \in Seq(Index) /\ DOMAIN list = 1 .. Len(list)
    BY LenProperties DEF NFInv, TypeOK
  <2>2. Range(list) = {list[i] : i \in 1 .. Len(list)}
    BY <2>1, RangeEquality
  <2>3. QED
    BY <2>1, <2>2 DEF NFInv, ListInv, NoDanglingFilter
<1>2. QED
  BY <1>1, NFInvariant, PTL

-----------------------------------------------------------------------------
(* What the events name. *)

(* A filter for packet p was asked for by operation id, or by one whose id *)
(* is id once it has gone through a char.                                  *)
Named(id, p) ==
  \E i \in 1 .. Len(filter) :
    filter[i].key \in KeysOf[p] /\ id \in {filter[i].id, Char(filter[i].id)}

(* What a thread will report, and what has been reported, is named so.     *)
EventInv ==
  /\ \A t \in Threads : pc[t] = "process" /\ event[t] > 0 => Named(event[t], hand[t])
  /\ \A r \in raised : r[1] > 0 /\ Named(r[1], r[2])

(* Filters are only ever added to the history.                             *)
LEMMA FiltersStay ==
  ASSUME NFInv, [Next]_vars
  PROVE  \A id, p : Named(id, p) => Named(id, p)'
<1>1. CASE handle_enable_events
  <2>1. PICK x \in Filter : filter' = Append(filter, x)
    BY <1>1 DEF handle_enable_events, Filter
  <2>2. /\ Len(filter) \in Nat /\ Len(filter') = Len(filter) + 1
        /\ \A i \in 1 .. Len(filter) : filter'[i] = filter[i]
    BY <2>1, LenProperties, AppendProperties DEF NFInv, TypeOK, Filter
  <2>3. QED
    BY <2>2 DEF Named
<1>2. CASE ~handle_enable_events
  <2>1. filter' = filter
    BY <1>2 DEF Next, capture, HandlePacket, lookup, apply_filter, pass, buffer_packet,
         drop_packet, sdmbn_postprocess_packet, handle_disable_events, StateThread,
         pop_buffer, unlink_filter, free_filter, vars, listVars
  <2>2. QED
    BY <2>1 DEF Named
<1>3. QED
  BY <1>1, <1>2

(* Where a step leaves the events raised and those about to be raised      *)
(* alone, they stay what they are.                                         *)
LEMMA EventsKept ==
  ASSUME NFInv, EventInv, [Next]_vars, raised' = raised,
         \A t \in Threads : pc'[t] = "process" =>
           pc[t] = "process" /\ event'[t] = event[t] /\ hand'[t] = hand[t]
  PROVE  EventInv'
BY FiltersStay DEF EventInv

(* A report is prepared from the filter that matched, and raised for the   *)
(* packet it was prepared for.                                             *)
LEMMA EventStep == NFInv /\ EventInv /\ [Next]_vars => EventInv'
<1> SUFFICES ASSUME NFInv, EventInv, [Next]_vars
             PROVE  EventInv'
  OBVIOUS
<1> USE NFEventsAssumption
<1>1. CASE capture
  BY <1>1, EventsKept DEF capture, Goto, outVars, NFInv, TypeOK, Threads
<1>2. ASSUME NEW t \in Threads, lookup(t)
      PROVE  EventInv'
  BY <1>2, EventsKept DEF lookup, Goto, outVars, NFInv, TypeOK, Threads
<1>3. ASSUME NEW t \in Threads, apply_filter(t)
      PROVE  EventInv'
  <2>1. CASE pass(t, 0)
    <3>1. /\ pc'[t] = "process" /\ event'[t] = 0 /\ raised' = raised /\ hand' = hand
          /\ \A u \in Threads : u # t => pc'[u] = pc[u] /\ event'[u] = event[u]
      BY <2>1 DEF pass, Goto, outVars, NFInv, TypeOK
    <3>2. QED
      BY <3>1, FiltersStay DEF EventInv
  <2>2. CASE match[t] # NoFilter /\ pass(t, Char(filter[match[t]].id))
    <3>1. /\ pc'[t] = "process" /\ event'[t] = Char(filter[match[t]].id)
          /\ raised' = raised /\ hand' = hand
          /\ \A u \in Threads : u # t => pc'[u] = pc[u] /\ event'[u] = event[u]
      BY <2>2 DEF pass, Goto, outVars, NFInv, TypeOK
    <3>2. match[t] \in 1 .. Len(filter) /\ filter[match[t]].key \in KeysOf[hand[t]]
      BY <2>2 DEF NFInv, MatchInv, pass, Goto
    <3>3. Named(event'[t], hand'[t])
      BY <3>1, <3>2 DEF Named
    <3>4. \A u \in Threads : pc'[u] = "process" /\ event'[u] > 0 => Named(event'[u], hand'[u])
      BY <3>1, <3>3 DEF EventInv
    <3>5. QED
      BY <3>1, <3>4, FiltersStay DEF EventInv
  <2>3. CASE buffer_packet(t)
    BY <2>3, EventsKept DEF buffer_packet, Goto, Done, outVars, NFInv, TypeOK, Threads
  <2>4. CASE match[t] # NoFilter /\ drop_packet(t)
    <3>1. match[t] \in 1 .. Len(filter) /\ filter[match[t]].key \in KeysOf[hand[t]]
      BY <2>4 DEF NFInv, MatchInv, drop_packet, Goto
    <3>2. filter[match[t]] \in Filter
      BY <3>1, ElementOfSeq DEF NFInv, TypeOK, Filter
    <3>3. filter[match[t]].id \in Nat \ {0}
      BY <3>2 DEF Filter
    <3>4. Named(filter[match[t]].id, hand[t]) /\ filter[match[t]].id > 0
      BY <3>1, <3>3 DEF Named
    <3>5. raised' = raised \cup {<<filter[match[t]].id, hand[t]>>}
      BY <2>4 DEF drop_packet
    <3>6. \A r \in raised' : r[1] > 0 /\ Named(r[1], r[2])
      BY <3>4, <3>5 DEF EventInv
    <3>7. \A u \in Threads : pc'[u] = "process" =>
            pc[u] = "process" /\ event'[u] = event[u] /\ hand'[u] = hand[u]
      BY <2>4 DEF drop_packet, Goto, Done, NFInv, TypeOK, Threads
    <3>8. QED
      BY <3>6, <3>7, FiltersStay DEF EventInv
  <2>5. QED
    BY <1>3, <2>1, <2>2, <2>3, <2>4 DEF apply_filter
<1>4. ASSUME NEW t \in Threads, sdmbn_postprocess_packet(t)
      PROVE  EventInv'
  <2>1. pc[t] = "process" /\ (event[t] > 0 => Named(event[t], hand[t]))
    BY <1>4 DEF sdmbn_postprocess_packet, Goto, EventInv
  <2>2. raised' = IF event[t] > 0 THEN raised \cup {<<event[t], hand[t]>>} ELSE raised
    BY <1>4 DEF sdmbn_postprocess_packet
  <2>3. \A r \in raised' : r[1] > 0 /\ Named(r[1], r[2])
    BY <2>1, <2>2 DEF EventInv
  <2>4. \A u \in Threads : pc'[u] = "process" =>
          pc[u] = "process" /\ event'[u] = event[u] /\ hand'[u] = hand[u]
    BY <1>4 DEF sdmbn_postprocess_packet, Goto, Done, NFInv, TypeOK, Threads
  <2>5. QED
    BY <2>3, <2>4, FiltersStay DEF EventInv
<1>5. CASE handle_enable_events
  BY <1>5, EventsKept DEF handle_enable_events, pktVars, outVars
<1>6. CASE handle_disable_events
  <2>1. raised' = raised /\ event' = event
    BY <1>6 DEF handle_disable_events, outVars
  <2>2. \A u \in Threads : pc'[u] = "process" => pc[u] = "process" /\ hand'[u] = hand[u]
    BY <1>6 DEF handle_disable_events, release, NFInv, TypeOK, Threads
  <2>3. QED
    BY <2>1, <2>2, EventsKept
<1>7. CASE StateThread
  <2>1. raised' = raised /\ event' = event
    BY <1>7 DEF StateThread, pop_buffer, unlink_filter, free_filter, outVars, pktVars
  <2>2. \A u \in Threads : pc'[u] = "process" => pc[u] = "process" /\ hand'[u] = hand[u]
    BY <1>7 DEF StateThread, pop_buffer, unlink_filter, free_filter, Goto, release, pktVars, NFInv, TypeOK, Threads
  <2>3. QED
    BY <2>1, <2>2, EventsKept
<1>8. CASE UNCHANGED vars
  BY <1>8, EventsKept DEF vars, pktVars, outVars
<1>9. QED
  BY <1>1, <1>2, <1>3, <1>4, <1>5, <1>6, <1>7, <1>8 DEF Next, HandlePacket

(* What is raised is always named, by the id or by what a char keeps of it.*)
LEMMA EventInvariant == Spec => [](NFInv /\ EventInv)
<1>1. Init => EventInv
  BY DEF Init, EventInv, Threads
<1>2. QED
  BY <1>1, NFInit, NFStep, EventStep, PTL DEF Spec

(* A reprocess event names an operation that asked for a filter with a key *)
(* of the packet, however lookups, removals and reports interleave. This   *)
(* needs the ids to stay within 256: event is a char, and from 257 on the  *)
(* id wraps around to a positive number that is another operation's.       *)
THEOREM EventsAreOfMatchingFilters ==
  ASSUME Ids \subseteq 1 .. 256
  PROVE  Spec => []EventsNameAMatchingFilter
<1>1. NFInv /\ EventInv => EventsNameAMatchingFilter
  <2> SUFFICES ASSUME NFInv, EventInv, NEW r \in raised
               PROVE  \E f \in Range(filter) : f.id = r[1] /\ f.key \in KeysOf[r[2]]
    BY DEF EventsNameAMatchingFilter
  <2>1. filter \in Seq(Filter)
    BY DEF NFInv, TypeOK, Filter
  <2>2. PICK i \in 1 .. Len(filter) :
          filter[i].key \in KeysOf[r[2]] /\ r[1] \in {filter[i].id, Char(filter[i].id)}
    BY DEF EventInv, Named
  <2>3. filter[i] \in Filter
    BY <2>1, ElementOfSeq
  <2>4. filter[i].id \in 1 .. 256 /\ filter[i].id \in Nat
    <3>1. filter[i].id \in Ids
      BY <2>3 DEF Filter
    <3>2. QED
      BY <3>1, NFEventsAssumption
  <2>5. filter[i].id = r[1]
    BY <2>2, <2>4, CharRange DEF EventInv
  <2>6. filter[i] \in Range(filter)
    BY <2>1, RangeEquality
  <2>7. QED
    BY <2>2, <2>5, <2>6
<1>2. QED
  BY <1>1, EventInvariant, PTL

-----------------------------------------------------------------------------
(* The fates of packets. *)

(* Packet p is in place x when h are the packets held in the buffers, c    *)
(* the ones carried by the threads, s those processed and d those dropped. *)
Waits(h, p, x)   == \E f \in Index : \E i \in DOMAIN h[f] : h[f][i] = p /\ x = <<"waits", f, i>>
Carries(c, p, x) == \E t \in Threads : c[t] = p /\ x = <<"in hand", t>>
Past(s, p, x)    == \E i \in DOMAIN s : s[i] = p /\ x = <<"processed", i>>
Gone(d, p, x)    == p \in d /\ x = <<"dropped", p>>
IsAt(h, c, s, d, p, x) == Waits(h, p, x) \/ Carries(c, p, x) \/ Past(s, p, x) \/ Gone(d, p, x)

OnlyAt(h, c, s, d, p, x) == \A y : IsAt(h, c, s, d, p, y) <=> y = x

(* The first n packets are in one place each, the others in none.          *)
OnePlace(h, c, s, d, n) ==
  \A p \in Packets :
    /\ p <= n => \E x : OnlyAt(h, c, s, d, p, x)
    /\ p > n => \A y : ~IsAt(h, c, s, d, p, y)

HeldAll == [f \in Index |-> Held(f)]
Carried == [t \in Threads |-> IF pc[t] \in Busy THEN hand[t] ELSE NoPacket]
FateInv == OnePlace(HeldAll, Carried, processed, dropped, arrived)

(* The places are the fates.                                               *)
LEMMA FatesArePlaces ==
  ASSUME NEW p \in Packets, NEW x
  PROVE  x \in Fates(p) <=> IsAt(HeldAll, Carried, processed, dropped, p, x)
<1> DEFINE W(f) == {<<"waits", f, i>> : i \in {j \in DOMAIN Held(f) : Held(f)[j] = p}}
           U    == UNION {W(f) : f \in Index}
           C    == {<<"in hand", t>> : t \in {u \in Threads : InHand(u, p)}}
           S    == {<<"processed", i>> : i \in {j \in DOMAIN processed : processed[j] = p}}
           D    == {<<"dropped", q>> : q \in dropped \cap {p}}
<1>1. Fates(p) = U \cup C \cup S \cup D
  BY Zenon DEF Fates
<1>2. x \in U <=> Waits(HeldAll, p, x)
  <2>1. x \in U <=> \E f \in Index : x \in W(f)
    BY Zenon
  <2>2. \A f \in Index : x \in W(f) <=>
          \E i \in DOMAIN Held(f) : Held(f)[i] = p /\ x = <<"waits", f, i>>
    BY Zenon
  <2>3. \A f \in Index : HeldAll[f] = Held(f)
    BY DEF HeldAll
  <2> HIDE DEF U, W
  <2>4. QED
    BY <2>1, <2>2, <2>3, Zenon DEF Waits
<1>3. x \in C <=> Carries(Carried, p, x)
  <2>1. p # NoPacket
    BY DEF Packets, NoPacket
  <2>2. \A t \in Threads : InHand(t, p) <=> Carried[t] = p
    BY <2>1 DEF InHand, Carried, Busy
  <2>3. x \in C <=> \E t \in Threads : InHand(t, p) /\ x = <<"in hand", t>>
    BY Zenon
  <2> HIDE DEF C
  <2>4. QED
    BY <2>2, <2>3, Zenon DEF Carries
<1>4. x \in S <=> Past(processed, p, x)
  BY Zenon DEF Past
<1>5. x \in D <=> Gone(dropped, p, x)
  BY Zenon DEF Gone
<1> HIDE DEF U, C, S, D
<1>6. x \in Fates(p) <=> x \in U \/ x \in C \/ x \in S \/ x \in D
  BY <1>1, Zenon
<1>7. QED
  BY <1>2, <1>3, <1>4, <1>5, <1>6, Zenon DEF IsAt

(* The types the places range over.                                        *)
PlaceTypes(h, c, s, d) ==
  /\ h \in [Index -> Seq(Packets)] /\ c \in [Threads -> Packets \cup {NoPacket}]
  /\ s \in Seq(Packets) /\ d \subseteq Packets

(* A thread's hand is a place of its own.                                  *)
LEMMA HandPlace ==
  ASSUME NEW t \in Threads, NEW q
  PROVE  /\ \A c : Carries(c, q, <<"in hand", t>>) <=> c[t] = q
         /\ \A h : ~Waits(h, q, <<"in hand", t>>)
         /\ \A s : ~Past(s, q, <<"in hand", t>>)
         /\ \A d : ~Gone(d, q, <<"in hand", t>>)
<1>1. \A f, i : <<"in hand", t>> # <<"waits", f, i>>
  OBVIOUS
<1>2. \A i : <<"in hand", t>> # <<"processed", i>> /\ <<"in hand", t>> # <<"dropped", i>>
  OBVIOUS
<1>3. \A u : <<"in hand", t>> = <<"in hand", u>> => t = u
  OBVIOUS
<1>4. \A c : Carries(c, q, <<"in hand", t>>) <=> c[t] = q
  BY <1>3, Zenon DEF Carries
<1>5. \A h : ~Waits(h, q, <<"in hand", t>>)
  BY <1>1, Zenon DEF Waits
<1>6. (\A s : ~Past(s, q, <<"in hand", t>>)) /\ (\A d : ~Gone(d, q, <<"in hand", t>>))
  BY <1>2, Zenon DEF Past, Gone
<1>7. QED
  BY <1>4, <1>5, <1>6

(* The hand is emptied when the packet goes.                               *)
LEMMA HandEmptied ==
  ASSUME NEW c \in [Threads -> Packets \cup {NoPacket}], NEW t \in Threads, NEW q \in Packets, NEW x
  PROVE  Carries([c EXCEPT ![t] = NoPacket], q, x) <=> Carries(c, q, x) /\ x # <<"in hand", t>>
<1>1. q # NoPacket
  BY DEF Packets, NoPacket
<1> DEFINE c2 == [c EXCEPT ![t] = NoPacket]
<1>2. \A u \in Threads : c2[u] = IF u = t THEN NoPacket ELSE c[u]
  OBVIOUS
<1>3. \A u : <<"in hand", u>> = <<"in hand", t>> => u = t
  OBVIOUS
<1> HIDE DEF c2
<1>4. Carries(c2, q, x) <=> Carries(c, q, x) /\ x # <<"in hand", t>>
  BY <1>1, <1>2, <1>3 DEF Carries
<1>5. QED
  BY <1>4 DEF c2

(* What leaves a thread's hand for place b relocates its packet.           *)
LEMMA HandedOver ==
  ASSUME NEW h, NEW c, NEW s, NEW d, NEW n \in Nat, PlaceTypes(h, c, s, d),
         OnePlace(h, c, s, d, n), NEW t \in Threads, c[t] \in Packets,
         NEW h2, NEW s2, NEW d2, NEW b,
         \A q \in Packets : \A x :
           Waits(h2, q, x) \/ Past(s2, q, x) \/ Gone(d2, q, x) <=>
           Waits(h, q, x) \/ Past(s, q, x) \/ Gone(d, q, x) \/ (q = c[t] /\ x = b)
  PROVE  OnePlace(h2, [c EXCEPT ![t] = NoPacket], s2, d2, n)
<1> DEFINE p  == c[t]
           a  == <<"in hand", t>>
           c2 == [c EXCEPT ![t] = NoPacket]
<1>1. \A q \in Packets : IsAt(h, c, s, d, q, a) <=> q = p
  BY HandPlace DEF IsAt
<1>2. c \in [Threads -> Packets \cup {NoPacket}]
  BY DEF PlaceTypes
<1>3. ASSUME NEW q \in Packets, NEW x
      PROVE  IsAt(h2, c2, s2, d2, q, x) <=>
               (IsAt(h, c, s, d, q, x) /\ x # a) \/ (q = p /\ x = b)
  <2>1. Carries(c2, q, x) <=> Carries(c, q, x) /\ x # a
    BY <1>2, HandEmptied
  <2>2. x = a => ~Waits(h, q, x) /\ ~Past(s, q, x) /\ ~Gone(d, q, x)
    <3>1. ~Waits(h, q, a) /\ ~Past(s, q, a) /\ ~Gone(d, q, a)
      BY HandPlace
    <3> HIDE DEF a
    <3>2. QED
      BY <3>1
  <2> HIDE DEF a, c2
  <2>3. QED
    BY <2>1, <2>2 DEF IsAt
<1>4. p \in Packets
  OBVIOUS
<1> HIDE DEF a, c2, p
<1>5. ASSUME NEW q \in Packets
      PROVE  /\ q <= n => \E x : OnlyAt(h2, c2, s2, d2, q, x)
             /\ q > n => \A y : ~IsAt(h2, c2, s2, d2, q, y)
  <2>1. /\ q <= n => \E x : OnlyAt(h, c, s, d, q, x)
        /\ q > n => \A y : ~IsAt(h, c, s, d, q, y)
    BY DEF OnePlace
  <2>2. CASE q = p
    <3>1. IsAt(h, c, s, d, q, a)
      BY <1>1, <2>2
    <3>2. ~(q > n)
      BY <2>1, <3>1, Zenon
    <3>3. q <= n
      BY <3>2, NFEventsAssumption DEF Packets
    <3>4. PICK x : OnlyAt(h, c, s, d, q, x)
      BY <2>1, <3>3
    <3>5. x = a
      BY <3>1, <3>4, Zenon DEF OnlyAt
    <3>6. ASSUME NEW y
          PROVE  IsAt(h2, c2, s2, d2, q, y) <=> y = b
      <4>1. IsAt(h, c, s, d, q, y) => y = a
        BY <3>4, <3>5, Zenon DEF OnlyAt
      <4>2. IsAt(h2, c2, s2, d2, q, y) <=> (IsAt(h, c, s, d, q, y) /\ y # a) \/ (q = p /\ y = b)
        BY <1>3, Zenon
      <4>3. QED
        BY <2>2, <4>1, <4>2
    <3>7. OnlyAt(h2, c2, s2, d2, q, b)
      BY <3>6 DEF OnlyAt
    <3>8. QED
      BY <3>2, <3>7, Zenon
  <2>3. CASE q # p
    <3>1. \A y : IsAt(h2, c2, s2, d2, q, y) <=> IsAt(h, c, s, d, q, y)
      BY <1>1, <1>3, <2>3, Zenon
    <3>2. ASSUME q <= n
          PROVE  \E x : OnlyAt(h2, c2, s2, d2, q, x)
      <4>1. PICK x : OnlyAt(h, c, s, d, q, x)
        BY <2>1, <3>2
      <4>2. OnlyAt(h2, c2, s2, d2, q, x)
        BY <3>1, <4>1, Zenon DEF OnlyAt
      <4>3. QED
        BY <4>2, Zenon
    <3>3. ASSUME q > n, NEW y
          PROVE  ~IsAt(h2, c2, s2, d2, q, y)
      BY <2>1, <3>1, <3>3, Zenon
    <3>4. QED
      BY <3>2, <3>3, Zenon
  <2>4. QED
    BY <2>2, <2>3, Zenon
<1>6. OnePlace(h2, c2, s2, d2, n)
  BY <1>5, Zenon DEF OnePlace
<1>7. QED
  BY <1>6 DEF c2

(* A packet in hand is processed, dropped or buffered.                     *)
LEMMA PlaceProcessed ==
  ASSUME NEW h, NEW c, NEW s, NEW d, NEW n \in Nat, PlaceTypes(h, c, s, d),
         OnePlace(h, c, s, d, n), NEW t \in Threads, c[t] \in Packets
  PROVE  OnePlace(h, [c EXCEPT ![t] = NoPacket], Append(s, c[t]), d, n)
<1> DEFINE p  == c[t]
           b  == <<"processed", Len(s) + 1>>
           s2 == Append(s, p)
<1>1. /\ DOMAIN s = 1 .. Len(s) /\ DOMAIN s2 = 1 .. Len(s) + 1 /\ s2[Len(s) + 1] = p
      /\ \A i \in 1 .. Len(s) : s2[i] = s[i]
  BY AppendProperties, LenProperties DEF PlaceTypes
<1>2. 1 .. Len(s) + 1 = (1 .. Len(s)) \cup {Len(s) + 1}
  BY LenProperties DEF PlaceTypes
<1> HIDE DEF s2
<1>3. ASSUME NEW q \in Packets, NEW x
      PROVE  Past(s2, q, x) <=> Past(s, q, x) \/ (q = p /\ x = b)
  BY <1>1, <1>2 DEF Past
<1> HIDE DEF b
<1>4. \A q \in Packets : \A x :
        Waits(h, q, x) \/ Past(s2, q, x) \/ Gone(d, q, x) <=>
        Waits(h, q, x) \/ Past(s, q, x) \/ Gone(d, q, x) \/ (q = c[t] /\ x = b)
  BY <1>3, Zenon
<1>5. OnePlace(h, [c EXCEPT ![t] = NoPacket], s2, d, n)
  BY <1>4, HandedOver, Zenon
<1>6. QED
  BY <1>5 DEF s2

(* A dropped packet leaves the thread that carried it for the dropped      *)
(* ones.                                                                   *)
LEMMA PlaceDropped ==
  ASSUME NEW h, NEW c, NEW s, NEW d, NEW n \in Nat, PlaceTypes(h, c, s, d),
         OnePlace(h, c, s, d, n), NEW t \in Threads, c[t] \in Packets
  PROVE  OnePlace(h, [c EXCEPT ![t] = NoPacket], s, d \cup {c[t]}, n)
<1> DEFINE p  == c[t]
           b  == <<"dropped", p>>
           d2 == d \cup {p}
<1>1. ASSUME NEW q \in Packets, NEW x
      PROVE  Gone(d2, q, x) <=> Gone(d, q, x) \/ (q = p /\ x = b)
  BY Zenon DEF Gone
<1> HIDE DEF b, d2
<1>2. \A q \in Packets : \A x :
        Waits(h, q, x) \/ Past(s, q, x) \/ Gone(d2, q, x) <=>
        Waits(h, q, x) \/ Past(s, q, x) \/ Gone(d, q, x) \/ (q = c[t] /\ x = b)
  BY <1>1, Zenon
<1>3. OnePlace(h, [c EXCEPT ![t] = NoPacket], s, d2, n)
  BY <1>2, HandedOver, Zenon
<1>4. QED
  BY <1>3 DEF d2

(* A buffered packet leaves the thread that carried it for the end of the  *)
(* buffer.                                                                 *)
LEMMA PlaceBuffered ==
  ASSUME NEW h, NEW c, NEW s, NEW d, NEW n \in Nat, PlaceTypes(h, c, s, d),
         OnePlace(h, c, s, d, n), NEW t \in Threads, c[t] \in Packets, NEW m \in Index
  PROVE  OnePlace([h EXCEPT ![m] = Append(h[m], c[t])], [c EXCEPT ![t] = NoPacket], s, d, n)
<1> DEFINE p  == c[t]
           k  == Len(h[m]) + 1
           b  == <<"waits", m, k>>
           h2 == [h EXCEPT ![m] = Append(h[m], p)]
<1>1. /\ DOMAIN h[m] = 1 .. Len(h[m]) /\ DOMAIN h2[m] = 1 .. k /\ h2[m][k] = p
      /\ Len(h[m]) \in Nat /\ \A i \in 1 .. Len(h[m]) : h2[m][i] = h[m][i]
      /\ \A f \in Index : f # m => h2[f] = h[f]
  <2>1. h[m] \in Seq(Packets) /\ h2[m] = Append(h[m], p) /\ \A f \in Index : f # m => h2[f] = h[f]
    BY DEF PlaceTypes
  <2> HIDE DEF h2
  <2>2. QED
    BY <2>1, AppendProperties, LenProperties
<1>2. 1 .. k = (1 .. Len(h[m])) \cup {k}
  BY <1>1
<1> HIDE DEF h2, k
<1>3. ASSUME NEW q \in Packets, NEW x
      PROVE  Waits(h2, q, x) <=> Waits(h, q, x) \/ (q = p /\ x = b)
  <2>1. (\E i \in DOMAIN h2[m] : h2[m][i] = q /\ x = <<"waits", m, i>>)
        <=> \/ \E i \in DOMAIN h[m] : h[m][i] = q /\ x = <<"waits", m, i>>
            \/ q = p /\ x = b
    BY <1>1, <1>2
  <2> HIDE DEF b, p
  <2>2. QED
    BY <1>1, <2>1, Zenon DEF Waits
<1> HIDE DEF b
<1>4. \A q \in Packets : \A x :
        Waits(h2, q, x) \/ Past(s, q, x) \/ Gone(d, q, x) <=>
        Waits(h, q, x) \/ Past(s, q, x) \/ Gone(d, q, x) \/ (q = c[t] /\ x = b)
  BY <1>3, Zenon
<1>5. OnePlace(h2, [c EXCEPT ![t] = NoPacket], s, d, n)
  BY <1>4, HandedOver, Zenon
<1>6. QED
  BY <1>5 DEF h2

(* A packet that arrives is in the packet thread's hand.                   *)
LEMMA PlaceArrived ==
  ASSUME NEW h, NEW c, NEW s, NEW d, NEW n \in Nat, PlaceTypes(h, c, s, d),
         OnePlace(h, c, s, d, n), c["packet"] = NoPacket, n + 1 \in Packets
  PROVE  OnePlace(h, [c EXCEPT !["packet"] = n + 1], s, d, n + 1)
<1> DEFINE a  == <<"in hand", "packet">>
           c2 == [c EXCEPT !["packet"] = n + 1]
<1>0. n + 1 # NoPacket /\ "packet" \in Threads
  BY DEF NoPacket, Threads
<1>1. \A u \in Threads : c2[u] = IF u = "packet" THEN n + 1 ELSE c[u]
  BY DEF PlaceTypes
<1>2. ASSUME NEW q \in Packets, NEW x
      PROVE  Carries(c2, q, x) <=> Carries(c, q, x) \/ (q = n + 1 /\ x = a)
  <2>1. q # NoPacket
    BY DEF Packets, NoPacket
  <2> HIDE DEF c2
  <2>2. QED
    BY <1>0, <1>1, <2>1 DEF Carries
<1> HIDE DEF a, c2
<1>3. \A q \in Packets : \A x : IsAt(h, c2, s, d, q, x) <=> IsAt(h, c, s, d, q, x) \/ (q = n + 1 /\ x = a)
  BY <1>2, Zenon DEF IsAt
<1>4. ASSUME NEW q \in Packets
      PROVE  /\ q <= n + 1 => \E x : OnlyAt(h, c2, s, d, q, x)
             /\ q > n + 1 => \A y : ~IsAt(h, c2, s, d, q, y)
  <2>0. q \in Nat
    BY NFEventsAssumption DEF Packets
  <2>1. /\ q <= n => \E x : OnlyAt(h, c, s, d, q, x)
        /\ q > n => \A y : ~IsAt(h, c, s, d, q, y)
    BY DEF OnePlace
  <2>2. CASE q = n + 1
    <3>1. \A y : ~IsAt(h, c, s, d, q, y)
      BY <2>0, <2>1, <2>2
    <3>2. \A y : IsAt(h, c2, s, d, q, y) <=> y = a
      BY <1>3, <2>2, <3>1, Zenon
    <3>3. OnlyAt(h, c2, s, d, q, a)
      BY <3>2 DEF OnlyAt
    <3>4. QED
      BY <2>0, <2>2, <3>3
  <2>3. CASE q # n + 1
    <3>1. \A y : IsAt(h, c2, s, d, q, y) <=> IsAt(h, c, s, d, q, y)
      BY <1>3, <2>3, Zenon
    <3>2. ASSUME q <= n + 1
          PROVE  \E x : OnlyAt(h, c2, s, d, q, x)
      <4>1. q <= n
        BY <2>0, <2>3, <3>2
      <4>2. PICK x : OnlyAt(h, c, s, d, q, x)
        BY <2>1, <4>1
      <4>3. OnlyAt(h, c2, s, d, q, x)
        BY <3>1, <4>2, Zenon DEF OnlyAt
      <4>4. QED
        BY <4>3, Zenon
    <3>3. ASSUME q > n + 1, NEW y
          PROVE  ~IsAt(h, c2, s, d, q, y)
      <4>1. q > n
        BY <2>0, <3>3
      <4>2. QED
        BY <2>1, <3>1, <4>1, Zenon
    <3>4. QED
      BY <3>2, <3>3, Zenon
  <2>4. QED
    BY <2>2, <2>3, Zenon
<1>5. OnePlace(h, c2, s, d, n + 1)
  BY <1>4, Zenon DEF OnePlace
<1>6. QED
  BY <1>5 DEF c2

(* The first packet of buffer r goes to the state thread's hand, the       *)
(* others move up: place x becomes y.                                      *)
MovesUp(r, x, y) ==
  \/ x = <<"waits", r, 1>> /\ y = <<"in hand", "state">>
  \/ \E i \in Nat \ {0} : x = <<"waits", r, i + 1>> /\ y = <<"waits", r, i>>
  \/ (\A i : x # <<"waits", r, i>>) /\ y = x

(* A place moves to one place.                                             *)
LEMMA MovesUpToOne ==
  ASSUME NEW r, NEW x, NEW y, NEW z, MovesUp(r, x, y), MovesUp(r, x, z)
  PROVE  y = z
<1>1. \A i, j : <<"waits", r, i>> = <<"waits", r, j>> => i = j
  OBVIOUS
<1>2. \A i \in Nat \ {0} : i + 1 # 1 /\ \A j \in Nat \ {0} : i + 1 = j + 1 => i = j
  OBVIOUS
<1>3. CASE x = <<"waits", r, 1>>
  <2>1. \A i \in Nat \ {0} : x # <<"waits", r, i + 1>>
    BY <1>1, <1>2, <1>3, Zenon
  <2>2. ~\A i : x # <<"waits", r, i>>
    BY <1>3, Zenon
  <2>3. y = <<"in hand", "state">> /\ z = <<"in hand", "state">>
    BY <2>1, <2>2, Zenon DEF MovesUp
  <2>4. QED
    BY <2>3
<1>4. CASE \E i \in Nat \ {0} : x = <<"waits", r, i + 1>>
  <2>1. PICK i \in Nat \ {0} : x = <<"waits", r, i + 1>>
    BY <1>4
  <2>2. x # <<"waits", r, 1>> /\ \A j \in Nat \ {0} : x = <<"waits", r, j + 1>> => j = i
    BY <1>1, <1>2, <2>1
  <2>3. y = <<"waits", r, i>> /\ z = <<"waits", r, i>>
    BY <2>1, <2>2 DEF MovesUp
  <2>4. QED
    BY <2>3
<1>5. CASE \A i : x # <<"waits", r, i>>
  BY <1>5 DEF MovesUp
<1>6. QED
  BY <1>3, <1>4, <1>5 DEF MovesUp

(* The state thread takes the first packet of a buffer.                    *)
LEMMA PlaceTaken ==
  ASSUME NEW h, NEW c, NEW s, NEW d, NEW n \in Nat, PlaceTypes(h, c, s, d),
         OnePlace(h, c, s, d, n), c["state"] = NoPacket, NEW r \in Index, h[r] # <<>>
  PROVE  OnePlace([h EXCEPT ![r] = Tail(h[r])], [c EXCEPT !["state"] = Head(h[r])], s, d, n)
<1> DEFINE h2 == [h EXCEPT ![r] = Tail(h[r])]
           c2 == [c EXCEPT !["state"] = Head(h[r])]
<1>1. /\ DOMAIN h[r] = 1 .. Len(h[r]) /\ DOMAIN h2[r] = 1 .. Len(h[r]) - 1
      /\ Len(h[r]) \in Nat \ {0} /\ Head(h[r]) = h[r][1]
      /\ \A i \in 1 .. Len(h[r]) - 1 : h2[r][i] = h[r][i + 1]
      /\ \A f \in Index : f # r => h2[f] = h[f]
  <2>1. /\ h[r] \in Seq(Packets) /\ h2[r] = Tail(h[r])
        /\ \A f \in Index : f # r => h2[f] = h[f]
    BY DEF PlaceTypes
  <2> HIDE DEF h2
  <2>2. QED
    BY <2>1, HeadTailProperties, LenProperties, EmptySeq
<1>2. /\ c2["state"] = h[r][1] /\ \A u \in Threads : u # "state" => c2[u] = c[u]
      /\ "state" \in Threads
  BY <1>1 DEF PlaceTypes, Threads
<1>3. \A q \in Packets : q # NoPacket
  BY DEF Packets, NoPacket
<1>4. /\ \A f, i, j : <<"waits", f, i>> = <<"waits", r, j>> => f = r
      /\ \A t, i : <<"in hand", t>> # <<"waits", r, i>>
      /\ \A j, i : <<"processed", j>> # <<"waits", r, i>>
      /\ \A j, i : <<"dropped", j>> # <<"waits", r, i>>
  OBVIOUS
<1> HIDE DEF h2, c2
<1>5. ASSUME NEW q \in Packets, NEW x, IsAt(h, c, s, d, q, x)
      PROVE  \E y : MovesUp(r, x, y) /\ IsAt(h2, c2, s, d, q, y)
  <2>1. ASSUME NEW f \in Index, NEW i \in DOMAIN h[f], h[f][i] = q, x = <<"waits", f, i>>
        PROVE  \E y : MovesUp(r, x, y) /\ IsAt(h2, c2, s, d, q, y)
    <3>1. CASE f # r
      <4>1. Waits(h2, q, x) /\ MovesUp(r, x, x)
        BY <1>1, <1>4, <2>1, <3>1 DEF Waits, MovesUp
      <4>2. QED
        BY <4>1, Zenon DEF IsAt
    <3>2. CASE f = r /\ i = 1
      <4>1. Carries(c2, q, <<"in hand", "state">>) /\ MovesUp(r, x, <<"in hand", "state">>)
        BY <1>2, <2>1, <3>2 DEF Carries, MovesUp
      <4>2. QED
        BY <4>1, Zenon DEF IsAt
    <3>3. CASE f = r /\ i # 1
      <4>1. i - 1 \in Nat \ {0} /\ i - 1 \in DOMAIN h2[r] /\ (i - 1) + 1 = i /\ h2[r][i - 1] = q
        <5>1. i \in 1 .. Len(h[r]) /\ h[r][i] = q /\ i # 1
          BY <1>1, <2>1, <3>3
        <5>2. i - 1 \in 1 .. Len(h[r]) - 1 /\ (i - 1) + 1 = i /\ i - 1 \in Nat \ {0}
          BY <1>1, <5>1
        <5>3. h2[r][i - 1] = h[r][(i - 1) + 1]
          BY <1>1, <5>2
        <5>4. QED
          BY <1>1, <5>1, <5>2, <5>3
      <4>2. Waits(h2, q, <<"waits", r, i - 1>>)
        BY <4>1 DEF Waits
      <4>3. MovesUp(r, x, <<"waits", r, i - 1>>)
        BY <2>1, <3>3, <4>1 DEF MovesUp
      <4>4. QED
        BY <4>2, <4>3, Zenon DEF IsAt
    <3>4. QED
      BY <3>1, <3>2, <3>3
  <2>2. CASE Carries(c, q, x)
    <3>1. Carries(c2, q, x) /\ MovesUp(r, x, x)
      BY <1>2, <1>3, <1>4, <2>2 DEF Carries, MovesUp
    <3>2. QED
      BY <3>1, Zenon DEF IsAt
  <2>3. CASE Past(s, q, x) \/ Gone(d, q, x)
    <3>1. MovesUp(r, x, x)
      BY <1>4, <2>3 DEF Past, Gone, MovesUp
    <3>2. QED
      BY <2>3, <3>1, Zenon DEF IsAt
  <2>4. QED
    BY <1>5, <2>1, <2>2, <2>3, Zenon DEF IsAt, Waits
<1>6. ASSUME NEW q \in Packets, NEW y, IsAt(h2, c2, s, d, q, y)
      PROVE  \E x : MovesUp(r, x, y) /\ IsAt(h, c, s, d, q, x)
  <2>1. ASSUME NEW f \in Index, NEW i \in DOMAIN h2[f], h2[f][i] = q, y = <<"waits", f, i>>
        PROVE  \E x : MovesUp(r, x, y) /\ IsAt(h, c, s, d, q, x)
    <3>1. CASE f # r
      <4>1. Waits(h, q, y) /\ MovesUp(r, y, y)
        BY <1>1, <1>4, <2>1, <3>1 DEF Waits, MovesUp
      <4>2. QED
        BY <4>1, Zenon DEF IsAt
    <3>2. CASE f = r
      <4>1. i \in Nat \ {0} /\ i + 1 \in DOMAIN h[r] /\ h[r][i + 1] = q
        BY <1>1, <2>1, <3>2
      <4>2. Waits(h, q, <<"waits", r, i + 1>>)
        BY <4>1 DEF Waits
      <4>3. MovesUp(r, <<"waits", r, i + 1>>, y)
        BY <2>1, <3>2, <4>1 DEF MovesUp
      <4>4. QED
        BY <4>2, <4>3, Zenon DEF IsAt
    <3>3. QED
      BY <3>1, <3>2
  <2>2. ASSUME NEW t \in Threads, c2[t] = q, y = <<"in hand", t>>
        PROVE  \E x : MovesUp(r, x, y) /\ IsAt(h, c, s, d, q, x)
    <3>1. CASE t = "state"
      <4>1. Waits(h, q, <<"waits", r, 1>>)
        <5>1. 1 \in DOMAIN h[r]
          BY <1>1
        <5>2. h[r][1] = q
          BY <1>2, <2>2, <3>1
        <5>3. QED
          BY <5>1, <5>2, Zenon DEF Waits
      <4>2. MovesUp(r, <<"waits", r, 1>>, y)
        BY <2>2, <3>1 DEF MovesUp
      <4>3. QED
        BY <4>1, <4>2, Zenon DEF IsAt
    <3>2. CASE t # "state"
      <4>1. Carries(c, q, y) /\ MovesUp(r, y, y)
        BY <1>2, <1>4, <2>2, <3>2 DEF Carries, MovesUp
      <4>2. QED
        BY <4>1, Zenon DEF IsAt
    <3>3. QED
      BY <3>1, <3>2
  <2>3. CASE Past(s, q, y) \/ Gone(d, q, y)
    <3>1. MovesUp(r, y, y)
      BY <1>4, <2>3 DEF Past, Gone, MovesUp
    <3>2. QED
      BY <2>3, <3>1, Zenon DEF IsAt
  <2>4. QED
    BY <1>6, <2>1, <2>2, <2>3, Zenon DEF IsAt, Waits, Carries
<1>7. ASSUME NEW q \in Packets
      PROVE  /\ q <= n => \E x : OnlyAt(h2, c2, s, d, q, x)
             /\ q > n => \A y : ~IsAt(h2, c2, s, d, q, y)
  <2>1. /\ q <= n => \E x : OnlyAt(h, c, s, d, q, x)
        /\ q > n => \A y : ~IsAt(h, c, s, d, q, y)
    BY DEF OnePlace
  <2>2. ASSUME q <= n
        PROVE  \E x : OnlyAt(h2, c2, s, d, q, x)
    <3>1. PICK x : OnlyAt(h, c, s, d, q, x)
      BY <2>1, <2>2
    <3>2. IsAt(h, c, s, d, q, x)
      BY <3>1, Zenon DEF OnlyAt
    <3>3. PICK y : MovesUp(r, x, y) /\ IsAt(h2, c2, s, d, q, y)
      BY <1>5, <3>2, Zenon
    <3>4. ASSUME NEW z, IsAt(h2, c2, s, d, q, z)
          PROVE  z = y
      <4>1. PICK w : MovesUp(r, w, z) /\ IsAt(h, c, s, d, q, w)
        BY <1>6, <3>4, Zenon
      <4>2. w = x
        BY <3>1, <4>1, Zenon DEF OnlyAt
      <4>3. MovesUp(r, x, z)
        BY <4>1, <4>2
      <4>4. QED
        BY <3>3, <4>3, MovesUpToOne, Zenon
    <3>5. OnlyAt(h2, c2, s, d, q, y)
      BY <3>3, <3>4, Zenon DEF OnlyAt
    <3>6. QED
      BY <3>5, Zenon
  <2>3. ASSUME q > n, NEW y, IsAt(h2, c2, s, d, q, y)
        PROVE  FALSE
    BY <1>6, <2>1, <2>3, Zenon
  <2>4. QED
    BY <2>2, <2>3, Zenon
<1>8. OnePlace(h2, c2, s, d, n)
  BY <1>7, Zenon DEF OnePlace
<1>9. QED
  BY <1>8 DEF h2, c2

-----------------------------------------------------------------------------
(* The steps move packets between these places. *)

(* The places of a state have their types.                                 *)
LEMMA PlacesTyped ==
  ASSUME NFInv
  PROVE  /\ PlaceTypes(HeldAll, Carried, processed, dropped) /\ arrived \in Nat
         /\ \A f \in Index : Taken(f) => buffer[f] \in Seq(Packets) /\ buffer[f] # <<>>
<1>1. \A f \in Index : Taken(f) => buffer[f] \in Seq(Packets) /\ buffer[f] # <<>>
  BY DEF NFInv, TypeOK, ThreadInv, Taken, Busy
<1>2. \A f \in Index : Held(f) \in Seq(Packets)
  <2> TAKE f \in Index
  <2>1. CASE Taken(f)
    BY <1>1, <2>1, HeadTailProperties DEF Held
  <2>2. CASE ~Taken(f)
    BY <2>2 DEF Held, NFInv, TypeOK
  <2>3. QED
    BY <2>1, <2>2
<1>3. HeldAll \in [Index -> Seq(Packets)]
  BY <1>2 DEF HeldAll
<1>4. Carried \in [Threads -> Packets \cup {NoPacket}]
  BY DEF Carried, NFInv, TypeOK
<1>5. QED
  BY <1>1, <1>3, <1>4, NFEventsAssumption DEF PlaceTypes, NFInv, TypeOK

(* Steps that leave the buffers alone, and the state thread where it is    *)
(* with what it has taken.                                                 *)
LEMMA HeldKept ==
  ASSUME buffer' = buffer, \A f \in Index : Taken(f)' <=> Taken(f)
  PROVE  HeldAll' = HeldAll
<1>1. \A f \in Index : Held(f)' = Held(f)
  BY DEF Held
<1>2. QED
  BY <1>1 DEF HeldAll

(* A thread that lets go of its packet has an empty hand.                  *)
LEMMA LetsGo ==
  ASSUME NFInv, NEW t \in Threads, pc[t] \in Busy, hand' = hand,
         pc' = [pc EXCEPT ![t] = Done(t)]
  PROVE  /\ Carried' = [Carried EXCEPT ![t] = NoPacket]
         /\ Carried[t] = hand[t] /\ hand[t] \in Packets
<1>1. hand[t] \in Packets
  BY HandsFull
<1>2. Carried[t] = hand[t]
  BY DEF Carried
<1>3. Done(t) \notin Busy
  BY DEF Done, Busy
<1>4. \A u \in Threads : pc'[u] = IF u = t THEN Done(t) ELSE pc[u]
  BY DEF NFInv, TypeOK
<1>5. QED
  BY <1>1, <1>2, <1>3, <1>4 DEF Carried

(* No step moves a packet to two places, or to none.                       *)
LEMMA FateStep == NFInv /\ FateInv /\ [Next]_vars => FateInv'
<1> SUFFICES ASSUME NFInv, FateInv, [Next]_vars
             PROVE  FateInv'
  OBVIOUS
<1> USE NFEventsAssumption
<1>0. PlaceTypes(HeldAll, Carried, processed, dropped) /\ arrived \in Nat
  BY PlacesTyped
<1>a. ASSUME HeldAll' = HeldAll, Carried' = Carried, processed' = processed,
             dropped' = dropped, arrived' = arrived
      PROVE  FateInv'
  BY <1>a DEF FateInv
<1>1. CASE capture
  <2>1. HeldAll' = HeldAll
    BY <1>1, HeldKept DEF capture, Goto, listVars, Taken, NFInv, TypeOK, Threads
  <2>2. Carried["packet"] = NoPacket /\ Carried' = [Carried EXCEPT !["packet"] = arrived + 1]
    BY <1>1 DEF capture, Goto, Carried, NFInv, TypeOK, Threads, Busy
  <2>3. arrived + 1 \in Packets /\ arrived' = arrived + 1
    BY <1>0, <1>1 DEF capture, Packets
  <2>4. processed' = processed /\ dropped' = dropped
    BY <1>1 DEF capture, outVars
  <2>5. OnePlace(HeldAll, [Carried EXCEPT !["packet"] = arrived + 1], processed, dropped, arrived + 1)
    BY <1>0, <2>2, <2>3, PlaceArrived, Zenon DEF FateInv
  <2>6. QED
    BY <2>1, <2>2, <2>3, <2>4, <2>5 DEF FateInv
<1>2. ASSUME NEW t \in Threads, lookup(t)
      PROVE  FateInv'
  <2>1. HeldAll' = HeldAll
    BY <1>2, HeldKept DEF lookup, Goto, listVars, Taken, NFInv, TypeOK, Threads
  <2>2. Carried' = Carried
    BY <1>2 DEF lookup, Goto, Carried, NFInv, TypeOK, Threads, Busy
  <2>3. QED
    BY <1>2, <1>a, <2>1, <2>2 DEF lookup, outVars
<1>3. ASSUME NEW t \in Threads, apply_filter(t)
      PROVE  FateInv'
  <2>1. ASSUME NEW e, pass(t, e)
        PROVE  FateInv'
    <3>1. HeldAll' = HeldAll
      BY <2>1, HeldKept DEF pass, Goto, listVars, Taken, NFInv, TypeOK, Threads
    <3>2. Carried' = Carried
      BY <2>1 DEF pass, Goto, Carried, NFInv, TypeOK, Threads, Busy
    <3>3. QED
      BY <2>1, <1>a, <3>1, <3>2 DEF pass, outVars
  <2>2. CASE match[t] # NoFilter /\ buffer_packet(t)
    <3>0. PICK m \in Index : m = match[t]
      BY <2>2 DEF NFInv, TypeOK
    <3>1. /\ Carried' = [Carried EXCEPT ![t] = NoPacket]
          /\ Carried[t] = hand[t] /\ hand[t] \in Packets
      BY <2>2, LetsGo DEF buffer_packet, Goto, Busy
    <3>3. \A f \in Index : Taken(f)' <=> Taken(f)
      BY <2>2 DEF Taken, buffer_packet, Goto, Done, listVars, NFInv, TypeOK, Threads
    <3>4. \A f \in Index : buffer'[f] = IF f = m THEN Append(buffer[m], hand[t]) ELSE buffer[f]
      BY <2>2, <3>0 DEF buffer_packet, NFInv, TypeOK
    <3>5. \A f \in Index : f # m => Held(f)' = Held(f)
      BY <3>3, <3>4 DEF Held
    <3>6. Held(m)' = Append(Held(m), hand[t])
      <4>1. CASE Taken(m)
        <5>1. Held(m)' = Tail(Append(buffer[m], hand[t])) /\ Held(m) = Tail(buffer[m])
          BY <3>3, <3>4, <4>1 DEF Held
        <5>2. buffer[m] \in Seq(Packets) /\ buffer[m] # <<>>
          BY <4>1, PlacesTyped
        <5>3. QED
          BY <5>1, <5>2, HeadTailAppend
      <4>2. CASE ~Taken(m)
        BY <3>3, <3>4, <4>2 DEF Held
      <4>3. QED
        BY <4>1, <4>2
    <3>7. HeldAll' = [HeldAll EXCEPT ![m] = Append(HeldAll[m], Carried[t])]
      BY <3>1, <3>5, <3>6 DEF HeldAll
    <3>8. OnePlace([HeldAll EXCEPT ![m] = Append(HeldAll[m], Carried[t])],
                   [Carried EXCEPT ![t] = NoPacket], processed, dropped, arrived)
      BY <1>0, <3>1, PlaceBuffered, Zenon DEF FateInv
    <3>9. processed' = processed /\ dropped' = dropped /\ arrived' = arrived
      BY <2>2 DEF buffer_packet, outVars
    <3>10. QED
      BY <3>1, <3>7, <3>8, <3>9 DEF FateInv
  <2>3. CASE drop_packet(t)
    <3>1. /\ Carried' = [Carried EXCEPT ![t] = NoPacket]
          /\ Carried[t] = hand[t] /\ hand[t] \in Packets
      BY <2>3, LetsGo DEF drop_packet, Goto, Busy
    <3>2. HeldAll' = HeldAll
      BY <2>3, HeldKept DEF drop_packet, Goto, Done, listVars, Taken, NFInv, TypeOK, Threads
    <3>3. processed' = processed /\ dropped' = dropped \cup {Carried[t]} /\ arrived' = arrived
      BY <2>3, <3>1 DEF drop_packet
    <3>4. OnePlace(HeldAll, [Carried EXCEPT ![t] = NoPacket], processed, dropped \cup {Carried[t]}, arrived)
      BY <1>0, <3>1, PlaceDropped, Zenon DEF FateInv
    <3>5. QED
      BY <3>1, <3>2, <3>3, <3>4 DEF FateInv
  <2>4. QED
    BY <1>3, <2>1, <2>2, <2>3 DEF apply_filter
<1>4. ASSUME NEW t \in Threads, sdmbn_postprocess_packet(t)
      PROVE  FateInv'
  <2>1. /\ Carried' = [Carried EXCEPT ![t] = NoPacket]
        /\ Carried[t] = hand[t] /\ hand[t] \in Packets
    BY <1>4, LetsGo DEF sdmbn_postprocess_packet, Goto, Busy
  <2>2. HeldAll' = HeldAll
    BY <1>4, HeldKept DEF sdmbn_postprocess_packet, Goto, Done, listVars, Taken, NFInv, TypeOK, Threads
  <2>3. processed' = Append(processed, Carried[t]) /\ dropped' = dropped /\ arrived' = arrived
    BY <1>4, <2>1 DEF sdmbn_postprocess_packet
  <2>4. OnePlace(HeldAll, [Carried EXCEPT ![t] = NoPacket], Append(processed, Carried[t]), dropped, arrived)
    BY <1>0, <2>1, PlaceProcessed, Zenon DEF FateInv
  <2>5. QED
    BY <2>1, <2>2, <2>3, <2>4 DEF FateInv
<1>5. CASE handle_enable_events
  <2>1. HeldAll' = HeldAll
    BY <1>5, HeldKept DEF handle_enable_events, Taken
  <2>2. Carried' = Carried
    BY <1>5 DEF handle_enable_events, pktVars, Carried
  <2>3. QED
    BY <1>5, <1>a, <2>1, <2>2 DEF handle_enable_events, outVars
<1>b. ASSUME NEW r \in Index, HeldAll[r] # <<>>, pc["state"] \notin Busy,
             pc' = [pc EXCEPT !["state"] = "lock"],
             hand' = [hand EXCEPT !["state"] = Head(HeldAll[r])],
             Held(r)' = Tail(HeldAll[r]), \A f \in Index : f # r => Held(f)' = Held(f),
             processed' = processed, dropped' = dropped, arrived' = arrived
      PROVE  FateInv'
  <2>1. HeldAll' = [HeldAll EXCEPT ![r] = Tail(HeldAll[r])]
    BY <1>b DEF HeldAll
  <2>2. Carried["state"] = NoPacket /\ Carried' = [Carried EXCEPT !["state"] = Head(HeldAll[r])]
    BY <1>b DEF Carried, NFInv, TypeOK, Threads, Busy
  <2>3. OnePlace([HeldAll EXCEPT ![r] = Tail(HeldAll[r])],
                 [Carried EXCEPT !["state"] = Head(HeldAll[r])], processed, dropped, arrived)
    BY <1>0, <1>b, <2>2, PlaceTaken, Zenon DEF FateInv
  <2>4. QED
    BY <1>b, <2>1, <2>2, <2>3 DEF FateInv
<1>6. CASE handle_disable_events
  <2>1. /\ pc["state"] = "idle" /\ processed' = processed /\ dropped' = dropped
        /\ arrived' = arrived /\ buffer' = buffer
    BY <1>6 DEF handle_disable_events, outVars
  <2>2. PICK k \in Keys :
          IF find_filter(k) = NoFilter
            THEN UNCHANGED <<removing, pc, hand>>
            ELSE removing' = find_filter(k) /\ release(buffer[find_filter(k)])
    BY <1>6 DEF handle_disable_events
  <2>3. CASE find_filter(k) = NoFilter
    <3>1. HeldAll' = HeldAll
      BY <2>1, <2>2, <2>3, HeldKept DEF Taken
    <3>2. Carried' = Carried
      BY <2>2, <2>3 DEF Carried
    <3>3. QED
      BY <1>a, <2>1, <3>1, <3>2
  <2>4. CASE find_filter(k) # NoFilter
    <3>1. PICK r \in Index : r = find_filter(k)
      BY <2>4, RemovalFound DEF NFInv
    <3>2. removing' = r /\ release(buffer[r])
      BY <2>2, <2>4, <3>1
    <3>3. \A f \in Index : ~Taken(f) /\ Held(f) = buffer[f] /\ HeldAll[f] = buffer[f]
      BY <2>1 DEF Taken, Held, HeldAll
    <3>4. CASE buffer[r] = <<>>
      <4>1. pc' = [pc EXCEPT !["state"] = "unlink"] /\ hand' = hand
        BY <3>2, <3>4 DEF release
      <4>2. HeldAll' = HeldAll
        BY <2>1, <3>3, <4>1, HeldKept DEF Taken, NFInv, TypeOK, Threads
      <4>3. Carried' = Carried
        BY <2>1, <4>1 DEF Carried, NFInv, TypeOK, Threads, Busy
      <4>4. QED
        BY <1>a, <2>1, <4>2, <4>3
    <3>5. CASE buffer[r] # <<>>
      <4>1. /\ pc' = [pc EXCEPT !["state"] = "lock"]
            /\ hand' = [hand EXCEPT !["state"] = Head(buffer[r])]
        BY <3>2, <3>5 DEF release
      <4>2. \A f \in Index : Taken(f)' <=> f = r
        BY <3>2, <4>1 DEF Taken, NFInv, TypeOK, Threads
      <4>3. Held(r)' = Tail(buffer[r]) /\ \A f \in Index : f # r => Held(f)' = Held(f)
        BY <2>1, <3>3, <4>2 DEF Held
      <4>4. QED
        BY <1>b, <2>1, <3>3, <3>5, <4>1, <4>3 DEF Busy
    <3>6. QED
      BY <3>4, <3>5
  <2>5. QED
    BY <2>3, <2>4
<1>7. CASE pop_buffer
  <2>0. PICK r \in Index, b \in Seq(Packets) : r = removing /\ b = buffer[r] /\ b # <<>>
    BY <1>7 DEF pop_buffer, NFInv, ThreadInv, TypeOK, Busy
  <2>1. /\ pc["state"] = "pop" /\ processed' = processed /\ dropped' = dropped
        /\ arrived' = arrived /\ removing' = r /\ release(Tail(b))
    BY <1>7, <2>0 DEF pop_buffer, outVars, listVars
  <2>3. \A f \in Index : buffer'[f] = IF f = r THEN Tail(b) ELSE buffer[f]
    BY <1>7, <2>0 DEF pop_buffer, NFInv, TypeOK
  <2>4. HeldAll[r] = Tail(b) /\ \A f \in Index : Taken(f) <=> f = r
    BY <2>0, <2>1 DEF Taken, Held, HeldAll
  <2>5. CASE Tail(b) = <<>>
    <3>1. pc' = [pc EXCEPT !["state"] = "unlink"] /\ hand' = hand
      BY <2>1, <2>5 DEF release
    <3>2. \A f \in Index : ~Taken(f)'
      BY <3>1 DEF Taken, NFInv, TypeOK, Threads
    <3>3. \A f \in Index : Held(f)' = Held(f)
      BY <2>3, <2>4, <3>2 DEF Held, HeldAll
    <3>4. HeldAll' = HeldAll
      BY <3>3 DEF HeldAll
    <3>5. Carried' = Carried
      BY <2>1, <3>1 DEF Carried, NFInv, TypeOK, Threads, Busy
    <3>6. QED
      BY <1>a, <2>1, <3>4, <3>5
  <2>6. CASE Tail(b) # <<>>
    <3>1. /\ pc' = [pc EXCEPT !["state"] = "lock"]
          /\ hand' = [hand EXCEPT !["state"] = Head(Tail(b))]
      BY <2>1, <2>6 DEF release
    <3>2. \A f \in Index : Taken(f)' <=> f = r
      BY <2>1, <3>1 DEF Taken, NFInv, TypeOK, Threads
    <3>3. Held(r)' = Tail(Tail(b)) /\ \A f \in Index : f # r => Held(f)' = Held(f)
      BY <2>3, <2>4, <3>2 DEF Held
    <3>4. QED
      BY <1>b, <2>1, <2>4, <2>6, <3>1, <3>3 DEF Busy
  <2>7. QED
    BY <2>5, <2>6
<1>8. CASE unlink_filter \/ free_filter
  <2>1. /\ pc["state"] \in {"unlink", "free"} /\ pc' \in {[pc EXCEPT !["state"] = "free"], [pc EXCEPT !["state"] = "idle"]}
        /\ buffer' = buffer /\ hand' = hand /\ processed' = processed /\ dropped' = dropped
        /\ arrived' = arrived
    BY <1>8 DEF unlink_filter, free_filter, Goto, pktVars, outVars
  <2>2. HeldAll' = HeldAll
    BY <2>1, HeldKept DEF Taken, NFInv, TypeOK, Threads
  <2>3. Carried' = Carried
    BY <2>1 DEF Carried, NFInv, TypeOK, Threads, Busy
  <2>4. QED
    BY <1>a, <2>1, <2>2, <2>3
<1>9. CASE UNCHANGED vars
  <2>1. HeldAll' = HeldAll
    BY <1>9, HeldKept DEF vars, listVars, Taken
  <2>2. Carried' = Carried
    BY <1>9 DEF vars, pktVars, Carried
  <2>3. QED
    BY <1>9, <1>a, <2>1, <2>2 DEF vars, outVars
<1>10. QED
  BY <1>1, <1>2, <1>3, <1>4, <1>5, <1>6, <1>7, <1>8, <1>9 DEF Next, HandlePacket, StateThread

(* Nothing has arrived at first.                                           *)
LEMMA FateInit == Init => FateInv
<1> SUFFICES ASSUME Init, NEW p \in Packets
             PROVE  /\ ~(p <= arrived)
                    /\ \A y : ~IsAt(HeldAll, Carried, processed, dropped, p, y)
  BY DEF FateInv, OnePlace
<1>1. ~(p <= arrived) /\ p # NoPacket
  BY NFEventsAssumption DEF Init, Packets, NoPacket
<1>2. \A f \in Index : HeldAll[f] = <<>>
  BY DEF Init, HeldAll, Held, Taken, Threads
<1>3. \A t \in Threads : Carried[t] # p
  BY <1>1 DEF Init, Carried, Busy
<1>4. DOMAIN <<>> = {}
  OBVIOUS
<1>5. \A y : ~Waits(HeldAll, p, y) /\ ~Carries(Carried, p, y)
  BY <1>2, <1>3, <1>4 DEF Waits, Carries
<1>6. \A y : ~Past(processed, p, y) /\ ~Gone(dropped, p, y)
  BY <1>4 DEF Init, Past, Gone
<1>7. QED
  BY <1>1, <1>5, <1>6 DEF IsAt

(* However the two threads interleave, and whatever `injected' holds, a    *)
(* packet that has arrived is in one thread's hands, waits in one buffer,  *)
(* or was processed or dropped once: none is lost or handled twice.        *)
THEOREM EveryPacketHasOneFate == Spec => []ExactlyOneFate
<1>1. NFInv /\ FateInv => ExactlyOneFate
  <2> SUFFICES ASSUME NFInv, FateInv, NEW p \in 1 .. arrived
               PROVE  Cardinality(Fates(p)) = 1
    BY DEF ExactlyOneFate
  <2>1. p \in Packets /\ p <= arrived
    BY NFEventsAssumption DEF NFInv, TypeOK, Packets
  <2>2. PICK x : OnlyAt(HeldAll, Carried, processed, dropped, p, x)
    BY <2>1 DEF FateInv, OnePlace
  <2>3. \A y : y \in Fates(p) <=> y = x
    BY <2>1, <2>2, FatesArePlaces, Zenon DEF OnlyAt
  <2>4. Fates(p) = {x}
    BY <2>3
  <2>5. QED
    BY <2>4, FS_Singleton
<1>2. QED
  BY <1>1, NFInit, NFStep, FateInit, FateStep, PTL DEF Spec
=============================================================================
