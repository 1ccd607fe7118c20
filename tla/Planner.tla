------------------------------ MODULE Planner ------------------------------
(***************************************************************************)
(* The scaling algorithms (Algorithms/OFMAlgorithm/Algorithms.java with    *)
(* VNFinfo.java and Flowinfo.java): one call that decides which flows to   *)
(* migrate between the instances of a network function, and the migration  *)
(* of the flows it has decided on. Decisions name a flow by its position   *)
(* in its instance's list; the list is sorted while deciding, and shrinks  *)
(* while migrating.                                                        *)
(*                                                                         *)
(* Positions start at 1. A load is a sum of rates, not yet divided by      *)
(* MaxLoad; an average is compared by multiplying out. The slack of a flow *)
(* is its SLA less the migration time SFMT and the latency la_process.     *)
(***************************************************************************)
EXTENDS Integers, Sequences, FiniteSets, SequencesExt, FiniteSetsExt

CONSTANTS
  Inputs,         \* the calls: a mode and the flows of each instance
  MaxLoad,        \* the load an instance can take
  BufferSize      \* the buffer at a migration's destination

Modes == {"balance", "greedy", "random", "best", "in"}

Flow == [name : Nat, rate : Nat, slack : Int]

(* AlgorithmConstants, in whole milliseconds and percent.                  *)
TH_LOW == 30
TH_SAFE == 60
TH_HIGH == 99
SFMT == 42
migtime_GAMMA == 39
migtime_ETA == 3
la_process == 50

Below(load, percent)   == load * 100 < percent * MaxLoad
AtMost(load, percent)  == load * 100 <= percent * MaxLoad
AtLeast(load, percent) == load * 100 >= percent * MaxLoad
Above(load, percent)   == load * 100 > percent * MaxLoad

ASSUME PlannerAssumption ==
  /\ MaxLoad \in Nat \ {0} /\ BufferSize \in Nat
  /\ \A in \in Inputs :
       /\ in.mode \in Modes
       /\ in.vnfs \in Seq(Seq(Flow)) /\ in.vnfs # <<>>

VARIABLES
  mode,
  vnfs,           \* GlobalVNFinfo: the flows of each instance
  load,           \* VNFinfo.LoadPercentage
  MigrateInfo,    \* tuples: source, position of the flow, destination
  pc,
  next,           \* loop variable of MigrateTotal and ScaleInRandom
  old, new,       \* oldLoad, newLoad of the scale-out
  taken,          \* positions the scale-out has looked at
  \* what the properties compare with
  first,          \* the loads before the call
  goal,           \* where each flow should be after the migration
  LoadAfter,      \* the loads LoadBalancingCheck computes its result from
  fell,           \* whether it left a flow to VNF 0
  merged          \* instances ScaleInRandom has given away

balVars   == <<LoadAfter, fell>>
scaleVars == <<next, old, new, taken>>
vars == <<mode, vnfs, load, MigrateInfo, pc, scaleVars, first, goal, balVars, merged>>

Null == 0         \* no destination yet

Sum(s) == FoldLeft(LAMBDA a, b : a + b, 0, s)

(* VNFinfo.Refresh *)
Refresh(flows) == FoldLeft(LAMBDA a, f : a + f.rate, 0, flows)

Names(flows) == {flows[i].name : i \in DOMAIN flows}
AllNames     == UNION {Names(vnfs[v]) : v \in DOMAIN vnfs}

(* Java's sort: ascending by key, and stable.                              *)
SortBy(s, key(_)) ==
  LET before(i, j) == key(s[i]) < key(s[j]) \/ (key(s[i]) = key(s[j]) /\ i < j)
      order == SetToSortSeq(DOMAIN s, before)
  IN  [i \in DOMAIN s |-> s[order[i]]]

Init ==
  /\ \E in \in Inputs :
       /\ mode = in.mode
       /\ vnfs = in.vnfs
       /\ load = [v \in DOMAIN in.vnfs |-> Refresh(in.vnfs[v])]
  /\ MigrateInfo = <<>>
  /\ pc = "call"
  /\ next = 0 /\ old = 0 /\ new = 0 /\ taken = {}
  /\ first = load /\ LoadAfter = load /\ fell = FALSE
  /\ goal = <<>> /\ merged = {}

-----------------------------------------------------------------------------
(* LoadBalancingCheck. *)

(* avgLoad is Total / N. *)
N     == Len(load)
Total == Sum(load)
Heavy(v) == load[v] * N > Total

(* Step 2: MigrateFlag.                                                    *)
Migratable(f) == f.slack >= 0 /\ (SFMT + 2 * la_process) * f.rate <= BufferSize

(* Step 3: not if the source fell below the average.                       *)
Stays(s, f) == (s.load - f.rate) * N < Total

(* The flows source v gives away, from the end of its sorted list.         *)
FlowsToMigrate(v, flows) ==
  FoldLeft(LAMBDA s, p :
             IF ~Migratable(flows[p]) \/ Stays(s, flows[p]) THEN s
             ELSE [tuples |-> Append(s.tuples, [src |-> v, flow |-> p, dst |-> Null]),
                   load   |-> s.load - flows[p].rate],
           [tuples |-> <<>>, load |-> load[v]],
           Reverse([p \in DOMAIN flows |-> p]))

(* Mutants: what arrives is not counted; nothing is left to VNF 0.         *)
Place_uncounted(s, f, rate, dst, last) ==
  IF s.tuples[f].dst # Null THEN s
  ELSE IF (s.dstLoad + rate) * N < Total \/ f = s.end
         THEN [s EXCEPT !.tuples[f].dst = dst, !.end = IF f = s.end THEN @ + 1 ELSE @]
         ELSE IF last THEN [s EXCEPT !.tuples[f].dst = 1, !.fell = TRUE] ELSE s
Place_unplaced(s, f, rate, dst, last) ==
  IF s.tuples[f].dst # Null THEN s
  ELSE IF (s.dstLoad + rate) * N < Total \/ f = s.end
         THEN [s EXCEPT !.tuples[f].dst = dst, !.end = IF f = s.end THEN @ + 1 ELSE @,
                        !.dstLoad = @ + rate]
         ELSE s

(* Step 4, inner loop: tuple f goes to dst if it fits below the average or *)
(* is the next of the smallest ones; what the last destination does not    *)
(* take goes to VNF 0, without being counted.                              *)
Place(s, f, rate, dst, last) ==
  IF s.tuples[f].dst # Null THEN s
  ELSE IF (s.dstLoad + rate) * N < Total \/ f = s.end
         THEN [s EXCEPT !.tuples[f].dst = dst, !.end = IF f = s.end THEN @ + 1 ELSE @,
                        !.dstLoad = @ + rate]
         ELSE IF last THEN [s EXCEPT !.tuples[f].dst = 1, !.fell = TRUE] ELSE s

(* Step 4: the lighter a destination, the later it is served.              *)
PlaceAll(tuples, flows, light) ==
  LET rate(t) == flows[t.src][t.flow].rate
      fill(s, d) ==
        LET r == FoldLeft(LAMBDA q, f : Place(q, f, rate(q.tuples[f]), light[d], d = 1),
                          [tuples |-> s.tuples, end |-> s.end, dstLoad |-> s.load[light[d]],
                           fell |-> s.fell],
                          Reverse([f \in DOMAIN s.tuples |-> f]))
        IN  [tuples |-> r.tuples, end |-> r.end, fell |-> r.fell,
             load |-> [s.load EXCEPT ![light[d]] = r.dstLoad]]
  IN  FoldLeft(fill, [tuples |-> SortBy(tuples, rate), end |-> 1, fell |-> FALSE, load |-> load],
               Reverse([d \in DOMAIN light |-> d]))

(* What the migration of these tuples should lead to.                      *)
Goal(tuples, flows) ==
  [n \in AllNames |->
     LET mine == {i \in DOMAIN tuples : flows[tuples[i].src][tuples[i].flow].name = n}
     IN  IF mine = {} THEN CHOOSE v \in DOMAIN flows : n \in Names(flows[v])
         ELSE tuples[CHOOSE i \in mine : TRUE].dst]

(* MigrateTotal begins by sorting the tuples by position.                  *)
StartMigration(tuples, flows) ==
  /\ MigrateInfo' = SortBy(tuples, LAMBDA t : t.flow)
  /\ goal' = Goal(tuples, flows)
  /\ next' = Len(tuples)
  /\ pc' = "migrate"

LoadBalancingCheck ==
  /\ pc = "call" /\ mode = "balance"
  /\ LET sorted == [v \in DOMAIN vnfs |->
                      IF Heavy(v) THEN SortBy(vnfs[v], LAMBDA f : f.rate) ELSE vnfs[v]]
         out    == [v \in DOMAIN vnfs |->
                      IF Heavy(v) THEN FlowsToMigrate(v, sorted[v])
                      ELSE [tuples |-> <<>>, load |-> load[v]]]
         light  == SortBy(SelectSeq([v \in DOMAIN vnfs |-> v], LAMBDA v : ~Heavy(v)),
                          LAMBDA v : load[v])
         placed == PlaceAll(FlattenSeq([v \in DOMAIN vnfs |-> out[v].tuples]), sorted, light)
     IN  /\ vnfs' = sorted
         /\ load' = [v \in DOMAIN vnfs |-> IF Heavy(v) THEN out[v].load ELSE placed.load[v]]
         /\ LoadAfter' = load'
         /\ fell' = placed.fell
         /\ StartMigration(placed.tuples, sorted)
  /\ UNCHANGED <<mode, old, new, taken, first, merged>>

-----------------------------------------------------------------------------
(* ScaleOutCheck looks at the first instance only. *)

NewVNFInstance ==
  /\ vnfs' = Append(vnfs, <<>>)
  /\ load' = Append(load, 0)

ScaleOutCheck ==
  /\ pc = "call" /\ mode \in {"greedy", "random", "best"}
  /\ IF Above(load[1], TH_HIGH)
       THEN /\ NewVNFInstance
            /\ pc' = IF mode = "best" THEN "best" ELSE "pick"
            /\ old' = load[1]
       ELSE /\ pc' = "done"
            /\ UNCHANGED <<vnfs, load, old>>
  /\ UNCHANGED <<mode, MigrateInfo, next, new, taken, first, goal, balVars, merged>>

Tuple(p) == [src |-> 1, flow |-> p, dst |-> Len(vnfs)]

(* ScaleOut takes the flow with the most rate times slack, of equal ones   *)
(* the faster, of these the first.                                         *)
Better(f, g) ==
  \/ f.rate * f.slack > g.rate * g.slack
  \/ f.rate * f.slack = g.rate * g.slack /\ f.rate > g.rate

Choice(p) ==
  mode = "greedy" =>
    \A q \in DOMAIN vnfs[1] \ taken :
      q # p => Better(vnfs[1][p], vnfs[1][q])
               \/ (~Better(vnfs[1][q], vnfs[1][p]) /\ p < q)

BufferSafe(n, l) == (migtime_GAMMA + n * migtime_ETA + 2 * la_process) * l <= BufferSize

(* Mutant: the flow goes in before it is known to fit.                     *)
Keep_all(n, l) == TRUE

Keep(n, l) == AtMost(l, TH_SAFE) /\ BufferSafe(n, l)

(* The loop of ScaleOut and of ScaleOutRandom: one flow more leaves, until *)
(* the old instance is safe or the new one, or the buffer, no longer is.   *)
pickFlow(p) ==
  /\ pc = "pick"
  /\ AtLeast(old, TH_SAFE)
  /\ p \in DOMAIN vnfs[1] \ taken
  /\ Choice(p)
  /\ taken' = taken \cup {p}
  /\ old' = old - vnfs[1][p].rate
  /\ new' = new + vnfs[1][p].rate
  /\ MigrateInfo' = IF Keep(Cardinality(taken'), new')
                      THEN Append(MigrateInfo, Tuple(p)) ELSE MigrateInfo
  /\ pc' = IF Keep(Cardinality(taken'), new') THEN "pick" ELSE "picked"
  /\ UNCHANGED <<mode, vnfs, load, next, first, goal, balVars, merged>>

endPicking ==
  /\ pc = "picked" \/ (pc = "pick" /\ ~AtLeast(old, TH_SAFE))
  /\ StartMigration(MigrateInfo, vnfs)
  /\ UNCHANGED <<mode, vnfs, load, old, new, taken, first, balVars, merged>>

(* All choices of num elements. Not defined for fewer than num elements:   *)
(* the code recurs until its stack is full.                                *)
RECURSIVE nchoosek(_, _)
nchoosek(source, num) ==
  IF Len(source) = num THEN <<source>>
  ELSE IF num > 1
         THEN LET with == nchoosek(Front(source), num - 1)
              IN  [j \in DOMAIN with |-> Append(with[j], Last(source))]
                  \o nchoosek(Front(source), num)
  ELSE [i \in DOMAIN source |-> <<source[i]>>]

RateOf(choice) == Sum([j \in DOMAIN choice |-> vnfs[1][choice[j]].rate])
Cost(choice) ==
  Sum([j \in DOMAIN choice |->
         LET f == vnfs[1][choice[j]] IN f.rate * IF f.slack < 0 THEN -f.slack ELSE 0])

(* The conditions of ScaleOutBest. The first asks that both loads together *)
(* exceed the limit, so that one flow is never dearer than several; the    *)
(* third divides by MaxLoad on one side.                                   *)
Feasible(choice) ==
  LET l == RateOf(choice)
  IN  /\ Above(old + l, TH_SAFE)
      /\ Below(l, TH_SAFE)
      /\ (migtime_GAMMA + Len(choice) * migtime_ETA + 2 * la_process) * l <= BufferSize * MaxLoad

MaxChoice == 5

(* Mutant: MaxCost is not updated.                                         *)
Cheapest_last(best, choice) == IF Feasible(choice) THEN choice ELSE best

Cheapest(best, choice) ==
  IF Feasible(choice) /\ (best = <<>> \/ Cost(choice) < Cost(best)) THEN choice ELSE best

ScaleOutBest ==
  /\ pc = "best"
  /\ IF Len(vnfs[1]) < MaxChoice
       THEN /\ pc' = "overflow"
            /\ UNCHANGED <<MigrateInfo, goal, next>>
       ELSE LET index  == [p \in DOMAIN vnfs[1] |-> p]
                result == FoldLeft(LAMBDA best, num : FoldLeft(Cheapest, best, nchoosek(index, num)),
                                   <<>>, [num \in 1 .. MaxChoice |-> num])
            IN  StartMigration([j \in DOMAIN result |-> Tuple(result[j])], vnfs)
  /\ UNCHANGED <<mode, vnfs, load, old, new, taken, first, balVars, merged>>

-----------------------------------------------------------------------------
(* MigrateTotal. *)

(* Mutant: List.remove of an object instead of a position.                 *)
Without_object(flows, p) == flows

Without(flows, p) == RemoveAt(flows, p)

(* The tuples are served from the last position to the first.              *)
migrateFlow ==
  /\ pc = "migrate" /\ next > 0
  /\ LET t    == MigrateInfo[next]
         f    == vnfs[t.src][t.flow]
         with == [vnfs EXCEPT ![t.dst] = Append(@, f)]
         moved == [with EXCEPT ![t.src] = Without(@, t.flow)]
     IN  /\ vnfs' = moved
         /\ load' = [load EXCEPT ![t.dst] = Refresh(with[t.dst]), ![t.src] = Refresh(moved[t.src])]
  /\ next' = next - 1
  /\ UNCHANGED <<mode, MigrateInfo, pc, old, new, taken, first, goal, balVars, merged>>

endMigration ==
  /\ pc = "migrate" /\ next = 0
  /\ pc' = "done"
  /\ UNCHANGED <<mode, vnfs, load, MigrateInfo, scaleVars, first, goal, balVars, merged>>

-----------------------------------------------------------------------------
(* ScaleInRandom: an instance with little load is merged with the first    *)
(* later one that stays safe; it keeps its own figure and is not a         *)
(* candidate again.                                                        *)

(* Mutant: any other instance will do.                                     *)
Partners_any(v) == {w \in DOMAIN load \ {v} : AtMost(load[v] + load[w], TH_SAFE)}

Partners(v) == {w \in DOMAIN load : w > v /\ AtMost(load[v] + load[w], TH_SAFE)}

ScaleInRandom ==
  /\ mode = "in" /\ pc = "call" /\ next < Len(load)
  /\ next' = next + 1
  /\ LET v == next'
     IN  IF Below(load[v], TH_LOW) /\ Partners(v) # {}
           THEN /\ load' = [load EXCEPT ![Min(Partners(v))] = @ + load[v]]
                /\ merged' = merged \cup {v}
           ELSE UNCHANGED <<load, merged>>
  /\ UNCHANGED <<mode, vnfs, MigrateInfo, pc, old, new, taken, first, goal, balVars>>

endScaleIn ==
  /\ mode = "in" /\ pc = "call" /\ next = Len(load)
  /\ pc' = "done"
  /\ UNCHANGED <<mode, vnfs, load, MigrateInfo, scaleVars, first, goal, balVars, merged>>

Next ==
  \/ LoadBalancingCheck
  \/ ScaleOutCheck
  \/ \E p \in DOMAIN vnfs[1] : pickFlow(p)
  \/ endPicking
  \/ ScaleOutBest
  \/ migrateFlow
  \/ endMigration
  \/ ScaleInRandom
  \/ endScaleIn

Spec == Init /\ [][Next]_vars

-----------------------------------------------------------------------------
(* Properties. *)

(* Every instance, flow and tuple has its type; in particular every tuple  *)
(* MigrateTotal has still to serve names a flow that is there.             *)
TypeOK ==
  /\ mode \in Modes
  /\ pc \in {"call", "pick", "picked", "best", "migrate", "done", "overflow"}
  /\ vnfs \in Seq(Seq(Flow)) /\ load \in Seq(Nat) /\ Len(load) = Len(vnfs)
  /\ MigrateInfo \in Seq([src : DOMAIN vnfs, flow : Nat, dst : DOMAIN vnfs])
  /\ pc = "migrate" =>
       \A i \in 1 .. next : MigrateInfo[i].flow \in DOMAIN vnfs[MigrateInfo[i].src]

Places(n) == {v \in DOMAIN vnfs : n \in Names(vnfs[v])}

(* The migration moves the flows it was decided to move, and no other:     *)
(* although a tuple holds a position in a list that other tuples shorten   *)
(* and extend, each flow ends where it should, and none is lost or         *)
(* duplicated.                                                             *)
MovesWhatWasDecided ==
  pc = "done" =>
    \A n \in DOMAIN goal : Places(n) = {goal[n]}

(* The loads from which LoadBalancingCheck computes its result are those   *)
(* the migration leads to, unless a flow was left to VNF 0.                *)
ResultIsOfTheOutcome ==
  pc = "done" /\ mode = "balance" /\ ~fell => load = LoadAfter

(* The instance a scale-out has added is not loaded beyond TH_SAFE when    *)
(* the migration is over, in whatever order the flows were picked.         *)
NewInstanceSafe ==
  pc = "done" /\ Len(vnfs) > Len(first) => AtMost(load[Len(vnfs)], TH_SAFE)

(* Scale-in loses no load: what an instance that was given away carried is *)
(* carried by those that remain, also if its partner is given away later,  *)
(* and none of them is loaded beyond TH_SAFE for it.                       *)
ScaleInConserves ==
  /\ mode = "in" =>
       MapThenSumSet(LAMBDA v : load[v], DOMAIN load \ merged) = Sum(first)
  /\ mode = "in" => \A v \in DOMAIN load : load[v] = first[v] \/ AtMost(load[v], TH_SAFE)

(* ScaleOutBest has looked at every choice of at most five flows: what it  *)
(* decides on is feasible and the cheapest, and nothing only when no       *)
(* choice is feasible.                                                     *)
SmallChoices == UNION {kSubset(num, DOMAIN vnfs[1]) : num \in 1 .. MaxChoice}
AsSeq(S) == SetToSortSeq(S, <)
Decided  == {MigrateInfo[i].flow : i \in DOMAIN MigrateInfo}
BestIsCheapest ==
  mode = "best" /\ pc = "migrate" /\ next = Len(MigrateInfo) =>
    LET feasible == {S \in SmallChoices : Feasible(AsSeq(S))}
    IN  IF Decided = {} THEN feasible = {}
        ELSE /\ Decided \in feasible
             /\ \A S \in feasible : Cost(AsSeq(Decided)) <= Cost(AsSeq(S))
=============================================================================
