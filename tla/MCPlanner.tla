----------------------------- MODULE MCPlanner -----------------------------
(***************************************************************************)
(* Calls of the scaling algorithms for TLC: instances that can take a load *)
(* of 10.                                                                  *)
(***************************************************************************)
EXTENDS Planner

(* Instances from the rates and slacks of their flows; flow f of instance  *)
(* v is called 10v + f.                                                    *)
Instances(s) ==
  [v \in DOMAIN s |->
     [f \in DOMAIN s[v] |-> [name |-> 10 * v + f, rate |-> s[v][f][1], slack |-> s[v][f][2]]]]

Calls(modes, lists) == {[mode |-> m, vnfs |-> Instances(s)] : m \in modes, s \in lists}

Some == {<<1, 1>>, <<4, 0>>, <<6, 1>>, <<2, -1>>}

MCInputs ==
  Calls({"balance"}, {<<a, b, c>> : a \in SeqOf(Some, 2), b \in SeqOf(Some, 2), c \in SeqOf(Some, 2)})
    \cup Calls({"balance"}, {<<a, <<>>, b>> : a \in [1 .. 3 -> Some], b \in SeqOf(Some, 1)})
    \cup Calls({"balance"}, UNION {{<<a, <<<<1, 1>>>>, <<>>>>, <<<<>>, <<<<1, 1>>>>, a>>}
                                  : a \in [1 .. 4 -> {<<1, 1>>, <<3, 1>>}]})
    \cup Calls({"greedy", "random"},
               {<<a, <<>>>> : a \in SeqOf({<<1, 2>>, <<3, 1>>, <<3, -1>>, <<5, 0>>, <<7, 1>>}, 4)})
    \cup Calls({"best"}, {<<a>> : a \in UNION {[1 .. n -> {<<1, -1>>, <<3, -1>>, <<2, 0>>, <<5, 1>>}]
                                               : n \in {3, 5}}})
    \cup Calls({"best"}, {<<<<<<1, -1>>, <<2, -2>>, a, <<3, -2>>, b, <<2, -1>>>>>> : a, b \in Some})
    \cup Calls({"in"}, {[v \in 1 .. 5 |-> <<<<r[v], 1>>>>] : r \in [1 .. 5 -> {0, 1, 2, 4, 6}]})
=============================================================================
