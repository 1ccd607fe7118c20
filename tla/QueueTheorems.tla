--------------------------- MODULE QueueTheorems ---------------------------
(***************************************************************************)
(* Facts about message queues: sequences that grow at the end, shrink at   *)
(* the head, and whose contents matter as a set.                           *)
(***************************************************************************)
EXTENDS Naturals, Sequences, Functions, SequenceTheorems, TLAPS

(* No element of Q is in s twice.                                          *)
Distinct(s, Q) == \A i, j \in 1 .. Len(s) : s[i] \in Q /\ s[i] = s[j] => i = j

(* Earlier elements of s are related by R to later ones.                   *)
Ordered(s, R) == \A i, j \in 1 .. Len(s) : i < j => <<s[i], s[j]>> \in R

(* The queue s carries what a assigns to the elements of t, in their order. *)
Carries(s, t, a) == Len(s) = Len(t) /\ \A i \in 1 .. Len(s) : s[i] = a[t[i]]

(* A message of Q is in the queue; at most one is; behind each one there   *)
(* is one of R.                                                            *)
Has(s, Q)         == \E i \in 1 .. Len(s) : s[i] \in Q
Once(s, Q)        == \A i, j \in 1 .. Len(s) : s[i] \in Q /\ s[j] \in Q => i = j
Followed(s, Q, R) == \A i \in 1 .. Len(s) : s[i] \in Q => \E j \in i + 1 .. Len(s) : s[j] \in R

(* The queue t is s, or s with one message more or less that is not of Q.  *)
Kept(s, t, Q) == \/ t = s \/ \E x : x \notin Q /\ t = Append(s, x)
                 \/ s # <<>> /\ Head(s) \notin Q /\ t = Tail(s)

(* Membership in a queue, by position.                                     *)
LEMMA InRange ==
  ASSUME NEW S, NEW s \in Seq(S), NEW e
  PROVE  e \in Range(s) <=> \E i \in 1 .. Len(s) : e = s[i]
  BY RangeEquality

(* A queue holds elements of its type.                                     *)
LEMMA RangeType ==
  ASSUME NEW S, NEW s \in Seq(S)
  PROVE  Range(s) \subseteq S
  BY RangeOfSeq

(* Sending a message adds it to the queue's elements and nothing else.     *)
LEMMA RangeAppend ==
  ASSUME NEW S, NEW s \in Seq(S), NEW x \in S
  PROVE  /\ Append(s, x) \in Seq(S)
         /\ Range(Append(s, x)) = Range(s) \cup {x}
<1>1. Append(s, x) \in Seq(S) /\ Len(Append(s, x)) = Len(s) + 1
      /\ Append(s, x)[Len(s) + 1] = x
      /\ \A i \in 1 .. Len(s) : Append(s, x)[i] = s[i]
  BY AppendProperties
<1>2. ASSUME NEW e \in Range(Append(s, x))
      PROVE  e \in Range(s) \cup {x}
  <2>0. \E i \in 1 .. Len(Append(s, x)) : e = Append(s, x)[i]
    BY <1>1, <1>2, RangeEquality, Zenon
  <2>1. PICK i \in 1 .. Len(s) + 1 : e = Append(s, x)[i]
    BY <1>1, <2>0
  <2>2. CASE i = Len(s) + 1
    BY <1>1, <2>1, <2>2
  <2>3. CASE i # Len(s) + 1
    <3>1. i \in 1 .. Len(s) /\ e = s[i]
      BY <1>1, <2>1, <2>3, LenProperties
    <3>2. QED
      BY <3>1, InRange
  <2>4. QED
    BY <2>2, <2>3
<1>3. ASSUME NEW e \in Range(s)
      PROVE  e \in Range(Append(s, x))
  <2>1. PICK i \in 1 .. Len(s) : e = s[i]
    BY <1>3, InRange
  <2>2. i \in 1 .. Len(Append(s, x)) /\ e = Append(s, x)[i]
    BY <1>1, <2>1, LenProperties
  <2>3. QED
    BY <1>1, <2>2, InRange
<1>4. x \in Range(Append(s, x))
  <2>1. Len(s) + 1 \in 1 .. Len(Append(s, x))
    BY <1>1, LenProperties
  <2>2. QED
    BY <1>1, <2>1, InRange
<1>5. QED
  BY <1>1, <1>2, <1>3, <1>4

(* Receiving takes the head out and leaves the rest.                       *)
LEMMA RangeTail ==
  ASSUME NEW S, NEW s \in Seq(S), s # <<>>
  PROVE  /\ Tail(s) \in Seq(S)
         /\ Head(s) \in S
         /\ Head(s) \in Range(s)
         /\ Range(s) = {Head(s)} \cup Range(Tail(s))
<1>1. /\ Tail(s) \in Seq(S) /\ Head(s) \in S /\ Head(s) = s[1]
      /\ Len(s) \in Nat \ {0} /\ Len(Tail(s)) = Len(s) - 1
      /\ \A i \in 1 .. Len(s) - 1 : Tail(s)[i] = s[i + 1]
  BY HeadTailProperties, LenProperties, EmptySeq
<1>2. Head(s) \in Range(s)
  <2>1. 1 \in 1 .. Len(s)
    BY <1>1
  <2>2. QED
    BY <1>1, <2>1, InRange
<1>3. ASSUME NEW e \in Range(s)
      PROVE  e \in {Head(s)} \cup Range(Tail(s))
  <2>1. PICK i \in 1 .. Len(s) : e = s[i]
    BY <1>3, InRange
  <2>2. CASE i = 1
    BY <1>1, <2>1, <2>2
  <2>3. CASE i # 1
    <3>1. i - 1 \in 1 .. Len(Tail(s)) /\ e = Tail(s)[i - 1]
      BY <1>1, <2>1, <2>3
    <3>2. QED
      BY <1>1, <3>1, InRange
  <2>4. QED
    BY <2>2, <2>3
<1>4. ASSUME NEW e \in Range(Tail(s))
      PROVE  e \in Range(s)
  <2> DEFINE t == Tail(s)
  <2>0. t \in Seq(S) /\ e \in Range(t)
    BY <1>1, <1>4
  <2>1. PICK i \in 1 .. Len(t) : e = t[i]
    <3> HIDE DEF t
    <3>1. QED
      BY <2>0, InRange
  <2>2. i + 1 \in 1 .. Len(s) /\ e = s[i + 1]
    BY <1>1, <2>1
  <2>3. QED
    BY <2>2, InRange
<1>5. QED
  BY <1>1, <1>2, <1>3, <1>4

(* Nothing is in an empty queue, and only in an empty queue.               *)
LEMMA RangeEmpty ==
  ASSUME NEW S, NEW s \in Seq(S)
  PROVE  Range(s) = {} <=> s = <<>>
<1>1. ASSUME s # <<>>
      PROVE  Range(s) # {}
  BY <1>1, RangeTail
<1>2. ASSUME s = <<>>
      PROVE  Range(s) = {}
  <2>1. 1 .. Len(s) = {}
    BY <1>2
  <2>2. QED
    BY <2>1, RangeEquality
<1>3. QED
  BY <1>1, <1>2

(* A message that is not in the queue yet can be sent.                     *)
LEMMA DistinctAppend ==
  ASSUME NEW S, NEW s \in Seq(S), NEW x \in S, NEW Q,
         Distinct(s, Q), x \in Q => x \notin Range(s)
  PROVE  Distinct(Append(s, x), Q)
<1> DEFINE a == Append(s, x)
<1>1. /\ Len(a) = Len(s) + 1 /\ a[Len(s) + 1] = x /\ Len(s) \in Nat
      /\ \A i \in 1 .. Len(s) : a[i] = s[i]
  BY AppendProperties, LenProperties
<1>2. \A i \in 1 .. Len(s) : s[i] \in Range(s)
  BY InRange
<1>3. ASSUME NEW i \in 1 .. Len(a), NEW j \in 1 .. Len(a), a[i] \in Q, a[i] = a[j]
      PROVE  i = j
  <2> HIDE DEF a
  <2>1. CASE i \in 1 .. Len(s) /\ j \in 1 .. Len(s)
    BY <1>1, <1>3, <2>1 DEF Distinct
  <2>2. CASE i = Len(s) + 1 /\ j \in 1 .. Len(s)
    BY <1>1, <1>2, <1>3, <2>2
  <2>3. CASE i \in 1 .. Len(s) /\ j = Len(s) + 1
    BY <1>1, <1>2, <1>3, <2>3
  <2>4. CASE i = Len(s) + 1 /\ j = Len(s) + 1
    BY <2>4
  <2>5. QED
    BY <1>1, <2>1, <2>2, <2>3, <2>4
<1>4. QED
  BY <1>3 DEF Distinct

(* A received message is no longer in the queue.                           *)
LEMMA DistinctTail ==
  ASSUME NEW S, NEW s \in Seq(S), NEW Q, s # <<>>, Distinct(s, Q)
  PROVE  /\ Distinct(Tail(s), Q)
         /\ Head(s) \in Q => Head(s) \notin Range(Tail(s))
<1>1. /\ Tail(s) \in Seq(S) /\ Head(s) = s[1]
      /\ Len(s) \in Nat \ {0} /\ Len(Tail(s)) = Len(s) - 1
      /\ \A i \in 1 .. Len(s) - 1 : Tail(s)[i] = s[i + 1]
  BY HeadTailProperties, LenProperties, EmptySeq
<1>2. ASSUME NEW i \in 1 .. Len(Tail(s)), NEW j \in 1 .. Len(Tail(s)),
             Tail(s)[i] \in Q, Tail(s)[i] = Tail(s)[j]
      PROVE  i = j
  <2>1. i + 1 \in 1 .. Len(s) /\ j + 1 \in 1 .. Len(s) /\ s[i + 1] \in Q /\ s[i + 1] = s[j + 1]
    BY <1>1, <1>2
  <2>2. QED
    BY <2>1 DEF Distinct
<1>3. ASSUME Head(s) \in Q, Head(s) \in Range(Tail(s))
      PROVE  FALSE
  <2> DEFINE t == Tail(s)
  <2>0. t \in Seq(S) /\ Head(s) \in Range(t)
    BY <1>1, <1>3
  <2>1. PICK i \in 1 .. Len(t) : Head(s) = t[i]
    <3> HIDE DEF t
    <3>1. QED
      BY <2>0, InRange
  <2>2. i + 1 \in 1 .. Len(s) /\ 1 \in 1 .. Len(s) /\ s[i + 1] = s[1] /\ i + 1 # 1
    BY <1>1, <2>1
  <2>3. QED
    BY <1>1, <1>3, <2>2 DEF Distinct
<1>4. QED
  BY <1>2, <1>3 DEF Distinct

(* A batch of messages that are not in the queue yet can be sent.          *)
LEMMA DistinctConcat ==
  ASSUME NEW S, NEW Q, NEW s \in Seq(S), NEW t \in Seq(S), Distinct(s, Q), Distinct(t, Q),
         \A e \in Q : e \in Range(s) => e \notin Range(t)
  PROVE  Distinct(s \o t, Q)
<1>1. /\ s \o t \in Seq(S) /\ Len(s \o t) = Len(s) + Len(t)
      /\ Len(s) \in Nat /\ Len(t) \in Nat
      /\ \A i \in 1 .. Len(s) + Len(t) : (s \o t)[i] = IF i <= Len(s) THEN s[i] ELSE t[i - Len(s)]
  BY ConcatProperties, LenProperties
<1> SUFFICES ASSUME NEW i \in 1 .. Len(s) + Len(t), NEW j \in 1 .. Len(s) + Len(t),
                    (s \o t)[i] \in Q, (s \o t)[i] = (s \o t)[j]
             PROVE  i = j
  BY <1>1 DEF Distinct
<1>2. \A k \in 1 .. Len(s) + Len(t) : k <= Len(s) => k \in 1 .. Len(s) /\ (s \o t)[k] = s[k]
  BY <1>1
<1>3. \A k \in 1 .. Len(s) + Len(t) :
        ~(k <= Len(s)) => k - Len(s) \in 1 .. Len(t) /\ (s \o t)[k] = t[k - Len(s)]
  BY <1>1
<1>4. CASE i <= Len(s) /\ j <= Len(s)
  BY <1>2, <1>4 DEF Distinct
<1>5. CASE ~(i <= Len(s)) /\ ~(j <= Len(s))
  <2>1. i - Len(s) = j - Len(s)
    BY <1>3, <1>5 DEF Distinct
  <2>2. QED
    BY <1>1, <2>1
<1>6. CASE i <= Len(s) /\ ~(j <= Len(s))
  <2>1. (s \o t)[i] \in Range(s)
    BY <1>2, <1>6, InRange
  <2>2. (s \o t)[j] \in Range(t)
    BY <1>3, <1>6, InRange
  <2>3. QED
    BY <2>1, <2>2
<1>7. CASE ~(i <= Len(s)) /\ j <= Len(s)
  <2>1. (s \o t)[j] \in Range(s)
    BY <1>2, <1>7, InRange
  <2>2. (s \o t)[i] \in Range(t)
    BY <1>3, <1>7, InRange
  <2>3. QED
    BY <2>1, <2>2
<1>8. QED
  BY <1>4, <1>5, <1>6, <1>7

(* The empty queue.                                                        *)
LEMMA EmptyQueue ==
  ASSUME NEW Q
  PROVE  Range(<< >>) = {} /\ Distinct(<< >>, Q)
<1>1. << >> \in Seq({})
  BY EmptySeq
<1>2. Range(<< >>) = {}
  BY <1>1, RangeEmpty, Zenon
<1>3. QED
  BY <1>2 DEF Distinct

(* A message that all others precede can be sent.                          *)
LEMMA OrderedAppend ==
  ASSUME NEW S, NEW s \in Seq(S), NEW x \in S, NEW R,
         Ordered(s, R), \A e \in Range(s) : <<e, x>> \in R
  PROVE  Ordered(Append(s, x), R)
<1> DEFINE a == Append(s, x)
<1>1. /\ Len(a) = Len(s) + 1 /\ a[Len(s) + 1] = x /\ Len(s) \in Nat
      /\ \A i \in 1 .. Len(s) : a[i] = s[i]
  BY AppendProperties, LenProperties
<1>2. \A i \in 1 .. Len(s) : s[i] \in Range(s)
  BY InRange
<1> HIDE DEF a
<1>3. ASSUME NEW i \in 1 .. Len(a), NEW j \in 1 .. Len(a), i < j
      PROVE  <<a[i], a[j]>> \in R
  <2>1. i \in 1 .. Len(s) /\ a[i] = s[i]
    BY <1>1, <1>3
  <2>2. CASE j \in 1 .. Len(s)
    BY <1>1, <1>3, <2>1, <2>2 DEF Ordered
  <2>3. CASE j = Len(s) + 1
    BY <1>1, <1>2, <2>1, <2>3
  <2>4. QED
    BY <1>1, <1>3, <2>2, <2>3
<1>4. Ordered(a, R)
  BY <1>3 DEF Ordered
<1>5. QED
  BY <1>4 DEF a

(* The head of a queue precedes what is left when it is received.          *)
LEMMA OrderedTail ==
  ASSUME NEW S, NEW s \in Seq(S), NEW R, s # <<>>, Ordered(s, R)
  PROVE  /\ Ordered(Tail(s), R)
         /\ \A e \in Range(Tail(s)) : <<Head(s), e>> \in R
<1> DEFINE t == Tail(s)
<1>1. /\ t \in Seq(S) /\ Head(s) = s[1]
      /\ Len(s) \in Nat \ {0} /\ Len(t) = Len(s) - 1
      /\ \A i \in 1 .. Len(s) - 1 : t[i] = s[i + 1]
  BY HeadTailProperties, LenProperties, EmptySeq
<1> HIDE DEF t
<1>2. ASSUME NEW i \in 1 .. Len(t), NEW j \in 1 .. Len(t), i < j
      PROVE  <<t[i], t[j]>> \in R
  <2>1. i + 1 \in 1 .. Len(s) /\ j + 1 \in 1 .. Len(s) /\ i + 1 < j + 1
        /\ t[i] = s[i + 1] /\ t[j] = s[j + 1]
    BY <1>1, <1>2
  <2>2. QED
    BY <2>1 DEF Ordered
<1>3. ASSUME NEW e \in Range(t)
      PROVE  <<Head(s), e>> \in R
  <2>1. PICK i \in 1 .. Len(t) : e = t[i]
    BY <1>1, <1>3, InRange
  <2>2. i + 1 \in 1 .. Len(s) /\ 1 \in 1 .. Len(s) /\ 1 < i + 1 /\ e = s[i + 1]
    BY <1>1, <2>1
  <2>3. QED
    BY <1>1, <2>2 DEF Ordered
<1>4. Ordered(t, R)
  BY <1>2 DEF Ordered
<1>5. QED
  BY <1>3, <1>4 DEF t

(* What is sent for x is carried for x.                                    *)
LEMMA CarriesAppend ==
  ASSUME NEW S, NEW s \in Seq(S), NEW T, NEW t \in Seq(T), NEW a, NEW b, NEW x \in T, NEW y \in S,
         Carries(s, t, a), \A e \in Range(t) : b[e] = a[e], y = b[x]
  PROVE  Carries(Append(s, y), Append(t, x), b)
<1> DEFINE u == Append(s, y)
           v == Append(t, x)
<1>1. /\ Len(s) \in Nat /\ Len(s) = Len(t) /\ Len(u) = Len(s) + 1 /\ Len(v) = Len(s) + 1
      /\ u[Len(s) + 1] = y /\ v[Len(s) + 1] = x
  BY AppendProperties, LenProperties DEF Carries
<1>2. \A i \in 1 .. Len(s) : u[i] = s[i] /\ v[i] = t[i] /\ t[i] \in Range(t)
  BY <1>1, AppendProperties, InRange
<1> HIDE DEF u, v
<1>3. ASSUME NEW i \in 1 .. Len(u)
      PROVE  u[i] = b[v[i]]
  <2>1. CASE i \in 1 .. Len(s)
    BY <1>2, <2>1 DEF Carries
  <2>2. CASE i = Len(s) + 1
    BY <1>1, <2>2
  <2>3. QED
    BY <1>1, <2>1, <2>2
<1>4. Carries(u, v, b)
  BY <1>1, <1>3 DEF Carries
<1>5. QED
  BY <1>4 DEF u, v

(* What is received for the head is carried for the head.                  *)
LEMMA CarriesTail ==
  ASSUME NEW S, NEW s \in Seq(S), NEW T, NEW t \in Seq(T), NEW a, Carries(s, t, a), s # <<>>
  PROVE  /\ t # <<>> /\ Head(s) = a[Head(t)]
         /\ Carries(Tail(s), Tail(t), a)
<1>1. Len(s) \in Nat \ {0} /\ Len(s) = Len(t) /\ t # <<>>
  BY LenProperties, EmptySeq DEF Carries
<1> DEFINE u == Tail(s)
           v == Tail(t)
<1>2. /\ Head(s) = s[1] /\ Head(t) = t[1] /\ Len(u) = Len(s) - 1 /\ Len(v) = Len(s) - 1
      /\ \A i \in 1 .. Len(s) - 1 : u[i] = s[i + 1] /\ v[i] = t[i + 1]
  BY <1>1, HeadTailProperties
<1>3. Head(s) = a[Head(t)]
  BY <1>1, <1>2 DEF Carries
<1> HIDE DEF u, v
<1>4. Carries(u, v, a)
  BY <1>1, <1>2 DEF Carries
<1>5. QED
  BY <1>1, <1>3, <1>4 DEF u, v

(* Nothing is carried for the elements that are not in the queue.          *)
LEMMA CarriesSame ==
  ASSUME NEW s, NEW T, NEW t \in Seq(T), NEW a, NEW b,
         Carries(s, t, a), \A e \in Range(t) : b[e] = a[e]
  PROVE  Carries(s, t, b)
<1>1. \A i \in 1 .. Len(t) : t[i] \in Range(t)
  BY InRange
<1>2. QED
  BY <1>1 DEF Carries

(* What a queue holds when a message is sent ...                           *)
LEMMA HasAppend ==
  ASSUME NEW S, NEW s \in Seq(S), NEW x \in S, NEW Q
  PROVE  /\ Has(Append(s, x), Q) <=> Has(s, Q) \/ x \in Q
         /\ Once(Append(s, x), Q) <=> Once(s, Q) /\ ~(Has(s, Q) /\ x \in Q)
<1> DEFINE a == Append(s, x)
<1>1. /\ Len(a) = Len(s) + 1 /\ Len(s) \in Nat /\ a[Len(s) + 1] = x
      /\ \A i \in 1 .. Len(s) : a[i] = s[i]
  BY AppendProperties, LenProperties
<1> HIDE DEF a
<1>2. 1 .. Len(a) = 1 .. Len(s) \cup {Len(s) + 1} /\ Len(s) + 1 \notin 1 .. Len(s)
  BY <1>1
<1>3. Has(a, Q) <=> Has(s, Q) \/ x \in Q
  BY <1>1, <1>2 DEF Has
<1>4. Once(a, Q) <=> Once(s, Q) /\ ~(Has(s, Q) /\ x \in Q)
  BY <1>1, <1>2 DEF Has, Once
<1>5. QED
  BY <1>3, <1>4 DEF a

(* ... and when one is received.                                           *)
LEMMA HasTail ==
  ASSUME NEW S, NEW s \in Seq(S), s # <<>>, NEW Q
  PROVE  /\ Has(s, Q) <=> Head(s) \in Q \/ Has(Tail(s), Q)
         /\ Once(s, Q) => Once(Tail(s), Q) /\ ~(Head(s) \in Q /\ Has(Tail(s), Q))
<1> DEFINE t == Tail(s)
<1>1. /\ Head(s) = s[1] /\ Len(s) \in Nat \ {0} /\ Len(t) = Len(s) - 1 /\ Len(t) \in Nat
      /\ \A i \in 1 .. Len(s) - 1 : t[i] = s[i + 1]
  BY HeadTailProperties, LenProperties, EmptySeq
<1> HIDE DEF t
<1>2. /\ 1 \in 1 .. Len(s) /\ \A i \in 1 .. Len(t) : i + 1 \in 1 .. Len(s) /\ t[i] = s[i + 1] /\ i + 1 # 1
      /\ \A i \in 1 .. Len(s) : i # 1 => i - 1 \in 1 .. Len(t) /\ s[i] = t[i - 1]
      /\ \A i, j \in 1 .. Len(t) : i + 1 = j + 1 => i = j
  BY <1>1
<1>3. Has(s, Q) => Head(s) \in Q \/ Has(t, Q)
  BY <1>1, <1>2 DEF Has
<1>4. Head(s) \in Q \/ Has(t, Q) => Has(s, Q)
  BY <1>1, <1>2 DEF Has
<1>5. ASSUME Once(s, Q)
      PROVE  Once(t, Q) /\ ~(Head(s) \in Q /\ Has(t, Q))
  BY <1>1, <1>2, <1>5 DEF Has, Once
<1>6. QED
  BY <1>3, <1>4, <1>5 DEF t

(* What follows what when a message is received: one that comes once, and  *)
(* behind every message of Q, has none of Q behind it ...                  *)
LEMMA FollowedTail ==
  ASSUME NEW S, NEW s \in Seq(S), s # <<>>, NEW Q, NEW R, Followed(s, Q, R)
  PROVE  /\ Followed(Tail(s), Q, R) /\ (Head(s) \in Q => Has(Tail(s), R))
         /\ Has(s, Q) => Has(s, R)
         /\ Head(s) \in R /\ Once(s, R) => ~Has(s, Q)
<1> DEFINE t == Tail(s)
<1>1. /\ Head(s) = s[1] /\ Len(s) \in Nat \ {0} /\ Len(t) = Len(s) - 1 /\ Len(t) \in Nat
      /\ \A i \in 1 .. Len(s) - 1 : t[i] = s[i + 1]
  BY HeadTailProperties, LenProperties, EmptySeq
<1> HIDE DEF t
<1>2. /\ 1 \in 1 .. Len(s) /\ \A i \in 1 .. Len(t) : i + 1 \in 1 .. Len(s) /\ t[i] = s[i + 1] /\ i + 1 # 1
      /\ \A i \in 1 .. Len(s) : i # 1 => i - 1 \in 1 .. Len(t) /\ s[i] = t[i - 1]
      /\ \A i \in 1 .. Len(s) : \A j \in i + 1 .. Len(s) : j \in 1 .. Len(s) /\ j # 1
  BY <1>1
<1>3. Followed(t, Q, R)
  <2>1. SUFFICES ASSUME NEW i \in 1 .. Len(t), t[i] \in Q
                 PROVE  \E j \in i + 1 .. Len(t) : t[j] \in R
    BY DEF Followed
  <2>2. i + 1 \in 1 .. Len(s) /\ s[i + 1] \in Q
    BY <1>2, <2>1
  <2>3. PICK j \in (i + 1) + 1 .. Len(s) : s[j] \in R
    BY <2>2 DEF Followed
  <2>4. j - 1 \in i + 1 .. Len(t) /\ j \in 1 .. Len(s) /\ j # 1
    BY <1>1, <2>3
  <2>5. QED
    BY <1>2, <2>3, <2>4
<1>4. Head(s) \in Q => Has(t, R)
  <2>1. SUFFICES ASSUME s[1] \in Q PROVE Has(t, R)
    BY <1>1
  <2>2. PICK j \in 1 + 1 .. Len(s) : s[j] \in R
    BY <1>2, <2>1 DEF Followed
  <2>3. j \in 1 .. Len(s) /\ j # 1
    BY <1>2, <2>2
  <2>4. QED
    BY <1>2, <2>2, <2>3 DEF Has
<1>5. Has(s, Q) => Has(s, R)
  BY <1>2 DEF Followed, Has
<1>6. Head(s) \in R /\ Once(s, R) => ~Has(s, Q)
  BY <1>1, <1>2 DEF Followed, Has, Once
<1>7. QED
  BY <1>3, <1>4, <1>5, <1>6 DEF t

(* ... and when one is sent.                                               *)
LEMMA FollowedAppend ==
  ASSUME NEW S, NEW s \in Seq(S), NEW x \in S, NEW Q, NEW R, x \notin Q, Followed(s, Q, R) \/ x \in R
  PROVE  Followed(Append(s, x), Q, R)
<1> DEFINE a == Append(s, x)
<1>1. /\ Len(a) = Len(s) + 1 /\ Len(s) \in Nat /\ a[Len(s) + 1] = x
      /\ \A i \in 1 .. Len(s) : a[i] = s[i]
  BY AppendProperties, LenProperties
<1> HIDE DEF a
<1>2. ASSUME NEW i \in 1 .. Len(a), a[i] \in Q
      PROVE  \E j \in i + 1 .. Len(a) : a[j] \in R
  <2>1. i \in 1 .. Len(s) /\ s[i] \in Q
    BY <1>1, <1>2
  <2>2. CASE x \in R
    BY <1>1, <2>1, <2>2
  <2>3. CASE Followed(s, Q, R)
    <3>1. PICK j \in i + 1 .. Len(s) : s[j] \in R
      BY <2>1, <2>3 DEF Followed
    <3>2. j \in 1 .. Len(s) /\ j \in i + 1 .. Len(a)
      BY <1>1, <2>1, <3>1
    <3>3. QED
      BY <1>1, <3>1, <3>2
  <2>4. QED
    BY <2>2, <2>3
<1>3. QED
  BY <1>2 DEF Followed, a

(* Several messages are sent.                                              *)
LEMMA HasConcat ==
  ASSUME NEW S, NEW s \in Seq(S), NEW t \in Seq(S), NEW Q
  PROVE  /\ Has(s \o t, Q) <=> Has(s, Q) \/ Has(t, Q)
         /\ Once(s, Q) /\ Once(t, Q) /\ ~(Has(s, Q) /\ Has(t, Q)) => Once(s \o t, Q)
<1> DEFINE a == s \o t
<1>1. /\ Len(a) = Len(s) + Len(t) /\ Len(s) \in Nat /\ Len(t) \in Nat
      /\ \A i \in 1 .. Len(a) : a[i] = IF i <= Len(s) THEN s[i] ELSE t[i - Len(s)]
  BY ConcatProperties, LenProperties
<1> HIDE DEF a
<1>2. /\ \A i \in 1 .. Len(s) : i \in 1 .. Len(a) /\ a[i] = s[i]
      /\ \A i \in 1 .. Len(t) : i + Len(s) \in 1 .. Len(a) /\ a[i + Len(s)] = t[i]
      /\ \A i \in 1 .. Len(a) : i \notin 1 .. Len(s) => i - Len(s) \in 1 .. Len(t) /\ a[i] = t[i - Len(s)]
      /\ \A i, j \in 1 .. Len(a) : i - Len(s) = j - Len(s) => i = j
  <2>1. \A i \in 1 .. Len(s) : i \in 1 .. Len(a) /\ a[i] = s[i]
    BY <1>1
  <2>2. ASSUME NEW i \in 1 .. Len(t)
        PROVE  i + Len(s) \in 1 .. Len(a) /\ a[i + Len(s)] = t[i]
    <3>1. i + Len(s) \in 1 .. Len(a) /\ ~(i + Len(s) <= Len(s)) /\ (i + Len(s)) - Len(s) = i
      BY <1>1
    <3>2. QED
      BY <1>1, <3>1
  <2>3. \A i \in 1 .. Len(a) : i \notin 1 .. Len(s) => i - Len(s) \in 1 .. Len(t) /\ a[i] = t[i - Len(s)]
    BY <1>1
  <2>4. \A i, j \in 1 .. Len(a) : i - Len(s) = j - Len(s) => i = j
    BY <1>1
  <2>5. QED
    BY <2>1, <2>2, <2>3, <2>4
<1>3. Has(a, Q) <=> Has(s, Q) \/ Has(t, Q)
  BY <1>2 DEF Has
<1>4. Once(s, Q) /\ Once(t, Q) /\ ~(Has(s, Q) /\ Has(t, Q)) => Once(a, Q)
  <2>1. SUFFICES ASSUME Once(s, Q), Once(t, Q), ~(Has(s, Q) /\ Has(t, Q)),
                        NEW i \in 1 .. Len(a), NEW j \in 1 .. Len(a), a[i] \in Q, a[j] \in Q
                 PROVE  i = j
    BY DEF Once
  <2>2. CASE i \in 1 .. Len(s) /\ j \in 1 .. Len(s)
    BY <1>2, <2>1, <2>2 DEF Once
  <2>3. CASE i \notin 1 .. Len(s) /\ j \notin 1 .. Len(s)
    <3>1. /\ i - Len(s) \in 1 .. Len(t) /\ t[i - Len(s)] \in Q
          /\ j - Len(s) \in 1 .. Len(t) /\ t[j - Len(s)] \in Q
      BY <1>2, <2>1, <2>3
    <3>2. i - Len(s) = j - Len(s)
      BY <2>1, <3>1 DEF Once
    <3>3. QED
      BY <1>2, <3>2
  <2>4. ASSUME NEW k \in 1 .. Len(a), NEW l \in 1 .. Len(a), a[k] \in Q, a[l] \in Q,
               k \in 1 .. Len(s), l \notin 1 .. Len(s)
        PROVE  FALSE
    BY <1>2, <2>1, <2>4 DEF Has
  <2>5. QED
    BY <2>1, <2>2, <2>3, <2>4
<1>5. QED
  BY <1>3, <1>4 DEF a

(* What a queue does not hold it does not hold twice.                      *)
LEMMA HasNot ==
  ASSUME NEW s, NEW Q, NEW R, ~Has(s, Q)
  PROVE  Once(s, Q) /\ Followed(s, Q, R)
  BY DEF Has, Once, Followed

(* Nothing is in an empty queue.                                           *)
LEMMA HasNone ==
  ASSUME NEW Q, NEW R
  PROVE  ~Has(<<>>, Q) /\ Once(<<>>, Q) /\ Followed(<<>>, Q, R)
<1>1. 1 .. Len(<<>>) = {}
  OBVIOUS
<1>2. QED
  BY <1>1 DEF Has, Once, Followed

(* A queue to which, or from which, one message went that is not of Q.     *)
LEMMA KeptQueue ==
  ASSUME NEW S, NEW s \in Seq(S), NEW t \in Seq(S), NEW Q, Kept(s, t, Q)
  PROVE  /\ \A R \in SUBSET Q : (Has(t, R) <=> Has(s, R)) /\ (Once(s, R) => Once(t, R))
         /\ \A R, T \in SUBSET Q : Followed(s, R, T) => Followed(t, R, T)
<1>1. CASE t = s
  BY <1>1
<1>2. CASE \E x \in S : x \notin Q /\ t = Append(s, x)
  <2>1. PICK x \in S : x \notin Q /\ t = Append(s, x)
    BY <1>2
  <2>2. ASSUME NEW R \in SUBSET Q
        PROVE  (Has(t, R) <=> Has(s, R)) /\ (Once(s, R) => Once(t, R))
    BY <2>1, HasAppend
  <2>3. ASSUME NEW R \in SUBSET Q, NEW T \in SUBSET Q, Followed(s, R, T)
        PROVE  Followed(t, R, T)
    BY <2>1, <2>3, FollowedAppend
  <2>4. QED
    BY <2>2, <2>3
<1>3. CASE s # <<>> /\ Head(s) \notin Q /\ t = Tail(s)
  <2>1. ASSUME NEW R \in SUBSET Q
        PROVE  (Has(t, R) <=> Has(s, R)) /\ (Once(s, R) => Once(t, R))
    BY <1>3, HasTail
  <2>2. ASSUME NEW R \in SUBSET Q, NEW T \in SUBSET Q, Followed(s, R, T)
        PROVE  Followed(t, R, T)
    BY <1>3, <2>2, FollowedTail
  <2>3. QED
    BY <2>1, <2>2
<1>4. \A x : t = Append(s, x) => x \in S
  BY AppendProperties, ElementOfSeq
<1>5. QED
  BY <1>1, <1>2, <1>3, <1>4 DEF Kept
=============================================================================
