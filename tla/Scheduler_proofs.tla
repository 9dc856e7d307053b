-------------------------- MODULE Scheduler_proofs --------------------------
(***************************************************************************)
(* Proofs about the scheduler queue, for any number of clients and queues  *)
(* of any length.                                                          *)
(***************************************************************************)
EXTENDS Scheduler, NatFacts, SequenceTheorems, FunctionTheorems

USE SchedulerAssumption

-----------------------------------------------------------------------------
(* Sums of times *)

(* The time to the items of q, counted from its start, as a function. *)
IsSum(f, q, n) ==
    f = [i \in 0 .. n |-> IF i = 0 THEN 0 ELSE f[i - 1] + q[i].delta]

(* The recursive function in TimeSum exists. *)
LEMMA SumExists ==
    ASSUME NEW q
    PROVE  \A n \in Nat : \E f : IsSum(f, q, n)
<1> DEFINE S == {n \in Nat : \E f : IsSum(f, q, n)}
<1>1. 0 \in S
  <2>1. IsSum([i \in 0 .. 0 |-> 0], q, 0)
    BY DEF IsSum
  <2>2. QED
    BY <2>1
<1>2. ASSUME NEW n \in Nat, n \in S PROVE n + 1 \in S
  <2>1. PICK f : IsSum(f, q, n)
    BY <1>2
  <2> DEFINE g == [i \in 0 .. n + 1 |-> IF i \in 0 .. n THEN f[i] ELSE f[n] + q[n + 1].delta]
  <2>2. \A i \in 0 .. n + 1 : g[i] = IF i = 0 THEN 0 ELSE g[i - 1] + q[i].delta
    <3>1. \A i \in 0 .. n : f[i] = IF i = 0 THEN 0 ELSE f[i - 1] + q[i].delta
      BY <2>1 DEF IsSum
    <3>2. QED
      BY <3>1
  <2>3. IsSum(g, q, n + 1)
    BY <2>2 DEF IsSum
  <2>4. QED
    BY <2>3
<1> HIDE DEF S
<1>3. Nat \subseteq S
  BY <1>1, <1>2, SetInduction
<1>4. QED
  BY <1>3 DEF S

(* TimeSum is the value of that function. *)
LEMMA TimeSumIsSum ==
    ASSUME NEW q, NEW n \in Nat
    PROVE  \E f : IsSum(f, q, n) /\ TimeSum(q, n) = f[n]
<1> DEFINE s == CHOOSE f : IsSum(f, q, n)
<1>1. IsSum(s, q, n)
  BY SumExists
<1>2. TimeSum(q, n) = s[n]
  BY DEF TimeSum, IsSum
<1>3. QED
  BY <1>1, <1>2

(* g adds up the deltas of the first n items. *)
AddsUp(g, q, n) ==
    g[0] = 0 /\ \A i \in 1 .. n : g[i] = g[i - 1] + q[i].delta

(* A function that adds up the deltas agrees with TimeSum. *)
LEMMA TimeSumUnique ==
    ASSUME NEW q, NEW n \in Nat, NEW g, AddsUp(g, q, n)
    PROVE  \A i \in 0 .. n : TimeSum(q, i) = g[i]
<1> SUFFICES ASSUME NEW m \in 0 .. n PROVE TimeSum(q, m) = g[m]
    OBVIOUS
<1>1. PICK f : IsSum(f, q, m) /\ TimeSum(q, m) = f[m]
  BY TimeSumIsSum
<1>2. \A i \in 0 .. m : f[i] = IF i = 0 THEN 0 ELSE f[i - 1] + q[i].delta
  BY <1>1 DEF IsSum
<1> DEFINE S == {i \in Nat : i \in 0 .. m => f[i] = g[i]}
<1>3. 0 \in S
  BY <1>2 DEF AddsUp
<1>4. ASSUME NEW i \in Nat, i \in S PROVE i + 1 \in S
  <2>1. SUFFICES ASSUME i + 1 \in 0 .. m PROVE f[i + 1] = g[i + 1]
    OBVIOUS
  <2>2. /\ i \in 0 .. m /\ i + 1 \in 1 .. n
        /\ i + 1 # 0 /\ (i + 1) - 1 = i
    BY <2>1
  <2>3. f[i] = g[i]
    BY <1>4, <2>2
  <2>4. f[i + 1] = f[i] + q[i + 1].delta
    BY <1>2, <2>1, <2>2
  <2>5. g[i + 1] = g[i] + q[i + 1].delta
    BY <2>2 DEF AddsUp
  <2>6. QED
    BY <2>3, <2>4, <2>5
<1> HIDE DEF S
<1>5. Nat \subseteq S
  BY <1>3, <1>4, SetInduction
<1>6. QED
  BY <1>1, <1>5 DEF S

(* The recursion that TimeSum stands for. *)
LEMMA TimeSumStep ==
    ASSUME NEW q
    PROVE  /\ TimeSum(q, 0) = 0
           /\ \A n \in Nat : TimeSum(q, n + 1) = TimeSum(q, n) + q[n + 1].delta
<1>1. ASSUME NEW n \in Nat
      PROVE  /\ TimeSum(q, 0) = 0
             /\ TimeSum(q, n + 1) = TimeSum(q, n) + q[n + 1].delta
  <2>1. PICK m \in Nat : m = n + 1
    OBVIOUS
  <2>2. PICK f : IsSum(f, q, m)
    BY SumExists
  <2>3. \A i \in 0 .. m : f[i] = IF i = 0 THEN 0 ELSE f[i - 1] + q[i].delta
    BY <2>2 DEF IsSum
  <2>4. AddsUp(f, q, m)
    BY <2>3 DEF AddsUp
  <2>5. \A i \in 0 .. m : TimeSum(q, i) = f[i]
    BY <2>4, TimeSumUnique
  <2>6. /\ 0 \in 0 .. m /\ n \in 0 .. m /\ m \in 1 .. m
        /\ m - 1 = n /\ m \in 0 .. m
    BY <2>1
  <2>7. TimeSum(q, m) = TimeSum(q, n) + q[m].delta /\ TimeSum(q, 0) = 0
    BY <2>4, <2>5, <2>6 DEF AddsUp
  <2>8. QED
    BY <2>1, <2>7
<1>2. 0 \in Nat
  OBVIOUS
<1>3. QED
  BY <1>1, <1>2, Zenon

(* For a queue, times are numbers and add up item by item. *)
LEMMA QueueTimes ==
    ASSUME NEW q \in Seq(scheduler_queue_item)
    PROVE  /\ TimeSum(q, 0) = 0
           /\ \A n \in 0 .. Len(q) : TimeSum(q, n) \in Int
           /\ \A n \in 1 .. Len(q) : TimeSum(q, n) = TimeSum(q, n - 1) + q[n].delta
<1>1. TimeSum(q, 0) = 0
  BY TimeSumStep, Zenon
<1>2. \A n \in 1 .. Len(q) : q[n].delta \in Int
  <2>1. \A n \in 1 .. Len(q) : q[n] \in scheduler_queue_item
    OBVIOUS
  <2>2. QED
    BY <2>1 DEF scheduler_queue_item
<1>3. \A n \in 1 .. Len(q) : TimeSum(q, n) = TimeSum(q, n - 1) + q[n].delta
  <2>1. ASSUME NEW n \in 1 .. Len(q)
        PROVE  TimeSum(q, n) = TimeSum(q, n - 1) + q[n].delta
    <3>1. n - 1 \in Nat /\ (n - 1) + 1 = n
      OBVIOUS
    <3>2. TimeSum(q, (n - 1) + 1) = TimeSum(q, n - 1) + q[(n - 1) + 1].delta
      BY <3>1, TimeSumStep
    <3>3. QED
      BY <3>1, <3>2
  <2>2. QED
    BY <2>1
<1> DEFINE S == {n \in Nat : n \in 0 .. Len(q) => TimeSum(q, n) \in Int}
<1>4. 0 \in S
  BY <1>1
<1>5. ASSUME NEW n \in Nat, n \in S PROVE n + 1 \in S
  <2>1. SUFFICES ASSUME n + 1 \in 0 .. Len(q) PROVE TimeSum(q, n + 1) \in Int
    OBVIOUS
  <2>2. n \in 0 .. Len(q) /\ n + 1 \in 1 .. Len(q)
    BY <2>1
  <2>3. TimeSum(q, n) \in Int
    BY <1>5, <2>2
  <2>4. TimeSum(q, n + 1) = TimeSum(q, n) + q[n + 1].delta
    BY TimeSumStep
  <2>5. QED
    BY <1>2, <2>2, <2>3, <2>4
<1> HIDE DEF S
<1>6. Nat \subseteq S
  BY <1>4, <1>5, SetInduction
<1>7. \A n \in 0 .. Len(q) : TimeSum(q, n) \in Int
  BY <1>6 DEF S
<1>8. QED
  BY <1>1, <1>3, <1>7

-----------------------------------------------------------------------------
(* The operations on the queue *)

(* The items of a queue. *)
LEMMA ItemType ==
    ASSUME NEW q \in Seq(scheduler_queue_item), NEW i \in 1 .. Len(q)
    PROVE  /\ q[i] \in scheduler_queue_item
           /\ q[i].client \in Client
           /\ q[i].delta \in Int
<1>1. q[i] \in scheduler_queue_item
  OBVIOUS
<1>2. QED
  BY <1>1 DEF scheduler_queue_item

(* sq_insert walks to the last item that is due no later than the new one, *)
(* and stops at the end of the queue.                                      *)
LEMMA InsertPositionFacts ==
    ASSUME NEW q \in Seq(scheduler_queue_item), NEW t \in Int
    PROVE  LET k == InsertPosition(q, t) IN
           /\ k \in 0 .. Len(q)
           /\ k > 0 => TimeSum(q, k) <= t
           /\ k < Len(q) => TimeSum(q, k + 1) >= t
<1> DEFINE fits(k) == /\ k = Len(q) \/ TimeSum(q, k + 1) >= t
                      /\ \A j \in 1 .. k - 1 : TimeSum(q, j + 1) < t
           k == InsertPosition(q, t)
<1>1. CASE q = << >>
  BY <1>1 DEF InsertPosition
<1>2. ASSUME q # << >>
      PROVE  1 \in 1 .. Len(q) /\ q[1].delta \in Int /\ TimeSum(q, 1) = q[1].delta
  <2>1. 1 \in 1 .. Len(q)
    BY <1>2
  <2>2. q[1].delta \in Int
    BY <2>1, ItemType
  <2>3. TimeSum(q, 1) = TimeSum(q, 0) + q[1].delta /\ TimeSum(q, 0) = 0
    BY <2>1, QueueTimes
  <2>4. QED
    BY <2>1, <2>2, <2>3
<1>3. CASE q # << >> /\ q[1].delta > t
  <2>1. k = 0
    BY <1>3 DEF InsertPosition
  <2>2. QED
    BY <1>2, <1>3, <2>1
<1>4. CASE q # << >> /\ ~(q[1].delta > t)
  <2> DEFINE ends == {j \in 1 .. Len(q) : j = Len(q) \/ TimeSum(q, j + 1) >= t}
  <2>1. ends \in SUBSET Nat /\ ends # {}
    <3>1. Len(q) \in ends
      BY <1>2, <1>4
    <3>2. QED
      BY <3>1
  <2>2. PICK n \in ends : \A j \in ends : n <= j
    <3> HIDE DEF ends
    <3>1. QED
      BY <2>1, LeastNumber
  <2>3. n \in 1 .. Len(q) /\ fits(n)
    <3>1. n \in 1 .. Len(q) /\ (n = Len(q) \/ TimeSum(q, n + 1) >= t)
      BY <2>2
    <3>2. ASSUME NEW j \in 1 .. n - 1 PROVE TimeSum(q, j + 1) < t
      <4>1. j \in 1 .. Len(q) /\ j # Len(q) /\ j + 1 \in 0 .. Len(q) /\ j < n
        <5>1. Len(q) \in Nat /\ n \in 1 .. Len(q)
          BY <3>1
        <5> HIDE DEF ends
        <5>2. QED
          BY <5>1
      <4>2. j \notin ends
        <5>1. n \in Nat /\ ~(n <= j)
          BY <3>1, <4>1
        <5> HIDE DEF ends
        <5>2. QED
          BY <2>2, <5>1
      <4>5. ~(TimeSum(q, j + 1) >= t)
        BY <4>1, <4>2
      <4>3. TimeSum(q, j + 1) \in Int
        BY <4>1, QueueTimes
      <4>4. QED
        BY <4>5, <4>3
    <3>3. QED
      BY <3>1, <3>2
  <2>4. k = CHOOSE j \in 1 .. Len(q) : fits(j)
    BY <1>4 DEF InsertPosition
  <2>5. k \in 1 .. Len(q) /\ fits(k)
    <3> HIDE DEF fits, k
    <3>1. QED
      BY <2>3, <2>4
  <2>6. TimeSum(q, k) <= t
    <3>1. CASE k = 1
      BY <1>2, <1>4, <3>1
    <3>2. CASE k # 1
      <4>1. k - 1 \in 1 .. k - 1 /\ (k - 1) + 1 = k /\ k \in 0 .. Len(q)
        <5>1. k \in 1 .. Len(q) /\ k # 1 /\ Len(q) \in Nat
          BY <2>5, <3>2
        <5> HIDE DEF k
        <5>2. QED
          BY <5>1
      <4>2. TimeSum(q, (k - 1) + 1) < t
        BY <2>5, <4>1
      <4>3. TimeSum(q, k) \in Int
        BY <4>1, QueueTimes
      <4>4. QED
        BY <4>1, <4>2, <4>3
    <3>3. QED
      BY <3>1, <3>2
  <2>7. k < Len(q) => TimeSum(q, k + 1) >= t
    BY <2>5
  <2>8. QED
    BY <2>5, <2>6, <2>7
<1>5. QED
  BY <1>1, <1>3, <1>4

(* Shifted cuts the front off and changes one delta. *)
LEMMA ShiftedFacts ==
    ASSUME NEW q \in Seq(scheduler_queue_item), NEW n \in 1 .. Len(q) + 1, NEW t \in Int
    PROVE  /\ Shifted(q, n, t) \in Seq(scheduler_queue_item)
           /\ Len(Shifted(q, n, t)) = Len(q) - n + 1
           /\ \A i \in 1 .. Len(q) - n + 1 :
                 /\ Shifted(q, n, t)[i].client = q[n + i - 1].client
                 /\ Shifted(q, n, t)[i].delta = q[n + i - 1].delta + (IF i = 1 THEN t ELSE 0)
<1> DEFINE s == Shifted(q, n, t)
           m == Len(q) - n + 1
<1>1. m \in Nat /\ DOMAIN s = 1 .. m
  BY DEF Shifted
<1>2. ASSUME NEW i \in 1 .. m
      PROVE  /\ s[i] \in scheduler_queue_item
             /\ s[i].client = q[n + i - 1].client
             /\ s[i].delta = q[n + i - 1].delta + (IF i = 1 THEN t ELSE 0)
  <2>1. PICK j \in 1 .. Len(q) : j = n + i - 1
    OBVIOUS
  <2>2. q[j] \in scheduler_queue_item /\ q[j].delta \in Int
    BY ItemType
  <2>3. CASE i = 1
    <3>1. j = n
      BY <2>1, <2>3
    <3>2. s[i] = [q[j] EXCEPT !.delta = @ + t]
      BY <2>3, <3>1 DEF Shifted
    <3> HIDE DEF s
    <3>3. s[i] = [client |-> q[j].client, delta |-> q[j].delta + t]
      BY <2>2, <3>2 DEF scheduler_queue_item
    <3>4. q[j].client \in Client /\ q[j].delta + t \in Int
      BY <2>2, ItemType
    <3>5. QED
      BY <2>1, <2>3, <3>3, <3>4 DEF scheduler_queue_item
  <2>4. CASE i # 1
    <3>1. s[i] = q[j]
      BY <2>1, <2>4 DEF Shifted
    <3> HIDE DEF s
    <3>2. QED
      BY <2>1, <2>2, <2>4, <3>1
  <2>5. QED
    BY <2>3, <2>4
<1>3. s = [i \in 1 .. m |-> s[i]]
  BY DEF Shifted
<1>4. s \in Seq(scheduler_queue_item)
  <2>1. s \in [1 .. m -> scheduler_queue_item]
    <3> HIDE DEF s, m
    <3>1. QED
      BY <1>2, <1>3
  <2> HIDE DEF s, m
  <2>2. QED
    BY <1>1, <2>1, SeqDef
<1>5. Len(s) = m
  <2> HIDE DEF s, m
  <2>1. QED
    BY <1>1, <1>4, LenProperties
<1>6. QED
  BY <1>2, <1>4, <1>5

(* The first k items of a queue. *)
LEMMA PrefixFacts ==
    ASSUME NEW q \in Seq(scheduler_queue_item), NEW k \in 0 .. Len(q)
    PROVE  /\ SubSeq(q, 1, k) \in Seq(scheduler_queue_item)
           /\ Len(SubSeq(q, 1, k)) = k
           /\ \A i \in 1 .. k : SubSeq(q, 1, k)[i] = q[i]
<1>1. \A i \in 1 .. k : q[i] \in scheduler_queue_item
  OBVIOUS
<1>2. /\ SubSeq(q, 1, k) \in Seq(scheduler_queue_item)
      /\ Len(SubSeq(q, 1, k)) = IF 1 <= k THEN k - 1 + 1 ELSE 0
      /\ \A i \in 1 .. k - 1 + 1 : SubSeq(q, 1, k)[i] = q[1 + i - 1]
  <2>1. 1 \in Int /\ k \in Int
    OBVIOUS
  <2>2. QED
    BY <1>1, <2>1, SubSeqProperties
<1>3. QED
  BY <1>2

(* The items of a concatenation. *)
LEMMA ConcatFacts ==
    ASSUME NEW s \in Seq(scheduler_queue_item), NEW u \in Seq(scheduler_queue_item)
    PROVE  /\ s \o u \in Seq(scheduler_queue_item)
           /\ Len(s \o u) = Len(s) + Len(u)
           /\ \A i \in 1 .. Len(s) : (s \o u)[i] = s[i]
           /\ \A i \in 1 .. Len(u) : (s \o u)[Len(s) + i] = u[i]
<1>1. /\ s \o u \in Seq(scheduler_queue_item)
      /\ Len(s \o u) = Len(s) + Len(u)
      /\ \A i \in 1 .. Len(s) + Len(u) :
            (s \o u)[i] = IF i <= Len(s) THEN s[i] ELSE u[i - Len(s)]
  BY ConcatProperties
<1>2. ASSUME NEW i \in 1 .. Len(s) PROVE (s \o u)[i] = s[i]
  <2>1. i \in 1 .. Len(s) + Len(u) /\ i <= Len(s)
    OBVIOUS
  <2>2. QED
    BY <1>1, <2>1
<1>3. ASSUME NEW i \in 1 .. Len(u) PROVE (s \o u)[Len(s) + i] = u[i]
  <2>1. /\ Len(s) + i \in 1 .. Len(s) + Len(u)
        /\ ~(Len(s) + i <= Len(s)) /\ Len(s) + i - Len(s) = i
    OBVIOUS
  <2>2. QED
    BY <1>1, <2>1
<1>4. QED
  BY <1>1, <1>2, <1>3

(* new is q with x put behind the k-th item and d added to the next one. *)
Spliced(new, q, k, x, d) ==
    /\ new \in Seq(scheduler_queue_item)
    /\ Len(new) = Len(q) + 1
    /\ \A i \in 1 .. k : new[i] = q[i]
    /\ new[k + 1] = x
    /\ \A i \in k + 2 .. Len(q) + 1 :
          /\ new[i].client = q[i - 1].client
          /\ new[i].delta = q[i - 1].delta + (IF i = k + 2 THEN d ELSE 0)

(* new is q without its k-th item and with d added to the one behind it. *)
CutOut(new, q, k, d) ==
    /\ new \in Seq(scheduler_queue_item)
    /\ Len(new) = Len(q) - 1
    /\ \A i \in 1 .. k - 1 : new[i] = q[i]
    /\ \A i \in k .. Len(q) - 1 :
          /\ new[i].client = q[i + 1].client
          /\ new[i].delta = q[i + 1].delta + (IF i = k THEN d ELSE 0)

(* Where the items are after an insertion. *)
LEMMA SpliceFacts ==
    ASSUME NEW q \in Seq(scheduler_queue_item), NEW k \in 0 .. Len(q),
           NEW x \in scheduler_queue_item, NEW d \in Int
    PROVE  Spliced(SubSeq(q, 1, k) \o <<x>> \o Shifted(q, k + 1, d), q, k, x, d)
<1>0. /\ Len(q) \in Nat /\ k \in Nat /\ k <= Len(q)
      /\ k + 1 \in 1 .. Len(q) + 1 /\ k + 1 \in Nat /\ Len(q) - k \in Nat
  OBVIOUS
<1>1. PICK m \in 1 .. Len(q) + 1 : m = k + 1
  BY <1>0
<1>r. PICK r \in Nat : r = Len(q) - k
  BY <1>0
<1>s. r = Len(q) - m + 1
  BY <1>0, <1>1, <1>r
<1> DEFINE a == SubSeq(q, 1, k)
           b == <<x>>
           ab == a \o b
           e == Shifted(q, m, d)
           new == SubSeq(q, 1, k) \o <<x>> \o Shifted(q, k + 1, d)
<1>2. new = ab \o e
  BY <1>1
<1>3. a \in Seq(scheduler_queue_item) /\ Len(a) = k /\ \A i \in 1 .. k : a[i] = q[i]
  BY PrefixFacts
<1>4. b \in Seq(scheduler_queue_item) /\ Len(b) = 1 /\ b[1] = x
  OBVIOUS
<1>5. /\ e \in Seq(scheduler_queue_item) /\ Len(e) = r
      /\ \A i \in 1 .. r :
            /\ e[i].client = q[m + i - 1].client
            /\ e[i].delta = q[m + i - 1].delta + (IF i = 1 THEN d ELSE 0)
  BY <1>s, ShiftedFacts
<1> HIDE DEF a, b, ab, e, new
<1>6. /\ ab \in Seq(scheduler_queue_item) /\ Len(ab) = m
      /\ \A i \in 1 .. k : ab[i] = a[i]
      /\ ab[m] = b[1]
  <2>1. 1 \in Nat /\ 1 \in 1 .. 1 /\ k \in Nat
    BY <1>0
  <2>2. /\ a \o b \in Seq(scheduler_queue_item) /\ Len(a \o b) = Len(a) + Len(b)
        /\ \A i \in 1 .. Len(a) : (a \o b)[i] = a[i]
        /\ \A i \in 1 .. Len(b) : (a \o b)[Len(a) + i] = b[i]
    BY <1>3, <1>4, ConcatFacts
  <2>3. QED
    BY <1>1, <1>3, <1>4, <2>1, <2>2 DEF ab
<1>7. /\ new \in Seq(scheduler_queue_item) /\ Len(new) = m + r
      /\ \A i \in 1 .. m : new[i] = ab[i]
      /\ \A i \in 1 .. r : new[m + i] = e[i]
  <2>1. /\ ab \o e \in Seq(scheduler_queue_item) /\ Len(ab \o e) = Len(ab) + Len(e)
        /\ \A i \in 1 .. Len(ab) : (ab \o e)[i] = ab[i]
        /\ \A i \in 1 .. Len(e) : (ab \o e)[Len(ab) + i] = e[i]
    BY <1>5, <1>6, ConcatFacts
  <2>2. QED
    BY <1>2, <1>5, <1>6, <2>1
<1>8. Len(new) = Len(q) + 1
  BY <1>0, <1>1, <1>r, <1>7
<1>9. (\A i \in 1 .. k : new[i] = q[i]) /\ new[k + 1] = x
  <2>1. m = k + 1 /\ m \in 1 .. m /\ \A i \in 1 .. k : i \in 1 .. m
    BY <1>0, <1>1
  <2>2. new[m] = x
    BY <1>4, <1>6, <1>7, <2>1
  <2>3. \A i \in 1 .. k : new[i] = q[i]
    BY <1>3, <1>6, <1>7, <2>1
  <2>4. QED
    BY <2>1, <2>2, <2>3
<1>10. ASSUME NEW i \in k + 2 .. Len(q) + 1
       PROVE  /\ new[i].client = q[i - 1].client
              /\ new[i].delta = q[i - 1].delta + (IF i = k + 2 THEN d ELSE 0)
  <2>1. PICK j \in 1 .. r : i = m + j
    <3>1. i - m \in 1 .. r /\ i = m + (i - m)
      BY <1>0, <1>1, <1>r
    <3>2. QED
      BY <3>1
  <2>2. new[i] = e[j]
    BY <1>7, <2>1
  <2>3. m + j - 1 = i - 1 /\ ((j = 1) <=> (i = k + 2))
    BY <1>0, <1>1, <2>1
  <2>4. QED
    BY <1>5, <2>2, <2>3
<1>11. QED
  BY <1>7, <1>8, <1>9, <1>10 DEF new, Spliced

(* Where the items are after a removal. *)
LEMMA CutFacts ==
    ASSUME NEW q \in Seq(scheduler_queue_item), NEW k \in 1 .. Len(q),
           NEW d \in Int
    PROVE  CutOut(SubSeq(q, 1, k - 1) \o Shifted(q, k + 1, d), q, k, d)
<1>0. /\ Len(q) \in Nat /\ k \in Nat /\ 1 <= k /\ k <= Len(q)
      /\ k - 1 \in 0 .. Len(q) /\ k + 1 \in 1 .. Len(q) + 1 /\ Len(q) - k \in Nat
  OBVIOUS
<1>h. PICK h \in 0 .. Len(q) : h = k - 1
  BY <1>0
<1>1. PICK m \in 1 .. Len(q) + 1 : m = k + 1
  BY <1>0
<1>r. PICK r \in Nat : r = Len(q) - k
  BY <1>0
<1>s. r = Len(q) - m + 1
  BY <1>0, <1>1, <1>r
<1> DEFINE a == SubSeq(q, 1, h)
           e == Shifted(q, m, d)
           new == SubSeq(q, 1, k - 1) \o Shifted(q, k + 1, d)
<1>2. new = a \o e
  BY <1>1, <1>h
<1>3. a \in Seq(scheduler_queue_item) /\ Len(a) = h /\ \A i \in 1 .. h : a[i] = q[i]
  BY PrefixFacts
<1>4. /\ e \in Seq(scheduler_queue_item) /\ Len(e) = r
      /\ \A i \in 1 .. r :
            /\ e[i].client = q[m + i - 1].client
            /\ e[i].delta = q[m + i - 1].delta + (IF i = 1 THEN d ELSE 0)
  BY <1>s, ShiftedFacts
<1> HIDE DEF a, e, new
<1>5. /\ new \in Seq(scheduler_queue_item) /\ Len(new) = h + r
      /\ \A i \in 1 .. h : new[i] = a[i]
      /\ \A i \in 1 .. r : new[h + i] = e[i]
  <2>1. /\ a \o e \in Seq(scheduler_queue_item) /\ Len(a \o e) = Len(a) + Len(e)
        /\ \A i \in 1 .. Len(a) : (a \o e)[i] = a[i]
        /\ \A i \in 1 .. Len(e) : (a \o e)[Len(a) + i] = e[i]
    BY <1>3, <1>4, ConcatFacts
  <2>2. QED
    BY <1>2, <1>3, <1>4, <2>1
<1>6. Len(new) = Len(q) - 1
  BY <1>0, <1>1, <1>h, <1>r, <1>5
<1>7. \A i \in 1 .. k - 1 : new[i] = q[i]
  BY <1>h, <1>3, <1>5
<1>8. ASSUME NEW i \in k .. Len(q) - 1
      PROVE  /\ new[i].client = q[i + 1].client
             /\ new[i].delta = q[i + 1].delta + (IF i = k THEN d ELSE 0)
  <2>1. PICK j \in 1 .. r : i = h + j
    <3>1. i - h \in 1 .. r /\ i = h + (i - h)
      BY <1>0, <1>1, <1>h, <1>r
    <3>2. QED
      BY <3>1
  <2>2. new[i] = e[j]
    BY <1>5, <2>1
  <2>3. m + j - 1 = i + 1 /\ ((j = 1) <=> (i = k))
    BY <1>0, <1>1, <1>h, <1>r, <2>1
  <2>4. QED
    BY <1>4, <2>2, <2>3
<1>9. QED
  BY <1>5, <1>6, <1>7, <1>8 DEF new, CutOut

(* The deltas behind the head are not negative. *)
InOrder(q) == \A i \in 2 .. Len(q) : q[i].delta >= 0

(* No client has two items. *)
Once(q) == \A i, j \in 1 .. Len(q) : q[i].client = q[j].client => i = j

(* Item i of new is for the same client at the same time as item j of q. *)
SameItem(new, i, q, j) ==
    new[i].client = q[j].client /\ TimeSum(new, i) = TimeSum(q, j)

(* sq_insert moves no item in time: the new one is due after t, every item *)
(* before and behind it when it was due before.                            *)
LEMMA InsertTimes ==
    ASSUME NEW q \in Seq(scheduler_queue_item), NEW c \in Client, NEW t \in Int
    PROVE  LET new == sq_insert(q, c, t)
               k == InsertPosition(q, t) IN
           /\ new \in Seq(scheduler_queue_item)
           /\ Len(new) = Len(q) + 1
           /\ \A i \in 1 .. k : SameItem(new, i, q, i)
           /\ new[k + 1].client = c /\ TimeSum(new, k + 1) = t
           /\ \A i \in k + 2 .. Len(q) + 1 : SameItem(new, i, q, i - 1)
           /\ InOrder(q) => InOrder(new)
<1> DEFINE k == InsertPosition(q, t)
           T(i) == TimeSum(q, i)
           x == Item(c, t - T(k))
           new == sq_insert(q, c, t)
<1>1. /\ k \in 0 .. Len(q)
      /\ k > 0 => T(k) <= t
      /\ k < Len(q) => T(k + 1) >= t
  BY InsertPositionFacts
<1>2. /\ T(0) = 0
      /\ \A n \in 0 .. Len(q) : T(n) \in Int
      /\ \A n \in 1 .. Len(q) : T(n) = T(n - 1) + q[n].delta
  BY QueueTimes
<1>3. \A n \in 1 .. Len(q) : q[n].delta \in Int
  BY ItemType
<1>4. T(k) \in Int /\ Len(q) \in Nat
  <2> HIDE DEF k, T
  <2>1. QED
    BY <1>1, <1>2
<1>5. PICK d \in Int : d = -(t - T(k))
  <2> HIDE DEF k, T
  <2>1. QED
    BY <1>4
<1>6. x \in scheduler_queue_item /\ x.client = c /\ x.delta = t - T(k)
  <2>1. t - T(k) \in Int
    <3> HIDE DEF k, T
    <3>1. QED
      BY <1>4
  <2> HIDE DEF k, T
  <2>2. QED
    BY <2>1 DEF Item, scheduler_queue_item
<1>7. new = SubSeq(q, 1, k) \o <<x>> \o Shifted(q, k + 1, d)
  BY <1>5 DEF sq_insert
<1> HIDE DEF k, T, x, new
<1>8. /\ new \in Seq(scheduler_queue_item)
      /\ Len(new) = Len(q) + 1
      /\ \A i \in 1 .. k : new[i] = q[i]
      /\ new[k + 1] = x
      /\ \A i \in k + 2 .. Len(q) + 1 :
            /\ new[i].client = q[i - 1].client
            /\ new[i].delta = q[i - 1].delta + (IF i = k + 2 THEN d ELSE 0)
  <2>1. Spliced(SubSeq(q, 1, k) \o <<x>> \o Shifted(q, k + 1, d), q, k, x, d)
    BY <1>1, <1>6, SpliceFacts
  <2>2. QED
    BY <1>7, <2>1 DEF Spliced
<1> DEFINE g == [i \in 0 .. Len(q) + 1 |->
                   IF i <= k THEN T(i) ELSE IF i = k + 1 THEN t ELSE T(i - 1)]
<1>9. \A i \in 1 .. Len(q) + 1 : g[i] = g[i - 1] + new[i].delta
  <2> SUFFICES ASSUME NEW i \in 1 .. Len(q) + 1
               PROVE  g[i] = g[i - 1] + new[i].delta
      OBVIOUS
  <2>0. k \in Nat /\ k <= Len(q) /\ i - 1 \in 0 .. Len(q) + 1 /\ i \in 0 .. Len(q) + 1
    BY <1>1, <1>4
  <2>1. CASE i <= k
    <3>1. i \in 1 .. k /\ i \in 1 .. Len(q) /\ i - 1 <= k
      BY <1>4, <2>0, <2>1
    <3>2. g[i] = T(i) /\ g[i - 1] = T(i - 1)
      BY <2>0, <2>1, <3>1
    <3>3. T(i) = T(i - 1) + q[i].delta
      BY <1>2, <3>1
    <3>4. new[i].delta = q[i].delta
      BY <1>8, <3>1
    <3> HIDE DEF g
    <3>5. QED
      BY <3>2, <3>3, <3>4
  <2>2. CASE i = k + 1
    <3>1. g[i] = t /\ g[i - 1] = T(k)
      BY <2>0, <2>2
    <3>2. new[i].delta = t - T(k)
      BY <1>6, <1>8, <2>2
    <3> HIDE DEF g
    <3>3. QED
      BY <1>4, <3>1, <3>2
  <2>3. CASE i = k + 2
    <3>1. g[i] = T(k + 1) /\ g[i - 1] = t
      BY <2>0, <2>3
    <3>2. i \in k + 2 .. Len(q) + 1 /\ k + 1 \in 1 .. Len(q) /\ i - 1 = k + 1 /\ (k + 1) - 1 = k
      BY <1>4, <2>0, <2>3
    <3>3. new[i].delta = q[k + 1].delta + d
      BY <1>8, <2>3, <3>2
    <3>4. T(k + 1) = T(k) + q[k + 1].delta /\ q[k + 1].delta \in Int
      BY <1>2, <1>3, <3>2
    <3> HIDE DEF g
    <3>5. QED
      BY <1>4, <1>5, <3>1, <3>3, <3>4
  <2>4. CASE i > k + 2
    <3>1. g[i] = T(i - 1) /\ g[i - 1] = T((i - 1) - 1)
      BY <2>0, <2>4
    <3>2. i \in k + 2 .. Len(q) + 1 /\ i - 1 \in 1 .. Len(q) /\ i # k + 2
      BY <1>4, <2>0, <2>4
    <3>3. new[i].delta = q[i - 1].delta + 0
      BY <1>8, <3>2
    <3>4. T(i - 1) = T((i - 1) - 1) + q[i - 1].delta /\ q[i - 1].delta \in Int
      BY <1>2, <1>3, <3>2
    <3> HIDE DEF g
    <3>5. QED
      BY <3>1, <3>3, <3>4
  <2>5. QED
    BY <2>0, <2>1, <2>2, <2>3, <2>4
<1>10. \A i \in 0 .. Len(q) + 1 : TimeSum(new, i) = g[i]
  <2>1. g[0] = 0 /\ Len(q) + 1 \in Nat
    BY <1>1, <1>2, <1>4
  <2> HIDE DEF g
  <2>2. PICK n \in Nat : n = Len(q) + 1
    BY <2>1
  <2>3. \A i \in 0 .. n : TimeSum(new, i) = g[i]
    <3>1. \A i \in 1 .. n : g[i] = g[i - 1] + new[i].delta
      BY <1>9, <2>2
    <3>2. AddsUp(g, new, n)
      BY <2>1, <3>1 DEF AddsUp
    <3>3. QED
      BY <3>2, TimeSumUnique
  <2>4. QED
    BY <2>2, <2>3
<1>11. ASSUME NEW i \in 1 .. k PROVE SameItem(new, i, q, i)
  <2>1. i \in 0 .. Len(q) + 1 /\ i <= k
    BY <1>1, <1>4
  <2>2. g[i] = T(i)
    BY <2>1
  <2> HIDE DEF g
  <2>3. QED
    BY <1>8, <1>10, <2>1, <2>2 DEF SameItem, T
<1>12. new[k + 1].client = c /\ TimeSum(new, k + 1) = t
  <2>1. k + 1 \in 0 .. Len(q) + 1 /\ ~(k + 1 <= k)
    BY <1>1, <1>4
  <2>2. g[k + 1] = t
    BY <2>1
  <2> HIDE DEF g
  <2>3. QED
    BY <1>6, <1>8, <1>10, <2>1, <2>2
<1>13. ASSUME NEW i \in k + 2 .. Len(q) + 1 PROVE SameItem(new, i, q, i - 1)
  <2>1. i \in 0 .. Len(q) + 1 /\ ~(i <= k) /\ i # k + 1
    BY <1>1, <1>4
  <2>2. g[i] = T(i - 1)
    BY <2>1
  <2> HIDE DEF g
  <2>3. QED
    BY <1>8, <1>10, <2>1, <2>2 DEF SameItem, T
<1>14. ASSUME InOrder(q) PROVE InOrder(new)
  <2>1. SUFFICES ASSUME NEW i \in 2 .. Len(q) + 1 PROVE new[i].delta >= 0
    BY <1>8 DEF InOrder
  <2>2. \A j \in 2 .. Len(q) : q[j].delta >= 0
    BY <1>14 DEF InOrder
  <2>0. k \in Nat /\ k <= Len(q)
    BY <1>1, <1>4
  <2>3. CASE i <= k
    <3>1. i \in 1 .. k /\ i \in 2 .. Len(q)
      BY <1>4, <2>0, <2>3
    <3>2. QED
      BY <1>8, <2>2, <3>1
  <2>4. CASE i = k + 1
    <3>1. T(k) <= t
      BY <1>1, <2>0, <2>4
    <3>2. QED
      BY <1>4, <1>6, <1>8, <2>4, <3>1
  <2>5. CASE i = k + 2
    <3>1. i \in k + 2 .. Len(q) + 1 /\ k + 1 \in 1 .. Len(q) /\ i - 1 = k + 1 /\ (k + 1) - 1 = k
          /\ k < Len(q)
      BY <1>4, <2>0, <2>5
    <3>2. new[i].delta = q[k + 1].delta + d
      BY <1>8, <2>5, <3>1
    <3>3. T(k + 1) = T(k) + q[k + 1].delta /\ q[k + 1].delta \in Int /\ T(k + 1) >= t
      BY <1>1, <1>2, <1>3, <3>1
    <3>4. QED
      BY <1>4, <1>5, <3>2, <3>3
  <2>6. CASE i > k + 2
    <3>1. i \in k + 2 .. Len(q) + 1 /\ i - 1 \in 2 .. Len(q) /\ i - 1 \in 1 .. Len(q) /\ i # k + 2
      BY <1>4, <2>0, <2>6
    <3>2. new[i].delta = q[i - 1].delta + 0
      BY <1>8, <3>1
    <3>3. QED
      BY <1>3, <2>2, <3>1, <3>2
  <2>7. QED
    BY <2>0, <2>3, <2>4, <2>5, <2>6
<1>15. QED
  BY <1>8, <1>11, <1>12, <1>13, <1>14 DEF new, k

(* What sq_insert keeps: every item but the new one was there before, for  *)
(* the same client at the same time.                                       *)
LEMMA InsertFacts ==
    ASSUME NEW q \in Seq(scheduler_queue_item), NEW c \in Client, NEW t \in Int
    PROVE  LET new == sq_insert(q, c, t) IN
           /\ new \in Seq(scheduler_queue_item)
           /\ Len(new) = Len(q) + 1
           /\ InOrder(q) => InOrder(new)
           /\ \A i \in 1 .. Len(new) :
                 \/ new[i].client = c /\ TimeSum(new, i) = t
                 \/ \E j \in 1 .. Len(q) : SameItem(new, i, q, j)
           /\ Once(q) /\ (\A i \in 1 .. Len(q) : q[i].client # c) => Once(new)
<1> DEFINE k == InsertPosition(q, t)
           new == sq_insert(q, c, t)
<1>1. k \in 0 .. Len(q) /\ Len(q) \in Nat
  BY InsertPositionFacts
<1>2. /\ new \in Seq(scheduler_queue_item)
      /\ Len(new) = Len(q) + 1
      /\ \A i \in 1 .. k : SameItem(new, i, q, i)
      /\ new[k + 1].client = c /\ TimeSum(new, k + 1) = t
      /\ \A i \in k + 2 .. Len(q) + 1 : SameItem(new, i, q, i - 1)
      /\ InOrder(q) => InOrder(new)
  BY InsertTimes
<1> HIDE DEF k, new
<1>3. ASSUME NEW i \in 1 .. Len(q) + 1
      PROVE  \/ i = k + 1
             \/ i \in 1 .. k /\ i \in 1 .. Len(q)
             \/ i \in k + 2 .. Len(q) + 1 /\ i - 1 \in 1 .. Len(q)
  BY <1>1
<1>4. ASSUME NEW i \in 1 .. Len(q) + 1
      PROVE  \/ new[i].client = c /\ TimeSum(new, i) = t
             \/ \E j \in 1 .. Len(q) : SameItem(new, i, q, j)
  BY <1>2, <1>3
<1>5. ASSUME Once(q), \A i \in 1 .. Len(q) : q[i].client # c PROVE Once(new)
  <2>1. SUFFICES ASSUME NEW i \in 1 .. Len(q) + 1, NEW j \in 1 .. Len(q) + 1,
                        new[i].client = new[j].client
                 PROVE  i = j
    BY <1>2 DEF Once
  <2> DEFINE old(n) == IF n <= k THEN n ELSE n - 1
  <2>2. ASSUME NEW n \in 1 .. Len(q) + 1, n # k + 1
        PROVE  old(n) \in 1 .. Len(q) /\ new[n].client = q[old(n)].client
    <3>1. CASE n \in 1 .. k /\ n \in 1 .. Len(q)
      <4>1. old(n) = n
        BY <1>1, <3>1
      <4>2. QED
        BY <1>2, <3>1, <4>1 DEF SameItem
    <3>2. CASE n \in k + 2 .. Len(q) + 1 /\ n - 1 \in 1 .. Len(q)
      <4>1. old(n) = n - 1
        BY <1>1, <3>2
      <4>2. QED
        BY <1>2, <3>2, <4>1 DEF SameItem
    <3>3. QED
      BY <1>3, <2>2, <3>1, <3>2
  <2>3. i = k + 1 <=> j = k + 1
    BY <1>2, <1>5, <2>1, <2>2
  <2>4. CASE i # k + 1
    <3>1. old(i) = old(j)
      BY <1>5, <2>1, <2>2, <2>3, <2>4 DEF Once
    <3>2. QED
      BY <1>1, <2>3, <2>4, <3>1
  <2>5. QED
    BY <2>3, <2>4
<1>6. QED
  BY <1>2, <1>4, <1>5 DEF new

(* sq_remove_all_scheduled moves no item in time either. *)
LEMMA RemoveTimes ==
    ASSUME NEW q \in Seq(scheduler_queue_item), NEW k \in 1 .. Len(q), NEW new,
           CutOut(new, q, k, q[k].delta)
    PROVE  /\ \A i \in 1 .. k - 1 : SameItem(new, i, q, i)
           /\ \A i \in k .. Len(q) - 1 : SameItem(new, i, q, i + 1)
<1> DEFINE T(i) == TimeSum(q, i)
           g == [i \in 0 .. Len(q) - 1 |-> IF i < k THEN T(i) ELSE T(i + 1)]
<1>0. k \in Nat /\ Len(q) \in Nat /\ 1 <= k /\ k <= Len(q)
  OBVIOUS
<1>1. /\ T(0) = 0
      /\ \A n \in 0 .. Len(q) : T(n) \in Int
      /\ \A n \in 1 .. Len(q) : T(n) = T(n - 1) + q[n].delta
  BY QueueTimes
<1>2. \A n \in 1 .. Len(q) : q[n].delta \in Int
  BY ItemType
<1>3. /\ \A i \in 1 .. k - 1 : new[i] = q[i]
      /\ \A i \in k .. Len(q) - 1 :
            /\ new[i].client = q[i + 1].client
            /\ new[i].delta = q[i + 1].delta + (IF i = k THEN q[k].delta ELSE 0)
  BY DEF CutOut
<1> HIDE DEF T
<1>4. ASSUME NEW i \in 1 .. Len(q) - 1 PROVE g[i] = g[i - 1] + new[i].delta
  <2>0. i \in 0 .. Len(q) - 1 /\ i - 1 \in 0 .. Len(q) - 1 /\ i \in Nat
    BY <1>0
  <2>1. CASE i < k
    <3>1. i \in 1 .. k - 1 /\ i \in 1 .. Len(q) /\ i - 1 < k
      BY <1>0, <2>0, <2>1
    <3>2. g[i] = T(i) /\ g[i - 1] = T(i - 1)
      BY <2>0, <2>1, <3>1
    <3>3. T(i) = T(i - 1) + q[i].delta /\ new[i] = q[i]
      BY <1>1, <1>3, <3>1
    <3> HIDE DEF g
    <3>4. QED
      BY <3>2, <3>3
  <2>2. CASE i = k
    <3>1. i \in k .. Len(q) - 1 /\ i - 1 < k /\ ~(i < k) /\ k - 1 \in 0 .. Len(q)
          /\ k + 1 \in 1 .. Len(q) /\ (k + 1) - 1 = k
      BY <1>0, <2>0, <2>2
    <3>2. g[i] = T(k + 1) /\ g[i - 1] = T(k - 1)
      BY <2>0, <2>2, <3>1
    <3>3. new[i].delta = q[k + 1].delta + q[k].delta
      BY <1>3, <2>2, <3>1
    <3>4. T(k + 1) = T(k) + q[k + 1].delta /\ q[k + 1].delta \in Int
      BY <1>1, <1>2, <3>1
    <3>5. T(k) = T(k - 1) + q[k].delta /\ q[k].delta \in Int /\ T(k - 1) \in Int
      BY <1>1, <1>2, <3>1
    <3> HIDE DEF g
    <3>6. QED
      BY <3>2, <3>3, <3>4, <3>5
  <2>3. CASE i > k
    <3>1. i \in k .. Len(q) - 1 /\ ~(i - 1 < k) /\ ~(i < k) /\ i # k
          /\ i + 1 \in 1 .. Len(q) /\ (i + 1) - 1 = i /\ (i - 1) + 1 = i
      BY <1>0, <2>0, <2>3
    <3>2. g[i] = T(i + 1) /\ g[i - 1] = T(i)
      BY <2>0, <3>1
    <3>3. new[i].delta = q[i + 1].delta + 0
      BY <1>3, <3>1
    <3>4. T(i + 1) = T(i) + q[i + 1].delta /\ q[i + 1].delta \in Int
      BY <1>1, <1>2, <3>1
    <3> HIDE DEF g
    <3>5. QED
      BY <3>2, <3>3, <3>4
  <2>4. QED
    BY <1>0, <2>0, <2>1, <2>2, <2>3
<1>5. \A i \in 0 .. Len(q) - 1 : TimeSum(new, i) = g[i]
  <2>1. g[0] = 0 /\ Len(q) - 1 \in Nat
    BY <1>0, <1>1
  <2> HIDE DEF g
  <2>2. PICK n \in Nat : n = Len(q) - 1
    BY <2>1
  <2>3. AddsUp(g, new, n)
    BY <1>4, <2>1, <2>2 DEF AddsUp
  <2>4. \A i \in 0 .. n : TimeSum(new, i) = g[i]
    BY <2>3, TimeSumUnique
  <2>5. QED
    BY <2>2, <2>4
<1>6. ASSUME NEW i \in 1 .. k - 1 PROVE SameItem(new, i, q, i)
  <2>1. i \in 0 .. Len(q) - 1 /\ i < k
    BY <1>0
  <2>2. g[i] = T(i)
    BY <2>1
  <2> HIDE DEF g
  <2>3. QED
    BY <1>3, <1>5, <2>1, <2>2 DEF SameItem, T
<1>7. ASSUME NEW i \in k .. Len(q) - 1 PROVE SameItem(new, i, q, i + 1)
  <2>1. i \in 0 .. Len(q) - 1 /\ ~(i < k)
    BY <1>0
  <2>2. g[i] = T(i + 1)
    BY <2>1
  <2> HIDE DEF g
  <2>3. QED
    BY <1>3, <1>5, <2>1, <2>2 DEF SameItem, T
<1>8. QED
  BY <1>6, <1>7

(* What sq_remove_all_scheduled keeps, for a client that is in the queue. *)
LEMMA RemoveFacts ==
    ASSUME NEW q \in Seq(scheduler_queue_item), NEW c,
           \E i \in 1 .. Len(q) : q[i].client = c
    PROVE  LET new == sq_remove_all_scheduled(q, c) IN
           /\ new \in Seq(scheduler_queue_item)
           /\ Len(new) = Len(q) - 1
           /\ InOrder(q) => InOrder(new)
           /\ \A i \in 1 .. Len(new) : \E j \in 1 .. Len(q) : SameItem(new, i, q, j)
           /\ Once(q) => Once(new)
<1> DEFINE first(i) == q[i].client = c /\ \A j \in 1 .. i - 1 : q[j].client # c
           new == sq_remove_all_scheduled(q, c)
           has == {i \in 1 .. Len(q) : q[i].client = c}
<1>1. \E k \in 1 .. Len(q) : first(k)
  <2>1. has \in SUBSET Nat /\ has # {}
    OBVIOUS
  <2>2. PICK k \in has : \A j \in has : k <= j
    <3> HIDE DEF has
    <3>1. QED
      BY <2>1, LeastNumber
  <2>3. k \in 1 .. Len(q) /\ q[k].client = c
    OBVIOUS
  <2>4. ASSUME NEW j \in 1 .. k - 1 PROVE q[j].client # c
    <3>1. j \in 1 .. Len(q) /\ ~(k <= j)
      BY <2>3
    <3>2. j \notin has
      BY <2>2, <3>1
    <3>3. QED
      BY <3>1, <3>2
  <2>5. QED
    BY <2>3, <2>4
<1>2. PICK k \in 1 .. Len(q) : k = CHOOSE i \in 1 .. Len(q) : first(i)
  <2> HIDE DEF first
  <2>1. QED
    BY <1>1
<1>3. new = SubSeq(q, 1, k - 1) \o Shifted(q, k + 1, q[k].delta)
  BY <1>2 DEF sq_remove_all_scheduled
<1>4. q[k].delta \in Int
  BY ItemType
<1> HIDE DEF new, first
<1>5. CutOut(new, q, k, q[k].delta)
  BY <1>3, <1>4, CutFacts
<1>6. /\ \A i \in 1 .. k - 1 : SameItem(new, i, q, i)
      /\ \A i \in k .. Len(q) - 1 : SameItem(new, i, q, i + 1)
  BY <1>5, RemoveTimes
<1>7. /\ new \in Seq(scheduler_queue_item)
      /\ Len(new) = Len(q) - 1
  BY <1>5 DEF CutOut
<1>0. k \in Nat /\ Len(q) \in Nat /\ 1 <= k /\ k <= Len(q)
  OBVIOUS
<1>8. ASSUME NEW i \in 1 .. Len(q) - 1
      PROVE  \/ i \in 1 .. k - 1 /\ i \in 1 .. Len(q)
             \/ i \in k .. Len(q) - 1 /\ i + 1 \in 1 .. Len(q)
  BY <1>0
<1>9. ASSUME NEW i \in 1 .. Len(q) - 1
      PROVE  \E j \in 1 .. Len(q) : SameItem(new, i, q, j)
  BY <1>6, <1>8
<1>10. ASSUME Once(q) PROVE Once(new)
  <2>1. SUFFICES ASSUME NEW i \in 1 .. Len(q) - 1, NEW j \in 1 .. Len(q) - 1,
                        new[i].client = new[j].client
                 PROVE  i = j
    BY <1>7 DEF Once
  <2> DEFINE old(n) == IF n < k THEN n ELSE n + 1
  <2>2. ASSUME NEW n \in 1 .. Len(q) - 1
        PROVE  old(n) \in 1 .. Len(q) /\ new[n].client = q[old(n)].client
    <3>1. CASE n \in 1 .. k - 1 /\ n \in 1 .. Len(q)
      <4>1. old(n) = n
        BY <1>0, <3>1
      <4>2. QED
        BY <1>6, <3>1, <4>1 DEF SameItem
    <3>2. CASE n \in k .. Len(q) - 1 /\ n + 1 \in 1 .. Len(q)
      <4>1. old(n) = n + 1
        BY <1>0, <3>2
      <4>2. QED
        BY <1>6, <3>2, <4>1 DEF SameItem
    <3>3. QED
      BY <1>8, <3>1, <3>2
  <2>3. old(i) = old(j)
    BY <1>10, <2>1, <2>2 DEF Once
  <2>4. QED
    BY <1>0, <2>3
<1>11. ASSUME InOrder(q) PROVE InOrder(new)
  <2>1. SUFFICES ASSUME NEW i \in 2 .. Len(q) - 1 PROVE new[i].delta >= 0
    BY <1>7 DEF InOrder
  <2>2. \A j \in 2 .. Len(q) : q[j].delta >= 0
    BY <1>11 DEF InOrder
  <2>3. /\ \A j \in 1 .. k - 1 : new[j] = q[j]
        /\ \A j \in k .. Len(q) - 1 :
              new[j].delta = q[j + 1].delta + (IF j = k THEN q[k].delta ELSE 0)
    BY <1>5 DEF CutOut
  <2>4. CASE i < k
    <3>1. i \in 1 .. k - 1 /\ i \in 2 .. Len(q)
      BY <1>0, <2>4
    <3>2. QED
      BY <2>2, <2>3, <3>1
  <2>5. CASE ~(i < k)
    <3>1. i \in k .. Len(q) - 1 /\ i + 1 \in 2 .. Len(q) /\ i + 1 \in 1 .. Len(q)
          /\ (i = k => k \in 2 .. Len(q))
      BY <1>0, <2>5
    <3>2. q[i + 1].delta \in Int /\ q[i + 1].delta >= 0
      BY <2>2, <3>1, ItemType
    <3>3. i = k => q[k].delta >= 0
      BY <2>2, <3>1
    <3>4. new[i].delta = q[i + 1].delta + (IF i = k THEN q[k].delta ELSE 0)
      BY <2>3, <3>1
    <3>5. QED
      BY <1>4, <3>2, <3>3, <3>4
  <2>6. QED
    BY <2>4, <2>5
<1>12. QED
  BY <1>7, <1>9, <1>10, <1>11 DEF new

(* sq_remove takes the head off: everything behind it moves up by its time. *)
LEMMA TailFacts ==
    ASSUME NEW q \in Seq(scheduler_queue_item), q # << >>
    PROVE  /\ Tail(q) \in Seq(scheduler_queue_item)
           /\ Len(Tail(q)) = Len(q) - 1
           /\ Len(q) \in Nat \ {0}
           /\ InOrder(q) => InOrder(Tail(q))
           /\ Once(q) => Once(Tail(q))
           /\ \A i \in 1 .. Len(q) - 1 :
                 /\ Tail(q)[i].client = q[i + 1].client
                 /\ TimeSum(Tail(q), i) = TimeSum(q, i + 1) - q[1].delta
<1>1. /\ Tail(q) \in Seq(scheduler_queue_item)
      /\ Len(Tail(q)) = Len(q) - 1
      /\ \A i \in 1 .. Len(Tail(q)) : Tail(q)[i] = q[i + 1]
  BY HeadTailProperties
<1>2. Len(q) \in Nat \ {0}
  BY EmptySeq
<1> DEFINE u == Tail(q)
<1> HIDE DEF u
<1>3. u \in Seq(scheduler_queue_item) /\ Len(u) = Len(q) - 1
      /\ \A i \in 1 .. Len(q) - 1 : u[i] = q[i + 1]
  BY <1>1 DEF u
<1>4. InOrder(q) => InOrder(u)
  <2>1. SUFFICES ASSUME InOrder(q), NEW i \in 2 .. Len(q) - 1 PROVE u[i].delta >= 0
    BY <1>3 DEF InOrder
  <2>2. i \in 1 .. Len(q) - 1 /\ i + 1 \in 2 .. Len(q)
    BY <1>2
  <2>3. QED
    BY <1>3, <2>1, <2>2 DEF InOrder
<1>5. Once(q) => Once(u)
  <2>1. SUFFICES ASSUME Once(q), NEW i \in 1 .. Len(q) - 1, NEW j \in 1 .. Len(q) - 1,
                        u[i].client = u[j].client
                 PROVE  i = j
    BY <1>3 DEF Once
  <2>2. i + 1 \in 1 .. Len(q) /\ j + 1 \in 1 .. Len(q)
    BY <1>2
  <2>3. i + 1 = j + 1
    BY <1>3, <2>1, <2>2 DEF Once
  <2>4. QED
    BY <1>2, <2>3
<1>6. \A i \in 0 .. Len(q) - 1 : TimeSum(u, i) = TimeSum(q, i + 1) - q[1].delta
  <2> DEFINE T(i) == TimeSum(q, i)
             g == [i \in 0 .. Len(q) - 1 |-> T(i + 1) - q[1].delta]
  <2>1. /\ T(0) = 0
        /\ \A n \in 0 .. Len(q) : T(n) \in Int
        /\ \A n \in 1 .. Len(q) : T(n) = T(n - 1) + q[n].delta
    BY QueueTimes
  <2>2. \A n \in 1 .. Len(q) : q[n].delta \in Int
    BY ItemType
  <2> HIDE DEF T
  <2>3. g[0] = 0
    <3>1. 1 \in 1 .. Len(q) /\ 0 \in 0 .. Len(q) - 1
      BY <1>2
    <3>2. T(1) = 0 + q[1].delta /\ q[1].delta \in Int
      BY <2>1, <2>2, <3>1
    <3>3. QED
      BY <3>1, <3>2
  <2>4. ASSUME NEW i \in 1 .. Len(q) - 1 PROVE g[i] = g[i - 1] + u[i].delta
    <3>1. /\ i \in 0 .. Len(q) - 1 /\ i - 1 \in 0 .. Len(q) - 1 /\ (i - 1) + 1 = i
          /\ i + 1 \in 1 .. Len(q) /\ (i + 1) - 1 = i /\ 1 \in 1 .. Len(q) /\ i \in 0 .. Len(q)
      BY <1>2
    <3>2. g[i] = T(i + 1) - q[1].delta /\ g[i - 1] = T(i) - q[1].delta
      BY <3>1
    <3>3. T(i + 1) = T(i) + q[i + 1].delta /\ T(i) \in Int
      BY <2>1, <3>1
    <3>4. q[1].delta \in Int /\ q[i + 1].delta \in Int /\ u[i].delta = q[i + 1].delta
      BY <1>3, <2>2, <3>1
    <3> HIDE DEF g
    <3>5. QED
      BY <3>2, <3>3, <3>4
  <2>5. PICK n \in Nat : n = Len(q) - 1
    BY <1>2
  <2>6. AddsUp(g, u, n)
    <3> HIDE DEF g
    <3>1. QED
      BY <2>3, <2>4, <2>5 DEF AddsUp
  <2>7. \A i \in 0 .. n : TimeSum(u, i) = g[i]
    <3> HIDE DEF g
    <3>1. QED
      BY <2>6, TimeSumUnique
  <2>8. QED
    BY <2>5, <2>7 DEF T
<1>7. \A i \in 1 .. Len(q) - 1 : i \in 0 .. Len(q) - 1
  BY <1>2
<1>8. QED
  BY <1>1, <1>2, <1>3, <1>4, <1>5, <1>6, <1>7 DEF u

(* sq_update_time_unslept changes the head only, and moves the queue so    *)
(* that it is due after the time that is left.                             *)
LEMMA UnsleptFacts ==
    ASSUME NEW q \in Seq(scheduler_queue_item), NEW t \in Int
    PROVE  LET new == sq_update_time_unslept(q, t) IN
           /\ new \in Seq(scheduler_queue_item)
           /\ Len(new) = Len(q)
           /\ InOrder(q) => InOrder(new)
           /\ Once(q) => Once(new)
           /\ \A i \in 1 .. Len(q) : new[i].client = q[i].client
           /\ \A i \in 1 .. Len(q) :
                 t <= q[1].delta => TimeSum(new, i) = t + TimeSum(q, i) - q[1].delta
<1> DEFINE new == sq_update_time_unslept(q, t)
<1>1. CASE q = << >>
  <2>1. new = q /\ Len(q) = 0
    BY <1>1 DEF sq_update_time_unslept
  <2>2. QED
    BY <2>1
<1>2. CASE q # << >>
  <2>0. Len(q) \in Nat \ {0} /\ 1 \in 1 .. Len(q)
    BY <1>2, EmptySeq
  <2>1. \A n \in 1 .. Len(q) : q[n] \in scheduler_queue_item /\ q[n].delta \in Int
    BY ItemType
  <2>2. CASE q[1].delta < t
    <3>1. new = q
      BY <2>2 DEF sq_update_time_unslept
    <3>2. ~(t <= q[1].delta)
      BY <2>0, <2>1, <2>2
    <3>3. QED
      BY <3>1, <3>2
  <2>3. CASE ~(q[1].delta < t)
    <3> DEFINE x == [q[1] EXCEPT !.delta = t]
    <3>1. x \in scheduler_queue_item /\ x.client = q[1].client /\ x.delta = t
      BY <2>0, <2>1 DEF scheduler_queue_item
    <3>2. new = [q EXCEPT ![1] = x]
      BY <1>2, <2>3 DEF sq_update_time_unslept
    <3> HIDE DEF new, x
    <3>3. /\ new \in Seq(scheduler_queue_item) /\ Len(new) = Len(q)
          /\ \A j \in 1 .. Len(q) : new[j] = IF j = 1 THEN x ELSE q[j]
      BY <2>0, <3>1, <3>2, ExceptSeq
    <3>4. \A i \in 1 .. Len(q) : new[i].client = q[i].client
      BY <3>1, <3>3
    <3>5. InOrder(q) => InOrder(new)
      <4>1. \A i \in 2 .. Len(q) : i \in 1 .. Len(q) /\ i # 1
        BY <2>0
      <4>2. QED
        BY <3>3, <4>1 DEF InOrder
    <3>6. Once(q) => Once(new)
      BY <3>3, <3>4 DEF Once
    <3>7. \A i \in 1 .. Len(q) : TimeSum(new, i) = t + TimeSum(q, i) - q[1].delta
      <4> DEFINE T(i) == TimeSum(q, i)
                 g == [i \in 0 .. Len(q) |-> IF i = 0 THEN 0 ELSE t + T(i) - q[1].delta]
      <4>1. /\ T(0) = 0
            /\ \A n \in 0 .. Len(q) : T(n) \in Int
            /\ \A n \in 1 .. Len(q) : T(n) = T(n - 1) + q[n].delta
        BY QueueTimes
      <4> HIDE DEF T
      <4>2. g[0] = 0
        BY <2>0
      <4>3. ASSUME NEW i \in 1 .. Len(q) PROVE g[i] = g[i - 1] + new[i].delta
        <5>1. i \in 0 .. Len(q) /\ i - 1 \in 0 .. Len(q) /\ i # 0
          BY <2>0
        <5>2. /\ T(i) = T(i - 1) + q[i].delta /\ T(i - 1) \in Int
              /\ q[i].delta \in Int /\ q[1].delta \in Int
          BY <2>0, <2>1, <4>1, <5>1
        <5>3. g[i] = t + T(i) - q[1].delta
          BY <5>1
        <5>4. CASE i = 1
          <6>1. g[i - 1] = 0 /\ T(i - 1) = 0
            BY <4>1, <4>2, <5>4
          <6>2. new[i].delta = t
            BY <3>1, <3>3, <5>4
          <6> HIDE DEF g
          <6>3. QED
            BY <5>2, <5>3, <5>4, <6>1, <6>2
        <5>5. CASE i # 1
          <6>1. g[i - 1] = t + T(i - 1) - q[1].delta
            BY <5>1, <5>5
          <6>2. new[i].delta = q[i].delta
            BY <3>3, <5>5
          <6> HIDE DEF g
          <6>3. QED
            BY <5>2, <5>3, <6>1, <6>2
        <5>6. QED
          BY <5>4, <5>5
      <4>4. PICK n \in Nat : n = Len(q)
        BY <2>0
      <4>5. AddsUp(g, new, n)
        <5> HIDE DEF g
        <5>1. QED
          BY <4>2, <4>3, <4>4 DEF AddsUp
      <4>6. \A i \in 0 .. n : TimeSum(new, i) = g[i]
        <5> HIDE DEF g
        <5>1. QED
          BY <4>5, TimeSumUnique
      <4>7. \A i \in 1 .. Len(q) : i \in 0 .. n /\ i \in 0 .. Len(q) /\ i # 0
        BY <2>0, <4>4
      <4>8. QED
        BY <4>6, <4>7 DEF T
    <3>8. QED
      BY <3>3, <3>4, <3>5, <3>6, <3>7 DEF new
  <2>4. QED
    BY <2>2, <2>3
<1>3. QED
  BY <1>1, <1>2

-----------------------------------------------------------------------------
(* The queue over time *)

(* The inductive invariant behind QueueInOrder: that no client is in the   *)
(* queue twice needs that the one being served is not in it.               *)
SchedInv ==
    /\ TypeOK
    /\ items_count = Len(queue)
    /\ pc = "ended" => queue = << >>
    /\ InOrder(queue)
    /\ Once(queue)
    /\ pc # "serving" => serving = {}
    /\ \A i \in 1 .. Len(queue) : queue[i].client \notin serving

(* compute_random_sleep wraps around instead of going below zero. *)
LEMMA SleepTimesType ==
    SleepTimes \cup {NotServedTime} \subseteq Nat
<1>1. ASSUME NEW rd \in 0 .. 2 * sleep_var * TicksPerSecond - 1
      PROVE  compute_random_sleep(rd) \in Nat
  <2>1. /\ TicksPerSecond \in Nat /\ sleep_avg \in Nat /\ sleep_var \in Nat
        /\ TicksPerSecond > 0 /\ sleep_var > 0
    OBVIOUS
  <2>2. PICK m \in Nat \ {0} : m = 2 * sleep_var * TicksPerSecond
    <3>1. sleep_var * TicksPerSecond \in Nat /\ sleep_var * TicksPerSecond > 0
      BY <2>1
    <3>2. PICK p \in Nat \ {0} : p = sleep_var * TicksPerSecond
      BY <3>1
    <3>3. 2 * sleep_var * TicksPerSecond = 2 * p
      BY <2>1, <3>2
    <3>4. QED
      BY <3>3
  <2>3. rd % m \in Nat
    <3>1. rd \in Nat
      BY <2>2
    <3>2. QED
      BY <2>2, <3>1
  <2>4. PICK p \in Nat : p = TicksPerSecond * (sleep_avg + sleep_var)
    BY <2>1
  <2>5. PICK r \in Nat : r = rd % m
    BY <2>3
  <2>a. PICK a \in Int : a = p - r
    OBVIOUS
  <2>6. PICK w \in Nat \ {0} : w = 2 ^ Width
    BY WidthAssumption
  <2>7. a % w \in Nat
    OBVIOUS
  <2>8. compute_random_sleep(rd) = a % w
    BY <2>2, <2>4, <2>5, <2>a, <2>6 DEF compute_random_sleep
  <2>9. QED
    BY <2>7, <2>8
<1>2. NotServedTime \in Nat
  OBVIOUS
<1>3. QED
  BY <1>1, <1>2 DEF SleepTimes

(* A queue and its counter. *)
LEMMA QueueType ==
    ASSUME NEW q \in Seq(scheduler_queue_item), NEW n \in Nat
    PROVE  <<q, n>> \in scheduler_queue
BY DEF scheduler_queue

(* Typing of the parts of TypeOK. *)
LEMMA TypeParts ==
    /\ TypeOK => /\ queue \in Seq(scheduler_queue_item) /\ items_count \in Nat
                 /\ Len(queue) \in Nat /\ DOMAIN queue = 1 .. Len(queue)
    /\ TypeOK' => queue' \in Seq(scheduler_queue_item) /\ items_count' \in Nat
<1>1. ASSUME NEW q, NEW n, <<q, n>> \in scheduler_queue
      PROVE  q \in Seq(scheduler_queue_item) /\ n \in Nat
  BY <1>1 DEF scheduler_queue
<1>2. TypeOK => queue \in Seq(scheduler_queue_item) /\ items_count \in Nat
  BY <1>1 DEF TypeOK
<1>3. ASSUME queue \in Seq(scheduler_queue_item)
      PROVE  Len(queue) \in Nat /\ DOMAIN queue = 1 .. Len(queue)
  BY <1>3, LenProperties
<1>4. TypeOK' => queue' \in Seq(scheduler_queue_item) /\ items_count' \in Nat
  BY <1>1 DEF TypeOK
<1>5. QED
  BY <1>2, <1>3, <1>4

(* Insertion into a queue in order. *)
LEMMA InsertStep ==
    ASSUME NEW q \in Seq(scheduler_queue_item), InOrder(q), Once(q),
           NEW c \in Client, \A i \in 1 .. Len(q) : q[i].client # c,
           NEW t \in Nat, items_count = Len(q), rem \in [Client -> Nat],
           Insert(q, c, t)
    PROVE  /\ queue' \in Seq(scheduler_queue_item) /\ InOrder(queue') /\ Once(queue')
           /\ items_count' = Len(queue') /\ items_count' \in Nat
           /\ rem' \in [Client -> Nat]
<1>1. /\ queue' = sq_insert(q, c, t)
      /\ items_count' = items_count + 1
      /\ rem' = [rem EXCEPT ![c] = t]
  BY DEF Insert
<1>2. t \in Int /\ Len(q) \in Nat
  OBVIOUS
<1>3. /\ queue' \in Seq(scheduler_queue_item)
      /\ Len(queue') = Len(q) + 1
      /\ InOrder(q) => InOrder(queue')
      /\ Once(q) /\ (\A i \in 1 .. Len(q) : q[i].client # c) => Once(queue')
  BY <1>1, <1>2, InsertFacts
<1>4. QED
  BY <1>1, <1>2, <1>3

(* The time the thread sleeps is a number. *)
LEMMA TransformType ==
    ASSUME TypeOK, NEW t \in Int
    PROVE  transform_time_to_sleep(t) \in Int
<1>1. TicksPerSecond \in Nat \ {0} /\ frac \in Int
  BY DEF TypeOK
<1>2. t \div TicksPerSecond \in Int /\ t % TicksPerSecond \in Int
  BY <1>1
<1>3. PICK a \in Int, b \in Int : a = t \div TicksPerSecond /\ b = t % TicksPerSecond
  BY <1>2
<1>4. a * TicksPerSecond \in Int /\ (frac + b) % TicksPerSecond \in Int
  BY <1>1
<1>5. QED
  BY <1>1, <1>3, <1>4 DEF transform_time_to_sleep

(* Ticks and the beginning of a wait leave the queue alone. *)
LEMMA SchedTickSleep ==
    ASSUME SchedInv, Tick \/ Sleep
    PROVE  SchedInv'
<1>0. TypeOK /\ queue' = queue /\ items_count' = items_count /\ serving' = serving
  BY DEF SchedInv, Tick, Sleep
<1>1. TypeOK'
  <2>1. CASE Tick
    <3>1. frac' \in 0 .. TicksPerSecond - 1
      <4>1. frac + 1 \in Nat /\ frac' = (frac + 1) % TicksPerSecond
        BY <1>0, <2>1 DEF TypeOK, Tick
      <4>2. QED
        BY <4>1
    <3>2. rem' \in [Client -> Nat]
      <4>1. \A c \in Client : (IF rem[c] > 0 THEN rem[c] - 1 ELSE 0) \in Nat
        BY <1>0 DEF TypeOK
      <4>2. QED
        BY <2>1, <4>1 DEF Tick
    <3>3. left' \in Int
      BY <1>0, <2>1 DEF Tick, TypeOK
    <3>4. late' \in BOOLEAN /\ pc' = pc
      BY <1>0, <2>1 DEF Tick, TypeOK
    <3>5. QED
      BY <1>0, <3>1, <3>2, <3>3, <3>4 DEF TypeOK
  <2>2. CASE Sleep
    <3>1. sq_get_time_to_sleep(queue) \in Int
      <4>1. queue # << >> => queue[1].delta \in Int
        <5>1. queue # << >> => 1 \in 1 .. Len(queue)
          BY <1>0, TypeParts, EmptySeq
        <5>2. QED
          BY <1>0, <5>1, TypeParts, ItemType
      <4>2. QED
        BY <4>1 DEF sq_get_time_to_sleep
    <3>2. left' \in Int
      BY <1>0, <2>2, <3>1, TransformType DEF Sleep
    <3>3. pc' = "asleep" /\ late' \in BOOLEAN /\ frac' = frac /\ rem' = rem
      BY <1>0, <2>2 DEF Sleep, TypeOK
    <3>4. QED
      BY <1>0, <3>2, <3>3 DEF TypeOK
  <2>3. QED
    BY <2>1, <2>2
<1>2. /\ pc' = "ended" => queue' = << >>
      /\ pc' # "serving" => serving' = {}
  BY <1>0 DEF SchedInv, Tick, Sleep
<1>3. QED
  BY <1>0, <1>1, <1>2 DEF SchedInv

(* At its deadline the thread takes the head of the queue, if there is one. *)
LEMMA SchedTimedOut ==
    ASSUME SchedInv, TimedOut
    PROVE  SchedInv'
<1>0. /\ TypeOK /\ queue \in Seq(scheduler_queue_item) /\ items_count = Len(queue)
      /\ Len(queue) \in Nat /\ InOrder(queue) /\ Once(queue) /\ serving = {}
  BY TypeParts DEF SchedInv, TimedOut
<1>1. CASE queue = << >>
  <2>1. /\ pc' = "awake" /\ queue' = queue /\ items_count' = items_count
        /\ serving' = serving /\ late' = late /\ frac' = frac /\ rem' = rem /\ left' = 0
    BY <1>1 DEF TimedOut
  <2>2. TypeOK'
    BY <1>0, <2>1 DEF TypeOK
  <2>3. QED
    BY <1>0, <2>1, <2>2 DEF SchedInv
<1>2. CASE queue # << >>
  <2>1. /\ serving' = {queue[1].client} /\ queue' = Tail(queue)
        /\ items_count' = items_count - 1 /\ pc' = "serving" /\ late' \in BOOLEAN
        /\ left' = 0 /\ frac' = frac /\ rem' = rem
    <3>1. late \in BOOLEAN
      BY <1>0 DEF TypeOK
    <3>2. QED
      BY <1>2, <3>1 DEF TimedOut
  <2>2. /\ queue' \in Seq(scheduler_queue_item) /\ Len(queue') = Len(queue) - 1
        /\ Len(queue) \in Nat \ {0} /\ InOrder(queue') /\ Once(queue')
        /\ \A i \in 1 .. Len(queue) - 1 : queue'[i].client = queue[i + 1].client
    BY <1>0, <1>2, <2>1, TailFacts
  <2>3. 1 \in 1 .. Len(queue) /\ queue[1].client \in Client
    BY <1>0, <2>2, ItemType
  <2>4. items_count' = Len(queue') /\ items_count' \in Nat
    BY <1>0, <2>1, <2>2
  <2>5. <<queue', items_count'>> \in scheduler_queue
    BY <2>2, <2>4 DEF scheduler_queue
  <2>6. TypeOK'
    <3>1. serving' \subseteq Client
      BY <2>1, <2>3
    <3>2. /\ left' \in Int /\ frac' \in 0 .. TicksPerSecond - 1 /\ rem' \in [Client -> Nat]
      BY <1>0, <2>1 DEF TypeOK
    <3>3. QED
      BY <2>1, <2>5, <3>1, <3>2 DEF TypeOK
  <2>7. ASSUME NEW i \in 1 .. Len(queue') PROVE queue'[i].client \notin serving'
    <3>1. i \in 1 .. Len(queue) - 1 /\ i + 1 \in 1 .. Len(queue) /\ i + 1 # 1
      BY <2>2
    <3>2. queue[i + 1].client # queue[1].client
      BY <1>0, <2>3, <3>1 DEF Once
    <3>3. QED
      BY <2>1, <2>2, <3>1, <3>2
  <2>8. QED
    BY <2>1, <2>2, <2>4, <2>6, <2>7 DEF SchedInv
<1>3. QED
  BY <1>1, <1>2

(* A client that was served goes back into the queue. *)
LEMMA SchedServed ==
    ASSUME SchedInv, Served
    PROVE  SchedInv'
<1>0. /\ TypeOK /\ queue \in Seq(scheduler_queue_item) /\ items_count = Len(queue)
      /\ InOrder(queue) /\ Once(queue) /\ serving \subseteq Client
      /\ \A i \in 1 .. Len(queue) : queue[i].client \notin serving
      /\ rem \in [Client -> Nat]
  BY TypeParts DEF SchedInv, TypeOK
<1>1. PICK c \in serving, t \in SleepTimes \cup {NotServedTime} : Insert(queue, c, t)
  BY DEF Served
<1>2. c \in Client /\ t \in Nat /\ \A i \in 1 .. Len(queue) : queue[i].client # c
  BY <1>0, <1>1, SleepTimesType
<1>3. /\ queue' \in Seq(scheduler_queue_item) /\ InOrder(queue') /\ Once(queue')
      /\ items_count' = Len(queue') /\ items_count' \in Nat
      /\ rem' \in [Client -> Nat]
  BY <1>0, <1>1, <1>2, InsertStep
<1>4. pc' = "awake" /\ serving' = {} /\ left' = left /\ frac' = frac /\ late' = late
  BY DEF Served
<1>5. TypeOK'
  <2>1. <<queue', items_count'>> \in scheduler_queue
    BY <1>3 DEF scheduler_queue
  <2>2. QED
    BY <1>0, <1>3, <1>4, <2>1 DEF TypeOK
<1>6. QED
  BY <1>3, <1>4, <1>5 DEF SchedInv

(* What a thread that is interrupted finds after it has put back the time  *)
(* it did not sleep.                                                       *)
LEMMA Woken ==
    ASSUME SchedInv, Interrupted
    PROVE  LET q == sq_update_time_unslept(queue, left) IN
           /\ q \in Seq(scheduler_queue_item) /\ Len(q) = Len(queue) /\ Len(q) \in Nat
           /\ InOrder(q) /\ Once(q) /\ serving = {}
           /\ \A i \in 1 .. Len(q) : q[i].client = queue[i].client
           /\ Scheduled = {q[i].client : i \in 1 .. Len(q)}
<1> DEFINE q == sq_update_time_unslept(queue, left)
<1>0. /\ TypeOK /\ queue \in Seq(scheduler_queue_item) /\ left \in Int /\ serving = {}
      /\ InOrder(queue) /\ Once(queue)
      /\ Len(queue) \in Nat /\ DOMAIN queue = 1 .. Len(queue)
  BY TypeParts DEF SchedInv, TypeOK, Interrupted
<1>1. /\ q \in Seq(scheduler_queue_item) /\ Len(q) = Len(queue)
      /\ InOrder(q) /\ Once(q)
      /\ \A i \in 1 .. Len(queue) : q[i].client = queue[i].client
  BY <1>0, UnsleptFacts
<1> HIDE DEF q
<1>2. Scheduled = {q[i].client : i \in 1 .. Len(q)}
  BY <1>0, <1>1 DEF Scheduled
<1>3. QED
  BY <1>0, <1>1, <1>2 DEF q

(* A new client goes into the queue. *)
LEMMA SchedClientUp ==
    ASSUME SchedInv, NEW c \in Client, ClientUp(c)
    PROVE  SchedInv'
<1> DEFINE q == sq_update_time_unslept(queue, left)
<1>1. /\ q \in Seq(scheduler_queue_item) /\ Len(q) = Len(queue)
      /\ InOrder(q) /\ Once(q) /\ serving = {}
      /\ Scheduled = {q[i].client : i \in 1 .. Len(q)}
  BY Woken DEF ClientUp
<1>2. PICK t \in SleepTimes : Insert(q, c, t)
  BY DEF ClientUp
<1> HIDE DEF q
<1>3. /\ t \in Nat /\ \A i \in 1 .. Len(q) : q[i].client # c
      /\ items_count = Len(q) /\ rem \in [Client -> Nat]
  <2>1. c \notin Scheduled
    BY DEF ClientUp
  <2>2. items_count = Len(queue) /\ rem \in [Client -> Nat]
    BY DEF SchedInv, TypeOK
  <2>3. QED
    BY <1>1, <2>1, <2>2, SleepTimesType
<1>4. /\ queue' \in Seq(scheduler_queue_item) /\ InOrder(queue') /\ Once(queue')
      /\ items_count' = Len(queue') /\ items_count' \in Nat
      /\ rem' \in [Client -> Nat]
  BY <1>1, <1>2, <1>3, InsertStep
<1>5. pc' = "awake" /\ left' = 0 /\ serving' = {} /\ frac' = frac /\ late' = late
  BY <1>1 DEF ClientUp
<1>6. TypeOK'
  <2>1. <<queue', items_count'>> \in scheduler_queue
    BY <1>4 DEF scheduler_queue
  <2>2. QED
    BY <1>4, <1>5, <2>1 DEF SchedInv, TypeOK
<1>7. QED
  BY <1>4, <1>5, <1>6 DEF SchedInv

(* The item of a client that is gone is taken out. *)
LEMMA SchedClientDown ==
    ASSUME SchedInv, NEW c \in Client, ClientDown(c)
    PROVE  SchedInv'
<1> DEFINE q == sq_update_time_unslept(queue, left)
<1>1. /\ q \in Seq(scheduler_queue_item) /\ Len(q) = Len(queue) /\ Len(q) \in Nat
      /\ InOrder(q) /\ Once(q) /\ serving = {}
      /\ Scheduled = {q[i].client : i \in 1 .. Len(q)}
  BY Woken DEF ClientDown
<1>2. queue' = sq_remove_all_scheduled(q, c)
  BY DEF ClientDown
<1> HIDE DEF q
<1>3. \E i \in 1 .. Len(q) : q[i].client = c
  BY <1>1 DEF ClientDown
<1>4. /\ queue' \in Seq(scheduler_queue_item) /\ Len(queue') = Len(q) - 1
      /\ InOrder(queue') /\ Once(queue')
  BY <1>1, <1>2, <1>3, RemoveFacts
<1>5. items_count' = Len(queue') /\ items_count' \in Nat
  <2>1. items_count = Len(q) /\ items_count' = items_count - 1
    BY <1>1 DEF SchedInv, ClientDown
  <2>2. Len(queue') \in Nat
    BY <1>4
  <2>3. QED
    BY <1>4, <2>1, <2>2
<1>6. /\ pc' = "awake" /\ left' = 0 /\ serving' = {} /\ frac' = frac /\ late' = late
      /\ rem' = [rem EXCEPT ![c] = 0]
  BY <1>1 DEF ClientDown
<1>7. TypeOK'
  <2>1. <<queue', items_count'>> \in scheduler_queue
    BY <1>4, <1>5 DEF scheduler_queue
  <2>2. QED
    BY <1>6, <2>1 DEF SchedInv, TypeOK
<1>8. QED
  BY <1>4, <1>5, <1>6, <1>7 DEF SchedInv

(* The counter is right, so that sq_destroy frees every item. *)
LEMMA SchedDie ==
    ASSUME SchedInv, Die
    PROVE  SchedInv' /\ queue' = << >>
<1> DEFINE q == sq_update_time_unslept(queue, left)
<1>1. /\ q \in Seq(scheduler_queue_item) /\ Len(q) = Len(queue) /\ Len(q) \in Nat
      /\ serving = {}
  BY Woken DEF Die
<1>2. queue' = SubSeq(q, items_count + 1, Len(q))
  BY DEF Die, sq_destroy
<1> HIDE DEF q
<1>3. items_count = Len(q)
  BY <1>1 DEF SchedInv
<1>4. queue' = << >>
  <2>1. items_count + 1 \in Int /\ Len(q) \in Int /\ Len(q) < items_count + 1
    BY <1>1, <1>3
  <2>2. QED
    BY <1>2, <2>1, SubSeqEmpty
<1>5. /\ items_count' = 0 /\ pc' = "ended" /\ left' = 0 /\ serving' = {}
      /\ frac' = frac /\ late' = late /\ rem' = [x \in Client |-> 0]
  BY <1>1 DEF Die
<1>6. Len(queue') = 0 /\ queue' \in Seq(scheduler_queue_item)
  BY <1>4, EmptySeq
<1>7. TypeOK'
  <2>0. items_count' \in Nat
    BY <1>5
  <2>1. <<queue', items_count'>> \in scheduler_queue
    BY <1>6, <2>0, QueueType
  <2>2. QED
    BY <1>5, <2>1 DEF SchedInv, TypeOK
<1>8. InOrder(queue') /\ Once(queue')
  BY <1>6 DEF InOrder, Once
<1>9. QED
  BY <1>4, <1>5, <1>6, <1>7, <1>8 DEF SchedInv

(* The queue stays in order, its counter right, and each client in it once. *)
THEOREM SchedInvHolds == Spec => []SchedInv
<1>1. Init => SchedInv
  <2> SUFFICES ASSUME Init PROVE SchedInv
    OBVIOUS
  <2>1. queue = << >> /\ Len(queue) = 0 /\ queue \in Seq(scheduler_queue_item)
    BY EmptySeq DEF Init, sq_create
  <2>2. TypeOK
    <3>1. items_count \in Nat /\ frac \in 0 .. TicksPerSecond - 1 /\ left \in Int
      BY DEF Init
    <3>2. <<queue, items_count>> \in scheduler_queue
      BY <2>1, <3>1, QueueType
    <3>3. /\ pc \in {"awake", "asleep", "serving", "ended"} /\ serving \subseteq Client
          /\ rem \in [Client -> Nat] /\ late \in BOOLEAN
      BY DEF Init
    <3>4. QED
      BY <3>1, <3>2, <3>3 DEF TypeOK
  <2>3. InOrder(queue) /\ Once(queue)
    BY <2>1 DEF InOrder, Once
  <2>4. QED
    BY <2>1, <2>2, <2>3 DEF SchedInv, Init
<1>2. SchedInv /\ [Next]_vars => SchedInv'
  <2> SUFFICES ASSUME SchedInv, [Next]_vars PROVE SchedInv'
    OBVIOUS
  <2>1. CASE UNCHANGED vars
    BY <2>1 DEF vars, SchedInv, TypeOK
  <2>2. CASE Next
    BY <2>2, SchedTickSleep, SchedTimedOut, SchedServed, SchedClientUp,
       SchedClientDown, SchedDie DEF Next
  <2>3. QED
    BY <2>1, <2>2
<1>3. QED
  BY <1>1, <1>2, PTL DEF Spec

(* Type correctness of the scheduler: the counter of items never goes      *)
(* below zero and a time in the queue is always a number.                  *)
THEOREM SchedulerTypeCorrect == Spec => []TypeOK
<1>1. SchedInv => TypeOK
  BY DEF SchedInv
<1>2. QED
  BY <1>1, SchedInvHolds, PTL

(* Items behind the head never come before it, the counter is the number   *)
(* of items and a client is in the queue at most once, after any sequence  *)
(* of insertions, removals, late and early wake-ups.                       *)
THEOREM QueueInOrderHolds == Spec => []QueueInOrder
<1>1. SchedInv => QueueInOrder
  <2> SUFFICES ASSUME SchedInv PROVE Cardinality(Scheduled) = Len(queue)
    BY DEF SchedInv, QueueInOrder, InOrder, sq_count
  <2>1. Len(queue) \in Nat /\ DOMAIN queue = 1 .. Len(queue) /\ Once(queue)
    BY TypeParts DEF SchedInv
  <2> DEFINE f == [i \in 1 .. Len(queue) |-> queue[i].client]
  <2>2. f \in Bijection(1 .. Len(queue), Scheduled)
    <3>1. Scheduled = {queue[i].client : i \in 1 .. Len(queue)}
      BY <2>1 DEF Scheduled
    <3>2. f \in [1 .. Len(queue) -> Scheduled]
      BY <3>1
    <3>3. \A a, b \in 1 .. Len(queue) : f[a] = f[b] => a = b
      BY <2>1 DEF Once
    <3>4. \A s \in Scheduled : \E a \in 1 .. Len(queue) : f[a] = s
      BY <3>1
    <3> HIDE DEF f
    <3>5. QED
      BY <3>2, <3>3, <3>4, Fun_IsBij
  <2>3. IsFiniteSet(1 .. Len(queue)) /\ Cardinality(1 .. Len(queue)) = Len(queue)
    <3>1. 1 \in Int /\ Len(queue) \in Int
      BY <2>1
    <3>2. /\ IsFiniteSet(1 .. Len(queue))
          /\ Cardinality(1 .. Len(queue)) = IF 1 > Len(queue) THEN 0 ELSE Len(queue) - 1 + 1
      BY <3>1, FS_Interval
    <3>3. QED
      BY <2>1, <3>2
  <2> HIDE DEF f
  <2>4. ExistsBijection(1 .. Len(queue), Scheduled)
    BY <2>2 DEF ExistsBijection
  <2>5. Cardinality(Scheduled) = Cardinality(1 .. Len(queue))
    BY <2>3, <2>4, FS_Bijection
  <2>6. QED
    BY <2>3, <2>5
<1>2. QED
  BY <1>1, SchedInvHolds, PTL

-----------------------------------------------------------------------------
(* Times are kept *)

(* In queue q every client that is still to be served in time is due       *)
(* exactly when r says.                                                    *)
Exact(q, r) ==
    \A i \in 1 .. Len(q) : r[q[i].client] > 0 => TimeSum(q, i) = r[q[i].client]

(* Beyond ExactWhenPunctual: a thread on time sleeps no longer than to the *)
(* head.  sq_update_time_unslept ignores a time left that is longer, so    *)
(* without this an interruption would move the queue.                      *)
PunctualInv ==
    /\ ExactWhenPunctual
    /\ ~late /\ pc = "asleep" /\ queue # << >> => left <= queue[1].delta

(* While the thread is not in its wait, the plan is the queue. *)
LEMMA AwakePlan ==
    ASSUME SchedInv, pc # "asleep", ~late
    PROVE  ExactWhenPunctual <=> Exact(queue, rem)
<1>1. DOMAIN queue = 1 .. Len(queue)
  BY TypeParts DEF SchedInv
<1>2. QED
  BY <1>1 DEF ExactWhenPunctual, Exact, Plan

(* The same in the next state. *)
LEMMA AwakePlanNext ==
    ASSUME SchedInv', pc' # "asleep", Exact(queue', rem')
    PROVE  PunctualInv'
<1>1. queue' \in Seq(scheduler_queue_item)
  BY TypeParts DEF SchedInv
<1>2. DOMAIN queue' = 1 .. Len(queue')
  BY <1>1, LenProperties
<1>3. QED
  BY <1>2 DEF PunctualInv, ExactWhenPunctual, Exact, Plan

(* Putting back the time that was not slept makes the plan the queue. *)
LEMMA WokenExact ==
    ASSUME SchedInv, Interrupted, PunctualInv, ~late
    PROVE  Exact(sq_update_time_unslept(queue, left), rem)
<1> DEFINE q == sq_update_time_unslept(queue, left)
<1>0. /\ queue \in Seq(scheduler_queue_item) /\ Len(queue) \in Nat
      /\ DOMAIN queue = 1 .. Len(queue) /\ left \in Int /\ pc = "asleep"
  BY TypeParts DEF SchedInv, TypeOK, Interrupted
<1>1. /\ Len(q) = Len(queue)
      /\ \A i \in 1 .. Len(queue) : q[i].client = queue[i].client
      /\ \A i \in 1 .. Len(queue) :
            left <= queue[1].delta => TimeSum(q, i) = left + TimeSum(queue, i) - queue[1].delta
  BY <1>0, UnsleptFacts
<1> HIDE DEF q
<1>2. SUFFICES ASSUME NEW i \in 1 .. Len(queue), rem[queue[i].client] > 0
               PROVE  TimeSum(q, i) = rem[queue[i].client]
  BY <1>1 DEF Exact, q
<1>3. queue # << >>
  BY <1>0, <1>2
<1>4. left <= queue[1].delta
  BY <1>0, <1>3 DEF PunctualInv
<1>5. Plan(i) = rem[queue[i].client]
  BY <1>0, <1>2 DEF PunctualInv, ExactWhenPunctual
<1>6. QED
  BY <1>0, <1>1, <1>4, <1>5 DEF Plan

(* Insertion leaves the times of all others alone. *)
LEMMA InsertExact ==
    ASSUME NEW q \in Seq(scheduler_queue_item), Exact(q, rem),
           NEW c \in Client, \A i \in 1 .. Len(q) : q[i].client # c,
           NEW t \in Nat, rem \in [Client -> Nat], Insert(q, c, t)
    PROVE  Exact(queue', rem')
<1>1. queue' = sq_insert(q, c, t) /\ rem' = [rem EXCEPT ![c] = t]
  BY DEF Insert
<1>2. t \in Int
  OBVIOUS
<1>3. \A i \in 1 .. Len(queue') :
         \/ queue'[i].client = c /\ TimeSum(queue', i) = t
         \/ \E j \in 1 .. Len(q) : SameItem(queue', i, q, j)
  BY <1>1, <1>2, InsertFacts
<1>4. SUFFICES ASSUME NEW i \in 1 .. Len(queue'), rem'[queue'[i].client] > 0
               PROVE  TimeSum(queue', i) = rem'[queue'[i].client]
  BY DEF Exact
<1>5. CASE queue'[i].client = c /\ TimeSum(queue', i) = t
  BY <1>1, <1>5
<1>6. ASSUME NEW j \in 1 .. Len(q), SameItem(queue', i, q, j)
      PROVE  TimeSum(queue', i) = rem'[queue'[i].client]
  <2>1. queue'[i].client = q[j].client /\ TimeSum(queue', i) = TimeSum(q, j)
    BY <1>6 DEF SameItem
  <2>2. q[j].client \in Client /\ q[j].client # c
    BY ItemType
  <2>3. rem'[q[j].client] = rem[q[j].client]
    BY <1>1, <2>2
  <2>4. QED
    BY <1>4, <2>1, <2>3 DEF Exact
<1>7. QED
  BY <1>3, <1>5, <1>6

(* Every step but those that start and end a wait. *)
LEMMA PunctualAwake ==
    ASSUME SchedInv, SchedInv', PunctualInv, ~late',
           Served \/ Die \/ \E c \in Client : ClientUp(c) \/ ClientDown(c)
    PROVE  PunctualInv'
<1>0. /\ ~late /\ rem \in [Client -> Nat]
      /\ pc' # "asleep"
  BY DEF Served, Die, ClientUp, ClientDown, SchedInv, TypeOK
<1>1. CASE Served
  <2>1. pc = "serving"
    BY <1>1 DEF Served
  <2>2. /\ queue \in Seq(scheduler_queue_item) /\ serving \subseteq Client
        /\ \A i \in 1 .. Len(queue) : queue[i].client \notin serving
    BY TypeParts DEF SchedInv, TypeOK
  <2>3. Exact(queue, rem)
    BY <1>0, <2>1, AwakePlan DEF PunctualInv
  <2>4. PICK c \in serving, t \in SleepTimes \cup {NotServedTime} : Insert(queue, c, t)
    BY <1>1 DEF Served
  <2>5. c \in Client /\ t \in Nat /\ \A i \in 1 .. Len(queue) : queue[i].client # c
    BY <2>2, <2>4, SleepTimesType
  <2>6. Exact(queue', rem')
    BY <1>0, <2>2, <2>3, <2>4, <2>5, InsertExact
  <2>7. QED
    BY <1>0, <2>6, AwakePlanNext
<1>2. ASSUME NEW c \in Client, ClientUp(c) PROVE PunctualInv'
  <2> DEFINE q == sq_update_time_unslept(queue, left)
  <2>1. Interrupted
    BY <1>2 DEF ClientUp
  <2>2. /\ q \in Seq(scheduler_queue_item)
        /\ Scheduled = {q[i].client : i \in 1 .. Len(q)}
    BY <2>1, Woken
  <2>3. Exact(q, rem)
    BY <1>0, <2>1, WokenExact
  <2>4. PICK t \in SleepTimes : Insert(q, c, t)
    BY <1>2 DEF ClientUp
  <2> HIDE DEF q
  <2>5. t \in Nat /\ \A i \in 1 .. Len(q) : q[i].client # c
    BY <1>2, <2>2, SleepTimesType DEF ClientUp
  <2>6. Exact(queue', rem')
    BY <1>0, <2>2, <2>3, <2>4, <2>5, InsertExact
  <2>7. QED
    BY <1>0, <2>6, AwakePlanNext
<1>3. ASSUME NEW c \in Client, ClientDown(c) PROVE PunctualInv'
  <2> DEFINE q == sq_update_time_unslept(queue, left)
  <2>1. Interrupted
    BY <1>3 DEF ClientDown
  <2>2. /\ q \in Seq(scheduler_queue_item)
        /\ Scheduled = {q[i].client : i \in 1 .. Len(q)}
    BY <2>1, Woken
  <2>3. Exact(q, rem)
    BY <1>0, <2>1, WokenExact
  <2>4. queue' = sq_remove_all_scheduled(q, c) /\ rem' = [rem EXCEPT ![c] = 0]
    BY <1>3 DEF ClientDown
  <2> HIDE DEF q
  <2>5. \E i \in 1 .. Len(q) : q[i].client = c
    BY <1>3, <2>2 DEF ClientDown
  <2>6. \A i \in 1 .. Len(queue') : \E j \in 1 .. Len(q) : SameItem(queue', i, q, j)
    BY <2>2, <2>4, <2>5, RemoveFacts
  <2>7. Exact(queue', rem')
    <3>1. SUFFICES ASSUME NEW i \in 1 .. Len(queue'), rem'[queue'[i].client] > 0
                   PROVE  TimeSum(queue', i) = rem'[queue'[i].client]
      BY DEF Exact
    <3>2. PICK j \in 1 .. Len(q) : SameItem(queue', i, q, j)
      BY <2>6
    <3>3. queue'[i].client = q[j].client /\ TimeSum(queue', i) = TimeSum(q, j)
      BY <3>2 DEF SameItem
    <3>4. q[j].client \in Client
      BY <2>2, ItemType
    <3>5. q[j].client # c
      <4>1. SUFFICES ASSUME q[j].client = c PROVE FALSE
        OBVIOUS
      <4>2. rem'[c] = 0
        BY <1>0, <1>3, <2>4
      <4>3. QED
        BY <3>1, <3>3, <4>1, <4>2
    <3>6. rem'[q[j].client] = rem[q[j].client]
      BY <1>0, <2>4, <3>4, <3>5
    <3>7. QED
      BY <2>3, <3>1, <3>3, <3>6 DEF Exact
  <2>8. QED
    BY <1>0, <2>7, AwakePlanNext
<1>4. CASE Die
  <2>1. queue' = << >>
    BY <1>4, SchedDie
  <2>2. Len(queue') = 0
    BY <2>1, EmptySeq
  <2>3. Exact(queue', rem')
    BY <2>2 DEF Exact
  <2>4. QED
    BY <1>0, <2>3, AwakePlanNext
<1>5. QED
  BY <1>1, <1>2, <1>3, <1>4

(* The clock and the wait itself. *)
LEMMA PunctualAsleep ==
    ASSUME SchedInv, SchedInv', PunctualInv, ~late', Tick \/ Sleep \/ TimedOut
    PROVE  PunctualInv'
<1>0. /\ queue \in Seq(scheduler_queue_item) /\ Len(queue) \in Nat
      /\ DOMAIN queue = 1 .. Len(queue) /\ left \in Int /\ rem \in [Client -> Nat]
  BY TypeParts DEF SchedInv, TypeOK
<1>1. ~late
  BY DEF Tick, Sleep, TimedOut, SchedInv, TypeOK
<1>2. ASSUME NEW i \in 1 .. Len(queue)
      PROVE  /\ queue[i].client \in Client /\ TimeSum(queue, i) \in Int
             /\ queue # << >> /\ 1 \in 1 .. Len(queue) /\ queue[1].delta \in Int
  <2>1. 1 \in 1 .. Len(queue) /\ i \in 0 .. Len(queue) /\ queue # << >>
    BY <1>0
  <2>2. QED
    BY <1>0, <2>1, ItemType, QueueTimes
<1>3. CASE Tick
  <2>1. /\ queue' = queue /\ pc' = pc /\ (pc = "asleep" => left' = left - 1)
        /\ rem' = [c \in Client |-> IF rem[c] > 0 THEN rem[c] - 1 ELSE 0]
        /\ pc # "asleep" => queue = << >>
    BY <1>3 DEF Tick
  <2>2. CASE pc # "asleep"
    <3>1. Len(queue') = 0
      BY <2>1, <2>2, EmptySeq
    <3>2. Exact(queue', rem')
      BY <3>1 DEF Exact
    <3>3. QED
      BY <2>1, <2>2, <3>2, AwakePlanNext
  <2>3. CASE pc = "asleep"
    <3>1. ASSUME NEW i \in 1 .. Len(queue), rem'[queue[i].client] > 0
          PROVE  left - 1 + TimeSum(queue, i) - queue[1].delta = rem'[queue[i].client]
      <4> DEFINE c == queue[i].client
      <4>1. c \in Client /\ rem[c] \in Nat
        BY <1>0, <1>2
      <4>2. rem[c] > 0 /\ rem'[c] = rem[c] - 1
        <5>1. rem'[c] = IF rem[c] > 0 THEN rem[c] - 1 ELSE 0
          BY <2>1, <4>1
        <5>2. QED
          BY <3>1, <5>1
      <4>3. left + TimeSum(queue, i) - queue[1].delta = rem[c]
        BY <1>0, <1>1, <2>3, <4>2 DEF PunctualInv, ExactWhenPunctual, Plan
      <4> HIDE DEF c
      <4>4. left - 1 + TimeSum(queue, i) - queue[1].delta = rem[c] - 1
        BY <1>0, <1>2, <4>1, <4>3
      <4>5. QED
        BY <4>2, <4>4 DEF c
    <3>2. ExactWhenPunctual'
      BY <1>0, <2>1, <2>3, <3>1 DEF ExactWhenPunctual, Plan
    <3>3. queue # << >> => left' <= queue[1].delta
      <4>1. ASSUME queue # << >> PROVE left' <= queue[1].delta
        <5>1. 1 \in 1 .. Len(queue)
          BY <1>0, <4>1, EmptySeq
        <5>2. queue[1].delta \in Int /\ left <= queue[1].delta
          BY <1>1, <1>2, <2>3, <4>1, <5>1 DEF PunctualInv
        <5>3. QED
          BY <1>0, <2>1, <2>3, <5>2
      <4>2. QED
        BY <4>1
    <3>4. QED
      BY <2>1, <3>2, <3>3 DEF PunctualInv
  <2>4. QED
    BY <2>2, <2>3
<1>4. CASE Sleep
  <2>1. /\ queue' = queue /\ rem' = rem /\ pc = "awake" /\ pc' = "asleep"
        /\ queue # << >> => left' = queue[1].delta
    BY <1>4 DEF Sleep
  <2>2. Exact(queue, rem)
    BY <1>1, <2>1, AwakePlan DEF PunctualInv
  <2>3. ASSUME NEW i \in 1 .. Len(queue), rem[queue[i].client] > 0
        PROVE  left' + TimeSum(queue, i) - queue[1].delta = rem[queue[i].client]
    <3>1. TimeSum(queue, i) = rem[queue[i].client] /\ left' = queue[1].delta
      BY <1>2, <2>1, <2>2, <2>3 DEF Exact
    <3>2. queue[1].delta + TimeSum(queue, i) - queue[1].delta = TimeSum(queue, i)
      BY <1>2
    <3>3. QED
      BY <3>1, <3>2
  <2>4. ExactWhenPunctual'
    BY <1>0, <2>1, <2>3 DEF ExactWhenPunctual, Plan
  <2>5. queue # << >> => left' <= queue[1].delta
    <3>1. ASSUME queue # << >> PROVE left' <= queue[1].delta
      <4>1. 1 \in 1 .. Len(queue)
        BY <1>0, <3>1, EmptySeq
      <4>2. QED
        BY <1>2, <2>1, <3>1, <4>1
    <3>2. QED
      BY <3>1
  <2>6. QED
    BY <2>1, <2>4, <2>5 DEF PunctualInv
<1>5. CASE TimedOut
  <2>0. pc = "asleep" /\ pc' # "asleep" /\ rem' = rem
    BY <1>5 DEF TimedOut
  <2>1. CASE queue = << >>
    <3>1. queue' = << >>
      BY <1>5, <2>1 DEF TimedOut
    <3>2. Len(queue') = 0
      BY <3>1, EmptySeq
    <3>3. Exact(queue', rem')
      BY <3>2 DEF Exact
    <3>4. QED
      BY <2>0, <3>3, AwakePlanNext
  <2>2. CASE queue # << >>
    <3>1. queue' = Tail(queue) /\ left <= 0 /\ ~(left < 0 /\ Len(queue) > 1)
      BY <1>5, <2>2 DEF TimedOut
    <3>2. /\ Len(queue') = Len(queue) - 1
          /\ \A i \in 1 .. Len(queue) - 1 :
                /\ queue'[i].client = queue[i + 1].client
                /\ TimeSum(queue', i) = TimeSum(queue, i + 1) - queue[1].delta
      BY <1>0, <2>2, <3>1, TailFacts
    <3>3. ASSUME NEW i \in 1 .. Len(queue'), rem[queue'[i].client] > 0
          PROVE  TimeSum(queue', i) = rem[queue'[i].client]
      <4>1. i \in 1 .. Len(queue) - 1 /\ i + 1 \in 1 .. Len(queue) /\ Len(queue) > 1
        BY <1>0, <3>2
      <4>2. left = 0
        BY <1>0, <3>1, <4>1
      <4>3. PICK j \in 1 .. Len(queue) : j = i + 1
        BY <4>1
      <4>4. left + TimeSum(queue, j) - queue[1].delta = rem[queue[j].client]
        BY <1>0, <1>1, <2>0, <3>2, <3>3, <4>1, <4>3 DEF PunctualInv, ExactWhenPunctual, Plan
      <4>5. TimeSum(queue, j) \in Int /\ queue[1].delta \in Int
        BY <1>2
      <4>6. TimeSum(queue, j) - queue[1].delta = rem[queue[j].client]
        BY <4>2, <4>4, <4>5
      <4>7. QED
        BY <3>2, <4>1, <4>3, <4>6
    <3>4. Exact(queue', rem')
      BY <2>0, <3>3 DEF Exact
    <3>5. QED
      BY <2>0, <3>4, AwakePlanNext
  <2>3. QED
    BY <2>1, <2>2
<1>6. QED
  BY <1>3, <1>4, <1>5

(* As long as the thread runs on time and its deadlines are right, every   *)
(* client is due exactly at the time computed for it, whatever was         *)
(* inserted before it or removed, and however often the wait was           *)
(* interrupted.                                                            *)
THEOREM ExactWhenPunctualHolds == Spec => []ExactWhenPunctual
<1>1. Init => PunctualInv
  <2> SUFFICES ASSUME Init PROVE PunctualInv
    OBVIOUS
  <2>1. queue = << >> /\ DOMAIN queue = {}
    BY DEF Init, sq_create
  <2>2. QED
    BY <2>1 DEF PunctualInv, ExactWhenPunctual
<1>2. SchedInv /\ SchedInv' /\ PunctualInv /\ [Next]_vars => PunctualInv'
  <2> SUFFICES ASSUME SchedInv, SchedInv', PunctualInv, [Next]_vars PROVE PunctualInv'
    OBVIOUS
  <2>1. CASE late'
    BY <2>1 DEF PunctualInv, ExactWhenPunctual
  <2>2. CASE ~late' /\ UNCHANGED vars
    BY <2>2 DEF vars, PunctualInv, ExactWhenPunctual, Plan
  <2>3. CASE ~late' /\ Next
    BY <2>3, PunctualAwake, PunctualAsleep DEF Next
  <2>4. QED
    BY <2>1, <2>2, <2>3
<1>3. PunctualInv => ExactWhenPunctual
  BY DEF PunctualInv
<1>4. QED
  BY <1>1, <1>2, <1>3, SchedInvHolds, PTL DEF Spec
=============================================================================
